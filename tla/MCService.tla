----------------------------- MODULE MCService ------------------------------
(***************************************************************************)
(* What the node offers its users, for TLC: both ends of an RPC            *)
(* connection and its subscriptions, the filters and the matcher of their  *)
(* blooms, the tracers and the life of the VM around them.  They meet only *)
(* in the chain's feeds and the database, so a behaviour runs one of them. *)
(***************************************************************************)
EXTENDS Integers, Sequences

CONSTANT Parts  \* the components to run

VARIABLES
    part,
    cDisp, cRespWait, cLink, cRd, cSent, cCaller, cResp, cWriteConn, cReqSent, cPanic,
    hMode, hConn, hRun, hReq, hSubs, hEnded, hNotes, hOut,
    sDisp, sNotes, sSub, sRequest, sErrCh, sUser, sGot,
    fEvents, fChan, fLoop, fIndex, fSub, fFilters, fExpired, fQueue, fHand, fUnsub, fReaper,
    fGot, fSeen,
    mFeed, mLink, mPipe, mProcess, mResponses, mDist, mD, mMux, mQuit, mResults, mFails,
    tFeeder, tTaskCh, tTracer, tResCh, tCatcher, tOut, tTracker, tHeld, tClosed,
    vNode, vChain, vExt, vState, vVdb, vEng, vImp, vCalls, vGhost,
    bCall, bJobs, bWorker, bResults, bRoots, bAnswer, bRefs, bLeaked, bCancelled, bCalls

cVars == <<cDisp, cRespWait, cLink, cRd, cSent, cCaller, cResp, cWriteConn, cReqSent, cPanic>>
hVars == <<hMode, hConn, hRun, hReq, hSubs, hEnded, hNotes, hOut>>
sVars == <<sDisp, sNotes, sSub, sRequest, sErrCh, sUser, sGot>>
fVars == <<fEvents, fChan, fLoop, fIndex, fSub, fFilters, fExpired, fQueue, fHand, fUnsub,
           fReaper, fGot, fSeen>>
mVars == <<mFeed, mLink, mPipe, mProcess, mResponses, mDist, mD, mMux, mQuit, mResults,
           mFails>>
tVars == <<tFeeder, tTaskCh, tTracer, tResCh, tCatcher, tOut, tTracker, tHeld, tClosed>>
vVars == <<vNode, vChain, vExt, vState, vVdb, vEng, vImp, vCalls, vGhost>>
bVars == <<bCall, bJobs, bWorker, bResults, bRoots, bAnswer, bRefs, bLeaked, bCancelled,
           bCalls>>
vars == <<part, cVars, hVars, sVars, fVars, mVars, tVars, vVars, bVars>>

-----------------------------------------------------------------------------
\* Two calls, one of which gives up, over three connections.
Client == INSTANCE RPCClient WITH
    disp <- cDisp, respWait <- cRespWait, link <- cLink, rd <- cRd, sent <- cSent,
    caller <- cCaller, resp <- cResp, writeConn <- cWriteConn, reqSent <- cReqSent,
    panic <- cPanic,
    Caller <- {"p", "q"}, Deadline <- {"p"}, MaxConns <- 3

\* A subscription beside a batch that has an error, a notification and an unsubscribe.
Handler == INSTANCE RPCHandler WITH
    mode <- hMode, conn <- hConn, run <- hRun, req <- hReq, subs <- hSubs, ended <- hEnded,
    notes <- hNotes, out <- hOut,
    Req <- 1..2, Calls <- <<<<"sub">>, <<"bad", "notify", "unsub">>>>, Batch <- {2},
    ItemLimits <- {2, 3}, SizeLimit <- 1, MaxNotes <- 1

\* Single messages: a notification and a subscription.
Singles == INSTANCE RPCHandler WITH
    mode <- hMode, conn <- hConn, run <- hRun, req <- hReq, subs <- hSubs, ended <- hEnded,
    notes <- hNotes, out <- hOut,
    Req <- 1..2, Calls <- <<<<"notify">>, <<"sub">>>>, Batch <- {},
    ItemLimits <- {1}, SizeLimit <- 1, MaxNotes <- 1

\* More notifications than the buffer takes.
Subscription == INSTANCE RPCSubscription WITH
    disp <- sDisp, notes <- sNotes, sub <- sSub, request <- sRequest, errCh <- sErrCh,
    user <- sUser, got <- sGot,
    MaxNotes <- 4, MaxBuffer <- 2

\* A filter of several types, a filter that is polled and a subscription of logs.
FilterOptions ==
    {<<"a", "mined+pending", TRUE>>, <<"a", "acceptedHeads", TRUE>>, <<"b", "logs", FALSE>>}
Filters == INSTANCE FilterSystem WITH
    events <- fEvents, chan <- fChan, loop <- fLoop, index <- fIndex, sub <- fSub,
    filters <- fFilters, expired <- fExpired, queue <- fQueue, hand <- fHand,
    unsub <- fUnsub, reaper <- fReaper, got <- fGot, seen <- fSeen,
    Sub <- {"a", "b"}, Options <- FilterOptions,
    Sends <- {"logs", "removed", "pending", "acceptedHeads"}, MaxEvents <- 2

\* Two rules of one bit each, two sections of two blocks, two multiplexers.
MVector == <<{0, 1, 3, 5}, {1, 2, 3, 5}>>
Matcher == INSTANCE BloomMatcher WITH
    feed <- mFeed, link <- mLink, pipe <- mPipe, process <- mProcess,
    responses <- mResponses, dist <- mDist, d <- mD, mux <- mMux, quit <- mQuit,
    results <- mResults, fails <- mFails,
    Rules <- << << <<1>> >>, << <<2>> >> >>, Vector <- MVector, Size <- 2, Begin <- 1, End <- 2,
    Mux <- {"x", "y"}, Batch <- 1, Capacity <- 1, MaxFails <- 1

\* Four blocks, two threads, and states that have to be rebuilt from block 2 on.
Traces == INSTANCE ChainTracer WITH
    feeder <- tFeeder, taskCh <- tTaskCh, tracer <- tTracer, resCh <- tResCh,
    catcher <- tCatcher, out <- tOut, tracker <- tTracker, held <- tHeld, closed <- tClosed,
    Start <- 0, End <- 4, Tracer <- {"x", "y"}, Limit <- 3, OnDisk <- {0, 2},
    EmptyBlock <- {2}

\* The life of the VM around one block: normal operation is entered twice.
Life == INSTANCE VM WITH
    node <- vNode, chain <- vChain, ext <- vExt, state <- vState, vdb <- vVdb, eng <- vEng,
    imp <- vImp, calls <- vCalls, ghost <- vGhost,
    Block <- {"g", "a1"}, Genesis <- "g", Parent <- [a1 |-> "g"], Contexts <- {"none"},
    ValidIn <- [g |-> {"none"}, a1 |-> {"none"}], Bad <- {}, Files <- {}, Configured <- {<<"a1">>},
    MaxImports <- 0, MaxCrashes <- 1, MaxReady <- 2

\* A block of three transactions, the last of which cannot be applied.
BlockTrace == INSTANCE BlockTracer WITH
    call <- bCall, jobs <- bJobs, worker <- bWorker, results <- bResults, roots <- bRoots,
    answer <- bAnswer, refs <- bRefs, leaked <- bLeaked, cancelled <- bCancelled,
    calls <- bCalls,
    Size <- 3, Invalid <- {2}, Worker <- {"x", "y"}, MaxCalls <- 2

-----------------------------------------------------------------------------
\* A component that does not run has no state.
IdleClient ==
    /\ cDisp = 0 /\ cRespWait = 0 /\ cLink = 0 /\ cRd = 0 /\ cSent = 0 /\ cCaller = 0
    /\ cResp = 0 /\ cWriteConn = 0 /\ cReqSent = 0 /\ cPanic = 0
IdleHandler ==
    /\ hMode = 0 /\ hConn = 0 /\ hRun = 0 /\ hReq = 0 /\ hSubs = 0 /\ hEnded = 0 /\ hNotes = 0
    /\ hOut = 0
IdleSubscription ==
    /\ sDisp = 0 /\ sNotes = 0 /\ sSub = 0 /\ sRequest = 0 /\ sErrCh = 0 /\ sUser = 0
    /\ sGot = 0
IdleFilters ==
    /\ fEvents = 0 /\ fChan = 0 /\ fLoop = 0 /\ fIndex = 0 /\ fSub = 0 /\ fFilters = 0
    /\ fExpired = 0 /\ fQueue = 0 /\ fHand = 0 /\ fUnsub = 0 /\ fReaper = 0 /\ fGot = 0
    /\ fSeen = 0
IdleMatcher ==
    /\ mFeed = 0 /\ mLink = 0 /\ mPipe = 0 /\ mProcess = 0 /\ mResponses = 0 /\ mDist = 0
    /\ mD = 0 /\ mMux = 0 /\ mQuit = 0 /\ mResults = 0 /\ mFails = 0
IdleTraces ==
    /\ tFeeder = 0 /\ tTaskCh = 0 /\ tTracer = 0 /\ tResCh = 0 /\ tCatcher = 0 /\ tOut = 0
    /\ tTracker = 0 /\ tHeld = 0 /\ tClosed = 0
IdleLife ==
    /\ vNode = 0 /\ vChain = 0 /\ vExt = 0 /\ vState = 0 /\ vVdb = 0 /\ vEng = 0 /\ vImp = 0
    /\ vCalls = 0 /\ vGhost = 0
IdleBlockTrace ==
    /\ bCall = 0 /\ bJobs = 0 /\ bWorker = 0 /\ bResults = 0 /\ bRoots = 0 /\ bAnswer = 0
    /\ bRefs = 0 /\ bLeaked = 0 /\ bCancelled = 0 /\ bCalls = 0

Init ==
    /\ part \in Parts
    /\ IF part = "client" THEN Client!Init ELSE IdleClient
    /\ CASE part = "handler" -> Handler!Init
         [] part = "singles" -> Singles!Init
         [] OTHER -> IdleHandler
    /\ IF part = "subscription" THEN Subscription!Init ELSE IdleSubscription
    /\ IF part = "filters" THEN Filters!Init ELSE IdleFilters
    /\ IF part = "matcher" THEN Matcher!Init ELSE IdleMatcher
    /\ IF part = "chaintracer" THEN Traces!Init ELSE IdleTraces
    /\ IF part = "vm" THEN Life!Init ELSE IdleLife
    /\ IF part = "blocktracer" THEN BlockTrace!Init ELSE IdleBlockTrace

OnlyC == UNCHANGED <<part, hVars, sVars, fVars, mVars, tVars, vVars, bVars>>
OnlyH == UNCHANGED <<part, cVars, sVars, fVars, mVars, tVars, vVars, bVars>>
OnlyS == UNCHANGED <<part, cVars, hVars, fVars, mVars, tVars, vVars, bVars>>
OnlyF == UNCHANGED <<part, cVars, hVars, sVars, mVars, tVars, vVars, bVars>>
OnlyM == UNCHANGED <<part, cVars, hVars, sVars, fVars, tVars, vVars, bVars>>
OnlyT == UNCHANGED <<part, cVars, hVars, sVars, fVars, mVars, vVars, bVars>>
OnlyV == UNCHANGED <<part, cVars, hVars, sVars, fVars, mVars, tVars, bVars>>
OnlyB == UNCHANGED <<part, cVars, hVars, sVars, fVars, mVars, tVars, vVars>>

ClientNext == part = "client" /\ Client!Next /\ OnlyC
HandlerNext == part = "handler" /\ Handler!Next /\ OnlyH
SinglesNext == part = "singles" /\ Singles!Next /\ OnlyH
SubscriptionNext == part = "subscription" /\ Subscription!Next /\ OnlyS
FiltersNext == part = "filters" /\ Filters!Next /\ OnlyF
MatcherNext == part = "matcher" /\ Matcher!Next /\ OnlyM
TracesNext == part = "chaintracer" /\ Traces!Next /\ OnlyT
LifeNext == part = "vm" /\ Life!Next /\ OnlyV
BlockTraceNext == part = "blocktracer" /\ BlockTrace!Next /\ OnlyB

Next ==
    \/ ClientNext
    \/ HandlerNext
    \/ SinglesNext
    \/ SubscriptionNext
    \/ FiltersNext
    \/ MatcherNext
    \/ TracesNext
    \/ LifeNext
    \/ BlockTraceNext

Scheduled ==
    \/ /\ part = "client"
       /\ \/ Client!DispatchStep
          \/ Client!CallerStep("p")
    \/ /\ part = "handler"
       /\ \/ Handler!CloseHandler
          \/ \E c \in BOOLEAN : Handler!ReadErr(c)
          \/ \E r \in 1..2 : Handler!RequestStep(r)
    \/ /\ part = "singles"
       /\ \/ Singles!CloseHandler
          \/ \E c \in BOOLEAN : Singles!ReadErr(c)
          \/ \E r \in 1..2 : Singles!RequestStep(r)
    \/ /\ part = "subscription"
       /\ \/ Subscription!SubStep
          \/ (Subscription!DeliverGone \/ Subscription!CloseGone)
          \/ Subscription!Request
          \/ Subscription!Unsubscribed
    \/ /\ part = "filters"
       /\ \/ Filters!LoopStep
          \/ \E s \in {"a", "b"} : (Filters!Install(s) \/ Filters!Uninstall(s))
          \/ \E s \in {"a", "b"} : Filters!Start(s)
          \/ \E s \in {"a", "b"} : (Filters!Receive(s) \/ Filters!Store(s) \/ Filters!Ends(s))
          \/ \E s \in {"a", "b"} : Filters!Drain(s)
    \/ /\ part = "chaintracer"
       /\ \/ Traces!FeederStep
          \/ \E t \in {"x", "y"} : Traces!TracerStep(t)
          \/ (Traces!Catch \/ Traces!CatcherEnds)
    \/ /\ part = "vm"
       /\ Life!Stops
    \/ /\ part = "blocktracer"
       /\ \/ BlockTrace!CallStep
          \/ \E w \in {"x", "y"} : BlockTrace!WorkerStep(w)

\* The variables of the component that runs: its steps change no others.
Mine ==
    CASE part = "client" -> cVars [] part \in {"handler", "singles"} -> hVars
      [] part = "subscription" -> sVars
      [] part = "filters" -> fVars [] part = "matcher" -> mVars [] part = "chaintracer" -> tVars
      [] part = "vm" -> vVars [] part = "blocktracer" -> bVars

\* Goroutines that wait for nothing but each other go on; no fairness is assumed of users,
\* peers and deadlines.  There are finitely many such steps in a behaviour, so that it is
\* enough that one of them is taken while there is one; the matcher's distributor and
\* multiplexers may pass a request around, so each of its goroutines needs its own.
Fairness ==
    /\ WF_Mine(part' = part /\ Scheduled)
    /\ WF_Mine(part = "matcher" /\ part' = part /\ Matcher!PipelineStep)
    /\ WF_Mine(part = "matcher" /\ part' = part /\ Matcher!DistStep)
    /\ \A x \in {"x", "y"} : WF_Mine(part = "matcher" /\ part' = part /\ Matcher!MuxStep(x))

Spec == Init /\ [][Next]_vars
FairSpec == Spec /\ Fairness

-----------------------------------------------------------------------------
\* RPC.  Client: one caller at a time writes, through reconnections too, no send on a closed
\* or full channel, one read loop at a time, and the waiting calls are the ones registered or
\* overtaken by a read error.  Handler: each request is answered once, with one answer for
\* each call though a deadline or a limit strikes in the middle, notifications follow the
\* answer that names their subscription, every subscription ends once, and a stopped server
\* takes no request.  Subscription: notifications arrive in order, the error channel is
\* written and closed once, and an end is explained (rpc/client.go, handler.go,
\* subscription.go).
RPCSafety ==
    /\ part = "client" => Client!Safety
    /\ part = "handler" => Handler!Safety
    /\ part = "singles" => Singles!Safety
    /\ part = "subscription" => Subscription!Safety

\* Filters: no event is missed or repeated while polls, expiry and uninstallation race the
\* event loop; an uninstalled one is out of every index; one actor uninstalls it
\* (eth/filters).  Bloom matching: the results are the blocks of the reference matcher, in
\* order and each once; a section's vector is in one hand at a time, and a failed retrieval
\* is given to another multiplexer (core/bloombits).
FilterSafety ==
    /\ part = "filters" => Filters!Safety
    /\ part = "matcher" => Matcher!Safety

\* Tracers.  Chain: results are streamed in order, a state is not released before the ones
\* that need it, and nothing but a cancelled task keeps a state.  Block: each transaction is
\* traced on the state before it though several threads share the copies, an answer has
\* every transaction or an error, and references are given back except on the error paths of
\* stateAtTransaction (eth/tracers, eth/state_accessor.go).
TracerSafety ==
    /\ part = "chaintracer" => Traces!Safety
    /\ part = "blocktracer" => BlockTrace!Safety

\* A call with a deadline ends; a handler whose connection is lost closes; neither a slow
\* reader nor an ended subscription blocks the dispatch loop, and Unsubscribe returns once the
\* server has answered or the connection is lost; the
\* event loop is not blocked for good by a filter; a matcher session ends and Close stops its
\* goroutines; tracing a chain or a block ends; the shutdown of the VM returns, and whoever
\* waits for an event is released.
Owed ==
    CASE part = "client" -> Client!Owed
      [] part = "handler" -> Handler!Owed
      [] part = "singles" -> Singles!Owed
      [] part = "subscription" -> Subscription!Owed
      [] part = "filters" -> Filters!Owed
      [] part = "matcher" -> Matcher!Owed
      [] part = "chaintracer" -> Traces!Owed
      [] part = "blocktracer" -> BlockTrace!Owed
      [] part = "vm" -> Life!Owed
ServiceEnds == []<>~Owed
=============================================================================
