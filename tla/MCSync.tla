------------------------------- MODULE MCSync -------------------------------
(***************************************************************************)
(* The components of a state sync for TLC: the state syncer, the code      *)
(* syncer, the request network below them, the handlers that serve other   *)
(* nodes' requests, the session of the VM above them and the atomic        *)
(* backend, whose sync and start are parts of it.  They share no state, so *)
(* a behaviour runs one of them: `part' says which, and the run explores   *)
(* the sum of their state spaces.                                          *)
(***************************************************************************)
EXTENDS AtomicBackend, Sequences, TLC

CONSTANT Parts  \* the components to run

\* A chain g-a1-...-a8 with a fork b1-b2 from genesis and one block c6 on a5.  a4
\* has operations for two peer chains, a5 is a bonus block; b2 and c6 have
\* operations, b1 has none.
CONSTANTS g, a1, a2, a3, a4, a5, a6, a7, a8, b1, b2, c6

Tall == <<a1, a2, a3, a4, a5, a6, a7, a8>>
MCNumber == [b \in Block |->
    CASE b = g -> 0 [] b = b1 -> 1 [] b = b2 -> 2 [] b = c6 -> 6
      [] OTHER -> CHOOSE i \in 1..8 : Tall[i] = b]
MCParent == [b \in Block |->
    CASE b \in {g, a1, b1} -> g [] b = b2 -> b1 [] OTHER -> Tall[MCNumber[b] - 1]]
MCAncestors == [b \in Block |->
    CASE b = b1 -> {g, b1} [] b = b2 -> {g, b1, b2}
      [] OTHER -> {g, b} \cup {Tall[i] : i \in 1..MCNumber[b] - 1}]
MCOps == [b \in Block |->
    CASE b = a4 -> {1, 2} [] b \in {g, a2, a3, a6, a8, b1} -> {} [] OTHER -> {1}]
\* Nothing between a1 and a7.
SparseOps == [b \in Block |-> IF b \in {a1, a7, c6} THEN {1} ELSE {}]

VARIABLES
    part,
    sDisk, sTrie, sRun, sWorker, sProducer, sPhase, sStops,
    cDb, cMem, cAdder, cWorker, cPhase, cStops,
    nCaller, nCtx, nNet, nEngine, nHandler, nPeers, nConnects,
    vDisk, vVm, vApplied, vOffered, vDeclined, vStops,
    hTrie, hTask, hGot, hSent, hBlocks, hCode

sVars == <<sDisk, sTrie, sRun, sWorker, sProducer, sPhase, sStops>>
cVars == <<cDb, cMem, cAdder, cWorker, cPhase, cStops>>
nVars == <<nCaller, nCtx, nNet, nEngine, nHandler, nPeers, nConnects>>
vVars == <<vDisk, vVm, vApplied, vOffered, vDeclined, vStops>>
hVars == <<hTrie, hTask, hGot, hSent, hBlocks, hCode>>
allVars == <<part, vars, sVars, cVars, nVars, vVars, hVars>>

SyncKeys == (0 :> {0, 2, 4, 6, 9}) @@ (1 :> {3, 7}) @@ (2 :> {5}) @@ (3 :> {})
SyncRoots == (0 :> 1) @@ (2 :> 0) @@ (4 :> 0) @@ (6 :> 2) @@ (9 :> 1)
SyncSegments == (0 :> 2) @@ (1 :> 2) @@ (2 :> 2) @@ (3 :> 2)
CodeAdds == ("a1" :> <<{"x", "y"}>>) @@ ("a2" :> <<{"y"}, {"x"}>>)

\* Two tries of storage, one shared by two accounts, and an account trie that is
\* split while it is read; one storage trie is on disk before the sync.
Sync == INSTANCE StateSync WITH
    disk <- sDisk, trie <- sTrie, run <- sRun, worker <- sWorker, producer <- sProducer,
    phase <- sPhase, stops <- sStops,
    Worker <- {"w1", "w2"},
    Keys <- SyncKeys, StorageRoot <- SyncRoots,
    Space <- 12, Limit <- 2, BatchSize <- 1, Threshold <- 3,
    NumSegments <- SyncSegments, SemCap <- 1, Cap <- 2, OldTries <- {2}, MaxStops <- 2

\* Two goroutines that add the same hashes in different orders, a channel of one.
Code == INSTANCE CodeSyncer WITH
    db <- cDb, mem <- cMem, adder <- cAdder, worker <- cWorker, phase <- cPhase, stops <- cStops,
    Worker <- {"w1", "w2"}, Adder <- {"a1", "a2"},
    Adds <- CodeAdds, MaxPerRequest <- 2, Cap <- 1, MaxStops <- 1

\* Two callers compete for one slot and one peer.
Net == INSTANCE Network WITH
    caller <- nCaller, ctx <- nCtx, net <- nNet, engine <- nEngine, handler <- nHandler,
    peers <- nPeers, connects <- nConnects,
    Caller <- {"c1", "c2"}, Node <- {"n1"},
    MaxActive <- 1, MinVersion <- 2, MinPeers <- 1, MaxRequests <- 2, MaxConnects <- 1

\* Two summaries, atomic operations on both sides of every commit height.
Session == INSTANCE SyncClient WITH
    disk <- vDisk, vm <- vVm, applied <- vApplied, offered <- vOffered, declined <- vDeclined,
    stops <- vStops,
    Summary <- {4, 8}, AtomicHeight <- {1, 3, 5, 6}, MaxHeight <- 9, MinBlocks <- 2,
    ParentsToFetch <- 3, Interval <- 2, MaxStops <- 2

\* Four leaves and a snapshot that may miss some, five blocks of which one is missing and
\* one is larger than a message, a code that is held and one that is not.
Serve == INSTANCE SyncHandlers WITH
    trie <- hTrie, task <- hTask, got <- hGot, sent <- hSent, blocks <- hBlocks, code <- hCode,
    Key <- {1, 2, 3, 4}, Ends <- {0, 3}, Limit <- 3, SegmentLen <- 1, Times <- {0, 1, 2, 9},
    Height <- 4, Missing <- {0}, BlockSize <- [h \in 0..4 |-> <<2, 1, 1, 4, 1>>[h + 1]],
    MessageSize <- 3, MaxParents <- 3, Codes <- {"c", "d"}, Held <- {"c"}, MaxCodes <- 2

\* A component that does not run has no state.
IdleSync ==
    /\ sDisk = 0 /\ sTrie = 0 /\ sRun = 0 /\ sWorker = 0 /\ sProducer = 0 /\ sPhase = 0
    /\ sStops = 0
IdleCode ==
    /\ cDb = 0 /\ cMem = 0 /\ cAdder = 0 /\ cWorker = 0 /\ cPhase = 0 /\ cStops = 0
IdleNet ==
    /\ nCaller = 0 /\ nCtx = 0 /\ nNet = 0 /\ nEngine = 0 /\ nHandler = 0 /\ nPeers = 0
    /\ nConnects = 0
IdleSession ==
    /\ vDisk = 0 /\ vVm = 0 /\ vApplied = 0 /\ vOffered = 0 /\ vDeclined = 0 /\ vStops = 0
IdleServe ==
    /\ hTrie = 0 /\ hTask = 0 /\ hGot = 0 /\ hSent = 0 /\ hBlocks = 0 /\ hCode = 0

SInit ==
    /\ part \in Parts /\ Init
    /\ IF part = "sync" THEN Sync!Init ELSE IdleSync
    /\ IF part = "code" THEN Code!Init ELSE IdleCode
    /\ IF part = "net" THEN Net!Init ELSE IdleNet
    /\ IF part = "session" THEN Session!Init ELSE IdleSession
    /\ IF part = "serve" THEN Serve!Init ELSE IdleServe

OnlyA == UNCHANGED <<part, sVars, cVars, nVars, vVars, hVars>>
OnlyS == UNCHANGED <<part, vars, cVars, nVars, vVars, hVars>>
OnlyC == UNCHANGED <<part, vars, sVars, nVars, vVars, hVars>>
OnlyN == UNCHANGED <<part, vars, sVars, cVars, vVars, hVars>>
OnlyV == UNCHANGED <<part, vars, sVars, cVars, nVars, hVars>>
OnlyH == UNCHANGED <<part, vars, sVars, cVars, nVars, vVars>>

AtomicNext == part = "atomic" /\ Next /\ OnlyA
SyncNext == part = "sync" /\ Sync!Next /\ OnlyS
CodeNext == part = "code" /\ Code!Next /\ OnlyC
NetNext == part = "net" /\ Net!Next /\ OnlyN
SessionNext == part = "session" /\ Session!Next /\ OnlyV
ServeNext == part = "serve" /\ Serve!Next /\ OnlyH

SNext == AtomicNext \/ SyncNext \/ CodeNext \/ NetNext \/ SessionNext \/ ServeNext

\* The variables of the component that runs: its steps change no others.
Mine ==
    CASE part = "sync" -> sVars [] part = "code" -> cVars [] part = "net" -> nVars
      [] part = "atomic" -> vars [] OTHER -> 0

\* The fairness of each component, for the one that runs: its goroutines are
\* scheduled, the engine answers or times out a request, peers answer in the end.
SyncFair ==
    /\ WF_Mine(part = "sync" /\ part' = part /\ Sync!SessionStep)
    /\ WF_Mine(part = "sync" /\ part' = part /\ Sync!ProducerStep)
    /\ \A w \in {"w1", "w2"} :
          WF_Mine(part = "sync" /\ part' = part /\ Sync!WorkerStep(w))

CodeFair ==
    /\ \A a \in {"a1", "a2", "db"} :
          WF_Mine(part = "code" /\ part' = part /\ Code!AdderStep(a))
    /\ \A w \in {"w1", "w2"} :
          WF_Mine(part = "code" /\ part' = part /\ Code!WorkerStep(w))
    /\ WF_Mine(part = "code" /\ part' = part /\ Code!Finish)

NetFair ==
    /\ \A c \in {"c1", "c2"} :
          WF_Mine(part = "net" /\ part' = part /\ Net!CallerStep(c))
    /\ WF_Mine(part = "net" /\ part' = part /\ Net!Answer)
    /\ WF_Mine(part = "net" /\ part' = part /\ Net!CallHandler)

AtomicFair ==
    /\ WF_Mine(part = "atomic" /\ part' = part /\ (NewAtomicBackend \/ Initialize \/ Initialized))
    /\ WF_Mine(part = "atomic" /\ part' = part /\ (ApplyBatch \/ ApplyRest))
    /\ WF_Mine(part = "atomic" /\ part' = part /\ (OnLeafs \/ OnFinish \/ Mark))

SyncSpec == SInit /\ [][SNext]_allVars
SyncFairSpec == SyncSpec /\ SyncFair /\ CodeFair /\ NetFair /\ AtomicFair

-----------------------------------------------------------------------------
\* The state syncer, through every stop and resume: with the state root on disk every
\* account leaf and every storage trie is on disk (unless a trie is added between a
\* worker's count of the tries in progress and its check of it); an account leaf on disk,
\* which is never asked for again, has its storage trie registered or complete; and
\* segments that finish out of order, are split while a request is in flight or are
\* resumed hash to the requested root (sync/statesync).
SyncSafety == part = "sync" => Sync!Safety

\* The code syncer: the code of an account on disk is stored, marked for fetching or wanted
\* by an account that is not on disk yet, no request repeats a hash, and a sync that
\* reports success has stored everything (sync/statesync/code_syncer.go).
CodeSafety == part = "code" => Code!Safety

\* The request network: every slot of activeAppRequests is held by a sender, a registered
\* request or an answer being delivered (only Shutdown keeps some); a waiting handler,
\* which closes its channel, is told once even when Shutdown races a response; and a peer
\* that left during its request does not come back with the answer (network/).
NetworkSafety == part = "net" => Net!Safety

\* The session of the VM, across crashes at every step: the synced block's parents are on
\* disk, the atomic root matches the summary, the operations of every accepted height
\* reach shared memory exactly once, the EVM syncer extends only its own snapshot, and
\* the node never moves back (sync/vm/client.go, sync/atomic/syncer.go).
SessionSafety == part = "session" => Session!Safety

\* The handlers that serve a sync: the leaves of an answer are the trie's from the start
\* that was asked for, with nothing left out before the last of them though the snapshot is
\* stale or the time runs out in the middle; blocks are consecutive ancestors that fit a
\* message; and all the codes that were asked for come, or none (sync/handlers).
ServeSafety == part = "serve" => Serve!Safety

\* State and code syncs that are stopped a bounded number of times end (unless the last
\* storage trie overtakes the main trie, or a worker acts on a stale count), a caller
\* whose request is registered gets out of WaitForResult whatever of the answer, its
\* context and Shutdown comes first, and a start or a sync of the atomic backend finishes.
SyncOwed ==
    CASE part = "sync" -> ~Sync!Ended
      [] part = "code" -> ~Code!Ended
      [] part = "net" -> Net!Owed
      [] part = "atomic" -> Owed
      [] OTHER -> FALSE
SyncsEnd == []<>~SyncOwed
=============================================================================
