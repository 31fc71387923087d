------------------------------ MODULE Network ------------------------------
(***************************************************************************)
(* The request side of network/ (network.go, waiting_handler.go,           *)
(* peer_tracker.go) under the retry loop of the sync client                *)
(* (sync/client/client.go, get).  A caller takes a slot, chooses a peer,   *)
(* registers a handler under a request ID and waits; the engine answers    *)
(* each request it accepted exactly once, with a response or a failure.    *)
(* Shutdown fails every registered handler.                                *)
(***************************************************************************)
EXTENDS Integers, FiniteSets

CONSTANTS
    Caller,      \* goroutines of the sync client
    Node,        \* peers
    MaxActive,   \* maxActiveAppRequests
    MinVersion,  \* the version the sync client asks for
    MinPeers,    \* desiredMinResponsivePeers
    MaxRequests, \* bound on request IDs used
    MaxConnects  \* bound on Connected calls

VARIABLES
    caller,   \* per goroutine: pc, the chosen node and the request
    ctx,      \* ctx[c]: "live" or "cancelled"
    net,      \* slots in use, requestIDGen, outstanding handlers, closed
    engine,   \* requests the engine owes an answer; releasing: answers under way
    handler,  \* handler[id]: what the waiting handler was told
    peers,    \* connected (with versions), tracked, responsive, heap
    connects

vars == <<caller, ctx, net, engine, handler, peers, connects>>

None == "none"
Unregistered == -1
Idle == [pc |-> "idle", node |-> None, id |-> Unregistered]
RequestID == {2 * i : i \in 0..(MaxRequests - 1)}
Connected == {n \in Node : peers.version[n] # 0}
NoPeers == [version |-> [n \in Node |-> 0], tracked |-> {}, responsive |-> {}, heap |-> {}]

-----------------------------------------------------------------------------
(* peerTracker *)

\* What GetAnyPeer can return, and the bandwidth heap it leaves: a connected peer
\* of the version that was not asked before, when more responsive peers are
\* wanted (or, above the minimum, by chance); else a responsive peer or the top of
\* the heap, either of which leaves the heap; else any tracked one.
NewPeers == {n \in Connected \ peers.tracked : peers.version[n] >= MinVersion}
MustTrackNew == Cardinality(peers.responsive) < MinPeers
MayTrackNew == MustTrackNew \/ Cardinality(peers.tracked) < Cardinality(Connected)
MaySkipNew == ~MustTrackNew \/ NewPeers = {}
MayFindNone == MaySkipNew /\ (peers.responsive = {} \/ peers.heap = {})

GetAnyPeer(n, heap) ==
    \/ MayTrackNew /\ n \in NewPeers /\ heap = peers.heap
    \/ MaySkipNew /\ n \in peers.responsive \cup peers.heap /\ heap = peers.heap \ {n}
    \/ MayFindNone /\ n \in peers.tracked /\ heap = peers.heap

TrackAnyPeer(n, good) ==
    peers' = [peers EXCEPT !.heap = @ \cup {n},
                           !.responsive = IF good THEN @ \cup {n} ELSE @ \ {n}]

TrackBandwidth(n, good) ==
    peers' = IF n \notin Connected THEN peers
             ELSE [peers EXCEPT !.heap = @ \cup {n},
                                !.responsive = IF good THEN @ \cup {n} ELSE @ \ {n}]

Connect(n, v) ==
    /\ connects < MaxConnects
    /\ connects' = connects + 1
    /\ peers' = IF net.closed THEN peers ELSE [peers EXCEPT !.version[n] = v]
    /\ UNCHANGED <<caller, ctx, net, engine, handler>>

Disconnected(n) ==
    /\ n \in Connected
    /\ peers' = IF net.closed THEN peers
                ELSE [version |-> [peers.version EXCEPT ![n] = 0], tracked |-> peers.tracked \ {n},
                      responsive |-> peers.responsive \ {n}, heap |-> peers.heap \ {n}]
    /\ UNCHANGED <<caller, ctx, net, engine, handler, connects>>

-----------------------------------------------------------------------------
(* Sending: SendAppRequestAny or SendAppRequest, then sendAppRequest *)

\* get gives up when its context is done.
Begin(c) ==
    /\ caller[c].pc = "idle"
    /\ caller' = [caller EXCEPT ![c].pc = IF ctx[c] = "live" THEN "acquire" ELSE "returned"]
    /\ UNCHANGED <<ctx, net, engine, handler, peers, connects>>

Acquire(c) ==
    /\ caller[c].pc = "acquire"
    /\ \/ /\ net.slots < MaxActive
          /\ net' = [net EXCEPT !.slots = @ + 1]
          /\ caller' = [caller EXCEPT ![c].pc = "send"]
       \/ /\ ctx[c] = "cancelled"
          /\ caller' = [caller EXCEPT ![c].pc = "idle"]
          /\ UNCHANGED net
    /\ UNCHANGED <<ctx, engine, handler, peers, connects>>

Release == net' = [net EXCEPT !.slots = @ - 1]

\* Under the lock; `heap' is what choosing the peer left of the bandwidth heap.
\* A closed network returns no error and registers nothing.
SendAppRequest(c, n, heap) ==
    IF net.closed
    THEN /\ Release
         /\ caller' = [caller EXCEPT ![c] = [Idle EXCEPT !.pc = "wait", !.node = n]]
         /\ peers' = [peers EXCEPT !.heap = heap]
         /\ UNCHANGED <<engine, handler>>
    ELSE IF ctx[c] = "cancelled"
    THEN /\ Release
         /\ caller' = [caller EXCEPT ![c] = [Idle EXCEPT !.pc = "failed", !.node = n]]
         /\ peers' = [peers EXCEPT !.heap = heap]
         /\ UNCHANGED <<engine, handler>>
    ELSE LET id == net.requestIDGen
         IN  /\ id \in RequestID
             /\ peers' = [peers EXCEPT !.heap = heap, !.tracked = @ \cup {n}]
             /\ \/ /\ net' = [net EXCEPT !.requestIDGen = @ + 2,
                                         !.outstanding = @ \cup {id}]
                   /\ engine' = [engine EXCEPT !.owed = @ \cup {id}]
                   /\ caller' = [caller EXCEPT ![c] = [pc |-> "wait", node |-> n, id |-> id]]
                \/ /\ net' = [net EXCEPT !.requestIDGen = @ + 2, !.slots = @ - 1]
                   /\ caller' = [caller EXCEPT ![c] = [Idle EXCEPT !.pc = "failed", !.node = n]]
                   /\ UNCHANGED engine
             /\ UNCHANGED handler

SendAny(c) ==
    /\ caller[c].pc = "send"
    /\ \E n \in Node, heap \in SUBSET Node : GetAnyPeer(n, heap) /\ SendAppRequest(c, n, heap)
    /\ UNCHANGED <<ctx, connects>>

NoPeer(c) ==
    /\ caller[c].pc = "send"
    /\ MayFindNone /\ peers.tracked = {}
    /\ Release
    /\ caller' = [caller EXCEPT ![c] = [Idle EXCEPT !.pc = "failed"]]
    /\ UNCHANGED <<ctx, engine, handler, peers, connects>>

\* A client with configured state sync nodes asks one of them, connected or not.
SendTo(c, n) ==
    /\ caller[c].pc = "send"
    /\ SendAppRequest(c, n, peers.heap)
    /\ UNCHANGED <<ctx, connects>>

-----------------------------------------------------------------------------
(* Answers.  markRequestFulfilled takes the handler under the lock; the slot is *)
(* released and the handler called after it.                                    *)

MarkRequestFulfilled(id, kind) ==
    /\ id \in engine.owed
    /\ IF id \in net.outstanding
       THEN /\ net' = [net EXCEPT !.outstanding = @ \ {id}]
            /\ engine' = [owed |-> engine.owed \ {id},
                          releasing |-> engine.releasing \cup {<<id, kind>>}]
       ELSE /\ engine' = [engine EXCEPT !.owed = @ \ {id}]
            /\ UNCHANGED net
    /\ UNCHANGED <<caller, ctx, handler, peers, connects>>

AppResponse == \E id \in engine.owed : MarkRequestFulfilled(id, "response")
AppRequestFailed == \E id \in engine.owed : MarkRequestFulfilled(id, "failure")

CallHandler ==
    /\ \E r \in engine.releasing :
          /\ engine' = [engine EXCEPT !.releasing = @ \ {r}]
          /\ handler' = [handler EXCEPT ![r[1]] = @ \cup {r}]
    /\ Release
    /\ UNCHANGED <<caller, ctx, peers, connects>>

\* WaitForResult, then TrackBandwidth with the bandwidth of a valid response or 0;
\* an invalid response and a failure are retried.
WaitForResult(c) ==
    /\ caller[c].pc = "wait"
    /\ LET told == IF caller[c].id \in RequestID THEN handler[caller[c].id] ELSE {}
       IN  \/ /\ told # {}
              /\ \/ /\ \E r \in told : r[2] = "response"
                    /\ TrackBandwidth(caller[c].node, TRUE)
                    /\ caller' = [caller EXCEPT ![c] = [Idle EXCEPT !.pc = "returned"]]
                 \/ TrackBandwidth(caller[c].node, FALSE) /\ caller' = [caller EXCEPT ![c] = Idle]
           \/ /\ ctx[c] = "cancelled"
              /\ TrackBandwidth(caller[c].node, FALSE)
              /\ caller' = [caller EXCEPT ![c] = Idle]
    /\ UNCHANGED <<ctx, net, engine, handler, connects>>

Retry(c) ==
    /\ caller[c].pc = "failed"
    /\ TrackBandwidth(caller[c].node, FALSE)
    /\ caller' = [caller EXCEPT ![c] = Idle]
    /\ UNCHANGED <<ctx, net, engine, handler, connects>>

Cancel(c) ==
    /\ ctx[c] = "live"
    /\ ctx' = [ctx EXCEPT ![c] = "cancelled"]
    /\ UNCHANGED <<caller, net, engine, handler, peers, connects>>

\* Shutdown fails the registered handlers and forgets the peers; no slot is
\* released for them.
Shutdown ==
    /\ ~net.closed
    /\ handler' = [id \in RequestID |->
                      IF id \in net.outstanding THEN handler[id] \cup {<<id, "shutdown">>}
                      ELSE handler[id]]
    /\ net' = [net EXCEPT !.outstanding = {}, !.closed = TRUE]
    /\ peers' = NoPeers
    /\ UNCHANGED <<caller, ctx, engine, connects>>

-----------------------------------------------------------------------------
Init ==
    /\ caller = [c \in Caller |-> Idle] /\ ctx = [c \in Caller |-> "live"]
    /\ net = [slots |-> 0, requestIDGen |-> 0, outstanding |-> {}, closed |-> FALSE]
    /\ engine = [owed |-> {}, releasing |-> {}]
    /\ handler = [id \in RequestID |-> {}]
    /\ peers = NoPeers /\ connects = 0

CallerStep(c) ==
    \/ Begin(c) \/ Acquire(c) \/ SendAny(c) \/ NoPeer(c)
    \/ (\E n \in Node : SendTo(c, n))
    \/ WaitForResult(c) \/ Retry(c)
Answer == AppResponse \/ AppRequestFailed

Next ==
    \/ \E c \in Caller : CallerStep(c) \/ Cancel(c)
    \/ Answer
    \/ CallHandler
    \/ Shutdown
    \/ \E n \in Node : Disconnected(n) \/ (\E v \in 1..MinVersion : Connect(n, v))


Spec == Init /\ [][Next]_vars

-----------------------------------------------------------------------------
\* Every slot is held by a sender, by a registered request or by an answer being
\* delivered; only Shutdown keeps the slots of the requests it fails.
SlotsAccounted ==
    net.slots = Cardinality({c \in Caller : caller[c].pc = "send"})
              + Cardinality(net.outstanding) + Cardinality(engine.releasing)
              + Cardinality({id \in RequestID : <<id, "shutdown">> \in handler[id]})

\* A waiting handler closes its channel when told, so it is told once, also when
\* Shutdown races a response that is being delivered.
HandlerToldOnce ==
    \A id \in RequestID :
        Cardinality(handler[id] \cup {r \in engine.releasing : r[1] = id}) <= 1

\* getResponsivePeer and the heap look the peer up without a check, so a
\* peer that disconnects during its request must not come back with the answer.
ResponsivePeersConnected == peers.responsive \cup peers.heap \subseteq Connected

\* A caller whose request is registered gets out of WaitForResult, whatever of
\* the answer, its context and Shutdown comes first.
Owed == \E c \in Caller : caller[c].pc = "wait" /\ caller[c].id \in RequestID
RegisteredAnswered == []<>~Owed

Safety == SlotsAccounted /\ HandlerToldOnce /\ ResponsivePeersConnected
=============================================================================
