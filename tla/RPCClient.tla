----------------------------- MODULE RPCClient ------------------------------
(***************************************************************************)
(* The RPC client over a connection that can be re-established            *)
(* (rpc/client.go, and the request side of rpc/handler.go): callers write  *)
(* on their own goroutines under a lock made of two channels, a dispatch   *)
(* loop owns the table of requests, a read loop per connection feeds it.   *)
(* Sends and receives on unbuffered channels are one step.                 *)
(***************************************************************************)
EXTENDS Integers, FiniteSets

CONSTANTS
    Caller,     \* goroutines, each makes one call
    Deadline,   \* the callers whose context ends
    MaxConns    \* connections dialled

VARIABLES
    disp,       \* [pc, lastOp, locked, reading, cur, next, closing]: the dispatch loop;
                \* overtaken records the calls that a read error took from the table in flight
    respWait,   \* the calls registered with the current handler
    link,       \* the connections: "none", "up", "broken" or "closed"
    rd,         \* their read loops: "none", "read" or "done"
    sent,       \* the requests the server has received on each and not answered
    caller,     \* [pc, retry, conn]: the callers
    resp,       \* the response channels: [val, closed, had, err]
    writeConn,  \* 0: none
    reqSent,    \* the buffered channel that releases the write lock
    panic

vars == <<disp, respWait, link, rd, sent, caller, resp, writeConn, reqSent, panic>>

None == "none"
Conn == 1..MaxConns

Init ==
    /\ disp = [pc |-> "loop", lastOp |-> None, locked |-> FALSE, reading |-> TRUE,
               cur |-> 1, next |-> 0, closing |-> FALSE, overtaken |-> {}]
    /\ respWait = {}
    /\ link = [c \in Conn |-> IF c = 1 THEN "up" ELSE "none"]
    /\ rd = [c \in Conn |-> IF c = 1 THEN "read" ELSE "none"]
    /\ sent = [c \in Conn |-> {}]
    /\ caller = [p \in Caller |-> [pc |-> "idle", retry |-> FALSE, conn |-> 0]]
    /\ resp = [p \in Caller |-> [val |-> FALSE, closed |-> FALSE, had |-> FALSE, err |-> "nil"]]
    /\ writeConn = 1 /\ reqSent = "empty" /\ panic = FALSE

Step(p, pc) == caller' = [caller EXCEPT ![p].pc = pc]

-----------------------------------------------------------------------------
(* The caller: send, write, reconnect and wait.                            *)

Call(p) ==
    /\ caller[p].pc = "idle" /\ Step(p, "init")
    /\ UNCHANGED <<disp, respWait, link, rd, sent, resp, writeConn, reqSent, panic>>

\* send: the context ends, or the client is quitting, before dispatch takes the request.
SendGivesUp(p) ==
    /\ caller[p].pc = "init" /\ (p \in Deadline \/ disp.closing) /\ Step(p, "failed")
    /\ UNCHANGED <<disp, respWait, link, rd, sent, resp, writeConn, reqSent, panic>>

\* write has returned: dispatch is told, and releases the lock.
WriteReturns(p, err) ==
    /\ reqSent' = err /\ panic' = (panic \/ reqSent # "empty")
    /\ Step(p, IF err = "nil" THEN "wait" ELSE "failed")

\* A write on a connection that broke may still succeed; then the request is lost.
WriteOk(p) ==
    /\ caller[p].pc = "write" /\ writeConn # 0 /\ link[writeConn] \in {"up", "broken"}
    /\ sent' = IF link[writeConn] = "up" THEN [sent EXCEPT ![writeConn] = @ \cup {p}] ELSE sent
    /\ WriteReturns(p, "nil")
    /\ UNCHANGED <<disp, respWait, link, rd, resp, writeConn>>

\* A write fails, by its deadline even on a connection that is up; it is tried once more.
WriteFails(p) ==
    /\ caller[p].pc = "write" /\ writeConn # 0 /\ writeConn' = 0
    /\ IF caller[p].retry
       THEN WriteReturns(p, "err")
       ELSE caller' = [caller EXCEPT ![p].retry = TRUE] /\ UNCHANGED <<reqSent, panic>>
    /\ UNCHANGED <<disp, respWait, link, rd, sent, resp>>

Dial(p) ==
    /\ caller[p].pc = "write" /\ writeConn = 0
    /\ \E c \in Conn :
          /\ link[c] = "none" /\ \A d \in Conn : d < c => link[d] # "none"
          /\ link' = [link EXCEPT ![c] = "up"]
          /\ caller' = [caller EXCEPT ![p].pc = "offer", ![p].conn = c]
    /\ UNCHANGED <<disp, respWait, rd, sent, resp, writeConn, reqSent, panic>>

DialFails(p) ==
    /\ caller[p].pc = "write" /\ writeConn = 0 /\ WriteReturns(p, "err")
    /\ UNCHANGED <<disp, respWait, link, rd, sent, resp, writeConn>>

\* The dispatch loop has ended: the new connection is closed again.
OfferQuit(p) ==
    /\ caller[p].pc = "offer" /\ disp.pc = "closed"
    /\ link' = [link EXCEPT ![caller[p].conn] = "closed"] /\ WriteReturns(p, "err")
    /\ UNCHANGED <<disp, respWait, rd, sent, resp, writeConn>>

\* op.wait: an answer, a closed channel, or the end of the context.
Returns(p) ==
    /\ caller[p].pc = "wait" /\ (resp[p].val \/ resp[p].closed)
    /\ Step(p, IF resp[p].val /\ resp[p].err = "nil" THEN "answered" ELSE "failed")
    /\ UNCHANGED <<disp, respWait, link, rd, sent, resp, writeConn, reqSent, panic>>

ContextEnds(p) ==
    /\ caller[p].pc = "wait" /\ p \in Deadline /\ Step(p, "timeout")
    /\ UNCHANGED <<disp, respWait, link, rd, sent, resp, writeConn, reqSent, panic>>

TimeoutAtQuit(p) ==
    /\ caller[p].pc = "timeout" /\ disp.closing /\ Step(p, "failed")
    /\ UNCHANGED <<disp, respWait, link, rd, sent, resp, writeConn, reqSent, panic>>

-----------------------------------------------------------------------------
(* The connection.                                                         *)

Break(c) ==
    /\ link[c] = "up" /\ link' = [link EXCEPT ![c] = "broken"]
    /\ UNCHANGED <<disp, respWait, rd, sent, caller, resp, writeConn, reqSent, panic>>

\* The server answers on c and the read loop has the message for the dispatch loop.
Answerable(c, p) == rd[c] = "read" /\ link[c] = "up" /\ p \in sent[c]

ReadFailed(c) == rd[c] = "read" /\ link[c] # "up"

-----------------------------------------------------------------------------
(* The dispatch loop.                                                      *)

\* (A variant that closes the request in flight too.)
AllRequests(inflight) == respWait

\* The requests that cancelAllRequests closes.
Cancelled(inflight) == respWait \ {inflight}

\* conn.close(err, inflight): cancelAllRequests, then the codec.
CloseConn(inflight) ==
    /\ respWait' = {}
    /\ resp' = [p \in Caller |-> IF p \in Cancelled(inflight)
                                 THEN [resp[p] EXCEPT !.closed = TRUE, !.err = "err"] ELSE resp[p]]
    /\ panic' = (panic \/ \E p \in Cancelled(inflight) : resp[p].closed)
    /\ link' = [link EXCEPT ![disp.cur] = "closed"]

ReqInit(p) ==
    /\ disp.pc = "loop" /\ ~disp.locked /\ caller[p].pc = "init"
    /\ disp' = [disp EXCEPT !.locked = TRUE, !.lastOp = p]
    /\ respWait' = respWait \cup {p} /\ Step(p, "write")
    /\ UNCHANGED <<link, rd, sent, resp, writeConn, reqSent, panic>>

ReqSent ==
    /\ disp.pc = "loop" /\ reqSent # "empty" /\ reqSent' = "empty"
    /\ respWait' = IF reqSent = "err" THEN respWait \ {disp.lastOp} ELSE respWait
    /\ disp' = [disp EXCEPT !.locked = FALSE, !.lastOp = None]
    /\ UNCHANGED <<link, rd, sent, caller, resp, writeConn, panic>>

ReqTimeout(p) ==
    /\ disp.pc = "loop" /\ caller[p].pc = "timeout" /\ Step(p, "failed")
    /\ respWait' = respWait \ {p}
    /\ UNCHANGED <<disp, link, rd, sent, resp, writeConn, reqSent, panic>>

\* handleMsg of a response; an unknown one is dropped, and an op is answered once.
ReadOp(c, p) ==
    /\ disp.pc = "loop" /\ Answerable(c, p) /\ sent' = [sent EXCEPT ![c] = @ \ {p}]
    /\ IF p \in respWait
       THEN /\ respWait' = respWait \ {p}
            /\ panic' = (panic \/ (~resp[p].had /\ resp[p].closed))
            /\ resp' = [resp EXCEPT ![p] = [@ EXCEPT !.had = TRUE, !.val = TRUE]]
       ELSE UNCHANGED <<respWait, panic, resp>>
    /\ UNCHANGED <<disp, link, rd, caller, writeConn, reqSent>>

ReadErr ==
    /\ disp.pc = "loop" /\ disp.reading /\ ReadFailed(disp.cur)
    /\ rd' = [rd EXCEPT ![disp.cur] = "done"]
    /\ CloseConn(disp.lastOp)
    /\ disp' = [disp EXCEPT !.reading = FALSE,
                             !.overtaken = IF reqSent = "nil" THEN @ \cup {disp.lastOp} ELSE @]
    /\ UNCHANGED <<sent, caller, writeConn, reqSent>>

\* A caller hands over its new connection; the old read loop has to end first.
Reconnected(p) ==
    /\ disp.pc = "loop" /\ caller[p].pc = "offer"
    /\ writeConn' = caller[p].conn /\ Step(p, "write")
    /\ IF disp.reading
       THEN /\ CloseConn(disp.lastOp) /\ UNCHANGED rd
            /\ disp' = [disp EXCEPT !.pc = "drain", !.next = caller[p].conn]
       ELSE /\ rd' = [rd EXCEPT ![caller[p].conn] = "read"]
            /\ disp' = [disp EXCEPT !.reading = TRUE, !.cur = caller[p].conn]
            /\ respWait' = {disp.lastOp} /\ panic' = (panic \/ disp.lastOp = None)
            /\ UNCHANGED <<resp, link>>
    /\ UNCHANGED <<sent, reqSent>>

\* drainRead: messages are dropped until the read loop reports its error.
DrainOp(p) ==
    /\ disp.pc \in {"drain", "quit"} /\ Answerable(disp.cur, p)
    /\ sent' = [sent EXCEPT ![disp.cur] = @ \ {p}]
    /\ UNCHANGED <<disp, respWait, link, rd, caller, resp, writeConn, reqSent, panic>>

Drained ==
    /\ disp.pc = "drain" /\ ReadFailed(disp.cur)
    /\ rd' = [rd EXCEPT ![disp.cur] = "done", ![disp.next] = "read"]
    /\ disp' = [disp EXCEPT !.pc = "loop", !.cur = disp.next]
    /\ respWait' = {disp.lastOp} /\ panic' = (panic \/ disp.lastOp = None)
    /\ UNCHANGED <<link, sent, caller, resp, writeConn, reqSent>>

\* Close: what is registered is released, unless the connection was lost before.
Close ==
    /\ disp.pc = "loop"
    /\ IF disp.reading
       THEN CloseConn(None) /\ disp' = [disp EXCEPT !.pc = "quit", !.closing = TRUE]
       ELSE disp' = [disp EXCEPT !.pc = "closed", !.closing = TRUE] /\ UNCHANGED <<respWait, resp, panic, link>>
    /\ UNCHANGED <<rd, sent, caller, writeConn, reqSent>>

Closed ==
    /\ disp.pc = "quit" /\ ReadFailed(disp.cur)
    /\ rd' = [rd EXCEPT ![disp.cur] = "done"] /\ disp' = [disp EXCEPT !.pc = "closed"]
    /\ UNCHANGED <<respWait, link, sent, caller, resp, writeConn, reqSent, panic>>

CallerStep(p) ==
    \/ WriteOk(p) \/ WriteFails(p) \/ Dial(p) \/ DialFails(p) \/ OfferQuit(p) \/ Returns(p)
    \/ TimeoutAtQuit(p) \/ ReqInit(p) \/ ReqTimeout(p) \/ Reconnected(p)
    \/ SendGivesUp(p) \/ ContextEnds(p)

DispatchStep ==
    \/ ReqSent \/ ReadErr \/ Drained \/ Closed
    \/ \E p \in Caller : DrainOp(p) \/ \E c \in Conn : ReadOp(c, p)

Next ==
    \/ DispatchStep \/ Close
    \/ \E p \in Caller : Call(p) \/ CallerStep(p)
    \/ \E c \in Conn : Break(c)

Spec == Init /\ [][Next]_vars

-----------------------------------------------------------------------------
Writing(p) == caller[p].pc \in {"write", "offer"}

\* The two channels are a lock: one caller writes or reconnects at a time, and until the
\* dispatch loop ends it is the one that the loop keeps out of every close.
OneWriter ==
    /\ Cardinality({p \in Caller : Writing(p)}) <= 1
    /\ \A p \in Caller : Writing(p) /\ disp.pc # "closed" => disp.lastOp = p

\* No response channel is closed twice or sent to when closed, the table is never asked to
\* adopt a nil request, and the release of the lock never blocks.
NoPanic == ~panic

\* A read loop feeds the dispatch loop only for the connection in use: what an abandoned
\* connection still delivers is never taken for an answer.
OneReader == \A c \in Conn : rd[c] = "read" => c = disp.cur

Lost(p) == caller[p].pc = "wait" /\ p \notin respWait /\ ~resp[p].val /\ ~resp[p].closed

\* A caller that waits is registered, answered or released, or is about to be registered
\* with the new connection.  The one exception is a call whose write succeeded and was not
\* reported yet when the read error was handled: nothing holds it any more.
WaitersKnown ==
    \A p \in Caller : Lost(p) => (disp.pc = "drain" /\ disp.lastOp = p) \/ p \in disp.overtaken

Safety == OneWriter /\ NoPanic /\ OneReader /\ WaitersKnown

\* A call with a deadline returns, whatever happens to the connection.
Owed == \E p \in Deadline : caller[p].pc \notin {"idle", "answered", "failed"}
CallsEnd == []<>~Owed
=============================================================================
