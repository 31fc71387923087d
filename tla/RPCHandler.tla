----------------------------- MODULE RPCHandler -----------------------------
(***************************************************************************)
(* The server side of one RPC connection (rpc/handler.go, rpc/server.go,   *)
(* rpc/subscription.go): requests and batches run on goroutines, a timer   *)
(* answers for them when their deadline passes, subscriptions notify from  *)
(* goroutines of their own, and the connection or the server may stop.     *)
(***************************************************************************)
EXTENDS Integers, Sequences, FiniteSets

CONSTANTS
    Req,            \* the requests that may arrive, as integers in order
    Calls,          \* their messages: each "call", "notify", "sub", "unsub" or "bad"
    Batch,          \* the requests that are batches
    ItemLimits,     \* values of batchRequestLimit
    SizeLimit,      \* batchResponseMaxSize, in answers
    MaxNotes        \* notifications of a subscription

VARIABLES
    mode,       \* "new", "ws" or "http"
    conn,       \* [up, root, pc, timed, limit]: the connection, its root context, its serve
                \* loop, whether its calls have a deadline, and its batch limit
    run,        \* whether the server accepts connections
    req,        \* the requests: see Idle
    subs,       \* serverSubs
    ended,      \* how often the error channel of a subscription was closed
    notes,      \* notifications made by the service of each subscription
    out         \* what was written, in order

vars == <<mode, conn, run, req, subs, ended, notes, out>>

\* pc, the calls answered or skipped, the responses so far, whether the batch was written,
\* the deadline, the timer, the notifier: its subscription, buffer and activation.
Idle == [pc |-> "idle", done |-> 0, resp |-> <<>>, wrote |-> FALSE, expired |-> FALSE,
         timer |-> "off", sub |-> FALSE, buffer |-> 0, active |-> FALSE]

Init ==
    /\ mode = "new" /\ run = TRUE
    /\ conn = [up |-> TRUE, root |-> TRUE, pc |-> "new", timed |-> FALSE, limit |-> 0]
    /\ req = [r \in Req |-> Idle]
    /\ subs = {} /\ ended = [r \in Req |-> 0] /\ notes = [r \in Req |-> 0] /\ out = <<>>

Put(msg) == IF conn.up THEN Append(out, msg) ELSE out

\* The answer to a message; a notification has none.
Answer(r, i) == IF Calls[r][i] = "bad" \/ (Calls[r][i] = "sub" /\ mode = "http") THEN "err" ELSE "ok"
Answers(r, i) == IF Calls[r][i] = "notify" THEN <<>> ELSE <<Answer(r, i)>>

-----------------------------------------------------------------------------
(* The server.                                                             *)

\* (A variant that serves though the server has stopped.)
AlwaysTracked == TRUE

\* trackCodec, and the same check of serveSingleRequest.
Tracked == run

Serve(kind, timed, limit) ==
    /\ mode = "new" /\ mode' = kind
    /\ conn' = IF Tracked THEN [conn EXCEPT !.pc = "serve", !.timed = timed, !.limit = limit]
               ELSE [conn EXCEPT !.pc = "done", !.up = FALSE]
    /\ UNCHANGED <<run, req, subs, ended, notes, out>>

\* Stop closes every tracked codec; that of an HTTP request is not tracked.
Stop ==
    /\ run /\ run' = FALSE
    /\ conn' = IF mode = "ws" THEN [conn EXCEPT !.up = FALSE] ELSE conn
    /\ UNCHANGED <<mode, req, subs, ended, notes, out>>

\* The peer goes away; an HTTP server cancels the context of the request.
Disconnect ==
    /\ conn.up /\ mode # "new"
    /\ conn' = [conn EXCEPT !.up = FALSE, !.root = IF mode = "http" THEN FALSE ELSE @]
    /\ UNCHANGED <<mode, run, req, subs, ended, notes, out>>

\* The dispatch loop sees the read error, which cancels the root context, or the Close that
\* ServeCodec makes when the codec is closed, which does not.
ReadErr(cancel) ==
    /\ mode = "ws" /\ conn.pc = "serve" /\ ~conn.up
    /\ conn' = [conn EXCEPT !.pc = "wait", !.root = @ /\ ~cancel]
    /\ UNCHANGED <<mode, run, req, subs, ended, notes, out>>

Busy == {r \in Req : req[r].pc \notin {"idle", "done"}}

\* handler.close: the calls end, then the subscriptions are cancelled.
CloseHandler ==
    /\ Busy = {}
    /\ \/ conn.pc = "wait"
       \/ mode = "http" /\ conn.pc = "serve" /\ (~conn.up \/ \E r \in Req : req[r].pc = "done")
    /\ conn' = [conn EXCEPT !.pc = "done", !.root = FALSE, !.up = FALSE]
    /\ ended' = [r \in Req |-> IF r \in subs THEN ended[r] + 1 ELSE ended[r]] /\ subs' = {}
    /\ UNCHANGED <<mode, run, req, notes, out>>

-----------------------------------------------------------------------------
(* A request.                                                              *)

\* handleMsg or handleBatch on the dispatch loop; a batch that is too large is one error.
Handle(r) ==
    /\ conn.pc = "serve" /\ conn.up /\ req[r].pc = "idle"
    /\ \A q \in Req : q < r => req[q].pc # "idle"
    /\ mode = "http" => \A q \in Req : req[q].pc = "idle"
    /\ IF r \in Batch /\ Len(Calls[r]) > conn.limit
       THEN req' = [req EXCEPT ![r].pc = "done"] /\ out' = Put([req |-> r, ans |-> <<"err">>])
       ELSE /\ req' = [req EXCEPT ![r].pc = "loop", ![r].timer = IF conn.timed THEN "set" ELSE "off"]
            /\ UNCHANGED out
    /\ UNCHANGED <<mode, conn, run, subs, ended, notes>>

\* The deadline of the context passes; the timer was set for the same moment.
Expire(r) ==
    /\ req[r].timer = "set" /\ ~req[r].expired /\ req[r].pc # "done"
    /\ req' = [req EXCEPT ![r].expired = TRUE]
    /\ UNCHANGED <<mode, conn, run, subs, ended, notes, out>>

Cancelled(r) == req[r].expired \/ ~conn.root

\* The next call of the request; the one in progress stays in the list.
NextCall(r) ==
    /\ req[r].pc = "loop"
    /\ req' = [req EXCEPT ![r].pc =
          IF req[r].done = Len(Calls[r]) \/ (r \in Batch /\ Cancelled(r)) THEN "finish" ELSE "call"]
    /\ UNCHANGED <<mode, conn, run, subs, ended, notes, out>>

\* The method creates its subscription, which may notify at once.
Create(r) ==
    /\ req[r].pc = "call" /\ Calls[r][req[r].done + 1] = "sub" /\ ~req[r].sub /\ mode = "ws"
    /\ req' = [req EXCEPT ![r].sub = TRUE]
    /\ UNCHANGED <<mode, conn, run, subs, ended, notes, out>>

\* (A variant that forgets the call in progress.)
AfterCurrent(r) == req[r].done + 2

\* The calls that respondWithError answers begin with the one in progress.
FirstUnanswered(r) == req[r].done + 1

RECURSIVE Failed(_, _)
Failed(r, i) ==
    IF i > Len(Calls[r]) THEN <<>>
    ELSE (IF Calls[r][i] = "notify" THEN <<>> ELSE <<"err">>) \o Failed(r, i + 1)

\* doWrite, under the mutex of the buffer: only the first one writes.
DoWrite(r, resp) ==
    IF req[r].wrote \/ resp = <<>> THEN out ELSE Put([req |-> r, ans |-> resp])

\* The timer: a batch gets an error for what is open; a single message that was not answered
\* gets one, a notification too.
TimerFires(r) ==
    /\ req[r].timer = "set" /\ req[r].expired
    /\ LET resp == IF r \in Batch THEN req[r].resp \o Failed(r, FirstUnanswered(r)) ELSE <<"err">> IN
          /\ out' = DoWrite(r, resp)
          /\ req' = [req EXCEPT ![r].timer = "fired", ![r].wrote = TRUE, ![r].resp = resp]
    /\ UNCHANGED <<mode, conn, run, subs, ended, notes>>

\* A subscription to end that an "unsub" names: any of the connection, or an unknown one.
Ending(r) == IF Calls[r][req[r].done + 1] = "unsub" THEN {{}} \cup {{s} : s \in subs} ELSE {{}}

\* The method returns; the response is pushed, and an oversized batch is ended.
Return(r, gone) ==
    /\ req[r].pc = "call" /\ gone \in Ending(r)
    /\ Calls[r][req[r].done + 1] = "sub" /\ mode = "ws" => req[r].sub
    /\ LET resp == req[r].resp \o Answers(r, req[r].done + 1)
           over == r \in Batch /\ resp # req[r].resp /\ Len(resp) > SizeLimit
           all == resp \o Failed(r, req[r].done + 2)
       IN /\ req' = [req EXCEPT ![r].done = @ + 1, ![r].resp = IF over THEN all ELSE resp,
                                ![r].pc = IF over THEN "finish" ELSE "loop",
                                ![r].wrote = @ \/ over]
          /\ out' = IF over THEN DoWrite(r, all) ELSE out
    /\ subs' = subs \ gone
    /\ ended' = [s \in Req |-> IF s \in gone THEN ended[s] + 1 ELSE ended[s]]
    /\ UNCHANGED <<mode, conn, run, notes>>

\* The timer is stopped, and addSubscriptions makes the subscription known.
Finish(r) ==
    /\ req[r].pc = "finish"
    /\ req' = [req EXCEPT ![r].pc = "write", ![r].timer = IF @ = "set" THEN "stopped" ELSE @]
    /\ subs' = IF req[r].sub THEN subs \cup {r} ELSE subs
    /\ UNCHANGED <<mode, conn, run, ended, notes, out>>

Write(r) ==
    /\ req[r].pc = "write" /\ out' = DoWrite(r, req[r].resp)
    /\ req' = [req EXCEPT ![r].pc = "activate", ![r].wrote = TRUE]
    /\ UNCHANGED <<mode, conn, run, subs, ended, notes>>

RECURSIVE PutNotes(_, _)
PutNotes(o, notesOf) == IF notesOf = <<>> THEN o ELSE PutNotes(Append(o, Head(notesOf)), Tail(notesOf))

Note(r, n) == [req |-> r, ans |-> <<"note", n>>]

\* activate: the buffered notifications follow the answer.
Activate(r) ==
    /\ req[r].pc = "activate"
    /\ out' = IF conn.up THEN PutNotes(out, [n \in 1..req[r].buffer |-> Note(r, n)]) ELSE out
    /\ req' = [req EXCEPT ![r].pc = "done", ![r].active = req[r].sub, ![r].buffer = 0]
    /\ UNCHANGED <<mode, conn, run, subs, ended, notes>>

\* The service notifies until its subscription ends.
Notify(r) ==
    /\ req[r].sub /\ ended[r] = 0 /\ notes[r] < MaxNotes /\ notes' = [notes EXCEPT ![r] = @ + 1]
    /\ IF req[r].active
       THEN out' = Put(Note(r, notes[r] + 1)) /\ UNCHANGED req
       ELSE req' = [req EXCEPT ![r].buffer = @ + 1] /\ UNCHANGED out
    /\ UNCHANGED <<mode, conn, run, subs, ended>>

RequestStep(r) ==
    NextCall(r) \/ Create(r) \/ (\E g \in {{}} \cup {{s} : s \in subs} : Return(r, g)) \/ Finish(r)
    \/ Write(r) \/ Activate(r)

Next ==
    \/ Stop \/ Disconnect \/ CloseHandler
    \/ \E k \in {"ws", "http"}, t \in BOOLEAN, n \in ItemLimits : Serve(k, t, n)
    \/ \E c \in BOOLEAN : ReadErr(c)
    \/ \E r \in Req : RequestStep(r) \/ Expire(r) \/ TimerFires(r) \/ Notify(r) \/ Handle(r)

Spec == Init /\ [][Next]_vars

-----------------------------------------------------------------------------
Written(r) == {i \in DOMAIN out : out[i].req = r /\ Head(out[i].ans) # "note"}
NotesAt(r) == {i \in DOMAIN out : out[i].req = r /\ Head(out[i].ans) = "note"}
Expected(r) == Cardinality({i \in DOMAIN Calls[r] : Calls[r][i] # "notify"})

\* A request is answered once, whoever comes first of the method, the timer and the size limit.
AnsweredOnce == \A r \in Req : Cardinality(Written(r)) <= 1

\* A request that ran to its end on an open connection has one answer for each of its calls.
\* Exceptions: the deadline passed and the timer of the same moment was stopped before it ran;
\* then a batch is cut short in silence.  And a single notification, which has no answer, is
\* answered with an error when its deadline passes.
Answered ==
    \A r \in Req :
       req[r].pc \in {"activate", "done"} /\ conn.up /\ conn.root /\ (r \in Batch => Len(Calls[r]) <= conn.limit)
       /\ ~(req[r].timer = "stopped" /\ req[r].expired)
       => IF Expected(r) = 0 THEN Written(r) # {} <=> r \notin Batch /\ req[r].timer = "fired"
          ELSE \E i \in Written(r) : Len(out[i].ans) = Expected(r)

\* Notifications come in order, none is lost, and none precedes the answer to the request.
NotesFollow ==
    \A r \in Req :
       /\ \A i, j \in NotesAt(r) : i < j => out[i].ans[2] < out[j].ans[2]
       /\ \A i \in NotesAt(r) : \E j \in Written(r) : j < i
       /\ req[r].active /\ conn.up => Cardinality(NotesAt(r)) = notes[r]

\* Every subscription is ended once, and none is left when the handler is closed; a service
\* that waits for the end of its subscription is never left waiting.
SubsEnd ==
    \A r \in Req : ended[r] <= 1 /\ (conn.pc = "done" /\ req[r].sub => ended[r] = 1)

\* A stopped server serves no connection any longer than its calls run.
StopHolds == ~run /\ mode = "ws" => ~conn.up

Safety == AnsweredOnce /\ Answered /\ NotesFollow /\ SubsEnd /\ StopHolds

\* A connection that is lost or stopped is cleaned up once its methods return.
Owed == ~conn.up /\ conn.pc # "done"
HandlerCloses == []<>~Owed
=============================================================================
