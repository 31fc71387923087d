-------------------------- MODULE RPCSubscription ---------------------------
(***************************************************************************)
(* A subscription of the RPC client (rpc/subscription.go): the dispatch    *)
(* loop delivers notifications to a forwarding loop, which buffers them    *)
(* for a user who may read slowly or unsubscribe while the connection or   *)
(* the client goes away.  Unbuffered channels meet in one step.            *)
(***************************************************************************)
EXTENDS Integers, Sequences

CONSTANTS
    MaxNotes,    \* notifications the server sends
    MaxBuffer    \* maxClientSubscriptionBuffer

VARIABLES
    disp,     \* [pc, note, cause]: the dispatch loop: "loop", in "deliver", in "close", or "closed"
    notes,    \* notifications sent so far
    sub,      \* [pc, buffer, unsub, err]: the forwarding loop
    request,  \* the unsubscribe call: "none", "sent" or "answered"
    errCh,    \* [val, closed]: the error channel
    user,     \* "read", "quit" (in Unsubscribe), "wait" or "done"
    got       \* the notifications the user has read

vars == <<disp, notes, sub, request, errCh, user, got>>

Init ==
    /\ disp = [pc |-> "loop", note |-> 0, cause |-> "nil"] /\ notes = 0
    /\ sub = [pc |-> "forward", buffer |-> <<>>, unsub |-> FALSE, err |-> "nil"]
    /\ request = "none" /\ errCh = [val |-> "none", closed |-> FALSE] /\ user = "read" /\ got = <<>>

ForwardDone == sub.pc # "forward"
UnsubDone == sub.pc = "done"

-----------------------------------------------------------------------------
(* The dispatch loop.                                                      *)

Receive ==
    /\ disp.pc = "loop" /\ notes < MaxNotes /\ notes' = notes + 1
    /\ disp' = [disp EXCEPT !.pc = "deliver", !.note = notes + 1]
    /\ UNCHANGED <<sub, request, errCh, user, got>>

Answer ==
    /\ disp.pc = "loop" /\ request = "sent" /\ request' = "answered"
    /\ UNCHANGED <<disp, notes, sub, errCh, user, got>>

\* The connection breaks, or the client is closed: every call in flight is released.
Lose(cause) ==
    /\ disp.pc = "loop" /\ disp' = [disp EXCEPT !.pc = "close", !.cause = cause]
    /\ request' = IF request = "sent" THEN "answered" ELSE request
    /\ UNCHANGED <<notes, sub, errCh, user, got>>

\* (A variant that cannot give up when the forwarding loop has ended.)
NeverGivesUp == FALSE

\* deliver and close also watch forwardDone.
GivesUp == ForwardDone

DeliverGone ==
    /\ disp.pc = "deliver" /\ GivesUp /\ disp' = [disp EXCEPT !.pc = "loop"]
    /\ UNCHANGED <<notes, sub, request, errCh, user, got>>

CloseGone ==
    /\ disp.pc = "close" /\ GivesUp /\ disp' = [disp EXCEPT !.pc = "closed"]
    /\ UNCHANGED <<notes, sub, request, errCh, user, got>>

-----------------------------------------------------------------------------
(* The forwarding loop: forward, then run.                                 *)

Leave(unsub, err) == [sub EXCEPT !.pc = "left", !.unsub = unsub, !.err = err]

\* case <-sub.in: the value does not decode, the buffer is full, or it is queued.
In(decodes) ==
    /\ sub.pc = "forward" /\ disp.pc = "deliver" /\ disp' = [disp EXCEPT !.pc = "loop"]
    /\ sub' = IF ~decodes THEN Leave(TRUE, "decode")
              ELSE IF Len(sub.buffer) = MaxBuffer THEN Leave(TRUE, "overflow")
              ELSE [sub EXCEPT !.buffer = Append(@, disp.note)]
    /\ UNCHANGED <<notes, request, errCh, user, got>>

\* case sub.channel<-: the user reads.
Out ==
    /\ sub.pc = "forward" /\ sub.buffer # <<>> /\ user = "read"
    /\ got' = Append(got, Head(sub.buffer)) /\ sub' = [sub EXCEPT !.buffer = Tail(@)]
    /\ UNCHANGED <<disp, notes, request, errCh, user>>

\* case <-sub.quit, from Unsubscribe.
QuitByUser ==
    /\ sub.pc = "forward" /\ user = "quit" /\ user' = "wait" /\ sub' = Leave(TRUE, "nil")
    /\ UNCHANGED <<disp, notes, request, errCh, got>>

\* case <-sub.quit, from the dispatch loop.
QuitByClose ==
    /\ sub.pc = "forward" /\ disp.pc = "close" /\ disp' = [disp EXCEPT !.pc = "closed"]
    /\ sub' = Leave(FALSE, disp.cause)
    /\ UNCHANGED <<notes, request, errCh, user, got>>

\* requestUnsubscribe: a call that the dispatch loop has to take, unless the client has quit.
Request ==
    /\ sub.pc = "left"
    /\ IF sub.unsub
       THEN /\ disp.pc \in {"loop", "closed"} /\ sub' = [sub EXCEPT !.pc = "unsub"]
            /\ request' = IF disp.pc = "closed" THEN "answered" ELSE "sent"
       ELSE sub' = [sub EXCEPT !.pc = "report"] /\ UNCHANGED request
    /\ UNCHANGED <<disp, notes, errCh, user, got>>

Requested ==
    /\ sub.pc = "unsub" /\ request = "answered" /\ sub' = [sub EXCEPT !.pc = "report"]
    /\ UNCHANGED <<disp, notes, request, errCh, user, got>>

\* The error is sent; ErrClientQuit becomes a nil error.  Then unsubDone is closed.
Report ==
    /\ sub.pc = "report" /\ sub' = [sub EXCEPT !.pc = "done"]
    /\ errCh' = IF sub.err = "nil" THEN errCh
                ELSE [errCh EXCEPT !.val = IF @ # "none" \/ errCh.closed THEN "panic" ELSE sub.err]
    /\ UNCHANGED <<disp, notes, request, user, got>>

-----------------------------------------------------------------------------
(* The user.                                                               *)

Unsubscribe ==
    /\ user = "read" /\ user' = "quit"
    /\ UNCHANGED <<disp, notes, sub, request, errCh, got>>

\* (A variant that does not wait for the forwarding loop.)
AnyTime == TRUE

\* Unsubscribe returns when unsubDone is closed.
MayReturn == UnsubDone

Unsubscribed ==
    /\ user \in {"quit", "wait"} /\ MayReturn /\ user' = "done" /\ errCh' = [errCh EXCEPT !.closed = TRUE]
    /\ UNCHANGED <<disp, notes, sub, request, got>>

SubStep ==
    \/ QuitByUser \/ QuitByClose \/ Request \/ Requested \/ Report \/ \E d \in BOOLEAN : In(d)
DispStep == Answer \/ DeliverGone \/ CloseGone
Next ==
    \/ SubStep \/ DispStep \/ Receive \/ Out \/ Unsubscribe \/ Unsubscribed
    \/ \E c \in {"broken", "quit"} : Lose(c)

Spec == Init /\ [][Next]_vars

-----------------------------------------------------------------------------
\* The user reads the notifications in the order they were sent, with none left out.
InOrder == got = [i \in 1..Len(got) |-> i]

\* Unsubscribe closes the error channel after the last use of it, and when it has returned
\* the forwarding loop has ended.
ErrOnce == errCh.val # "panic" /\ (user = "done" => UnsubDone)

\* A subscription that ends by itself says why, once its loop has ended.
SaysWhy == UnsubDone /\ user = "read" => errCh.val # "none"

Safety == InOrder /\ ErrOnce /\ SaysWhy

\* Neither a slow reader nor a subscription that has ended blocks the dispatch loop, and
\* Unsubscribe returns.  Exception: requestUnsubscribe has no deadline, so that a server that
\* keeps the connection and does not answer holds up Unsubscribe.
Owed == disp.pc \in {"deliver", "close"} \/ (user \in {"quit", "wait"} /\ request # "sent")
NeverStuck == []<>~Owed
=============================================================================
