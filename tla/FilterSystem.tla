---------------------------- MODULE FilterSystem ----------------------------
(***************************************************************************)
(* Filters and subscriptions of the eth API (eth/filters): one event loop  *)
(* broadcasts over unbuffered channels to a goroutine per filter; users    *)
(* poll or are notified, and filters are uninstalled by users, by the      *)
(* timeout loop and by closed connections.  The critical sections of       *)
(* filtersMu contain no blocking operation and are one step each.          *)
(***************************************************************************)
EXTENDS Integers, Sequences, FiniteSets

CONSTANTS
    Sub,          \* subscriptions, each installed at most once
    Options,      \* what may be subscribed: subscription, type, whether it is polled
    Sends,        \* the kinds of the events that are sent
    MaxEvents     \* events the chain sends

VARIABLES
    events,    \* the number of events sent
    chan,      \* the channels of the event system, by kind
    loop,      \* [pc, ev, left]: the event loop and the subscriptions it still has to serve
    index,     \* the installed subscriptions of each type
    sub,       \* [pc, typ, poll]: the subscriptions
    filters,   \* the filters of the API
    expired,   \* the filters whose deadline has passed
    queue,     \* what a filter has gathered
    hand,      \* what a goroutine has received and not yet stored
    unsub,     \* Unsubscribe of each: "no", "quit" or "done"
    reaper,    \* toUninstall of the timeout loop
    got,       \* what the user has received
    seen       \* what the event loop has matched to each (history)

vars == <<events, chan, loop, index, sub, filters, expired, queue, hand, unsub, reaper, got, seen>>

Type == {"logs", "pending", "mined+pending", "heads", "txs",
         "acceptedLogs", "acceptedHeads", "acceptedTxs"}
Kind == {"removed"} \cup (Type \ {"mined+pending"})

\* The criteria of a log filter, as block numbers: -1 pending, -2 latest.
Range == {-2, -1, 0, 1} \X {-2, -1, 0, 1}

\* SubscribeLogs: the type of the subscription for a range of blocks, or "invalid".
LogsType(from, to) ==
    CASE from = -1 /\ to = -1 -> "pending"
      [] from = -2 /\ to = -2 -> "logs"
      [] from >= 0 /\ to >= from -> "logs"
      [] from # -1 /\ from >= -2 /\ to = -1 -> "mined+pending"
      [] from >= 0 /\ to = -2 -> "logs"
      [] OTHER -> "invalid"

\* (A variant that forgets that such a subscription is in two places.)
OneBucket(typ) == {IF typ = "mined+pending" THEN "logs" ELSE typ}

\* The types of the index under which a subscription is found.
Buckets(typ) == IF typ = "mined+pending" THEN {"logs", "pending"} ELSE {typ}

\* The filters that an event of each kind is for; removed logs are logs.
Target(kind) == index[IF kind = "removed" THEN "logs" ELSE kind]

Init ==
    /\ events = 0 /\ chan = [k \in Kind |-> <<>>]
    /\ loop = [pc |-> "loop", ev |-> 0, left |-> {}]
    /\ index = [t \in Type |-> {}]
    /\ sub = [s \in Sub |-> [pc |-> "new", typ |-> "heads", poll |-> TRUE]]
    /\ filters = {} /\ expired = {} /\ reaper = {}
    /\ queue = [s \in Sub |-> <<>>] /\ hand = [s \in Sub |-> <<>>] /\ unsub = [s \in Sub |-> "no"]
    /\ got = [s \in Sub |-> <<>>] /\ seen = [s \in Sub |-> <<>>]

\* The chain sends an event to a channel of the event system.
Send(k) ==
    /\ k \in Sends /\ events < MaxEvents /\ events' = events + 1
    /\ chan' = [chan EXCEPT ![k] = Append(@, events + 1)]
    /\ UNCHANGED <<loop, index, sub, filters, expired, queue, hand, unsub, reaper, got, seen>>

-----------------------------------------------------------------------------
(* The event loop.                                                         *)

\* One event, from any channel that has one, is matched to the filters of its type.
Handle(k) ==
    /\ loop.pc = "loop" /\ chan[k] # <<>> /\ chan' = [chan EXCEPT ![k] = Tail(@)]
    /\ loop' = [pc |-> IF Target(k) = {} THEN "loop" ELSE "send", ev |-> Head(chan[k]), left |-> Target(k)]
    /\ seen' = [s \in Sub |-> IF s \in Target(k) THEN Append(seen[s], Head(chan[k])) ELSE seen[s]]
    /\ UNCHANGED <<events, index, sub, filters, expired, queue, hand, unsub, reaper, got>>

Sent(s) == [loop EXCEPT !.left = @ \ {s}, !.pc = IF loop.left = {s} THEN "loop" ELSE "send"]

Install(s) ==
    /\ loop.pc = "loop" /\ sub[s].pc = "install" /\ sub' = [sub EXCEPT ![s].pc = "installed"]
    /\ index' = [t \in Type |-> IF t \in Buckets(sub[s].typ) THEN index[t] \cup {s} ELSE index[t]]
    /\ UNCHANGED <<events, chan, loop, filters, expired, queue, hand, unsub, reaper, got, seen>>

\* (A variant that leaves the second entry of the index.)
UninstalledFrom(typ) == OneBucket(typ)

\* The types an uninstalled subscription is deleted from.
DeletedFrom(typ) == Buckets(typ)

\* The subscription is deleted, and the close of its error channel releases Unsubscribe.
Uninstall(s) ==
    /\ loop.pc = "loop" /\ unsub[s] = "quit" /\ unsub' = [unsub EXCEPT ![s] = "done"]
    /\ index' = [t \in Type |-> IF t \in DeletedFrom(sub[s].typ) THEN index[t] \ {s} ELSE index[t]]
    /\ UNCHANGED <<events, chan, loop, sub, filters, expired, queue, hand, reaper, got, seen>>

\* A feed of the chain has ended: the loop returns.
Stop ==
    /\ loop.pc = "loop" /\ loop' = [loop EXCEPT !.pc = "stopped"]
    /\ UNCHANGED <<events, chan, index, sub, filters, expired, queue, hand, unsub, reaper, got, seen>>

-----------------------------------------------------------------------------
(* The API.                                                                *)

\* The beginning of NewFilter, NewBlockFilter, NewHeads and the like: subscribe blocks.
Subscribe(s, typ, poll) ==
    /\ sub[s].pc = "new" /\ <<s, typ, poll>> \in Options
    /\ typ \in {"logs", "pending", "mined+pending"} => \E r \in Range : LogsType(r[1], r[2]) = typ
    /\ sub' = [sub EXCEPT ![s] = [pc |-> "install", typ |-> typ, poll |-> poll]]
    /\ UNCHANGED <<events, chan, loop, index, filters, expired, queue, hand, unsub, reaper, got, seen>>

\* The filter is entered and its goroutine started.
Start(s) ==
    /\ sub[s].pc = "installed" /\ sub' = [sub EXCEPT ![s].pc = "live"]
    /\ filters' = IF sub[s].poll THEN filters \cup {s} ELSE filters
    /\ UNCHANGED <<events, chan, loop, index, expired, queue, hand, unsub, reaper, got, seen>>

\* The goroutine receives; one that serves a connection notifies its client.
Receive(s) ==
    /\ sub[s].pc = "live" /\ s \in loop.left /\ hand[s] = <<>> /\ (sub[s].poll \/ unsub[s] = "no")
    /\ loop' = Sent(s) /\ hand' = [hand EXCEPT ![s] = <<loop.ev>>]
    /\ UNCHANGED <<events, chan, index, sub, filters, expired, queue, unsub, reaper, got, seen>>

Store(s) ==
    /\ hand[s] # <<>> /\ hand' = [hand EXCEPT ![s] = <<>>]
    /\ queue' = IF s \in filters THEN [queue EXCEPT ![s] = @ \o hand[s]] ELSE queue
    /\ got' = IF ~sub[s].poll THEN [got EXCEPT ![s] = @ \o hand[s]] ELSE got
    /\ UNCHANGED <<events, chan, loop, index, sub, filters, expired, unsub, reaper, seen>>

\* The goroutine of a filter ends when its error channel is closed.
Ends(s) ==
    /\ sub[s].pc = "live" /\ unsub[s] = "done" /\ hand[s] = <<>> /\ sub' = [sub EXCEPT ![s].pc = "gone"]
    /\ filters' = filters \ {s}
    /\ UNCHANGED <<events, chan, loop, index, expired, queue, hand, unsub, reaper, got, seen>>

\* (A variant that hands out what was handed out before.)
KeptQueue(s) == queue[s]

\* What a poll leaves in the filter.
Polled(s) == <<>>

\* A poll takes what was gathered and gives the filter a new deadline.
GetFilterChanges(s) ==
    /\ s \in filters /\ (queue[s] # <<>> \/ s \in expired)
    /\ got' = [got EXCEPT ![s] = @ \o queue[s]] /\ queue' = [queue EXCEPT ![s] = Polled(s)]
    /\ expired' = expired \ {s}
    /\ UNCHANGED <<events, chan, loop, index, sub, filters, hand, unsub, reaper, seen>>

Expire(s) ==
    /\ s \in filters /\ s \notin expired /\ expired' = expired \cup {s}
    /\ UNCHANGED <<events, chan, loop, index, sub, filters, queue, hand, unsub, reaper, got, seen>>

UninstallFilter(s) ==
    /\ s \in filters /\ filters' = filters \ {s} /\ unsub' = [unsub EXCEPT ![s] = "quit"] /\ expired' = expired \ {s}
    /\ UNCHANGED <<events, chan, loop, index, sub, queue, hand, reaper, got, seen>>

\* The timeout loop takes the expired filters, then uninstalls them one after the other.
Tick ==
    /\ reaper = {} /\ filters \cap expired # {}
    /\ reaper' = filters \cap expired /\ filters' = filters \ expired /\ expired' = {}
    /\ UNCHANGED <<events, chan, loop, index, sub, queue, hand, unsub, got, seen>>

Reap(s) ==
    /\ s \in reaper /\ unsub[s] = "no" /\ \A t \in reaper : unsub[t] # "quit"
    /\ unsub' = [unsub EXCEPT ![s] = "quit"]
    /\ UNCHANGED <<events, chan, loop, index, sub, filters, expired, queue, hand, reaper, got, seen>>

Reaped ==
    /\ reaper # {} /\ (\A s \in reaper : unsub[s] = "done") /\ reaper' = {}
    /\ UNCHANGED <<events, chan, loop, index, sub, filters, expired, queue, hand, unsub, got, seen>>

\* The client of a subscription unsubscribes or its connection closes.
Leave(s) ==
    /\ sub[s].pc = "live" /\ ~sub[s].poll /\ unsub[s] = "no" /\ hand[s] = <<>>
    /\ unsub' = [unsub EXCEPT ![s] = "quit"]
    /\ UNCHANGED <<events, chan, loop, index, sub, filters, expired, queue, hand, reaper, got, seen>>

\* (A variant that only waits for the event loop.)
NotDrained(s) == FALSE

\* Unsubscribe consumes events while it waits for the event loop.
Drains(s) == unsub[s] = "quit" /\ s \in loop.left

Drain(s) ==
    /\ Drains(s) /\ loop' = Sent(s)
    /\ UNCHANGED <<events, chan, index, sub, filters, expired, queue, hand, unsub, reaper, got, seen>>

LoopStep == \E k \in Kind : Handle(k)
SubStep(s) ==
    Install(s) \/ Uninstall(s) \/ Start(s) \/ Receive(s) \/ Store(s) \/ Ends(s) \/ Drain(s) \/ Reap(s)

Next ==
    \/ Stop \/ Tick \/ Reaped \/ LoopStep
    \/ \E k \in Kind : Send(k)
    \/ \E s \in Sub : \/ SubStep(s) \/ GetFilterChanges(s) \/ Expire(s) \/ UninstallFilter(s) \/ Leave(s)
                      \/ \E t \in Type, p \in BOOLEAN : Subscribe(s, t, p)

Spec == Init /\ [][Next]_vars

-----------------------------------------------------------------------------
\* A filter that is not being uninstalled misses nothing and repeats nothing: what was read,
\* gathered, received and is being sent is what was matched to it, in order.
Faithful ==
    \A s \in Sub :
       s \in filters \/ (unsub[s] = "no" /\ s \notin reaper)
       => got[s] \o queue[s] \o hand[s] \o (IF s \in loop.left THEN <<loop.ev>> ELSE <<>>) = seen[s]

\* An uninstalled subscription is not in the index any more, so that the event loop never
\* waits for a goroutine that has ended.
NoneLeft == \A s \in Sub : unsub[s] = "done" => s \notin loop.left /\ \A t \in Type : s \notin index[t]

\* Each filter is unsubscribed by one actor only: a polled filter is found by users until it
\* is taken by a user or by the timeout loop.
OneOwner == \A s \in filters : s \notin reaper /\ unsub[s] = "no"

Safety == Faithful /\ NoneLeft /\ OneOwner

\* The event loop is never blocked for good by a filter, and an uninstall that has begun ends
\* (unless the event system has stopped: then there is no one left to answer it).
Owed == loop.pc = "send" \/ (loop.pc # "stopped" /\ \E s \in Sub : unsub[s] = "quit")
LoopReturns == []<>~Owed
=============================================================================
