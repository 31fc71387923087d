------------------------------- MODULE TxPool -------------------------------
(***************************************************************************)
(* The coordinator of the pools (core/txpool/txpool.go): the loop that     *)
(* turns head events into resets of every subpool, one at a time, on a     *)
(* goroutine of its own; Sync, which waits for a reset that starts after   *)
(* it; Add, which splits a batch and puts the errors back in order; Close. *)
(***************************************************************************)
EXTENDS Integers, SequencesExt

CONSTANTS
    Pools,       \* number of subpools
    Heads,       \* the heads the chain takes, 0..Heads; the pool starts at 0
    Caller,      \* callers of Sync
    Batches      \* batches given to Add: sequences of [pool, err], pool 0 for none

VARIABLES
    chain,    \* head events sent so far
    loop,     \* oldHead, newHead, resetForced, resetWaiter; whether it runs
    reset,    \* the reset goroutine: Idle, or its heads and the next subpool
    at,       \* at[i]: the head subpool i was last reset to
    jumps,    \* a subpool was reset from another head than its last
    caller,   \* Sync callers: pc, resets started at the call, reset answered by
    started,  \* resets started
    closed,   \* subpools closed
    added     \* the last batch given to Add and the errors it returned

vars == <<chain, loop, reset, at, jumps, caller, started, closed, added>>

None == "none"
Idle == [on |-> FALSE, old |-> 0, new |-> 0, i |-> 0]
NewLoop == [old |-> 0, new |-> 0, forced |-> FALSE, waiter |-> None, run |-> TRUE]

-----------------------------------------------------------------------------
(* The loop *)

\* (A variant in which a forced reset at the head is not run.)
NeededForHead(l) == l.new # l.old

Needed(l) == l.new # l.old \/ l.forced

\* The loop has handled an event, which left it with l: back at the top it starts a
\* reset if one is needed and the busy marker is free.
Round(l, busy) ==
    /\ loop' = IF ~busy /\ Needed(l) THEN [l EXCEPT !.forced = FALSE] ELSE l
    /\ reset' = CASE busy -> reset
                  [] ~busy /\ Needed(l) -> [on |-> TRUE, old |-> l.old, new |-> l.new, i |-> 1]
                  [] OTHER -> Idle
    /\ started' = IF ~busy /\ Needed(l) THEN started + 1 ELSE started

HeadEvent ==
    /\ loop.run /\ chain < Heads
    /\ chain' = chain + 1
    /\ Round([loop EXCEPT !.new = chain + 1], reset.on)
    /\ UNCHANGED <<at, jumps, caller, closed, added>>

\* The reset goroutine resets the subpools one after the other; one that is closed
\* returns at once.
ResetSubpool ==
    /\ reset.on /\ reset.i <= Pools
    /\ IF reset.i \in closed THEN UNCHANGED <<at, jumps>>
       ELSE /\ at' = [at EXCEPT ![reset.i] = reset.new]
            /\ jumps' = (jumps \/ at[reset.i] # reset.old)
    /\ reset' = [reset EXCEPT !.i = @ + 1]
    /\ UNCHANGED <<chain, loop, caller, started, closed, added>>

\* (A variant that tells the waiter at the end of any reset.)
TellAny(l) == l.waiter # None

\* A waiter is told, unless the reset it forced has not been started.
Tell(l) == l.waiter # None /\ ~l.forced

ResetDone ==
    /\ loop.run /\ reset.on /\ reset.i > Pools
    /\ caller' = IF Tell(loop) THEN [caller EXCEPT ![loop.waiter].pc = "done", ![loop.waiter].by = started] ELSE caller
    /\ Round([loop EXCEPT !.old = reset.new, !.waiter = IF Tell(loop) THEN None ELSE @], FALSE)
    /\ UNCHANGED <<chain, at, jumps, closed, added>>

Sync(c) ==
    /\ caller[c].pc = "idle"
    /\ IF loop.run
       THEN /\ caller' = [caller EXCEPT ![c] = [pc |-> "waiting", since |-> started, by |-> 0]]
            /\ Round([loop EXCEPT !.forced = TRUE, !.waiter = c], reset.on)
       ELSE /\ caller' = [caller EXCEPT ![c].pc = "terminated"]
            /\ UNCHANGED <<loop, reset, started>>
    /\ UNCHANGED <<chain, at, jumps, closed, added>>

\* Close: the loop leaves, telling its waiter; a running reset is left on its own.
Quit ==
    /\ loop.run
    /\ loop' = [loop EXCEPT !.run = FALSE, !.waiter = None]
    /\ caller' = IF loop.waiter = None THEN caller
                 ELSE [caller EXCEPT ![loop.waiter].pc = "terminated"]
    /\ UNCHANGED <<chain, reset, at, jumps, started, closed, added>>

\* Then the subpools are closed in order.
CloseSubpool ==
    /\ ~loop.run
    /\ \E i \in (1..Pools) \ closed :
          /\ 1..(i - 1) \subseteq closed
          /\ closed' = closed \cup {i}
    /\ UNCHANGED <<chain, loop, reset, at, jumps, caller, started, added>>

-----------------------------------------------------------------------------
(* Add *)

\* The transactions of a batch that subpool i takes, in order.
Split(batch, i) == SelectSeq(batch, LAMBDA t : t.pool = i)

\* Each subpool answers its part in order; the answers are handed out one by one.
PieceBack(batch) ==
    [k \in DOMAIN batch |->
        IF batch[k].pool = 0 THEN "unsupported"
        ELSE LET nth == Len(Split(SubSeq(batch, 1, k), batch[k].pool))
             IN  Split(batch, batch[k].pool)[nth].err]

Add(batch) ==
    /\ added' = [batch |-> batch, errs |-> PieceBack(batch)]
    /\ UNCHANGED <<chain, loop, reset, at, jumps, caller, started, closed>>

-----------------------------------------------------------------------------
Init ==
    /\ chain = 0 /\ loop = NewLoop /\ reset = Idle /\ started = 0
    /\ at = [i \in 1..Pools |-> 0] /\ jumps = FALSE
    /\ caller = [c \in Caller |-> [pc |-> "idle", since |-> 0, by |-> 0]]
    /\ closed = {} /\ added = [batch |-> <<>>, errs |-> <<>>]

LoopStep == HeadEvent \/ ResetDone \/ \E c \in Caller : Sync(c)

Next ==
    \/ LoopStep \/ ResetSubpool \/ Quit \/ CloseSubpool
    \/ \E b \in Batches : Add(b)

Spec == Init /\ [][Next]_vars

-----------------------------------------------------------------------------
\* Resets chain: however head events, forced resets and finished resets interleave, a
\* subpool is always reset from the head it was last reset to, so no block is skipped or
\* applied twice.
ResetsChain == ~jumps

\* A Sync that returns nil has seen a whole reset that started after its call.
SyncFresh ==
    \A c \in Caller : caller[c].pc = "done" => caller[c].by > caller[c].since

\* No needed reset is forgotten: with the goroutine idle the loop is at its newest head.
NothingForgotten == loop.run /\ ~reset.on => loop.old = loop.new /\ loop.new = chain /\ ~loop.forced

\* Add returns to every transaction its own error, in a batch mixed over the subpools.
ErrorsInOrder ==
    \A k \in DOMAIN added.batch :
        added.errs[k] = IF added.batch[k].pool = 0 THEN "unsupported" ELSE added.batch[k].err

Safety == ResetsChain /\ SyncFresh /\ NothingForgotten /\ ErrorsInOrder

\* Every subpool ends at the last head, and the caller the loop waits for is answered,
\* unless the pool is closed.
Owed ==
    /\ loop.run
    /\ loop.waiter # None \/ chain # Heads \/ \E i \in 1..Pools : at[i] # chain
HeadReached == []<>~Owed
=============================================================================
