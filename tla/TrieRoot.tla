------------------------------ MODULE TrieRoot ------------------------------
(***************************************************************************)
(* generateTrieRoot (core/state/snapshot/conversion.go): the accounts of a *)
(* snapshot are fed to a trie while the storage of each is checked by a    *)
(* goroutine of its own.  One channel, filled with nils at the start, both *)
(* limits the goroutines and collects their results.                       *)
(***************************************************************************)
EXTENDS Integers, SequencesExt

CONSTANTS
    Threads,
    Accounts     \* the snapshots: sequences of "good", "bad" (storage) and "garbled" accounts

VARIABLES
    accts,     \* the accounts in the order of the iterator
    results,   \* the channel
    running,   \* the storage checks under way
    fed,       \* accounts taken from the iterator
    drained,   \* results taken by stop
    fail, pc

vars == <<accts, results, running, fed, drained, fail, pc>>

Init ==
    /\ results = [i \in 1..Threads |-> "nil"] /\ running = <<>>
    /\ fed = 0 /\ drained = 0 /\ fail = FALSE /\ pc = "start" /\ accts = <<>>

Start(a) == pc = "start" /\ accts' = a /\ pc' = "feed" /\ UNCHANGED <<results, running, fed, drained, fail>>

\* stop drains the channel, so a no-op replaces the error just consumed.
StopAfterError == results' = Append(Tail(results), "nil")

\* Take a permit, decode the account, start its check and feed the trie.
Feed ==
    /\ pc = "feed" /\ fed < Len(accts) /\ results # <<>>
    /\ IF Head(results) = "err"
       THEN StopAfterError /\ pc' = "stop" /\ fail' = TRUE /\ UNCHANGED <<running, fed>>
       ELSE /\ results' = Tail(results) /\ fed' = fed + 1
            /\ IF accts[fed + 1] = "garbled"
               THEN pc' = "stop" /\ fail' = TRUE /\ UNCHANGED running
               ELSE running' = Append(running, accts[fed + 1]) /\ UNCHANGED <<pc, fail>>
    /\ UNCHANGED <<accts, drained>>

\* A check of storage ends, in any order; the channel has room for every goroutine.
CheckEnds(i) ==
    /\ i \in DOMAIN running /\ Len(results) < Threads
    /\ results' = Append(results, IF running[i] = "bad" THEN "err" ELSE "nil")
    /\ running' = RemoveAt(running, i)
    /\ UNCHANGED <<accts, fed, drained, fail, pc>>

Exhausted == pc = "feed" /\ fed = Len(accts) /\ pc' = "stop" /\ UNCHANGED <<accts, results, running, fed, drained, fail>>

\* (A variant that forgets an error found while draining.)
NotRecorded == fail

\* The first error stop meets is the one returned.
Recorded == fail \/ Head(results) = "err"

Drain ==
    /\ pc = "stop" /\ drained < Threads /\ results # <<>>
    /\ results' = Tail(results) /\ drained' = drained + 1
    /\ fail' = Recorded
    /\ UNCHANGED <<accts, running, fed, pc>>

Return == pc = "stop" /\ drained = Threads /\ pc' = "done" /\ UNCHANGED <<accts, results, running, fed, drained, fail>>

FeederStep == Feed \/ Exhausted \/ Drain \/ Return

Next == (\E a \in Accounts : Start(a)) \/ FeederStep \/ \E i \in DOMAIN running : CheckEnds(i)

Spec == Init /\ [][Next]_vars

-----------------------------------------------------------------------------
\* A root is returned only when every check has ended well, and an error only when one
\* failed; no goroutine is left behind that could write to the channel.
RootTrusted ==
    pc = "done" =>
        /\ running = <<>>
        /\ fail <=> \E i \in 1..fed : accts[i] # "good"
        /\ ~fail => fed = Len(accts)

\* The permits are neither lost nor made: every goroutine can deliver its result, and no
\* more of them run than were allowed.
PermitsKept == Len(results) + Len(running) + drained <= Threads

Safety == RootTrusted /\ PermitsKept

\* generateTrieRoot returns, unless an account does not decode: its permit is not given
\* back, and stop waits for it.
Owed == pc \notin {"start", "done"} /\ \A i \in 1..fed : accts[i] # "garbled"
Returns == []<>~Owed
=============================================================================
