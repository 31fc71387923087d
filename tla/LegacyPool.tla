----------------------------- MODULE LegacyPool -----------------------------
(***************************************************************************)
(* The pool of ordinary transactions (core/txpool/legacypool).  A          *)
(* transaction carries its sender, nonce, price and cost; fee cap and tip  *)
(* are one price, as in a legacy transaction, and every transaction takes  *)
(* one slot.  `pool' is what mu protects; a reorg run works on it in one   *)
(* critical section, on behalf of the requests that scheduleReorgLoop has  *)
(* merged by the time it is launched.                                      *)
(***************************************************************************)
EXTENDS Integers, SequencesExt, FiniteSetsExt

CONSTANTS
    Account, Tx,
    From, Nonce, Price, Cost,    \* of a transaction
    Block, Genesis, Parent, Number, Body,
    Start,                       \* the head the pool starts with
    Balance,                     \* Balance[b][a]: after block b
    NoState,                     \* blocks whose state cannot be opened
    GlobalSlots, GlobalQueue, AccountSlots, AccountQueue, PriceBump,
    MaxReorg,                    \* reorgs deeper than this are not followed (64)
    Tips,                        \* the gas tips an operator sets
    LocalTx, Shared,             \* transactions sent locally; accounts the other pool may reserve
    MaxAdds, MaxResets           \* bounds on the calls

VARIABLES
    pool,      \* the pool's own state
    sched,     \* scheduleReorgLoop: the requests of the next run
    cur,       \* the run that is active, or NoRun
    adder,     \* the Add call in progress
    head,      \* the head of the last Reset that was requested
    announced, \* transactions sent on txFeed so far
    adds, resets

vars == <<pool, sched, cur, adder, head, announced, adds, resets>>

None == "none"
NoRun == [on |-> FALSE, reset |-> <<>>, dirty |-> {}, events |-> {}]
NoAdd == [pc |-> "idle", tx |-> None, local |-> FALSE, dirty |-> {}]

RECURSIVE StateNonce(_, _)
StateNonce(b, a) == IF b = Genesis THEN 0
                    ELSE StateNonce(Parent[b], a) + Cardinality({i \in DOMAIN Body[b] : From[Body[b][i]] = a})

NewNoncer(b) == [a \in Account |-> StateNonce(b, a)]

NewPool == [pending |-> [a \in Account |-> {}], queue |-> [a \in Account |-> {}],
            all |-> {}, loc |-> {}, locals |-> {}, nonces |-> NewNoncer(Start),
            urgent |-> <<>>, floating |-> <<>>, stales |-> 0, changes |-> 0,
            beats |-> <<>>, reserved |-> {}, taken |-> {}, fault |-> FALSE,
            head |-> Start, tip |-> 0, events |-> {},
            short |-> {}, late |-> {}]

-----------------------------------------------------------------------------
(* Lists: sets of transactions with distinct nonces *)

At(l, n) == {t \in l : Nonce[t] = n}
ByNonce(S) == SetToSortSeq(S, LAMBDA s, t : Nonce[s] < Nonce[t])
LastElement(l) == CHOOSE t \in l : \A s \in l : Nonce[s] <= Nonce[t]

\* list.Add refuses a transaction that does not raise the price of the old one enough.
Bumps(l, t) == \A o \in At(l, Nonce[t]) : Price[o] < Price[t] /\ Price[t] >= (Price[o] * (100 + PriceBump)) \div 100
Put(l, t) == (l \ At(l, Nonce[t])) \cup {t}

Forward(l, n) == {t \in l : Nonce[t] < n}
Filter(l, limit) == {t \in l : Cost[t] > limit}
Invalids(l, drops) == {t \in l \ drops : \E d \in drops : Nonce[d] < Nonce[t]}
Cap(l, n) == {t \in l : Cardinality({s \in l : Nonce[s] < Nonce[t]}) >= n}

\* The consecutive run from the lowest nonce, if that is not above the start.
Ready(l, start) ==
    {t \in l : /\ \E s \in l : Nonce[s] <= start
               /\ \A n \in Min({Nonce[s] : s \in l})..Nonce[t] : At(l, n) # {}}

TotalCost(l) == SumSet({0}) + MapThenSumSet(LAMBDA t : Cost[t], l)

-----------------------------------------------------------------------------
(* pricedList: the remote transactions in two heaps, kept sorted, cheapest first; *)
(* entries of transactions that left stay until they are popped or reheaped.      *)

Cheaper(s, t) == Price[s] < Price[t] \/ (Price[s] = Price[t] /\ Nonce[s] > Nonce[t])
Push(h, t) == SortSeq(Append(h, t), LAMBDA x, y : Cheaper(x, y))
Remotes(p) == p.all \ p.loc
Stale(p, t) == t \notin Remotes(p)

Heaps(p, all, k) ==
    [p EXCEPT !.stales = 0, !.floating = SubSeq(all, 1, k), !.urgent = SubSeq(all, k + 1, Len(all))]

Reheap(p) == Heaps(p, SetToSortSeq(Remotes(p), Cheaper), Cardinality(Remotes(p)) \div 5)

ReheapStale(p) ==
    IF p.stales <= (Len(p.urgent) + Len(p.floating)) \div 4 THEN p ELSE Reheap(p)

Removed(p, n) == ReheapStale([p EXCEPT !.stales = @ + n])

PutPriced(p, t, local) == IF local THEN p ELSE [p EXCEPT !.urgent = Push(@, t)]

RECURSIVE PopStale(_, _)
PopStale(p, f) ==
    IF p[f] # <<>> /\ Stale(p, Head(p[f]))
    THEN PopStale([p EXCEPT ![f] = Tail(@), !.stales = @ - 1], f) ELSE p

UnderpricedFor(p, f, t) == p[f] = <<>> \/ Price[Head(p[f])] >= Price[t]

\* Both heaps lose the stale entries at their top; the second is looked at only if needed.
PopIfNeeded(u, t) == IF UnderpricedFor(u, "urgent", t) THEN PopStale(u, "floating") ELSE u

UnderpricedIn(q, t) ==
    [p |-> q, yes |-> /\ UnderpricedFor(q, "urgent", t) /\ UnderpricedFor(q, "floating", t)
                      /\ q.urgent # <<>> \/ q.floating # <<>>]

Underpriced(p, t) == UnderpricedIn(PopIfNeeded(PopStale(p, "urgent"), t), t)

RECURSIVE Discard(_, _, _, _)
Discard(p, slots, force, drop) ==
    IF slots > 0 /\ Len(p.urgent) > 4 * Len(p.floating)
    THEN LET t == Head(p.urgent)
             q == [p EXCEPT !.urgent = Tail(@)]
         IN  Discard(IF Stale(p, t) THEN [q EXCEPT !.stales = @ - 1] ELSE [q EXCEPT !.floating = Push(@, t)],
                     slots, force, drop)
    ELSE IF slots > 0 /\ p.floating # <<>>
    THEN LET t == Head(p.floating)
             q == [p EXCEPT !.floating = Tail(@)]
         IN  IF Stale(p, t) THEN Discard([q EXCEPT !.stales = @ - 1], slots, force, drop)
             ELSE Discard(q, slots - 1, force, Append(drop, t))
    ELSE IF slots > 0 /\ ~force
         THEN [p |-> FoldLeft(LAMBDA q, t : [q EXCEPT !.urgent = Push(@, t)], p, drop), drop |-> <<>>, ok |-> FALSE]
         ELSE [p |-> p, drop |-> drop, ok |-> TRUE]

-----------------------------------------------------------------------------
(* The lookup set, heartbeats (oldest first) and the address reservation *)

Forget(p, S) == [p EXCEPT !.all = @ \ S, !.loc = @ \ S]
Beat(p, a) == [p EXCEPT !.beats = Append(Remove(@, a), a)]
NoBeat(p, a) == [p EXCEPT !.beats = Remove(@, a)]
Tracked(p, a) == p.pending[a] # {} \/ p.queue[a] # {}
Reserve(p, a) == [p EXCEPT !.reserved = @ \cup {a}, !.fault = @ \/ a \in p.reserved]
Unreserve(p, a) == [p EXCEPT !.reserved = @ \ {a}, !.fault = @ \/ a \notin p.reserved]
UnreserveIdle(p, a) == IF Tracked(p, a) THEN p ELSE Unreserve(p, a)

BeatOnce(p, a) == IF Contains(p.beats, a) THEN p ELSE Beat(p, a)
Replaced(p, old) == IF old = {} THEN p ELSE Removed(Forget(p, old), 1)
Known(p, t, local) ==
    PutPriced([p EXCEPT !.all = @ \cup {t}, !.loc = IF local THEN @ \cup {t} ELSE @], t, local)

\* enqueueTx: [p, ok, replaced].
EnqueueTx(p, t, local, addAll) ==
    LET a == From[t]
        old == At(p.queue[a], Nonce[t])
        r == Replaced([p EXCEPT !.queue[a] = Put(@, t)], old)
    IN  IF Bumps(p.queue[a], t)
        THEN [p |-> BeatOnce(IF addAll THEN Known(r, t, local) ELSE r, a), ok |-> TRUE, replaced |-> old # {}]
        ELSE [p |-> p, ok |-> FALSE, replaced |-> FALSE]

\* The internal shuffle from pending to queue, which ignores a refusal.
EnqueueAll(p, S) == FoldLeft(LAMBDA q, t : EnqueueTx(q, t, FALSE, FALSE).p, p, ByNonce(S))

SetIfLower(p, a, n) == IF p.nonces[a] <= n THEN p ELSE [p EXCEPT !.nonces[a] = n]

\* removeTx: a pending transaction takes those above it back to the queue.
Unlist(q, t, a) ==
    LET above == {s \in q.pending[a] : Nonce[s] > Nonce[t]}
        s == [q EXCEPT !.queue[a] = @ \ At(@, Nonce[t])]
    IN  IF At(q.pending[a], Nonce[t]) # {}
        THEN SetIfLower(EnqueueAll([q EXCEPT !.pending[a] = @ \ ({t} \cup above)], above), a, Nonce[t])
        ELSE IF q.queue[a] # {} /\ s.queue[a] = {} THEN NoBeat(s, a) ELSE s

UnreserveIf(p, a, unreserve) == IF unreserve THEN UnreserveIdle(p, a) ELSE p

RemoveTx(p, t, outofbound, unreserve) ==
    IF t \notin p.all THEN p
    ELSE UnreserveIf(Unlist(IF outofbound THEN Removed(Forget(p, {t}), 1) ELSE Forget(p, {t}), t, From[t]),
                     From[t], unreserve)

RemovedPending(p, t) ==
    IF t \in p.all /\ At(p.pending[From[t]], Nonce[t]) # {}
    THEN Cardinality({s \in p.pending[From[t]] : Nonce[s] >= Nonce[t]}) ELSE 0

-----------------------------------------------------------------------------
(* add *)

\* validateTx, ValidateTransactionWithState
ValidateTx(p, t) ==
    LET a == From[t]
        prev == At(p.pending[a], Nonce[t])
    IN  /\ StateNonce(p.head, a) <= Nonce[t]
        /\ Cost[t] <= Balance[p.head][a]
        /\ TotalCost(p.pending[a] \ prev) + Cost[t] <= Balance[p.head][a]

IsGapped(p, t) ==
    \E n \in p.nonces[From[t]]..(Nonce[t] - 1) : At(p.queue[From[t]], n) = {}

\* (A variant that gives up the reservation of the sender being added.)
KickAndRelease(p, d, a) ==
    [RemoveTx(p, d, FALSE, TRUE) EXCEPT !.changes = @ + RemovedPending(p, d)]

\* One dropped transaction; the sender of the one being added stays reserved.
Kick(p, d, a) ==
    [RemoveTx(p, d, FALSE, From[d] # a) EXCEPT !.changes = @ + RemovedPending(p, d)]

Slots == GlobalSlots + GlobalQueue

\* The transactions of d.drop go, unless a gapped one would replace an executable one.
DropFor(p, d, t, isLocal) ==
    LET churns == /\ ~isLocal /\ IsGapped(p, t)
                  /\ \E i \in DOMAIN d.drop : At(p.pending[From[d.drop[i]]], Nonce[d.drop[i]]) # {}
    IN  IF ~isLocal /\ ~d.ok THEN [p |-> d.p, ok |-> FALSE]
        ELSE IF churns
        THEN [p |-> FoldLeft(LAMBDA r, x : PutPriced(r, x, FALSE), d.p, d.drop), ok |-> FALSE]
        ELSE [p |-> FoldLeft(LAMBDA r, x : Kick(r, x, From[t]), d.p, d.drop), ok |-> TRUE]

\* u is the answer of Underpriced, which a local transaction does not ask for.
DropUnderpriced(p, u, t, isLocal) ==
    LET q == IF isLocal THEN p ELSE u.p
    IN  IF (~isLocal /\ u.yes) \/ p.changes > GlobalSlots \div 4 THEN [p |-> q, ok |-> FALSE]
        ELSE DropFor(p, Discard(q, Cardinality(p.all) - Slots + 1, isLocal, <<>>), t, isLocal)

\* Room for one more: [p, ok].  A refusal leaves everything in the heaps.
MakeRoom(p, t, isLocal) ==
    IF Cardinality(p.all) + 1 <= Slots THEN [p |-> p, ok |-> TRUE]
    ELSE DropUnderpriced(p, Underpriced(p, t), t, isLocal)

\* A replacement in pending, announced by the next run: [p, ok, replaced].
ReplacePending(p, t, isLocal) ==
    LET a == From[t]
        old == At(p.pending[a], Nonce[t])
        r == Known(Removed(Forget([p EXCEPT !.pending[a] = Put(@, t)], old), 1), t, isLocal)
    IN  IF Bumps(p.pending[a], t)
        THEN [p |-> Beat([r EXCEPT !.events = @ \cup {t}], a), ok |-> TRUE, replaced |-> TRUE]
        ELSE [p |-> p, ok |-> FALSE, replaced |-> FALSE]

\* The first local transaction of an account makes all of its transactions local.
MarkLocal(p, a) ==
    LET moved == {t \in Remotes(p) : From[t] = a}
    IN  IF a \in p.locals THEN p
        ELSE Removed([p EXCEPT !.locals = @ \cup {a}, !.loc = @ \cup moved], Cardinality(moved))

Enqueued(e, t, local) ==
    IF e.ok /\ local THEN [e EXCEPT !.p = MarkLocal(@, From[t])] ELSE e

InsertInto(m, t, local, isLocal) ==
    IF ~m.ok THEN [p |-> m.p, ok |-> FALSE, replaced |-> FALSE]
    ELSE IF At(m.p.pending[From[t]], Nonce[t]) # {} THEN ReplacePending(m.p, t, isLocal)
    ELSE Enqueued(EnqueueTx(m.p, t, isLocal, TRUE), t, local)

\* What add does once the transaction is valid and the address reserved.
Insert(p, t, local) ==
    LET isLocal == local \/ From[t] \in p.locals
    IN  InsertInto(MakeRoom(p, t, isLocal), t, local, isLocal)

UndoReserve(i, a) == IF i.ok THEN i ELSE [i EXCEPT !.p = Unreserve(@, a)]

\* add: [p, ok, replaced]; the reservation is undone on failure.
AddTx(p, t, local) ==
    LET a == From[t]
    IN  IF t \in p.all \/ ~ValidateTx(p, t) \/ (~Tracked(p, a) /\ a \in p.taken)
        THEN [p |-> p, ok |-> FALSE, replaced |-> FALSE]
        ELSE IF Tracked(p, a) THEN Insert(p, t, local)
        ELSE UndoReserve(Insert(Reserve(p, a), t, local), a)

-----------------------------------------------------------------------------
(* runReorg *)

RECURSIVE Branch(_, _)
\* The blocks from b down to, not including, block c.
Branch(b, c) == IF b = c THEN <<>> ELSE <<b>> \o Branch(Parent[b], c)

RECURSIVE Ancestors(_)
Ancestors(b) == {b} \cup (IF b = Genesis THEN {} ELSE Ancestors(Parent[b]))

Common(b, c) == LET A == Ancestors(b) \cap Ancestors(c)
                IN  CHOOSE x \in A : \A y \in A : Number[y] <= Number[x]

Txs(branch) == FlattenSeq([i \in DOMAIN branch |-> Body[branch[i]]])

\* The transactions of the old branch that the new one does not hold.
Reinject(old, new) ==
    LET c == Common(old, new)
        included == Range(Txs(Branch(new, c)))
        deep == Number[old] - Number[new] > MaxReorg \/ Number[new] - Number[old] > MaxReorg
    IN  IF old = Parent[new] \/ deep THEN <<>>
        ELSE SelectSeq(Txs(Branch(old, c)), LAMBDA t : t \notin included)

Reinjected(q, back) == [q EXCEPT !.short = @ \cup {From[t] : t \in Range(back) \ q.all}]

\* A head whose state is missing leaves the pool at the old one.
Reset(p, old, new) ==
    LET back == Reinject(old, new)
    IN  IF new \in NoState THEN p
        ELSE Reinjected(FoldLeft(LAMBDA r, t : AddTx(r, t, FALSE).p,
                                 [p EXCEPT !.head = new, !.nonces = NewNoncer(new)], back), back)

\* promoteTx: [p, ok]
PromoteTx(p, a, t) ==
    LET old == At(p.pending[a], Nonce[t])
        q == [p EXCEPT !.pending[a] = Put(@, t), !.nonces[a] = Nonce[t] + 1]
    IN  IF Bumps(p.pending[a], t)
        THEN [p |-> Beat(Replaced(q, old), a), ok |-> TRUE]
        ELSE [p |-> Removed(Forget(p, {t}), 1), ok |-> FALSE]

PromoteReady(r, a, t) ==
    LET x == PromoteTx(r.p, a, t)
    IN  [p |-> x.p, promoted |-> IF x.ok THEN r.promoted \cup {t} ELSE r.promoted]

ReleaseIdle(q, a) == IF q.queue[a] = {} THEN UnreserveIdle(NoBeat(q, a), a) ELSE q

\* One account of promoteExecutables; r is [p, promoted].
Promote(r, a) ==
    LET l == r.p.queue[a]
        gone == Forward(l, StateNonce(r.p.head, a)) \cup Filter(l, Balance[r.p.head][a])
        ready == Ready(l \ gone, r.p.nonces[a])
        rest == l \ (gone \cup ready)
        caps == IF a \in r.p.locals THEN {} ELSE Cap(rest, AccountQueue)
        x == FoldLeft(LAMBDA s, t : PromoteReady(s, a, t),
                      [r EXCEPT !.p = [Forget(@, gone) EXCEPT !.queue[a] = rest \ caps]], ByNonce(ready))
    IN  IF l = {} THEN r
        ELSE [x EXCEPT !.p = ReleaseIdle(Removed(Forget(@, caps), Cardinality(gone \cup caps)), a)]

\* One account of demoteUnexecutables.
Demote(p, a) ==
    LET n == StateNonce(p.head, a)
        l == p.pending[a] \ Forward(p.pending[a], n)
        drops == Filter(l, Balance[p.head][a])
        invalids == Invalids(l, drops)
        kept == l \ (drops \cup invalids)
        gapped == IF At(kept, n) = {} THEN kept ELSE {}
        q == EnqueueAll([Forget(p, (p.pending[a] \ l) \cup drops) EXCEPT !.pending[a] = kept \ gapped],
                        invalids \cup gapped)
    IN  IF p.pending[a] = {} THEN p ELSE UnreserveIf(q, a, kept \ gapped = {})

ListNonces(p) ==
    [p EXCEPT !.nonces = [a \in Account |->
        IF p.pending[a] = {} THEN StateNonce(p.head, a) ELSE Nonce[LastElement(p.pending[a])] + 1]]

\* demoteUnexecutables, the reheap of the new base fee and the nonces of the lists left.
AfterReset(p, order) == ListNonces(Reheap(FoldLeft(Demote, p, order)))

PendingCount(p) == MapThenSumSet(LAMBDA a : Cardinality(p.pending[a]), Account)

\* The highest transaction of each of the offenders goes.
DropLast(p, a) ==
    LET t == LastElement(p.pending[a])
    IN  Removed(SetIfLower(Forget([p EXCEPT !.pending[a] = @ \ {t}], {t}), a, Nonce[t]), 1)

RECURSIVE Equalize(_, _, _, _)
Equalize(p, offenders, last, threshold) ==
    IF PendingCount(p) > GlobalSlots /\ Cardinality(p.pending[last]) > threshold
    THEN Equalize(FoldLeft(DropLast, p, offenders), offenders, last, threshold) ELSE p

RECURSIVE Penalize(_, _, _)
\* Offenders join one by one, largest first, until the pool fits.
Penalize(p, spammers, offenders) ==
    IF PendingCount(p) <= GlobalSlots \/ spammers = <<>>
    THEN IF offenders = <<>> THEN p ELSE Equalize(p, offenders, Last(offenders), AccountSlots)
    ELSE LET a == Head(spammers)
             q == IF offenders = <<>> THEN p
                  ELSE Equalize(p, offenders, Last(offenders), Cardinality(p.pending[a]))
         IN  Penalize(q, Tail(spammers), Append(offenders, a))

TruncatePending(p, order) ==
    Penalize(p, SortSeq(SelectSeq(order, LAMBDA a : a \notin p.locals /\ Cardinality(p.pending[a]) > AccountSlots),
                        LAMBDA a, b : Cardinality(p.pending[a]) > Cardinality(p.pending[b])), <<>>)

QueueCount(p) == MapThenSumSet(LAMBDA a : Cardinality(p.queue[a]), Account)

\* The account with the oldest heartbeat loses its highest nonces, or all of them.
TruncateAccount(p, a) ==
    LET drop == Max({0, QueueCount(p) - GlobalQueue})
        n == Cardinality(p.queue[a])
    IN  FoldLeft(LAMBDA q, t : RemoveTx(q, t, TRUE, TRUE), p,
                 IF n <= drop THEN ByNonce(p.queue[a]) ELSE Reverse(ByNonce(Cap(p.queue[a], n - drop))))

TruncateQueue(p) ==
    FoldLeft(TruncateAccount, p, SelectSeq(p.beats, LAMBDA a : p.queue[a] # {} /\ a \notin p.locals))

\* The end of runReorg; x is what promoteExecutables left.
Truncated(x, run, events, late, order) ==
    LET r == IF run.reset # <<>> THEN AfterReset(x.p, order) ELSE x.p
    IN  [p |-> [TruncateQueue(TruncatePending(r, order)) EXCEPT !.changes = 0, !.late = late],
         events |-> events \cup x.promoted]

\* The rest of runReorg; q is the pool after the reset, if there was one.
Promoted(p, q, run, order) ==
    LET isReset == run.reset # <<>>
    IN  Truncated(FoldLeft(Promote, [p |-> q, promoted |-> {}],
                           SelectSeq(order, LAMBDA a : isReset \/ a \in run.dirty)),
                  run,
                  {t \in run.events : isReset => Nonce[t] >= q.nonces[From[t]]},
                  IF isReset THEN {a \in Account : p.pending[a] # {}} ELSE p.late \ run.dirty,
                  order)

\* runReorg under the lock: [p, events].
Reorg(p, run, order) ==
    Promoted(p, IF run.reset # <<>> THEN Reset(p, run.reset[1], run.reset[2]) ELSE p, run, order)

-----------------------------------------------------------------------------
(* Steps *)

\* Add: known transactions and those below the tip are refused without the lock.
Add(t, local) ==
    /\ adder.pc = "idle" /\ adds < MaxAdds
    /\ t \notin pool.all /\ (local \/ Price[t] >= pool.tip)
    /\ adder' = [NoAdd EXCEPT !.pc = "checked", !.tx = t, !.local = local]
    /\ adds' = adds + 1
    /\ UNCHANGED <<pool, sched, cur, head, announced, resets>>

AddTxsLocked ==
    /\ adder.pc = "checked"
    /\ LET r == AddTx(pool, adder.tx, adder.local)
       IN  /\ pool' = r.p
           /\ adder' = [NoAdd EXCEPT !.pc = "ask",
                           !.dirty = IF r.ok /\ ~r.replaced THEN {From[adder.tx]} ELSE {}]
    /\ UNCHANGED <<sched, cur, head, announced, adds, resets>>

RequestPromoteExecutables ==
    /\ adder.pc = "ask"
    /\ sched' = [sched EXCEPT !.dirty = @ \cup adder.dirty, !.on = TRUE]
    /\ adder' = NoAdd
    /\ UNCHANGED <<pool, cur, head, announced, adds, resets>>

\* requestReset: TxPool.loop waits for one reset before it asks for the next.
RequestReset(b) ==
    /\ resets < MaxResets /\ b # head /\ sched.reset = <<>> /\ cur.reset = <<>>
    /\ sched' = [sched EXCEPT !.reset = <<head, b>>, !.on = TRUE]
    /\ head' = b /\ resets' = resets + 1
    /\ UNCHANGED <<pool, cur, adder, announced, adds>>

\* scheduleReorgLoop launches a run with what was requested so far.
Launch ==
    /\ ~cur.on /\ sched.on
    /\ cur' = [sched EXCEPT !.events = pool.events] /\ sched' = NoRun
    /\ pool' = [pool EXCEPT !.events = {}]
    /\ UNCHANGED <<adder, head, announced, adds, resets>>

RunReorg ==
    /\ cur.on
    /\ \E order \in SetToSeqs(Account) :
          LET r == Reorg(pool, cur, order)
          IN  pool' = r.p /\ announced' = announced \cup r.events
    /\ cur' = NoRun
    /\ UNCHANGED <<sched, adder, head, adds, resets>>

\* loop: the queues of accounts without a recent heartbeat, unless they are local.
Evict ==
    /\ \E k \in 1..Len(pool.beats) :
          pool' = FoldLeft(LAMBDA p, t : RemoveTx(p, t, TRUE, TRUE), pool,
                     FlattenSeq([i \in 1..k |-> IF pool.beats[i] \in pool.locals THEN <<>>
                                                ELSE ByNonce(pool.queue[pool.beats[i]])]))
    /\ UNCHANGED <<sched, cur, adder, head, announced, adds, resets>>

SetGasTip(tip) ==
    /\ tip # pool.tip
    /\ LET drop == IF tip > pool.tip THEN {t \in Remotes(pool) : Price[t] < tip} ELSE {}
           q == FoldLeft(LAMBDA p, t : RemoveTx(p, t, FALSE, TRUE), [pool EXCEPT !.tip = tip], SetToSeq(drop))
       IN  pool' = IF tip > pool.tip THEN Removed(q, Cardinality(drop)) ELSE q
    /\ UNCHANGED <<sched, cur, adder, head, announced, adds, resets>>

\* The other pool reserves or releases an address.
OtherPool(a) ==
    /\ a \notin pool.reserved
    /\ pool' = [pool EXCEPT !.taken = IF a \in @ THEN @ \ {a} ELSE @ \cup {a}]
    /\ UNCHANGED <<sched, cur, adder, head, announced, adds, resets>>

Init ==
    /\ pool = NewPool /\ sched = NoRun /\ cur = NoRun /\ adder = NoAdd
    /\ head = Start /\ announced = {} /\ adds = 0 /\ resets = 0

Next ==
    \/ \E t \in Tx : Add(t, FALSE)
    \/ \E t \in LocalTx : Add(t, TRUE)
    \/ AddTxsLocked
    \/ RequestPromoteExecutables
    \/ \E b \in Block : RequestReset(b)
    \/ Launch
    \/ RunReorg
    \/ Evict
    \/ \E tip \in Tips : SetGasTip(tip)
    \/ \E a \in Shared : OtherPool(a)

Spec == Init /\ [][Next]_vars

-----------------------------------------------------------------------------
Queued(p) == UNION {p.queue[a] : a \in Account}
Pending(p) == UNION {p.pending[a] : a \in Account}
Idle == ~sched.on /\ ~cur.on /\ adder.pc # "ask"

\* "Ensure the total transaction set is consistent with pending + queued"
\* (legacypool_test.go:203): every transaction is in one list, under its own nonce.
Consistent ==
    /\ pool.all = Pending(pool) \cup Queued(pool)
    /\ \A a \in Account : \A t \in pool.pending[a] \cup pool.queue[a] :
          From[t] = a /\ At(pool.pending[a] \cup pool.queue[a], Nonce[t]) = {t}
    /\ Pending(pool) \cap Queued(pool) = {}

\* Every remote transaction can be found by price, or a full pool could never drop it.
RemotesPriced == Remotes(pool) \subseteq Range(pool.urgent) \cup Range(pool.floating)

\* The reserver is never misused and an address is reserved while it has transactions.
ReservedWhileTracked ==
    /\ ~pool.fault /\ pool.reserved \cap pool.taken = {}
    /\ pool.reserved = {a \in Account : Tracked(pool, a)}

\* A queue without a heartbeat would be the first to be evicted, whatever its age.
QueuesHaveBeats == \A a \in Account : pool.queue[a] # {} => Contains(pool.beats, a)

\* Only local transactions take the pool over its limit.
WithinSlots == Cardinality(pool.all) <= Slots \/ pool.loc # {}

\* An executable transaction has been announced, or the next run will announce it.
PendingAnnounced == Pending(pool) \subseteq announced \cup pool.events \cup cur.events

\* "Check for pending transactions for every account that sent new ones"
\* (legacypool.go:1370): without a request under way none waits in the queue for its turn,
\* but for an account that a reset found with executable transactions: the reset forgets
\* their nonces before it looks at the queue.
Waiting(a) == Ready(pool.queue[a], pool.nonces[a]) # {}
ReadyPromotedUnlessReset == Idle => \A a \in Account \ pool.late : ~Waiting(a)

\* "Ensure the next nonce to assign is the correct one" (legacypool_test.go:213)
NextNonceOf(a) == pool.pending[a] # {} => pool.nonces[a] = Nonce[LastElement(pool.pending[a])] + 1

\* The executable transactions of an account follow its state without a gap, and the next
\* nonce follows them, unless a reorg could not put all of its transactions back.
NoGap ==
    \A a \in Account \ pool.short :
        /\ NextNonceOf(a)
        /\ \A t \in pool.pending[a] : \A n \in StateNonce(pool.head, a)..Nonce[t] : At(pool.pending[a], n) # {}

Safety ==
    /\ Consistent /\ RemotesPriced /\ ReservedWhileTracked /\ QueuesHaveBeats
    /\ WithinSlots /\ PendingAnnounced /\ ReadyPromotedUnlessReset /\ NoGap
=============================================================================
