------------------------------ MODULE BlobPool ------------------------------
(***************************************************************************)
(* The pool of blob transactions (core/txpool/blobpool).  Transactions     *)
(* live in a disk store with an index in memory; once included they are    *)
(* kept in a second store, the limbo, until their block is final.  The     *)
(* stores do not journal deletions: a crash may bring deleted entries      *)
(* back.  A transaction has one price for its tip and both fee caps and    *)
(* takes one unit of the data cap; the pool's lock makes calls atomic.     *)
(***************************************************************************)
EXTENDS Integers, SequencesExt, FiniteSetsExt

CONSTANTS
    Account, Tx, From, Nonce, Price, Cost,
    Block, Genesis, Parent, Number, Body, Balance,
    Datacap, MaxTxsPerAccount, PriceBump, Tips,
    Shared,            \* accounts the other pool may reserve
    MaxSteps           \* bound on calls, heads and restarts

VARIABLES
    store, limbo,      \* on disk: transactions; transactions |-> block number
    gone,              \* deletions that a crash may undo: store and limbo entries
    pool,              \* in memory: index, head, tip, and the reserver's state
    final,             \* the last accepted block
    kept,              \* transactions the pool saw included and not yet final, but for those
                       \* that a reorg took from one block to another
    steps

vars == <<store, limbo, gone, pool, final, kept, steps>>

NewPool(b) == [index |-> [a \in Account |-> <<>>], head |-> b, tip |-> 0,
               reserved |-> {}, taken |-> {}, fault |-> FALSE]

RECURSIVE Chain(_)
Chain(b) == IF b = Genesis THEN <<b>> ELSE Append(Chain(Parent[b]), b)

Txs(branch) == FlattenSeq([i \in DOMAIN branch |-> Body[branch[i]]])
StateNonce(b, a) == Len(SelectSeq(Txs(Chain(b)), LAMBDA t : From[t] = a))

Indexed(p) == UNION {Range(p.index[a]) : a \in Account}
TotalCost(s) == FoldLeft(LAMBDA n, t : n + Cost[t], 0, s)
Unreserve(p, a) == [p EXCEPT !.reserved = @ \ {a}, !.fault = @ \/ a \notin p.reserved]
Reserve(p, a) == [p EXCEPT !.reserved = @ \cup {a}, !.fault = @ \/ a \in p.reserved]

-----------------------------------------------------------------------------
(* A state s is the record [p, store, limbo] a call works on. *)

Deleted(s, S) == [s EXCEPT !.store = @ \ S]

\* limbo.push and setAndIndex: nothing happens for a transaction that is there already.
Offload(s, t, inclusions) ==
    IF t \in DOMAIN inclusions /\ t \notin DOMAIN s.limbo
    THEN [s EXCEPT !.limbo = @ @@ (t :> inclusions[t])] ELSE s

\* limbo.pull
Pulled(l, t) == [u \in DOMAIN l \ {t} |-> l[u]]

\* (A variant that keeps two transactions of one nonce.)
ConsecutiveOrEqual(txs) ==
    LET Step(run, t) == IF Nonce[t] <= Nonce[Last(run)] + 1 THEN Append(run, t) ELSE run
    IN  FoldLeft(Step, SubSeq(txs, 1, 1), Tail(txs))

\* The transactions that may stay: consecutive nonces, paid for, within the account's cap.
Consecutive(txs) ==
    LET Step(run, t) == IF Nonce[t] = Nonce[Last(run)] + 1 THEN Append(run, t) ELSE run
    IN  FoldLeft(Step, SubSeq(txs, 1, 1), Tail(txs))

Affordable(txs, balance) ==
    SubSeq(txs, 1, Max({n \in 0..Len(txs) : TotalCost(SubSeq(txs, 1, n)) <= balance}))

Capped(txs) == SubSeq(txs, 1, Min({Len(txs), MaxTxsPerAccount}))

\* recheck: filled transactions go to the limbo during a reorg; a gap behind the state
\* drops the account.
Recheck(s, a, inclusions) ==
    LET next == StateNonce(s.p.head, a)
        txs == SortSeq(s.p.index[a], LAMBDA x, y : Nonce[x] < Nonce[y])
        old == SelectSeq(txs, LAMBDA t : Nonce[t] < next)
        new == SelectSeq(txs, LAMBDA t : Nonce[t] >= next)
        left == IF new = <<>> \/ Nonce[txs[1]] > next THEN <<>>
                ELSE Capped(Affordable(Consecutive(new), Balance[s.p.head][a]))
        q == FoldLeft(LAMBDA r, t : Offload(r, t, inclusions), s, old)
        r == Deleted([q EXCEPT !.p.index[a] = left], Range(txs) \ Range(left))
    IN  IF txs = <<>> THEN s
        ELSE IF left = <<>> THEN [r EXCEPT !.p = Unreserve(@, a)] ELSE r

\* The account whose cheapest transaction is the cheapest of all (evictHeap).
Bottleneck(txs) == Min({Price[t] : t \in Range(txs)})
Worst(p) == CHOOSE a \in Account :
    /\ p.index[a] # <<>>
    /\ \A b \in Account : p.index[b] = <<>> \/ Bottleneck(p.index[a]) <= Bottleneck(p.index[b])

RECURSIVE DropOverflow(_)
\* drop, until the data cap is respected.
DropOverflow(s) ==
    IF Cardinality(Indexed(s.p)) <= Datacap THEN s
    ELSE LET a == Worst(s.p)
             r == Deleted([s EXCEPT !.p.index[a] = Front(@)], {Last(s.p.index[a])})
         IN  DropOverflow(IF r.p.index[a] = <<>> THEN [r EXCEPT !.p = Unreserve(@, a)] ELSE r)

-----------------------------------------------------------------------------
(* add *)

Offset(p, t) == Nonce[t] - StateNonce(p.head, From[t])
Replaces(p, t) == Offset(p, t) < Len(p.index[From[t]])

ValidateTx(p, t) ==
    LET a == From[t]
        prev == p.index[a][Offset(p, t) + 1]
        spent == TotalCost(p.index[a])
        balance == Balance[p.head][a]
    IN  /\ Price[t] >= p.tip
        /\ Offset(p, t) \in 0..Len(p.index[a])
        /\ Cost[t] <= balance
        /\ IF Replaces(p, t)
           THEN /\ spent - Cost[prev] + Cost[t] <= balance
                /\ Price[t] > Price[prev] /\ Price[t] >= (Price[prev] * (100 + PriceBump)) \div 100
           ELSE spent + Cost[t] <= balance /\ Len(p.index[a]) < MaxTxsPerAccount

Insert(s, t) ==
    LET a == From[t]
        k == Offset(s.p, t) + 1
        r == [s EXCEPT !.store = @ \cup {t}]
        q == IF s.p.index[a] = <<>> THEN [r EXCEPT !.p = Reserve(@, a)] ELSE r
    IN  IF Replaces(s.p, t)
        THEN Deleted([q EXCEPT !.p.index[a][k] = t], {s.p.index[a][k]})
        ELSE [q EXCEPT !.p.index[a] = Append(@, t)]

-----------------------------------------------------------------------------
(* Reset *)

Common(b, c) == LET A == Range(Chain(b)) \cap Range(Chain(c))
                IN  CHOOSE x \in A : \A y \in A : Number[y] <= Number[x]
Above(b, c) == SelectSeq(Chain(b), LAMBDA x : Number[x] > Number[c])

Inclusions(old, new) ==
    LET add == Above(new, Common(old, new))
    IN  [t \in Range(Txs(add)) |-> Number[CHOOSE x \in Range(add) : t \in Range(Body[x])]]

\* reinject: without its blobs, or on a reserved address, the transaction is lost.
Reinject(s, t) ==
    LET a == From[t]
        q == [s EXCEPT !.limbo = Pulled(@, t), !.store = @ \cup {t}]
        r == [q EXCEPT !.p.index[a] = Append(@, t)]
    IN  IF t \notin DOMAIN s.limbo THEN s
        ELSE IF s.p.index[a] # <<>> THEN r
        ELSE IF a \in s.p.taken THEN q
        ELSE [r EXCEPT !.p = Reserve(@, a)]

\* A transaction new to the branch moves to the block that includes it (limbo.update).
UpdateLimbo(s, fresh, inclusions) ==
    [s EXCEPT !.limbo = [t \in DOMAIN @ |-> IF t \in fresh THEN inclusions[t] ELSE @[t]]]

\* limbo.finalize
Finalized(l, n) == [t \in {u \in DOMAIN l : l[u] > n} |-> l[t]]

Reorg(s, old, new) ==
    LET incl == Inclusions(old, new)
        removed == Txs(Reverse(Above(old, Common(old, new))))
        lost == SelectSeq(removed, LAMBDA t : t \notin DOMAIN incl)
        transactors == {From[t] : t \in Range(removed) \cup DOMAIN incl}
        moved == UpdateLimbo([s EXCEPT !.p.head = new], DOMAIN incl \ Range(removed), incl)
        OneAccount(r, a) ==
            Recheck(FoldLeft(Reinject, r, SelectSeq(lost, LAMBDA t : From[t] = a)), a, incl)
        done == FoldLeft(OneAccount, moved, SetToSeq(transactors))
    IN  [done EXCEPT !.limbo = Finalized(@, Number[final])]

-----------------------------------------------------------------------------
(* Steps *)

Apply(s) ==
    /\ pool' = s.p /\ store' = s.store /\ limbo' = s.limbo
    /\ gone' = [tx |-> (gone.tx \cup store) \ s.store,
                limbo |-> gone.limbo \cup {<<t, limbo[t]>> : t \in DOMAIN limbo \ DOMAIN s.limbo}]
    /\ steps' = steps + 1

Now == [p |-> pool, store |-> store, limbo |-> limbo]

Add(t) ==
    /\ steps < MaxSteps
    /\ ValidateTx(pool, t) /\ (pool.index[From[t]] = <<>> => From[t] \notin pool.taken)
    /\ Apply(DropOverflow(Insert(Now, t)))
    /\ UNCHANGED <<final, kept>>

\* The head moves, never behind the last accepted block.
Reset(b) ==
    /\ steps < MaxSteps /\ b # pool.head /\ final \in Range(Chain(b))
    /\ Apply(Reorg(Now, pool.head, b))
    /\ kept' = LET fork == Common(pool.head, b)
                   twice == Range(Txs(Above(pool.head, fork))) \cap Range(Txs(Above(b, fork)))
               IN  ((kept \cup Indexed(pool)) \cap Range(Txs(Above(b, final)))) \ twice
    /\ UNCHANGED final

Accept(b) ==
    /\ b # Genesis /\ Parent[b] = final /\ b \in Range(Chain(pool.head))
    /\ final' = b
    /\ kept' = kept \ Range(Body[b])
    /\ UNCHANGED <<store, limbo, gone, pool, steps>>

\* SetGasTip: the first transaction below the tip takes the later ones with it.
Priced(txs, tip) == SubSeq(txs, 1, Min({Len(txs)} \cup {i - 1 : i \in {j \in DOMAIN txs : Price[txs[j]] < tip}}))
DropUnderpriced(s, a) ==
    LET left == Priced(s.p.index[a], s.p.tip)
        r == Deleted([s EXCEPT !.p.index[a] = left], Range(s.p.index[a]) \ Range(left))
    IN  IF left = <<>> /\ s.p.index[a] # <<>> THEN [r EXCEPT !.p = Unreserve(@, a)] ELSE r
WithTip(s, tip) ==
    LET r == [s EXCEPT !.p.tip = tip]
    IN  IF tip > s.p.tip THEN FoldLeft(DropUnderpriced, r, SetToSeq(Account)) ELSE r

SetGasTip(tip) ==
    /\ steps < MaxSteps /\ tip # pool.tip
    /\ Apply(WithTip(Now, tip))
    /\ UNCHANGED <<final, kept>>

OtherPool(a) ==
    /\ a \notin pool.reserved
    /\ pool' = [pool EXCEPT !.taken = IF a \in @ THEN @ \ {a} ELSE @ \cup {a}]
    /\ UNCHANGED <<store, limbo, gone, final, kept, steps>>

\* parseTransaction
Parse(s, t) ==
    LET a == From[t]
        r == [s EXCEPT !.p.index[a] = Append(@, t)]
    IN  IF s.p.index[a] # <<>> THEN r
        ELSE IF a \in s.p.taken THEN Deleted(s, {t})
        ELSE [r EXCEPT !.p = Reserve(@, a)]

\* Init after a restart at the last accepted block, from the disk as it was found.
Loaded(order, l, tip) ==
    LET fresh == [p |-> [NewPool(final) EXCEPT !.taken = pool.taken], store |-> Range(order), limbo |-> l]
        parsed == FoldLeft(Parse, fresh, order)
        checked == FoldLeft(LAMBDA s, a : Recheck(s, a, <<>>), parsed, SetToSeq(Account))
    IN  DropOverflow(WithTip(checked, tip))

Resurrected(l, back) ==
    l @@ [t \in {e[1] : e \in back} |-> Min({e[2] : e \in {f \in back : f[1] = t}})]

Restart(lost, back) ==
    /\ steps < MaxSteps
    /\ \E order \in SetToSeqs(store \cup lost) : \E tip \in {pool.tip} :
          LET s == Loaded(order, Resurrected(limbo, back), tip)
          IN  pool' = s.p /\ store' = s.store /\ limbo' = s.limbo
    /\ gone' = [tx |-> {}, limbo |-> {}]
    /\ kept' = {}
    /\ steps' = steps + 1
    /\ UNCHANGED final

Init ==
    /\ store = {} /\ limbo = [t \in {} |-> 0] /\ gone = [tx |-> {}, limbo |-> {}]
    /\ pool = NewPool(Genesis) /\ final = Genesis /\ kept = {} /\ steps = 0

Next ==
    \/ \E t \in Tx : Add(t)
    \/ \E b \in Block : Reset(b) \/ Accept(b)
    \/ \E tip \in Tips : SetGasTip(tip)
    \/ \E a \in Shared : OtherPool(a)
    \/ Restart({}, {})
    \/ \E lost \in SUBSET gone.tx, back \in SUBSET gone.limbo : Restart(lost, back)

Spec == Init /\ [][Next]_vars

-----------------------------------------------------------------------------
\* validateTx and add find the transaction of a nonce by its distance from the state:
\* the index of an account follows the state of the head without a gap, through reorgs,
\* restarts and deletions that a crash undid.
IndexFollowsState ==
    \A a \in Account : \A i \in DOMAIN pool.index[a] :
        /\ From[pool.index[a][i]] = a
        /\ Nonce[pool.index[a][i]] = StateNonce(pool.head, a) + i - 1

\* What the pool would have an account pay never exceeds its balance.
NoOverdraft == \A a \in Account : TotalCost(pool.index[a]) <= Balance[pool.head][a]

\* Every indexed transaction has its blobs in the store.
Stored == Indexed(pool) \subseteq store

\* The reserver is used correctly; an address is reserved while it has transactions.
Reserved ==
    /\ ~pool.fault /\ pool.reserved \cap pool.taken = {}
    /\ pool.reserved = {a \in Account : pool.index[a] # <<>>}

\* "blobs are retained on disk until they are finalised" (blobpool.go:206): a transaction
\* the pool saw included is in the limbo, under the number of the block that includes it.
BlobsKept ==
    \A t \in kept :
        /\ t \in DOMAIN limbo
        /\ \E b \in Range(Chain(pool.head)) : t \in Range(Body[b]) /\ limbo[t] = Number[b]

Safety == IndexFollowsState /\ NoOverdraft /\ Stored /\ Reserved /\ BlobsKept
=============================================================================
