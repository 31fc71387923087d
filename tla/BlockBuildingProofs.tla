--------------------------- MODULE BlockBuildingProofs ---------------------------
(***************************************************************************)
(* The atomic mempool keeps its maps consistent, bounded and complete, and *)
(* the blocks built from it spend no UTXO twice, for every set of          *)
(* transactions, every size of the pool and of its cache, and any number   *)
(* of processing blocks.                                                   *)
(***************************************************************************)
EXTENDS BlockBuilding, FiniteSetTheorems, TLAPS

Pool == [heap : SUBSET Tx, current : SUBSET Tx, issued : SUBSET Tx,
         discarded : SUBSET Tx, spenders : [Utxo -> Tx \cup {NoTx}],
         pending : BOOLEAN]

\* What every operation of the mempool keeps, given the UTXOs whose entry the
\* removal of another transaction may have taken.
PoolInv(p, orphans) ==
    /\ p \in Pool
    /\ p.heap \cap (p.current \cup p.issued) = {} /\ p.current \cap p.issued = {}
    /\ p.discarded \cap Known(p) = {}
    /\ IsFiniteSet(Known(p)) /\ IsFiniteSet(p.discarded)
    /\ Cardinality(Known(p)) <= maxSize
    /\ \A u \in Utxo : p.spenders[u] # NoTx =>
          p.spenders[u] \in Known(p) /\ u \in InputUTXOs[p.spenders[u]]
    /\ \A tx \in Known(p) : \A u \in InputUTXOs[tx] :
          p.spenders[u] = tx \/ u \in orphans

\* From one pool to the next no transaction is forgotten, or the cache of
\* discarded ones is full.
Held(p) == Known(p) \cup p.discarded
Full(p) == Cardinality(p.discarded) >= discardedTxsCacheSize
Keeps(p, q) == Full(q) \/ (Held(p) \subseteq Held(q) /\ p.discarded \subseteq q.discarded)

-----------------------------------------------------------------------------
(* Sizes.                                                                  *)

\* A subset of a finite set is finite and no larger.
LEMMA FiniteSubset ==
    ASSUME NEW S, IsFiniteSet(S), NEW T, T \subseteq S
    PROVE  IsFiniteSet(T) /\ Cardinality(T) \in Nat /\ Cardinality(S) \in Nat
           /\ Cardinality(T) <= Cardinality(S)
BY Zenon, FS_Subset, FS_CardinalityType

\* Keeps composes: a full cache stays full when nothing leaves it.
LEMMA KeepsTransitive ==
    ASSUME NEW p, NEW q, NEW r, Keeps(p, q), Keeps(q, r), IsFiniteSet(r.discarded)
    PROVE  Keeps(p, r)
<1>1. CASE Full(r)
    BY Zenon, <1>1 DEF Keeps
<1>2. CASE ~Full(r)
    <2>1. Held(q) \subseteq Held(r) /\ q.discarded \subseteq r.discarded
        BY Zenon, <1>2 DEF Keeps
    <2>2. Cardinality(q.discarded) <= Cardinality(r.discarded)
          /\ Cardinality(q.discarded) \in Nat /\ Cardinality(r.discarded) \in Nat
        BY Zenon, <2>1, FiniteSubset
    <2>3. ~Full(q)
        BY <1>2, <2>2, MempoolConfig DEF Full
    <2> QED
        BY Zenon, <2>1, <2>3 DEF Keeps
<1> QED
    BY Zenon, <1>1, <1>2

\* The cache after an insertion holds everything, or is full.
LEMMA CachedContents ==
    ASSUME NEW old, NEW txs, IsFiniteSet(old), IsFiniteSet(txs), NEW c \in Cached(old, txs)
    PROVE  /\ c \subseteq old \cup txs /\ IsFiniteSet(c)
           /\ old \cup txs \subseteq c \/ Cardinality(c) >= discardedTxsCacheSize
           /\ txs \subseteq c \/ c \subseteq txs
<1>1. IsFiniteSet(old \cup txs)
    BY FS_Union, Zenon
<1>2. c \subseteq old \cup txs
    BY Zenon DEF Cached
<1>3. IsFiniteSet(c) /\ Cardinality(c) \in Nat
    BY Zenon, <1>1, <1>2, FiniteSubset
<1> QED
    BY <1>1, <1>2, <1>3, MempoolConfig DEF Cached

-----------------------------------------------------------------------------
(* The operations of the mempool.                                          *)

\* Putting transactions that have left into the cache.
LEMMA DiscardKeepsInv ==
    ASSUME NEW orphans, NEW p, PoolInv(p, orphans),
           NEW txs \in SUBSET Tx, IsFiniteSet(txs), txs \cap Known(p) = {},
           NEW q \in Discard(p, txs)
    PROVE  /\ PoolInv(q, orphans) /\ Keeps(p, q) /\ (Full(q) \/ txs \subseteq Held(q))
           /\ q.heap = p.heap /\ q.current = p.current /\ q.issued = p.issued
           /\ q.spenders = p.spenders /\ q.discarded \subseteq p.discarded \cup txs
           /\ txs \subseteq q.discarded \/ q.discarded \subseteq txs
<1>1. PICK c \in Cached(p.discarded, txs) : q = [p EXCEPT !.discarded = c]
    BY Zenon DEF Discard
<1>2. p \in Pool /\ IsFiniteSet(p.discarded)
    BY Zenon DEF PoolInv
<1>3. /\ c \subseteq p.discarded \cup txs /\ IsFiniteSet(c)
      /\ p.discarded \cup txs \subseteq c \/ Cardinality(c) >= discardedTxsCacheSize
      /\ txs \subseteq c \/ c \subseteq txs
    BY <1>2, CachedContents
<1>4. /\ q.discarded = c /\ q \in Pool
      /\ q.heap = p.heap /\ q.current = p.current /\ q.issued = p.issued
      /\ q.spenders = p.spenders
    BY Zenon, <1>1, <1>2, <1>3 DEF Pool
<1>5. Known(q) = Known(p)
    BY Zenon, <1>4 DEF Known
<1>6. PoolInv(q, orphans)
    BY Zenon, <1>3, <1>4, <1>5 DEF PoolInv
<1> QED
    BY Zenon, <1>3, <1>4, <1>5, <1>6 DEF Keeps, Held, Full

\* The entries that other transactions lose when txs are taken out are among
\* the given orphans.
LosesOnly(p, txs, orphans) ==
    \A t \in Known(p) \ txs : \A u \in InputUTXOs[t] : u \in Spent(txs) => u \in orphans

\* Taking transactions out.
LEMMA WithoutKeepsInv ==
    ASSUME NEW orphans, NEW p, PoolInv(p, orphans), NEW txs, NEW more,
           orphans \subseteq more, LosesOnly(p, txs, more)
    PROVE  LET q == Without(p, txs)
           IN /\ PoolInv(q, more) /\ Known(q) = Known(p) \ txs
              /\ q.heap = p.heap \ txs /\ q.current = p.current \ txs
              /\ q.issued = p.issued \ txs /\ q.discarded = p.discarded
              /\ \A u \in Utxo : q.spenders[u] = IF u \in Spent(txs) THEN NoTx ELSE p.spenders[u]
<1> DEFINE q == Without(p, txs)
<1>1. p \in Pool /\ p.spenders \in [Utxo -> Tx \cup {NoTx}]
    BY Zenon DEF PoolInv, Pool
<1>2. /\ q \in Pool
      /\ q.heap = p.heap \ txs /\ q.current = p.current \ txs
      /\ q.issued = p.issued \ txs /\ q.discarded = p.discarded
      /\ \A u \in Utxo : q.spenders[u] = IF u \in Spent(txs) THEN NoTx ELSE p.spenders[u]
    BY <1>1, Zenon DEF Without, removeSpenders, Pool
<1>3. Known(q) = Known(p) \ txs
    BY Zenon, <1>2 DEF Known
<1>4. IsFiniteSet(Known(q)) /\ Cardinality(Known(q)) <= maxSize
    <2>1. /\ IsFiniteSet(Known(q)) /\ Cardinality(Known(q)) \in Nat
          /\ Cardinality(Known(p)) \in Nat /\ Cardinality(Known(q)) <= Cardinality(Known(p))
        BY Zenon, <1>3, FiniteSubset DEF PoolInv
    <2>2. Cardinality(Known(p)) <= maxSize
        BY Zenon DEF PoolInv
    <2> QED
        BY <2>1, <2>2, MempoolConfig
<1>5. ASSUME NEW u \in Utxo, q.spenders[u] # NoTx
      PROVE  q.spenders[u] \in Known(q) /\ u \in InputUTXOs[q.spenders[u]]
    <2>1. u \notin Spent(txs) /\ q.spenders[u] = p.spenders[u]
        BY Zenon, <1>2, <1>5
    <2>2. p.spenders[u] \in Known(p) /\ u \in InputUTXOs[p.spenders[u]]
        BY Zenon, <2>1, <1>5 DEF PoolInv
    <2>3. p.spenders[u] \notin txs
        BY Zenon, <2>1, <2>2 DEF Spent
    <2> QED
        BY Zenon, <2>1, <2>2, <2>3, <1>3
<1>6. ASSUME NEW tx \in Known(q), NEW u \in InputUTXOs[tx]
      PROVE  q.spenders[u] = tx \/ u \in more
    <2>1. tx \in Known(p) \ txs /\ tx \in Tx
        BY Zenon, <1>3, <1>1 DEF Known, Pool
    <2>2. u \in Utxo
        BY Zenon, <2>1, MempoolConfig
    <2>3. p.spenders[u] = tx \/ u \in orphans
        BY Zenon, <2>1 DEF PoolInv
    <2> QED
        BY Zenon, <2>1, <2>2, <2>3, <1>2 DEF LosesOnly
<1>7. /\ q.heap \cap (q.current \cup q.issued) = {} /\ q.current \cap q.issued = {}
      /\ q.discarded \cap Known(q) = {} /\ IsFiniteSet(q.discarded)
    BY Zenon, <1>2, <1>3 DEF PoolInv
<1>8. PoolInv(q, more)
    BY Zenon, <1>2, <1>4, <1>5, <1>6, <1>7 DEF PoolInv
<1> QED
    BY Zenon, <1>2, <1>3, <1>8

\* Two transactions of the mempool with a common input make it an orphan.
LEMMA CommonInputsAreOrphans ==
    ASSUME NEW orphans, NEW p, PoolInv(p, orphans), NEW txs, txs \subseteq Known(p),
           NEW t \in Known(p) \ txs, NEW u \in InputUTXOs[t], u \in Spent(txs)
    PROVE  u \in orphans
<1>1. PICK s \in txs : u \in InputUTXOs[s]
    BY Zenon DEF Spent
<1>2. s \in Known(p) /\ s # t
    BY Zenon, <1>1
<1>3. /\ p.spenders[u] = s \/ u \in orphans
      /\ p.spenders[u] = t \/ u \in orphans
    BY Zenon, <1>1, <1>2 DEF PoolInv
<1> QED
    BY Zenon, <1>2, <1>3

\* removeTx(tx, true) of transactions of the mempool.
LEMMA RemoveAllKeepsInv ==
    ASSUME NEW orphans, NEW p, PoolInv(p, orphans), NEW txs, txs \subseteq Known(p),
           NEW q \in RemoveAll(p, txs)
    PROVE  /\ PoolInv(q, orphans) /\ Keeps(p, q)
           /\ q.heap = p.heap \ txs /\ q.current = p.current \ txs
           /\ q.issued = p.issued \ txs /\ Known(q) = Known(p) \ txs
           /\ q.discarded \subseteq p.discarded \cup txs
           /\ \A u \in Utxo : q.spenders[u] = IF u \in Spent(txs) THEN NoTx ELSE p.spenders[u]
<1> DEFINE w == Without(p, txs)
<1>1. /\ PoolInv(w, orphans) /\ Known(w) = Known(p) \ txs
      /\ w.heap = p.heap \ txs /\ w.current = p.current \ txs
      /\ w.issued = p.issued \ txs /\ w.discarded = p.discarded
      /\ \A u \in Utxo : w.spenders[u] = IF u \in Spent(txs) THEN NoTx ELSE p.spenders[u]
    <2>1. LosesOnly(p, txs, orphans)
        BY Zenon, CommonInputsAreOrphans DEF LosesOnly
    <2> QED
        BY <2>1, WithoutKeepsInv
<1>2. txs \in SUBSET Tx /\ IsFiniteSet(txs)
    <2>1. IsFiniteSet(Known(p)) /\ Known(p) \subseteq Tx
        BY Zenon DEF PoolInv, Known, Pool
    <2> QED
        BY Zenon, <2>1, FiniteSubset
<1>3. q \in Discard(w, txs)
    BY Zenon DEF RemoveAll

<1>4. /\ PoolInv(q, orphans) /\ Keeps(w, q) /\ (Full(q) \/ txs \subseteq Held(q))
      /\ q.heap = w.heap /\ q.current = w.current /\ q.issued = w.issued
      /\ q.spenders = w.spenders /\ q.discarded \subseteq w.discarded \cup txs
    BY <1>1, <1>2, <1>3, DiscardKeepsInv
<1>5. Known(q) = Known(w)
    BY Zenon, <1>4 DEF Known
<1>6. Keeps(p, q)
    BY Zenon, <1>1, <1>4, <1>5 DEF Keeps, Held
<1> QED
    BY Zenon, <1>1, <1>4, <1>5, <1>6

\* Room for one more, with no block being built.
LEMMA MadeRoomKeepsInv ==
    ASSUME NEW orphans, NEW p, PoolInv(p, orphans), p.current = {}, NEW tx,
           NEW q \in MadeRoom(p, tx)
    PROVE  /\ PoolInv(q, orphans) /\ Keeps(p, q) /\ q.current = {}
           /\ Known(q) \subseteq Known(p) /\ Cardinality(Known(q)) < maxSize
           /\ q.discarded \subseteq p.discarded \cup Known(p)
           /\ \A u \in Utxo : p.spenders[u] = NoTx => q.spenders[u] = NoTx
<1>1. /\ IsFiniteSet(p.heap) /\ IsFiniteSet(p.issued)
      /\ Cardinality(Known(p)) = length(p)
    <2>1. /\ Known(p) = p.heap \cup p.issued /\ p.heap \cap p.issued = {}
          /\ IsFiniteSet(Known(p))
        BY Zenon DEF PoolInv, Known
    <2>2. IsFiniteSet(p.heap) /\ IsFiniteSet(p.issued)
        BY Zenon, <2>1, FiniteSubset
    <2>3. Cardinality(p.heap \cup p.issued) =
              Cardinality(p.heap) + Cardinality(p.issued) - Cardinality(p.heap \cap p.issued)
        BY Zenon, <2>2, FS_Union
    <2>4. Cardinality(p.heap) \in Nat /\ Cardinality(p.issued) \in Nat
        BY Zenon, <2>2, FS_CardinalityType
    <2>5. Cardinality(p.heap \cap p.issued) = 0
        BY Zenon, <2>1, FS_EmptySet
    <2> QED
        BY <2>1, <2>2, <2>3, <2>4, <2>5 DEF length
<1>2. CASE length(p) < maxSize
    <2>1. q = p
        BY Zenon, <1>2 DEF MadeRoom
    <2> QED
        BY Zenon, <2>1, <1>1, <1>2 DEF Keeps
<1>3. CASE ~(length(p) < maxSize)
    <2>1. PICK minTx \in p.heap : q \in RemoveAll(p, {minTx})
        BY Zenon, <1>3 DEF MadeRoom, MinHeap
    <2>2. {minTx} \subseteq Known(p)
        BY Zenon DEF Known
    <2>3. /\ PoolInv(q, orphans) /\ Keeps(p, q)
          /\ q.current = p.current \ {minTx} /\ Known(q) = Known(p) \ {minTx}
          /\ q.discarded \subseteq p.discarded \cup {minTx}
          /\ \A u \in Utxo : q.spenders[u] = IF u \in Spent({minTx}) THEN NoTx ELSE p.spenders[u]
        BY <2>1, <2>2, RemoveAllKeepsInv
    <2>4. Cardinality(Known(q)) = Cardinality(Known(p)) - 1
        BY Zenon, <2>2, <2>3, FS_RemoveElement DEF PoolInv
    <2>5. Cardinality(Known(p)) \in Nat /\ Cardinality(Known(p)) <= maxSize
        BY Zenon, FS_CardinalityType DEF PoolInv
    <2>6. Cardinality(Known(q)) < maxSize
        BY <2>4, <2>5, MempoolConfig
    <2> QED
        BY Zenon, <2>2, <2>3, <2>6
<1> QED
    BY Zenon, <1>2, <1>3

\* Adding a transaction none of whose inputs has an entry.
LEMMA PushKeepsInv ==
    ASSUME NEW orphans, NEW p, PoolInv(p, orphans), p.current = {},
           NEW tx \in Tx, tx \notin Known(p), Cardinality(Known(p)) < maxSize,
           \A u \in InputUTXOs[tx] : p.spenders[u] = NoTx
    PROVE  LET q == Push(p, tx)
           IN /\ PoolInv(q, orphans) /\ q.current = {} /\ Known(q) = Known(p) \cup {tx}
              /\ q.discarded = p.discarded \ {tx}
<1> DEFINE q == Push(p, tx)
<1>1. p \in Pool /\ p.spenders \in [Utxo -> Tx \cup {NoTx}]
    BY SMTT(30) DEF PoolInv, Pool
<1>2. /\ q \in Pool
      /\ q.heap = p.heap \cup {tx} /\ q.current = p.current /\ q.issued = p.issued
      /\ q.discarded = p.discarded \ {tx}
      /\ q.spenders = [u \in Utxo |-> IF u \in InputUTXOs[tx] THEN tx ELSE p.spenders[u]]
    BY <1>1, Zenon DEF Push, addPending, Evict, Pool
<1>3. Known(q) = Known(p) \cup {tx}
    BY Zenon, <1>2 DEF Known
<1>4. IsFiniteSet(Known(q)) /\ Cardinality(Known(q)) <= maxSize
    <2>1. /\ IsFiniteSet(Known(p)) /\ Cardinality(Known(p)) \in Nat
          /\ Cardinality(Known(p) \cup {tx}) = Cardinality(Known(p)) + 1
          /\ IsFiniteSet(Known(p) \cup {tx})
        BY Zenon, FS_AddElement, FS_CardinalityType DEF PoolInv
    <2> QED
        BY <2>1, <1>3, MempoolConfig
<1>5. ASSUME NEW u \in Utxo, q.spenders[u] # NoTx
      PROVE  q.spenders[u] \in Known(q) /\ u \in InputUTXOs[q.spenders[u]]
    <2>1. CASE u \in InputUTXOs[tx]
        BY Zenon, <2>1, <1>2, <1>3
    <2>2. CASE u \notin InputUTXOs[tx]
        <3>1. q.spenders[u] = p.spenders[u]
            BY Zenon, <2>2, <1>2
        <3>2. p.spenders[u] \in Known(p) /\ u \in InputUTXOs[p.spenders[u]]
            BY Zenon, <3>1, <1>5 DEF PoolInv
        <3> QED
            BY Zenon, <3>1, <3>2, <1>3
    <2> QED
        BY Zenon, <2>1, <2>2
<1>6. ASSUME NEW t \in Known(q), NEW u \in InputUTXOs[t]
      PROVE  q.spenders[u] = t \/ u \in orphans
    <2>1. t \in Tx /\ NoTx \notin Tx
        BY Zenon, <1>2, MempoolConfig DEF Known, Pool
    <2>2. u \in Utxo
        BY Zenon, <2>1, MempoolConfig
    <2>3. CASE t = tx
        BY Zenon, <2>2, <2>3, <1>2
    <2>4. CASE t \in Known(p)
        <3>1. p.spenders[u] = t \/ u \in orphans
            BY Zenon, <2>4 DEF PoolInv
        <3>2. p.spenders[u] = t => u \notin InputUTXOs[tx]
            BY Zenon, <2>1
        <3> QED
            BY Zenon, <3>1, <3>2, <2>2, <1>2
    <2> QED
        BY Zenon, <2>3, <2>4, <1>3
<1>7. /\ q.heap \cap (q.current \cup q.issued) = {} /\ q.current \cap q.issued = {}
      /\ q.discarded \cap Known(q) = {}
    BY <1>2, <1>3 DEF PoolInv, Known
<1>8. IsFiniteSet(q.discarded)
    BY Zenon, <1>2, FiniteSubset DEF PoolInv
<1>9. PoolInv(q, orphans)
    BY Zenon, <1>2, <1>4, <1>5, <1>6, <1>7, <1>8 DEF PoolInv
<1> QED
    BY Zenon, <1>2, <1>3, <1>9

\* What a step leaves of the transactions: the form of NothingLost.
Overflows(p, q) == Cardinality(p.discarded \cup q.discarded) >= discardedTxsCacheSize
NoneLost(p, q) == Held(p) \subseteq Held(q) \/ Overflows(p, q)

\* A full cache of discarded transactions between two pools is an overflow of theirs.
LEMMA FullOverflows ==
    ASSUME NEW orphans, NEW p, NEW q, NEW r, PoolInv(p, orphans), PoolInv(q, orphans),
           Full(r), r.discarded \subseteq p.discarded \cup q.discarded
    PROVE  Overflows(p, q)
<1>1. IsFiniteSet(p.discarded \cup q.discarded)
    BY FS_Union, Zenon DEF PoolInv
<1>2. /\ Cardinality(r.discarded) <= Cardinality(p.discarded \cup q.discarded)
      /\ Cardinality(r.discarded) \in Nat /\ Cardinality(p.discarded \cup q.discarded) \in Nat
    BY Zenon, <1>1, FiniteSubset
<1> QED
    BY <1>2, MempoolConfig DEF Full, Overflows

\* The transactions that conflict with tx are of the mempool, and without them
\* no input of tx has an entry.
LEMMA ConflictsCover ==
    ASSUME NEW orphans, NEW p, PoolInv(p, orphans), NEW tx \in Tx
    PROVE  /\ checkConflictTx(p, tx) \subseteq Known(p)
           /\ \A u \in InputUTXOs[tx] :
                 u \in Spent(checkConflictTx(p, tx)) \/ p.spenders[u] = NoTx
<1>1. InputUTXOs[tx] \subseteq Utxo
    BY Zenon, MempoolConfig
<1> QED
    BY Zenon, <1>1 DEF PoolInv, checkConflictTx, Spent

\* addTx, with no block being built.
LEMMA AddTxKeepsInv ==
    ASSUME NEW orphans, NEW p, PoolInv(p, orphans), p.current = {}, NEW tx \in Tx,
           NEW local, NEW valid, NEW r \in addTx(p, tx, local, valid)
    PROVE  /\ PoolInv(r.pool, orphans) /\ r.pool.current = {} /\ NoneLost(p, r.pool)
           /\ r.err \notin {"none", "already known"} => tx \notin Known(r.pool)
           /\ r.err \notin {"none", "already known"} => Keeps(p, r.pool)
           /\ r.err = "none" => tx \in Held(r.pool)
           /\ r.err = "already known" => r.pool = p /\ (local \/ tx \in Held(p))
<1>1. CASE r = [pool |-> p, err |-> "already known"] /\ (tx \in Known(p) \/ (~local /\ tx \in p.discarded))
    <2>1. r.pool = p /\ r.err = "already known"
        BY <1>1, Zenon
    <2> QED
        BY <1>1, <2>1, Zenon DEF NoneLost, Held
<1>2. CASE r = [pool |-> p, err |-> "invalid or conflict"] /\ tx \notin Known(p)
    <2>1. r.pool = p /\ r.err = "invalid or conflict"
        BY <1>2, Zenon
    <2> QED
        BY <1>2, <2>1, Zenon DEF NoneLost, Keeps
<1>3. ASSUME tx \notin Known(p), NEW q \in RemoveAll(p, checkConflictTx(p, tx)),
             r \in PushOrFull(q, tx)
      PROVE  /\ PoolInv(r.pool, orphans) /\ r.pool.current = {} /\ NoneLost(p, r.pool)
             /\ r.err = "full" => tx \notin Known(r.pool) /\ Keeps(p, r.pool)
             /\ r.err = "none" => tx \in Held(r.pool)
             /\ r.err \in {"full", "none"}
    <2> DEFINE txs == checkConflictTx(p, tx)
    <2>1. /\ PoolInv(q, orphans) /\ Keeps(p, q) /\ q.current = {}
          /\ Known(q) \subseteq Known(p) /\ q.discarded \subseteq p.discarded \cup Known(p)
          /\ \A u \in Utxo : q.spenders[u] = IF u \in Spent(txs) THEN NoTx ELSE p.spenders[u]
        <3>1. txs \subseteq Known(p)
            BY Zenon, ConflictsCover
        <3>2. /\ PoolInv(q, orphans) /\ Keeps(p, q)
              /\ q.current = p.current \ txs
              /\ Known(q) = Known(p) \ txs
              /\ q.discarded \subseteq p.discarded \cup txs
              /\ \A u \in Utxo : q.spenders[u] = IF u \in Spent(txs) THEN NoTx ELSE p.spenders[u]
            BY <3>1, <1>3, RemoveAllKeepsInv
        <3> QED
            BY Zenon, <3>1, <3>2
    <2>2. \A u \in InputUTXOs[tx] : u \in Utxo /\ q.spenders[u] = NoTx
        <3>1. InputUTXOs[tx] \subseteq Utxo
            BY Zenon, MempoolConfig
        <3>2. \A u \in InputUTXOs[tx] : u \in Spent(txs) \/ p.spenders[u] = NoTx
            BY Zenon, ConflictsCover
        <3> QED
            BY Zenon, <3>1, <3>2, <2>1
    <2>3. CASE r = [pool |-> q, err |-> "full"]
        <3>1. r.pool = q /\ r.err = "full"
            BY Zenon, <2>3
        <3>2. NoneLost(p, q)
            BY Zenon, <2>1, FullOverflows DEF Keeps, NoneLost
        <3> QED
            BY Zenon, <3>1, <3>2, <2>1, <1>3
    <2>4. ASSUME NEW s \in MadeRoom(q, tx), r = [pool |-> Push(s, tx), err |-> "none"]
          PROVE  /\ PoolInv(r.pool, orphans) /\ r.pool.current = {} /\ NoneLost(p, r.pool)
                 /\ r.err = "none" /\ tx \in Held(r.pool)
        <3> DEFINE t == Push(s, tx)
        <3>1. /\ PoolInv(s, orphans) /\ Keeps(q, s) /\ s.current = {}
              /\ Known(s) \subseteq Known(q) /\ Cardinality(Known(s)) < maxSize
              /\ s.discarded \subseteq q.discarded \cup Known(q)
              /\ \A u \in Utxo : q.spenders[u] = NoTx => s.spenders[u] = NoTx
            BY ZenonT(30), <2>1, <2>4, MadeRoomKeepsInv
        <3>2. tx \notin Known(s) /\ \A u \in InputUTXOs[tx] : s.spenders[u] = NoTx
            BY <3>1, <2>1, <2>2, <1>3, SMTT(30)
        <3>3. /\ PoolInv(t, orphans) /\ t.current = {} /\ Known(t) = Known(s) \cup {tx}
              /\ t.discarded = s.discarded \ {tx}
            BY <3>1, <3>2, PushKeepsInv, SMTT(30)
        <3>4. Keeps(p, s)
            BY Zenon, <2>1, <3>1, KeepsTransitive DEF PoolInv
        <3>5. s.discarded \subseteq p.discarded \cup t.discarded
            BY Zenon, <3>1, <3>3, <2>1, <1>3
        <3>6. NoneLost(p, t)
            <4>1. CASE Full(s)
                BY Zenon, <4>1, <3>3, <3>5, FullOverflows DEF NoneLost
            <4>2. CASE Held(p) \subseteq Held(s)
                BY Zenon, <4>2, <3>3 DEF NoneLost, Held
            <4> QED
                BY Zenon, <4>1, <4>2, <3>4 DEF Keeps
        <3>7. r.pool = t /\ r.err = "none"
            BY Zenon, <2>4
        <3> QED
            BY Zenon, <3>3, <3>6, <3>7 DEF Held
    <2>5. \/ r = [pool |-> q, err |-> "full"]
          \/ \E s \in MadeRoom(q, tx) : r = [pool |-> Push(s, tx), err |-> "none"]
        BY Zenon, <1>3 DEF PushOrFull
    <2> QED
        BY Zenon, <2>3, <2>4, <2>5
<1>4. \/ r = [pool |-> p, err |-> "already known"] /\ (tx \in Known(p) \/ (~local /\ tx \in p.discarded))
      \/ r = [pool |-> p, err |-> "invalid or conflict"] /\ tx \notin Known(p)
      \/ /\ tx \notin Known(p)
         /\ \E q \in RemoveAll(p, checkConflictTx(p, tx)) : r \in PushOrFull(q, tx)
    BY Zenon DEF addTx
<1> QED
    BY <1>1, <1>2, <1>3, <1>4, Zenon

\* AddLocalTx and AddRemoteTx; a remote transaction is remembered whatever
\* comes of it.
LEMMA AddKeepsInv ==
    ASSUME NEW orphans, NEW p, PoolInv(p, orphans), p.current = {}, NEW tx \in Tx,
           NEW valid, NEW q \in AddLocalTx(p, tx, valid) \cup AddRemoteTx(p, tx, valid)
    PROVE  /\ PoolInv(q, orphans) /\ q.current = {} /\ NoneLost(p, q)
           /\ q \in AddRemoteTx(p, tx, valid) => tx \in Held(q)
<1>1. CASE q \in AddLocalTx(p, tx, valid) /\ q \notin AddRemoteTx(p, tx, valid)
    <2>1. PICK r \in addTx(p, tx, TRUE, valid) : q = r.pool
        BY <1>1, Zenon DEF AddLocalTx
    <2> QED
        BY <1>1, <2>1, AddTxKeepsInv, Zenon
<1>2. CASE q \in AddRemoteTx(p, tx, valid)
    <2>1. PICK r \in addTx(p, tx, FALSE, valid) :
              \/ r.err \in {"none", "already known"} /\ q = r.pool
              \/ r.err \notin {"none", "already known"} /\ q \in Discard(r.pool, {tx})
        BY <1>2, Zenon DEF AddRemoteTx
    <2>2. /\ PoolInv(r.pool, orphans) /\ r.pool.current = {} /\ NoneLost(p, r.pool)
          /\ r.err \notin {"none", "already known"} => tx \notin Known(r.pool)
          /\ r.err \notin {"none", "already known"} => Keeps(p, r.pool)
          /\ r.err = "none" => tx \in Held(r.pool)
          /\ r.err = "already known" => r.pool = p /\ (FALSE \/ tx \in Held(p))
        BY <2>1, AddTxKeepsInv, Zenon
    <2>3. CASE r.err \in {"none", "already known"} /\ q = r.pool
        BY <2>2, <2>3, Zenon
    <2>4. CASE r.err \notin {"none", "already known"} /\ q \in Discard(r.pool, {tx})
        <3>1. {tx} \in SUBSET Tx /\ IsFiniteSet({tx}) /\ {tx} \cap Known(r.pool) = {}
            BY <2>2, <2>4, FS_Singleton, Zenon
        <3>2. /\ PoolInv(q, orphans) /\ Keeps(r.pool, q) /\ q.current = r.pool.current
              /\ {tx} \subseteq q.discarded \/ q.discarded \subseteq {tx}
              /\ Full(q) \/ {tx} \subseteq Held(q)
            <4> DEFINE s == r.pool
            <4>1. PoolInv(s, orphans) /\ {tx} \cap Known(s) = {} /\ q \in Discard(s, {tx})
                BY <2>2, <2>4, <3>1, Zenon
            <4> HIDE DEF s
            <4>2. /\ PoolInv(q, orphans) /\ Keeps(s, q) /\ q.current = s.current
                  /\ {tx} \subseteq q.discarded \/ q.discarded \subseteq {tx}
                  /\ Full(q) \/ {tx} \subseteq Held(q)
                BY <4>1, <3>1, DiscardKeepsInv, SMTT(30)
            <4> QED
                BY Zenon, <4>2 DEF s
        <3>3. Keeps(p, q)
            BY <2>2, <2>4, <3>2, KeepsTransitive, Zenon DEF PoolInv
        <3>4. NoneLost(p, q)
            BY <3>2, <3>3, FullOverflows, SMTT(30) DEF Keeps, NoneLost
        <3>5. tx \in Held(q)
            <4>1. CASE Full(q)
                <5>1. Cardinality({}) = 0
                    BY Zenon, FS_EmptySet
                <5>2. q.discarded # {}
                    <6>1. Cardinality(q.discarded) # 0
                        BY <4>1, MempoolConfig DEF Full
                    <6> QED
                        BY Zenon, <5>1, <6>1
                <5> QED
                    BY Zenon, <5>2, <3>2 DEF Held
            <4> QED
                BY Zenon, <4>1, <3>2
        <3> QED
            BY <2>2, <3>2, <3>4, <3>5, Zenon
    <2> QED
        BY <2>1, <2>3, <2>4, Zenon
<1> QED
    BY Zenon, <1>1, <1>2

\* RemoveTx of transactions that were accepted or rejected, of the mempool or not.
LEMMA RemoveTxsKeepsInv ==
    ASSUME NEW orphans, NEW p, PoolInv(p, orphans), NEW txs \in SUBSET Tx, NEW more,
           orphans \subseteq more,
           \A u \in Spent(txs) : p.spenders[u] \notin txs \cup {NoTx} => u \in more
    PROVE  LET q == RemoveTxs(p, txs)
           IN /\ PoolInv(q, more) /\ q.current = p.current \ txs
              /\ Known(q) = Known(p) \ txs /\ q.discarded = p.discarded \ txs
<1> DEFINE w == Without(p, txs)
           q == RemoveTxs(p, txs)
<1>1. ASSUME NEW t \in Known(p) \ txs, NEW u \in InputUTXOs[t], u \in Spent(txs)
      PROVE  u \in more
    <2>1. t \in Tx /\ t # NoTx
        BY ZenonT(90), MempoolConfig DEF PoolInv, Pool, Known
    <2>2. p.spenders[u] = t \/ u \in orphans
        BY Zenon DEF PoolInv
    <2> QED
        BY Zenon, <1>1, <2>1, <2>2
<1>2. /\ PoolInv(w, more) /\ Known(w) = Known(p) \ txs
      /\ w.heap = p.heap \ txs /\ w.current = p.current \ txs
      /\ w.issued = p.issued \ txs /\ w.discarded = p.discarded
    <2>1. LosesOnly(p, txs, more)
        BY Zenon, <1>1 DEF LosesOnly
    <2> QED
        BY <2>1, WithoutKeepsInv
<1>3. q = [w EXCEPT !.discarded = @ \ txs]
    BY Zenon DEF RemoveTxs, Evict
<1> HIDE DEF w, q
<1>4. w \in Pool
    BY Zenon, <1>2 DEF PoolInv
<1>5. /\ q \in Pool /\ q.discarded = w.discarded \ txs
      /\ q.heap = w.heap /\ q.current = w.current /\ q.issued = w.issued
      /\ q.spenders = w.spenders
    BY Zenon, <1>3, <1>4 DEF Pool
<1>6. Known(q) = Known(w)
    BY Zenon, <1>5 DEF Known
<1>7. IsFiniteSet(q.discarded)
    BY Zenon, <1>2, <1>5, FiniteSubset DEF PoolInv
<1>8. PoolInv(q, more)
    BY Zenon, <1>2, <1>5, <1>6, <1>7 DEF PoolInv
<1>9. /\ PoolInv(q, more) /\ q.current = p.current \ txs
      /\ Known(q) = Known(p) \ txs /\ q.discarded = p.discarded \ txs
    BY Zenon, <1>2, <1>5, <1>6, <1>8
<1> QED
    BY Zenon, <1>9 DEF q

\* A pool whose transactions only changed places.
LEMMA MovesKeepInv ==
    ASSUME NEW orphans, NEW p, PoolInv(p, orphans), NEW q \in Pool,
           Known(q) = Known(p), q.discarded = p.discarded, q.spenders = p.spenders,
           q.heap \cap (q.current \cup q.issued) = {}, q.current \cap q.issued = {}
    PROVE  PoolInv(q, orphans) /\ NoneLost(p, q)
BY Zenon DEF PoolInv, NoneLost, Held

\* NextTx takes a waiting transaction.
LEMMA NextTxKeepsInv ==
    ASSUME NEW orphans, NEW p, PoolInv(p, orphans), NEW tx \in p.heap
    PROVE  LET q == NextTx(p, tx)
           IN /\ PoolInv(q, orphans) /\ NoneLost(p, q)
              /\ q.current = p.current \cup {tx} /\ Known(q) = Known(p)
              /\ q.discarded = p.discarded
<1> DEFINE q == NextTx(p, tx)
<1>1. p \in Pool /\ tx \in Tx
    BY Zenon DEF PoolInv, Pool
<1>2. /\ q \in Pool /\ q.heap = p.heap \ {tx} /\ q.current = p.current \cup {tx}
      /\ q.issued = p.issued /\ q.discarded = p.discarded /\ q.spenders = p.spenders
    BY <1>1, Zenon DEF NextTx, Pool
<1>3. Known(q) = Known(p)
    BY Zenon, <1>2 DEF Known
<1>4. q.heap \cap (q.current \cup q.issued) = {} /\ q.current \cap q.issued = {}
    BY ZenonT(30), <1>2 DEF PoolInv
<1>5. PoolInv(q, orphans) /\ NoneLost(p, q)
    BY Zenon, <1>2, <1>3, <1>4, MovesKeepInv
<1> QED
    BY Zenon, <1>2, <1>3, <1>5

\* CancelCurrentTx puts it back.
LEMMA CancelCurrentTxKeepsInv ==
    ASSUME NEW orphans, NEW p, PoolInv(p, orphans), NEW tx
    PROVE  LET q == CancelCurrentTx(p, tx)
           IN /\ PoolInv(q, orphans) /\ NoneLost(p, q)
              /\ q.current = p.current \ {tx}
<1> DEFINE q == CancelCurrentTx(p, tx)
<1>1. CASE tx \in p.current
    <2>1. p \in Pool /\ tx \in Tx
        BY Zenon, <1>1 DEF PoolInv, Pool
    <2>2. /\ q \in Pool /\ q.heap = p.heap \cup {tx} /\ q.current = p.current \ {tx}
          /\ q.issued = p.issued /\ q.discarded = p.discarded /\ q.spenders = p.spenders
        BY <1>1, <2>1, Zenon DEF CancelCurrentTx, Pool
    <2>3. Known(q) = Known(p)
        BY Zenon, <1>1, <2>2 DEF Known
    <2>4. q.heap \cap (q.current \cup q.issued) = {} /\ q.current \cap q.issued = {}
        BY ZenonT(30), <1>1, <2>2 DEF PoolInv
    <2>5. PoolInv(q, orphans) /\ NoneLost(p, q)
        BY Zenon, <2>2, <2>3, <2>4, MovesKeepInv
    <2> QED
        BY Zenon, <2>2, <2>5
<1>2. CASE tx \notin p.current
    BY Zenon, <1>2 DEF CancelCurrentTx, NoneLost
<1> QED
    BY Zenon, <1>1, <1>2

\* CancelCurrentTxs and IssueCurrentTxs.
LEMMA EndKeepsInv ==
    ASSUME NEW orphans, NEW p, PoolInv(p, orphans),
           NEW q \in {CancelCurrentTxs(p), IssueCurrentTxs(p)}
    PROVE  PoolInv(q, orphans) /\ NoneLost(p, q) /\ q.current = {}
<1>1. p \in Pool
    BY Zenon DEF PoolInv
<1>2. /\ q \in Pool /\ q.current = {} /\ q.discarded = p.discarded /\ q.spenders = p.spenders
      /\ \/ q.heap = p.heap \cup p.current /\ q.issued = p.issued
         \/ q.issued = p.issued \cup p.current /\ q.heap = p.heap
    <2>1. CASE q = CancelCurrentTxs(p)
        BY <2>1, <1>1, Zenon DEF CancelCurrentTxs, SignalRest, addPending, Pool
    <2>2. CASE q = IssueCurrentTxs(p)
        BY <2>2, <1>1, Zenon DEF IssueCurrentTxs, SignalRest, addPending, Pool
    <2> QED
        BY Zenon, <2>1, <2>2
<1>3. Known(q) = Known(p)
    BY Zenon, <1>2 DEF Known
<1>4. q.heap \cap (q.current \cup q.issued) = {} /\ q.current \cap q.issued = {}
    BY Zenon, <1>2 DEF PoolInv
<1> QED
    BY Zenon, <1>2, <1>3, <1>4, MovesKeepInv

\* DiscardCurrentTx and DiscardCurrentTxs.
LEMMA DiscardCurrentKeepsInv ==
    ASSUME NEW orphans, NEW p, PoolInv(p, orphans), NEW txs, NEW q \in DiscardCurrentTx(p, txs)
    PROVE  PoolInv(q, orphans) /\ NoneLost(p, q) /\ q.current = p.current \ txs
<1> DEFINE gone == p.current \cap txs
<1>1. p \in Pool /\ gone \subseteq Known(p)
    BY Zenon DEF PoolInv, Known
<1>2. removeSpenders([p EXCEPT !.current = @ \ gone], gone) = Without(p, gone)
    <2>1. p.heap \ gone = p.heap /\ p.issued \ gone = p.issued
        BY Zenon DEF PoolInv
    <2>2. [p EXCEPT !.current = @ \ gone] =
              [p EXCEPT !.current = @ \ gone, !.heap = @ \ gone, !.issued = @ \ gone]
        BY <1>1, <2>1, Zenon DEF Pool
    <2> QED
        BY Zenon, <2>2 DEF Without
<1>3. q \in RemoveAll(p, gone)
    BY Zenon, <1>2 DEF DiscardCurrentTx, RemoveAll
<1>4. p.current \ gone = p.current \ txs
    BY Zenon
<1> HIDE DEF gone
<1>5. /\ PoolInv(q, orphans) /\ Keeps(p, q)
      /\ q.current = p.current \ gone /\ Known(q) = Known(p) \ gone
      /\ q.discarded \subseteq p.discarded \cup gone
    BY <1>1, <1>3, RemoveAllKeepsInv
<1>6. NoneLost(p, q)
    BY Zenon, <1>5, FullOverflows DEF Keeps, NoneLost
<1> QED
    BY Zenon, <1>4, <1>5, <1>6

-----------------------------------------------------------------------------
(* The inductive invariant.                                                *)

\* A path on which no UTXO is spent twice, nor after the accepted blocks.
SpendsOnce(path, done) ==
    \A i \in DOMAIN path :
        /\ Disjoint(path[i])
        /\ \A j \in 1..(i - 1) : Spent(path[i]) \cap Spent(path[j]) = {}
        /\ Spent(path[i]) \cap done = {}

\* Transactions a block on top of the path may have.
Fits(txs, path) == Disjoint(txs) /\ \A tx \in txs : verifyTx(tx, path)

ChainInv ==
    /\ processing \subseteq Seq(SUBSET Tx) /\ losers \subseteq Seq(SUBSET Tx)
    /\ <<>> \notin processing \cup losers
    /\ preferred \in processing \cup {<<>>}
    /\ \A path \in processing : SpendsOnce(path, spent)

\* The transactions of the block being built, and only they, are current.
BatchInv ==
    /\ phase \in {"idle", "next", "finish", "reject"}
    /\ phase \in {"idle", "reject"} => mempool.current = {} /\ batch = {}
    /\ batch \subseteq mempool.current /\ Fits(batch, preferred)

BuildInv == TypeOK /\ PoolInv(mempool, orphaned) /\ ChainInv /\ BatchInv

\* The step form of NothingLost.
Kept ==
    \A tx \in Known(mempool) \cup mempool.discarded :
        \/ tx \in Known(mempool') \cup mempool'.discarded
        \/ InputUTXOs[tx] \subseteq spent'
        \/ Cardinality(mempool.discarded \cup mempool'.discarded) >= discardedTxsCacheSize

\* A step that loses no transaction satisfies the action property.
LEMMA KeptIf ==
    ASSUME NoneLost(mempool, mempool')
    PROVE  Kept
BY Zenon DEF NoneLost, Held, Overflows, Kept

\* Steps that leave the mempool's transactions and the chain alone.
LEMMA QuietStep ==
    ASSUME BuildInv, UNCHANGED <<chain, phase, batch, losers, orphaned>>,
           mempool' \in {mempool, [mempool EXCEPT !.pending = FALSE]},
           TypeOK'
    PROVE  BuildInv' /\ Kept
<1>1. mempool \in Pool
    BY Zenon DEF BuildInv, PoolInv
<1>2. /\ mempool' \in Pool
      /\ mempool'.heap = mempool.heap /\ mempool'.current = mempool.current
      /\ mempool'.issued = mempool.issued /\ mempool'.discarded = mempool.discarded
      /\ mempool'.spenders = mempool.spenders
    BY <1>1, Zenon DEF Pool
<1>3. Known(mempool') = Known(mempool)
    BY Zenon, <1>2 DEF Known
<1>4. PoolInv(mempool', orphaned)
    BY Zenon, <1>2, <1>3 DEF BuildInv, PoolInv
<1>5. Kept
    BY Zenon, <1>2, <1>3 DEF Kept
<1>6. PoolInv(mempool, orphaned)'
    BY Zenon, <1>4
<1>7. ChainInv' /\ BatchInv'
    BY <1>2 DEF BuildInv, ChainInv, BatchInv, chain, SpendsOnce, Fits, verifyTx, PathSpent
<1> QED
    BY Zenon, <1>5, <1>6, <1>7 DEF BuildInv

\* Issuing a transaction keeps the invariant and loses nothing.
LEMMA IssueStep ==
    ASSUME BuildInv, NEW tx \in Tx, Issue(tx)
    PROVE  BuildInv' /\ Kept
<1>1. mempool.current = {} /\ PoolInv(mempool, orphaned)
    BY Zenon DEF BuildInv, BatchInv, Issue
<1>2. mempool' \in AddLocalTx(mempool, tx, verifyTx(tx, preferred))
                      \cup AddRemoteTx(mempool, tx, verifyTx(tx, preferred))
    BY Zenon DEF Issue
<1>3. PoolInv(mempool', orphaned) /\ mempool'.current = {} /\ NoneLost(mempool, mempool')
    BY Zenon, <1>1, <1>2, AddKeepsInv
<1>4. orphaned' = orphaned /\ UNCHANGED <<chain, build, builder>>
    BY Zenon DEF Issue
<1>5. PoolInv(mempool, orphaned)'
    BY <1>3, <1>4, SMTT(30)
<1>6. TypeOK'
    BY Zenon, <1>3, <1>4 DEF BuildInv, TypeOK, PoolInv, Pool, chain, build, builder
<1>7. ChainInv' /\ BatchInv'
    BY Zenon, <1>1, <1>3, <1>4 DEF BuildInv, ChainInv, BatchInv, chain, build, SpendsOnce, Fits,
                            verifyTx, PathSpent
<1> QED
    BY Zenon, <1>3, <1>5, <1>6, <1>7, KeptIf DEF BuildInv

\* A step of the build: its pool, batch and phase.
LEMMA BuildStep ==
    ASSUME BuildInv, UNCHANGED <<chain, losers, rejecting, builder, orphaned>>,
           PoolInv(mempool', orphaned), NoneLost(mempool, mempool'),
           phase' \in {"idle", "next", "finish"}, batch' \subseteq Tx,
           phase' = "idle" => mempool'.current = {} /\ batch' = {},
           batch' \subseteq mempool'.current, Fits(batch', preferred)
    PROVE  BuildInv' /\ Kept
<1>1. PoolInv(mempool, orphaned)'
    BY SMTT(30)
<1>2. TypeOK'
    BY SMTT(30) DEF BuildInv, TypeOK, PoolInv, Pool, chain, builder
<1>3. Fits(batch, preferred)'
    BY ZenonT(30) DEF Fits, verifyTx, PathSpent, chain
<1>4. ChainInv'
    BY Zenon DEF BuildInv, ChainInv, chain, SpendsOnce
<1>5. BatchInv'
    BY Zenon, <1>3 DEF BatchInv
<1> QED
    BY Zenon, <1>1, <1>2, <1>4, <1>5, KeptIf DEF BuildInv

\* Taking the next transaction into the batch keeps the invariant.
LEMMA BuildNextStep ==
    ASSUME BuildInv, BuildNext
    PROVE  BuildInv' /\ Kept
<1>1. PICK tx \in MaxHeap(mempool) :
          IF Cardinality(batch) = MaxBatch
          THEN /\ mempool' = CancelCurrentTx(NextTx(mempool, tx), tx)
               /\ phase' = "finish" /\ UNCHANGED batch
          ELSE Include(tx) /\ UNCHANGED phase
    BY SMTT(30) DEF BuildNext
<1> DEFINE p == NextTx(mempool, tx)
<1>2. /\ tx \in mempool.heap /\ tx \in Tx /\ phase = "next"
      /\ PoolInv(mempool, orphaned) /\ batch \subseteq mempool.current
      /\ Fits(batch, preferred) /\ tx \notin batch /\ batch \subseteq Tx
    BY Zenon DEF BuildNext, MaxHeap, BuildInv, BatchInv, PoolInv, Pool
<1>3. /\ PoolInv(p, orphaned) /\ NoneLost(mempool, p)
      /\ p.current = mempool.current \cup {tx} /\ Known(p) = Known(mempool)
      /\ p.discarded = mempool.discarded
    BY Zenon, <1>2, NextTxKeepsInv
<1>4. \A q : NoneLost(p, q) => NoneLost(mempool, q)
    BY Zenon, <1>3 DEF NoneLost, Held, Overflows
<1>5. UNCHANGED <<chain, losers, rejecting, builder, orphaned>>
    BY Zenon DEF BuildNext
<1> HIDE DEF p
<1>6. CASE Cardinality(batch) = MaxBatch
    <2>1. mempool' = CancelCurrentTx(p, tx) /\ phase' = "finish" /\ batch' = batch
        BY Zenon, <1>1, <1>6 DEF p
    <2>2. /\ PoolInv(mempool', orphaned) /\ NoneLost(p, mempool')
          /\ mempool'.current = p.current \ {tx}
        BY <1>3, <2>1, CancelCurrentTxKeepsInv, SMTT(30)
    <2>3. NoneLost(mempool, mempool') /\ batch' \subseteq mempool'.current
        BY <1>2, <1>3, <1>4, <2>1, <2>2, SMTT(30)
    <2> QED
        BY Zenon, <1>2, <1>5, <2>1, <2>2, <2>3, BuildStep
<1>7. CASE Cardinality(batch) # MaxBatch /\ batch' = batch \cup {tx} /\ mempool' = p
          /\ Spent(batch) \cap InputUTXOs[tx] = {} /\ verifyTx(tx, preferred)
    <2>1. Fits(batch', preferred)
        BY <1>2, <1>7, SMTT(30) DEF Fits, Disjoint, Spent
    <2>2. phase' = "next" /\ batch' \subseteq mempool'.current /\ batch' \subseteq Tx
        BY <1>1, <1>2, <1>3, <1>7, SMTT(30)
    <2> QED
        BY <1>3, <1>5, <1>7, <2>1, <2>2, BuildStep, SMTT(30)
<1>8. CASE Cardinality(batch) # MaxBatch /\ batch' = batch
          /\ mempool' \in DiscardCurrentTx(p, {tx})
    <2>1. /\ PoolInv(mempool', orphaned) /\ NoneLost(p, mempool')
          /\ mempool'.current = p.current \ {tx}
        BY <1>3, <1>8, DiscardCurrentKeepsInv, SMTT(30)
    <2>2. NoneLost(mempool, mempool') /\ batch' \subseteq mempool'.current /\ phase' = "next"
        BY Zenon, <1>1, <1>2, <1>3, <1>4, <1>8, <2>1
    <2> QED
        BY <1>2, <1>5, <1>8, <2>1, <2>2, BuildStep, SMTT(30)
<1> QED
    BY Zenon, <1>1, <1>6, <1>7, <1>8 DEF Include, p

\* Starting a build keeps the invariant and loses nothing.
LEMMA BeginBuildStep ==
    ASSUME BuildInv, BeginBuild
    PROVE  BuildInv' /\ Kept
<1>1. /\ UNCHANGED <<mempool, chain, losers, rejecting, orphaned>> /\ phase' = "next"
      /\ batch' = {} /\ PoolInv(mempool, orphaned)
    BY Zenon DEF BeginBuild, BuildInv
<1>2. PoolInv(mempool, orphaned)' /\ NoneLost(mempool, mempool')
    BY Zenon, <1>1 DEF NoneLost
<1>3. TypeOK'
    BY <1>1, Zenon DEF BuildInv, TypeOK, BeginBuild, chain
<1>4. ChainInv' /\ BatchInv'
    BY Zenon, <1>1 DEF BuildInv, ChainInv, BatchInv, chain, SpendsOnce, Fits, Disjoint
<1> QED
    BY Zenon, <1>2, <1>3, <1>4, KeptIf DEF BuildInv

\* Ending the collection of a batch keeps the invariant and loses nothing.
LEMMA BuildLastStep ==
    ASSUME BuildInv, BuildLast
    PROVE  BuildInv' /\ Kept
<1>1. /\ mempool' = mempool /\ UNCHANGED <<chain, losers, rejecting, builder, orphaned>>
      /\ batch' = batch /\ phase' = "finish"
    BY Zenon DEF BuildLast
<1>2. /\ PoolInv(mempool', orphaned) /\ NoneLost(mempool, mempool') /\ batch' \subseteq Tx
      /\ batch' \subseteq mempool'.current /\ Fits(batch', preferred)
    BY Zenon, <1>1 DEF BuildInv, BatchInv, NoneLost, TypeOK
<1> QED
    BY Zenon, <1>1, <1>2, BuildStep

\* A build that fails or has nothing to issue keeps the invariant and loses nothing.
LEMMA BuildEndsStep ==
    ASSUME BuildInv, BuildFails \/ BuildDiscards
    PROVE  BuildInv' /\ Kept
<1>1. /\ UNCHANGED <<chain, losers, rejecting, builder, orphaned>>
      /\ batch' = {} /\ phase' = "idle" /\ PoolInv(mempool, orphaned)
    BY Zenon DEF BuildFails, BuildDiscards, EndBuild, BuildInv
<1>2. PoolInv(mempool', orphaned) /\ NoneLost(mempool, mempool') /\ mempool'.current = {}
    <2>1. CASE BuildFails
        BY Zenon, <2>1, <1>1, EndKeepsInv DEF BuildFails
    <2>2. CASE BuildDiscards
        <3>1. PICK p \in DiscardCurrentTx(mempool, mempool.current) :
                  mempool' \in {p, CancelCurrentTxs(p)}
            BY Zenon, <2>2 DEF BuildDiscards, DiscardCurrentTxs
        <3>2. PoolInv(p, orphaned) /\ NoneLost(mempool, p) /\ p.current = {}
            BY <1>1, <3>1, DiscardCurrentKeepsInv
        <3>3. CASE mempool' = CancelCurrentTxs(p)
            <4>1. PoolInv(mempool', orphaned) /\ mempool'.current = {} /\ p \in Pool
                BY <3>2, <3>3, EndKeepsInv, ZenonT(30) DEF PoolInv
            <4>2. /\ mempool'.heap = p.heap /\ mempool'.issued = p.issued
                  /\ mempool'.discarded = p.discarded
                BY Zenon, <3>2, <3>3, <4>1 DEF CancelCurrentTxs, SignalRest, addPending, Pool
            <4>3. NoneLost(mempool, mempool')
                BY Zenon, <3>2, <4>1, <4>2 DEF NoneLost, Held, Known, Overflows
            <4> QED
                BY <4>1, <4>3, SMTT(30)
        <3> QED
            BY Zenon, <3>1, <3>2, <3>3
    <2> QED
        BY Zenon, <2>1, <2>2
<1>3. Fits(batch', preferred)
    BY Zenon, <1>1 DEF Fits, Disjoint
<1> QED
    BY Zenon, <1>1, <1>2, <1>3, BuildStep

\* A block on top of a path: what is new on it is checked against the rest.
LEMMA SpendsOnceAppend ==
    ASSUME ChainInv, NEW path \in processing \cup {<<>>}, NEW txs \in SUBSET Tx,
           Fits(txs, path)
    PROVE  /\ SpendsOnce(Append(path, txs), spent)
           /\ Append(path, txs) \in Seq(SUBSET Tx) /\ Append(path, txs) # <<>>
<1> DEFINE new == Append(path, txs)
<1>1. path \in Seq(SUBSET Tx) /\ SpendsOnce(path, spent)
    <2>1. CASE path = <<>>
        BY <2>1 DEF SpendsOnce
    <2>2. CASE path \in processing
        BY Zenon, <2>2 DEF ChainInv
    <2> QED
        BY Zenon, <2>1, <2>2
<1>2. /\ new \in Seq(SUBSET Tx) /\ new # <<>> /\ Len(new) = Len(path) + 1
      /\ DOMAIN new = 1..(Len(path) + 1) /\ Len(path) \in Nat
      /\ \A i \in 1..Len(path) : new[i] = path[i]
      /\ new[Len(path) + 1] = txs
    BY <1>1
<1>3. Spent(txs) \cap spent = {}
    BY Zenon DEF Fits, verifyTx, Spent
<1>4. \A j \in 1..Len(path) : Spent(txs) \cap Spent(path[j]) = {}
    <2> SUFFICES ASSUME NEW j \in 1..Len(path) PROVE Spent(txs) \cap Spent(path[j]) = {}
        BY Zenon
    <2>1. Spent(path[j]) \subseteq PathSpent(path)
        BY <1>1 DEF PathSpent
    <2>2. \A tx \in txs : InputUTXOs[tx] \cap PathSpent(path) = {}
        BY Zenon DEF Fits, verifyTx
    <2> QED
        BY <2>1, <2>2 DEF Spent
<1>5. ASSUME NEW i \in DOMAIN new
      PROVE  /\ Disjoint(new[i])
             /\ \A j \in 1..(i - 1) : Spent(new[i]) \cap Spent(new[j]) = {}
             /\ Spent(new[i]) \cap spent = {}
    <2>1. CASE i = Len(path) + 1
        <3>1. i - 1 = Len(path)
            BY <2>1, <1>2
        <3>2. new[i] = txs /\ \A j \in 1..(i - 1) : new[j] = path[j] /\ j \in 1..Len(path)
            BY Zenon, <2>1, <3>1, <1>2
        <3> QED
            BY Zenon, <3>2, <1>3, <1>4 DEF Fits
    <2>2. CASE i \in 1..Len(path)
        <3>1. i \in DOMAIN path /\ new[i] = path[i]
            BY <2>2, <1>1, <1>2
        <3>2. \A j \in 1..(i - 1) : new[j] = path[j]
            BY <2>2, <1>2
        <3> QED
            BY Zenon, <1>1, <3>1, <3>2 DEF SpendsOnce
    <2>3. i = Len(path) + 1 \/ i \in 1..Len(path)
        BY <1>2
    <2> QED
        BY <2>1, <2>2, <2>3, Zenon
<1> HIDE DEF new
<1>6. SpendsOnce(new, spent)
    BY Zenon, <1>5 DEF SpendsOnce
<1> QED
    BY Zenon, <1>2, <1>6 DEF new

\* Issuing the built block keeps the invariant.
LEMMA BuildIssuesStep ==
    ASSUME BuildInv, BuildIssues
    PROVE  BuildInv' /\ Kept
<1>1. /\ processing' = processing \cup {Append(preferred, batch)}
      /\ preferred' = Append(preferred, batch) /\ UNCHANGED <<spent, losers, rejecting, orphaned>>
      /\ phase' = "idle" /\ batch' = {} /\ mempool' = IssueCurrentTxs(mempool)
    BY Zenon DEF BuildIssues, EndBuild
<1>2. PoolInv(mempool', orphaned) /\ NoneLost(mempool, mempool') /\ mempool'.current = {}
    BY Zenon, <1>1, EndKeepsInv DEF BuildInv
<1>3. PoolInv(mempool, orphaned)'
    BY Zenon, <1>1, <1>2
<1>4. /\ SpendsOnce(preferred', spent) /\ preferred' \in Seq(SUBSET Tx) /\ preferred' # <<>>
    <2>1. batch \in SUBSET Tx /\ preferred \in processing \cup {<<>>} /\ Fits(batch, preferred)
          /\ ChainInv
        BY Zenon DEF BuildInv, TypeOK, BatchInv
    <2> QED
        BY Zenon, <1>1, <2>1, SpendsOnceAppend
<1>5. ChainInv'
    BY <1>1, <1>4, Zenon DEF BuildInv, ChainInv
<1>6. BatchInv'
    BY Zenon, <1>1, <1>2 DEF BatchInv, Fits, Disjoint
<1>7. TypeOK'
    BY <1>1, <1>3, <1>5, Zenon DEF BuildInv, TypeOK, ChainInv, PoolInv, Pool, BuildIssues
<1> QED
    BY Zenon, <1>2, <1>3, <1>5, <1>6, <1>7, KeptIf DEF BuildInv

\* Verifying a block built elsewhere keeps the invariant.
LEMMA VerifyForeignStep ==
    ASSUME BuildInv, NEW path \in processing \cup {<<>>}, NEW txs \in SUBSET Tx,
           VerifyForeign(path, txs)
    PROVE  BuildInv' /\ Kept
<1>1. /\ processing' = processing \cup {Append(path, txs)} /\ Fits(txs, path)
      /\ UNCHANGED <<mempool, preferred, spent, build, builder, orphaned>>
    BY Zenon DEF VerifyForeign, Fits
<1>2. PoolInv(mempool, orphaned)' /\ NoneLost(mempool, mempool')
    BY Zenon, <1>1 DEF BuildInv, NoneLost
<1>3. /\ SpendsOnce(Append(path, txs), spent)
      /\ Append(path, txs) \in Seq(SUBSET Tx) /\ Append(path, txs) # <<>>
    BY Zenon, <1>1, SpendsOnceAppend DEF BuildInv
<1>4. ChainInv'
    BY <1>1, <1>3, Zenon DEF BuildInv, ChainInv, build
<1>5. BatchInv'
    BY <1>1 DEF BuildInv, BatchInv, build, Fits, verifyTx, PathSpent
<1>6. TypeOK'
    BY Zenon, <1>1, <1>4 DEF BuildInv, TypeOK, ChainInv, build, builder
<1> QED
    BY Zenon, <1>2, <1>4, <1>5, <1>6, KeptIf DEF BuildInv

\* Changing the preference keeps the invariant.
LEMMA SetPreferenceStep ==
    ASSUME BuildInv, NEW path \in processing \cup {<<>>}, SetPreference(path)
    PROVE  BuildInv' /\ Kept
<1>1. /\ preferred' = path /\ phase = "idle"
      /\ UNCHANGED <<mempool, processing, spent, build, builder, orphaned>>
    BY Zenon DEF SetPreference
<1>2. PoolInv(mempool, orphaned)' /\ NoneLost(mempool, mempool')
    BY Zenon, <1>1 DEF BuildInv, NoneLost
<1>3. ChainInv'
    BY Zenon, <1>1 DEF BuildInv, ChainInv, build, SpendsOnce
<1>4. BatchInv'
    BY Zenon, <1>1 DEF BuildInv, BatchInv, build, Fits, Disjoint
<1>5. TypeOK'
    BY Zenon, <1>1, <1>3 DEF BuildInv, TypeOK, ChainInv, build, builder
<1> QED
    BY Zenon, <1>2, <1>3, <1>4, <1>5, KeptIf DEF BuildInv

\* The blocks above an accepted one spend nothing that it spent.
LEMMA SpendsOnceTail ==
    ASSUME NEW path \in Seq(SUBSET Tx), path # <<>>, NEW done, SpendsOnce(path, done)
    PROVE  Tail(path) \in Seq(SUBSET Tx)
           /\ SpendsOnce(Tail(path), done \cup Spent(Head(path)))
<1> DEFINE rest == Tail(path)
<1>1. /\ rest \in Seq(SUBSET Tx) /\ Len(rest) = Len(path) - 1 /\ Len(path) \in Nat \ {0}
      /\ DOMAIN rest = 1..Len(rest) /\ DOMAIN path = 1..Len(path)
      /\ Head(path) = path[1]
    OBVIOUS
<1>2. \A i \in DOMAIN rest : rest[i] = path[i + 1] /\ i + 1 \in DOMAIN path /\ i \in Nat \ {0}
    BY <1>1
<1>3. ASSUME NEW i \in DOMAIN rest
      PROVE  /\ Disjoint(rest[i])
             /\ \A j \in 1..(i - 1) : Spent(rest[i]) \cap Spent(rest[j]) = {}
             /\ Spent(rest[i]) \cap (done \cup Spent(Head(path))) = {}
    <2>1. /\ rest[i] = path[i + 1] /\ i + 1 \in DOMAIN path /\ i \in Nat \ {0}
        BY Zenon, <1>2
    <2>2. /\ Disjoint(path[i + 1]) /\ Spent(path[i + 1]) \cap done = {}
          /\ \A j \in 1..((i + 1) - 1) : Spent(path[i + 1]) \cap Spent(path[j]) = {}
        BY Zenon, <2>1 DEF SpendsOnce
    <2>3. \A j \in 1..i : Spent(rest[i]) \cap Spent(path[j]) = {}
        BY <2>1, <2>2
    <2>4. Spent(rest[i]) \cap Spent(Head(path)) = {}
        BY <2>1, <2>3, <1>1
    <2>5. ASSUME NEW j \in 1..(i - 1)
          PROVE  Spent(rest[i]) \cap Spent(rest[j]) = {}
        <3>1. j \in DOMAIN rest /\ j + 1 \in 1..i
            BY <2>1, <1>1
        <3>2. rest[j] = path[j + 1]
            BY Zenon, <3>1, <1>2
        <3> QED
            BY Zenon, <3>1, <3>2, <2>3
    <2> QED
        BY Zenon, <2>1, <2>2, <2>4, <2>5
<1> HIDE DEF rest
<1>4. SpendsOnce(rest, done \cup Spent(Head(path)))
    BY Zenon, <1>3 DEF SpendsOnce
<1> QED
    BY Zenon, <1>1, <1>4 DEF rest

\* Accepting a block keeps the invariant.
LEMMA AcceptStep ==
    ASSUME BuildInv, NEW txs \in SUBSET Tx, Accept(txs)
    PROVE  BuildInv' /\ Kept
<1>1. /\ mempool' = RemoveTxs(mempool, txs) /\ spent' = spent \cup Spent(txs)
      /\ processing' = {Tail(p) : p \in {q \in processing : Head(q) = txs}} \ {<<>>}
      /\ preferred' = IF preferred # <<>> /\ Head(preferred) = txs
                      THEN Tail(preferred) ELSE <<>>
      /\ losers' = {p \in processing : Head(p) # txs}
      /\ phase = "idle" /\ phase' = "reject" /\ orphaned' = orphaned \cup Orphans(txs)
      /\ UNCHANGED <<batch, rejecting, builder>>
    BY SMTT(30) DEF Accept
<1>2. mempool.current = {} /\ batch = {} /\ PoolInv(mempool, orphaned)
    BY <1>1, SMTT(30) DEF BuildInv, BatchInv
<1>3. /\ PoolInv(mempool', orphaned') /\ mempool'.current = mempool.current \ txs
      /\ Known(mempool') = Known(mempool) \ txs
      /\ mempool'.discarded = mempool.discarded \ txs
    <2>1. /\ orphaned \subseteq orphaned'
          /\ \A u \in Spent(txs) : mempool.spenders[u] \notin txs \cup {NoTx} => u \in orphaned'
        BY <1>1, SMTT(30) DEF Orphans
    <2>2. LET p == RemoveTxs(mempool, txs)
          IN /\ PoolInv(p, orphaned') /\ p.current = mempool.current \ txs
             /\ Known(p) = Known(mempool) \ txs
             /\ p.discarded = mempool.discarded \ txs
        BY <1>2, <2>1, RemoveTxsKeepsInv
    <2> QED
        BY Zenon, <1>1, <2>2
<1>4. PoolInv(mempool, orphaned)' /\ mempool'.current = {}
    BY Zenon, <1>2, <1>3
<1>5. Kept
    BY Zenon, <1>1, <1>3 DEF Kept, Spent
<1>6. ChainInv'
    <2>1. /\ losers' \subseteq Seq(SUBSET Tx) /\ <<>> \notin losers'
          /\ processing' \subseteq Seq(SUBSET Tx) /\ <<>> \notin processing'
        <3>1. \A p \in processing : p \in Seq(SUBSET Tx) /\ p # <<>>
            BY Zenon DEF BuildInv, ChainInv
        <3>2. \A p \in processing : Tail(p) \in Seq(SUBSET Tx)
            BY <3>1
        <3> QED
            BY Zenon, <1>1, <3>1, <3>2
    <2>2. preferred' \in processing' \cup {<<>>}
        BY Zenon, <1>1 DEF BuildInv, ChainInv
    <2>3. ASSUME NEW path \in processing'
          PROVE  SpendsOnce(path, spent')
        <3>1. PICK p \in processing : Head(p) = txs /\ path = Tail(p)
            BY Zenon, <1>1, <2>3
        <3>2. p \in Seq(SUBSET Tx) /\ p # <<>> /\ SpendsOnce(p, spent)
            BY Zenon DEF BuildInv, ChainInv
        <3> QED
            BY <1>1, <3>1, <3>2, SpendsOnceTail, SMTT(30)
    <2> QED
        BY Zenon, <2>1, <2>2, <2>3 DEF ChainInv
<1>7. BatchInv'
    BY Zenon, <1>1, <1>2, <1>4 DEF BatchInv, Fits, Disjoint
<1>8. spent' \subseteq Utxo /\ orphaned' \subseteq Utxo
    BY <1>1, MempoolConfig, SMTT(30) DEF BuildInv, TypeOK, Spent, Orphans
<1>9. TypeOK'
    BY <1>1, <1>4, <1>6, <1>8, Zenon DEF BuildInv, TypeOK, ChainInv, PoolInv, Pool, builder
<1> QED
    BY Zenon, <1>4, <1>5, <1>6, <1>7, <1>9 DEF BuildInv

\* Returning a transaction of a rejected block keeps the invariant.
LEMMA RejectTxStep ==
    ASSUME BuildInv, RejectTx
    PROVE  BuildInv' /\ Kept
<1>1. PICK tx \in rejecting :
          /\ mempool' \in AddRemoteTx(RemoveTxs(mempool, {tx}), tx, verifyTx(tx, preferred))
          /\ rejecting' = rejecting \ {tx}
          /\ orphaned' = orphaned \cup Orphans({tx})
    BY Zenon DEF RejectTx
<1> DEFINE p == RemoveTxs(mempool, {tx})
<1>2. /\ tx \in Tx /\ phase = "reject" /\ mempool.current = {} /\ PoolInv(mempool, orphaned)
      /\ UNCHANGED <<chain, phase, batch, losers, builder>>
    BY Zenon DEF RejectTx, BuildInv, BatchInv, TypeOK
<1>3. /\ PoolInv(p, orphaned') /\ p.current = mempool.current \ {tx}
      /\ Known(p) = Known(mempool) \ {tx} /\ p.discarded = mempool.discarded \ {tx}
    <2> DEFINE gone == {tx}
    <2>1. /\ orphaned \subseteq orphaned' /\ gone \in SUBSET Tx
          /\ \A u \in Spent(gone) : mempool.spenders[u] \notin gone \cup {NoTx} => u \in orphaned'
        BY <1>1, <1>2, SMTT(30) DEF Orphans
    <2> HIDE DEF gone
    <2>2. LET q == RemoveTxs(mempool, gone)
          IN /\ PoolInv(q, orphaned') /\ q.current = mempool.current \ gone
             /\ Known(q) = Known(mempool) \ gone
             /\ q.discarded = mempool.discarded \ gone
        BY <1>2, <2>1, RemoveTxsKeepsInv, SMTT(30)
    <2> QED
        BY Zenon, <2>2 DEF gone
<1> HIDE DEF p
<1>4. p.current = {} /\ mempool' \in AddRemoteTx(p, tx, verifyTx(tx, preferred))
    BY <1>1, <1>2, <1>3, SMTT(30) DEF p
<1>5. /\ PoolInv(mempool', orphaned') /\ mempool'.current = {} /\ NoneLost(p, mempool')
      /\ tx \in Held(mempool')
    BY <1>2, <1>3, <1>4, AddKeepsInv, SMTT(30)
<1>6. PoolInv(mempool, orphaned)'
    BY Zenon, <1>5
<1>7. NoneLost(mempool, mempool')
    <2>1. CASE Held(p) \subseteq Held(mempool')
        BY Zenon, <2>1, <1>3, <1>5 DEF NoneLost, Held
    <2>2. CASE Overflows(p, mempool')
        <3>1. IsFiniteSet(mempool.discarded \cup mempool'.discarded)
            BY <1>2, <1>5, FS_Union, ZenonT(30) DEF PoolInv
        <3>2. /\ Cardinality(p.discarded \cup mempool'.discarded)
                    <= Cardinality(mempool.discarded \cup mempool'.discarded)
              /\ Cardinality(p.discarded \cup mempool'.discarded) \in Nat
              /\ Cardinality(mempool.discarded \cup mempool'.discarded) \in Nat
            BY <1>3, <3>1, FiniteSubset
        <3> QED
            BY <2>2, <3>2, MempoolConfig, SMTT(30) DEF Overflows, NoneLost
    <2> QED
        BY Zenon, <1>5, <2>1, <2>2 DEF NoneLost
<1>8. ChainInv' /\ BatchInv'
    BY Zenon, <1>2, <1>5
       DEF BuildInv, ChainInv, BatchInv, chain, SpendsOnce, Fits, verifyTx, PathSpent
<1>9. TypeOK'
    <2>1. orphaned' \subseteq Utxo
        BY <1>1, <1>2, MempoolConfig DEF BuildInv, TypeOK, Spent, Orphans
    <2> QED
        BY <1>1, <1>2, <1>6, <2>1, ZenonT(30) DEF BuildInv, TypeOK, PoolInv, Pool, chain, builder
<1> QED
    BY Zenon, <1>6, <1>7, <1>8, <1>9, KeptIf DEF BuildInv

\* Going on to the next rejected block keeps the invariant.
LEMMA RejectNextStep ==
    ASSUME BuildInv, RejectNext
    PROVE  BuildInv' /\ Kept
<1>1. /\ UNCHANGED <<mempool, chain, batch, builder, orphaned>>
      /\ phase = "reject" /\ phase' \in {"idle", "reject"}
      /\ losers' \subseteq losers
    BY Zenon DEF RejectNext
<1>2. PoolInv(mempool, orphaned)' /\ NoneLost(mempool, mempool')
    BY Zenon, <1>1 DEF BuildInv, NoneLost
<1>3. ChainInv' /\ BatchInv'
    BY Zenon, <1>1 DEF BuildInv, ChainInv, BatchInv, chain, SpendsOnce, Fits, verifyTx, PathSpent
<1>4. rejecting' \subseteq Tx
    <2>1. ASSUME NEW p \in losers, rejecting' = p[Len(p)]
          PROVE  rejecting' \subseteq Tx
        <3>1. p \in Seq(SUBSET Tx) /\ p # <<>>
            BY Zenon DEF BuildInv, ChainInv
        <3>2. Len(p) \in 1..Len(p)
            BY <3>1
        <3> QED
            BY <2>1, <3>1, <3>2
    <2> QED
        BY Zenon, <2>1 DEF RejectNext, BuildInv, TypeOK
<1>5. TypeOK'
    BY Zenon, <1>1, <1>4 DEF BuildInv, TypeOK, chain, builder
<1> QED
    BY Zenon, <1>2, <1>3, <1>5, KeptIf DEF BuildInv

-----------------------------------------------------------------------------
(* The theorems.                                                           *)

\* The invariant holds at first.
LEMMA InitInv == Init => BuildInv
<1> SUFFICES ASSUME Init PROVE BuildInv
    BY SMTT(30)
<1>1. /\ mempool \in Pool /\ Known(mempool) = {} /\ mempool.discarded = {}
      /\ mempool.heap = {} /\ mempool.current = {} /\ mempool.issued = {}
      /\ \A u \in Utxo : mempool.spenders[u] = NoTx
    BY Zenon DEF Init, NewTxs, Pool, Known
<1>2. IsFiniteSet({}) /\ Cardinality({}) = 0
    BY FS_EmptySet, SMTT(30)
<1>3. PoolInv(mempool, orphaned)
    BY <1>1, <1>2, MempoolConfig DEF PoolInv
<1>4. TypeOK
    BY <1>1, Zenon DEF Init, TypeOK, Pool
<1>5. ChainInv /\ BatchInv
    BY Zenon, <1>1 DEF Init, ChainInv, BatchInv, Fits, Disjoint
<1> QED
    BY Zenon, <1>3, <1>4, <1>5 DEF BuildInv

\* Every step keeps the invariant and loses no transaction.
LEMMA NextInv ==
    ASSUME BuildInv, [Next]_vars
    PROVE  BuildInv' /\ Kept
<1>1. CASE UNCHANGED vars
    <2>1. TypeOK' /\ UNCHANGED <<mempool, chain, phase, batch, losers, orphaned>>
        BY ZenonT(30), <1>1 DEF BuildInv, TypeOK, vars, chain, build, builder
    <2> QED
        BY Zenon, <2>1, QuietStep
<1>2. ASSUME NEW tx \in Tx, Issue(tx) PROVE BuildInv' /\ Kept
    BY Zenon, <1>2, IssueStep
<1>3. CASE SubmitEvmTx \/ BuilderSubmitted \/ WaitForEvent \/ WaiterCheck
    <2>1. UNCHANGED <<mempool, chain, build, orphaned>>
        BY <1>3, SMTT(30) DEF SubmitEvmTx, BuilderSubmitted, WaitForEvent, WaiterCheck
    <2>2. TypeOK'
        BY <1>3, <2>1, ZenonT(30)
           DEF BuildInv, TypeOK, chain, build, SubmitEvmTx, BuilderSubmitted,
                          WaitForEvent, WaiterCheck, Signal
    <2> QED
        BY Zenon, <2>1, <2>2, QuietStep DEF build
<1>4. CASE BuilderPending
    <2>1. /\ mempool' = [mempool EXCEPT !.pending = FALSE]
          /\ UNCHANGED <<chain, build, orphaned>>
        BY Zenon, <1>4 DEF BuilderPending
    <2>2. TypeOK'
        BY <1>4, <2>1, Zenon DEF BuildInv, TypeOK, chain, build, BuilderPending, Signal
    <2> QED
        BY Zenon, <2>1, <2>2, QuietStep DEF build
<1>5. CASE BeginBuild
    BY Zenon, <1>5, BeginBuildStep
<1>6. CASE BuildNext
    BY Zenon, <1>6, BuildNextStep
<1>7. CASE BuildLast
    BY Zenon, <1>7, BuildLastStep
<1>8. CASE BuildFails \/ BuildDiscards
    BY ZenonT(30), <1>8, BuildEndsStep
<1>9. CASE BuildIssues
    BY Zenon, <1>9, BuildIssuesStep
<1>10. CASE RejectTx
    BY Zenon, <1>10, RejectTxStep
<1>11. CASE RejectNext
    BY Zenon, <1>11, RejectNextStep
<1>12. ASSUME NEW txs \in SUBSET Tx, Accept(txs) PROVE BuildInv' /\ Kept
    BY Zenon, <1>12, AcceptStep
<1>13. ASSUME NEW path \in processing \cup {<<>>}, SetPreference(path) PROVE BuildInv' /\ Kept
    BY Zenon, <1>13, SetPreferenceStep
<1>14. ASSUME NEW path \in processing \cup {<<>>}, NEW txs \in SUBSET Tx, VerifyForeign(path, txs)
       PROVE  BuildInv' /\ Kept
    BY Zenon, <1>14, VerifyForeignStep
<1> QED
    BY ZenonT(30), <1>1, <1>2, <1>3, <1>4, <1>5, <1>6, <1>7, <1>8, <1>9, <1>10, <1>11, <1>12,
       <1>13, <1>14
       DEF Next, Build, Builder, Decide

\* The invariant always holds.
LEMMA AlwaysBuildInv == Spec => []BuildInv
BY InitInv, NextInv, PTL DEF Spec

\* Through every interleaving of gossip, builds, acceptances and rejections the
\* maps of the mempool agree: a transaction is in one place, no entry of
\* utxoSpenders names one that left, and maxSize bounds them all (Txs, Mempool).
THEOREM MempoolIsSafe == Spec => []MempoolSafety
<1>1. BuildInv => MempoolSafety
    BY Zenon DEF BuildInv, PoolInv, MempoolSafety, OnePlace, NoStaleSpender, SizeBound
<1> QED
    BY <1>1, AlwaysBuildInv, PTL

\* Two transactions of the mempool spend the same UTXO only when removeSpenders
\* took the entry of one of them for another transaction.
THEOREM OnlyOrphansConflict == Spec => []ConflictsAreOrphans
<1>1. ASSUME BuildInv PROVE ConflictsAreOrphans
    <2> SUFFICES ASSUME NEW s \in Known(mempool), NEW t \in Known(mempool), s # t,
                        NEW u \in InputUTXOs[s] \cap InputUTXOs[t]
                 PROVE  u \in orphaned
        BY SMTT(30) DEF ConflictsAreOrphans
    <2> QED
        BY Zenon, <1>1 DEF BuildInv, PoolInv
<1> QED
    BY <1>1, AlwaysBuildInv, PTL

\* No block this node builds or verifies spends a UTXO twice, within it, along
\* the blocks it is built on, or after an accepted block.
THEOREM NoDoubleSpend == Spec => []BlocksSpendOnce
<1>1. BuildInv => BlocksSpendOnce
    BY Zenon DEF BuildInv, ChainInv, BatchInv, Fits, SpendsOnce, BlocksSpendOnce
<1> QED
    BY <1>1, AlwaysBuildInv, PTL

\* No step forgets a transaction, unless a block with it is accepted or the
\* cache of discarded transactions overflows (cancelTx, Reject, AddRemoteTx).
THEOREM NoTransactionLost == Spec => NothingLost
<1>1. Spec => [][Kept]_vars
    BY AlwaysBuildInv, NextInv, PTL DEF Spec
<1> QED
    BY Zenon, <1>1 DEF NothingLost, Kept
=============================================================================
