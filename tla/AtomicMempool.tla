----------------------------- MODULE AtomicMempool -----------------------------
(***************************************************************************)
(* plugin/evm/atomic/txpool: the mempool of cross-chain transactions.  A   *)
(* pool is a record; an operation of Txs or Mempool, each under one lock,  *)
(* is an operator from a pool to the pools it may leave.                   *)
(***************************************************************************)
EXTENDS Integers, FiniteSets, Sequences

CONSTANTS
    Tx, NoTx,
    Utxo, InputUTXOs,       \* InputUTXOs[tx]: the UTXOs a transaction spends
    gasPrice,               \* atomicTxGasPrice: burned amount per gas
    maxSize,                \* Txs.maxSize
    discardedTxsCacheSize

ASSUME MempoolConfig ==
    /\ NoTx \notin Tx
    /\ InputUTXOs \in [Tx -> (SUBSET Utxo) \ {{}}]
    /\ gasPrice \in [Tx -> Nat]
    /\ maxSize \in Nat \ {0} /\ discardedTxsCacheSize \in Nat \ {0}

Spent(txs) == UNION {InputUTXOs[tx] : tx \in txs}

NewTxs == [heap |-> {}, current |-> {}, issued |-> {}, discarded |-> {},
           spenders |-> [u \in Utxo |-> NoTx], pending |-> FALSE]

Known(p) == p.heap \cup p.current \cup p.issued
length(p) == Cardinality(p.heap) + Cardinality(p.issued)

\* The transactions PopMax or PeekMin may return: equal prices tie.
MaxHeap(p) == {tx \in p.heap : \A t \in p.heap : gasPrice[t] <= gasPrice[tx]}
MinHeap(p) == {tx \in p.heap : \A t \in p.heap : gasPrice[t] >= gasPrice[tx]}

\* Mutant: sends nothing.
NotPending(p) == p

addPending(p) == [p EXCEPT !.pending = TRUE]

\* The LRU cache of discarded transactions once txs are put into it, as a set:
\* a full cache keeps the latest ones, and which of the older ones it drops is
\* left open, since no operation depends on it.
Cached(old, txs) ==
    LET all == old \cup txs
    IN IF Cardinality(all) <= discardedTxsCacheSize THEN {all}
       ELSE {c \in SUBSET all : /\ Cardinality(c) = discardedTxsCacheSize
                                /\ txs \subseteq c \/ c \subseteq txs}

Discard(p, txs) == {[p EXCEPT !.discarded = c] : c \in Cached(p.discarded, txs)}
Evict(p, txs) == [p EXCEPT !.discarded = @ \ txs]

\* Mutant: leaves the inputs marked as spent.
KeepSpenders(p, txs) == p

\* Entries go by UTXO, whichever transaction they name.
removeSpenders(p, txs) ==
    [p EXCEPT !.spenders = [u \in Utxo |-> IF u \in Spent(txs) THEN NoTx ELSE @[u]]]

\* removeTx of each of txs but for the cache: to be discarded, or evicted.
Without(p, txs) ==
    removeSpenders([p EXCEPT !.current = @ \ txs, !.heap = @ \ txs,
                             !.issued = @ \ txs], txs)

RemoveAll(p, txs) == Discard(Without(p, txs), txs)

-----------------------------------------------------------------------------
(* Adding.                                                                 *)

\* Mutant: sees conflicts with waiting transactions only.
ConflictsInHeap(p, tx) == {p.spenders[u] : u \in InputUTXOs[tx]} \cap p.heap

checkConflictTx(p, tx) == {p.spenders[u] : u \in InputUTXOs[tx]} \ {NoTx}

\* Mutant: ignores maxSize.
RoomForAll(p, tx) == {p}

\* Room for one more: as it is, by evicting a cheapest transaction, or none.
MadeRoom(p, tx) ==
    IF length(p) < maxSize THEN {p}
    ELSE UNION {RemoveAll(p, {minTx}) :
                   minTx \in {t \in MinHeap(p) : gasPrice[t] < gasPrice[tx]}}

\* Mutant: leaves the transaction in the cache of discarded ones.
PushDiscarded(p, tx) ==
    addPending([p EXCEPT
        !.heap = @ \cup {tx},
        !.spenders = [u \in Utxo |-> IF u \in InputUTXOs[tx] THEN tx ELSE @[u]]])

Push(p, tx) ==
    addPending([Evict(p, {tx}) EXCEPT
        !.heap = @ \cup {tx},
        !.spenders = [u \in Utxo |-> IF u \in InputUTXOs[tx] THEN tx ELSE @[u]]])

\* The end of addTx, once the conflicting transactions are removed.
PushOrFull(p, tx) ==
    IF MadeRoom(p, tx) = {} THEN {[pool |-> p, err |-> "full"]}
    ELSE {[pool |-> Push(r, tx), err |-> "none"] : r \in MadeRoom(p, tx)}

\* addTx, given what verify answers: the pools it leaves, with its error.
addTx(p, tx, local, valid) ==
    LET conflictingTxs == checkConflictTx(p, tx)
    IN IF tx \in Known(p) \/ (~local /\ tx \in p.discarded)
       THEN {[pool |-> p, err |-> "already known"]}
       ELSE IF ~valid \/ \E t \in conflictingTxs : gasPrice[t] >= gasPrice[tx]
       THEN {[pool |-> p, err |-> "invalid or conflict"]}
       ELSE UNION {PushOrFull(q, tx) : q \in RemoveAll(p, conflictingTxs)}

AddLocalTx(p, tx, valid) == {r.pool : r \in addTx(p, tx, TRUE, valid)}

\* A remote transaction that is refused is remembered as discarded.
AddRemoteTx(p, tx, valid) ==
    UNION {IF r.err \in {"none", "already known"} THEN {r.pool} ELSE Discard(r.pool, {tx}) :
              r \in addTx(p, tx, FALSE, valid)}

\* RemoveTx of each of txs.
RemoveTxs(p, txs) == Evict(Without(p, txs), txs)

-----------------------------------------------------------------------------
(* Building a block.                                                       *)

NextTx(p, tx) == [p EXCEPT !.heap = @ \ {tx}, !.current = @ \cup {tx}]

CancelCurrentTx(p, tx) ==
    IF tx \in p.current
    THEN [p EXCEPT !.heap = @ \cup {tx}, !.current = @ \ {tx}] ELSE p

\* DiscardCurrentTx of each of txs.
DiscardCurrentTx(p, txs) ==
    LET gone == p.current \cap txs
    IN Discard(removeSpenders([p EXCEPT !.current = @ \ gone], gone), gone)

DiscardCurrentTxs(p) == DiscardCurrentTx(p, p.current)

SignalRest(p) == IF p.heap # {} THEN addPending(p) ELSE p

IssueCurrentTxs(p) ==
    SignalRest([p EXCEPT !.issued = @ \cup p.current, !.current = {}])

\* Mutant: drops the transactions of a failed build.
DropCurrentTxs(p) == SignalRest([p EXCEPT !.current = {}])

CancelCurrentTxs(p) ==
    SignalRest([p EXCEPT !.heap = @ \cup p.current, !.current = {}])
=============================================================================
