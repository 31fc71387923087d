----------------------------- MODULE BlockBuilding -----------------------------
(***************************************************************************)
(* The atomic mempool with its users: block building (atomic/vm/vm.go,     *)
(* plugin/evm/vm.go), the decisions on blocks (block_extension.go), gossip *)
(* and the API, and the block builder that tells the engine when to build  *)
(* (block_builder.go).  Engine, gossip and API calls hold the context's    *)
(* lock: one begins when no other is under way.                            *)
(*                                                                         *)
(* A processing block is the path to it from the last accepted block, each *)
(* entry the set of the atomic transactions of one block.                  *)
(***************************************************************************)
EXTENDS AtomicMempool

CONSTANTS
    MaxBatch,       \* atomic transactions the gas limit or the size admits
    MaxDepth,       \* bound: processing blocks above the last accepted one
    MaxProcessing,  \* bound: processing blocks
    EvmPool         \* bound: whether the EVM pool takes part

VARIABLES
    mempool,
    processing, preferred,  \* paths; <<>> is the last accepted block
    spent,                  \* UTXOs consumed in shared memory
    phase,                  \* of the call that holds the lock
    batch,                  \* transactions of the block being built
    losers, rejecting,      \* blocks left to reject, transactions of one
    evmTxs, txSubmitChan,   \* the EVM pool is not empty; its event to send
    waiter,                 \* where the engine's WaitForEvent stands
    toEngine,               \* a message for the engine in its channel
    orphaned                \* history: UTXOs whose entry another's removal took

chain == <<processing, preferred, spent>>
build == <<phase, batch, losers, rejecting>>
builder == <<evmTxs, txSubmitChan, waiter, toEngine>>
vars == <<mempool, chain, build, builder, orphaned>>

Init ==
    /\ mempool = NewTxs
    /\ processing = {} /\ preferred = <<>> /\ spent = {}
    /\ phase = "idle" /\ batch = {} /\ losers = {} /\ rejecting = {}
    /\ evmTxs = FALSE /\ txSubmitChan = FALSE
    /\ waiter = "out" /\ toEngine = FALSE
    /\ orphaned = {}

PathSpent(path) == UNION {Spent(path[i]) : i \in DOMAIN path}
Disjoint(txs) == \A s, t \in txs : s = t \/ InputUTXOs[s] \cap InputUTXOs[t] = {}

\* Mutant: asks shared memory only.
VerifyPresent(tx, path) == InputUTXOs[tx] \cap spent = {}

\* verifyTx on top of a block: present in shared memory, and not spent by a
\* processing ancestor.
verifyTx(tx, path) == InputUTXOs[tx] \cap (spent \cup PathSpent(path)) = {}

-----------------------------------------------------------------------------
(* Gossip and the API.                                                     *)

Issue(tx) ==
    /\ phase = "idle"
    /\ \/ mempool' \in AddLocalTx(mempool, tx, verifyTx(tx, preferred))
       \/ mempool' \in AddRemoteTx(mempool, tx, verifyTx(tx, preferred))
    /\ UNCHANGED <<chain, build, builder, orphaned>>

SubmitEvmTx ==
    /\ EvmPool /\ ~evmTxs
    /\ evmTxs' = TRUE /\ txSubmitChan' = TRUE
    /\ UNCHANGED <<mempool, chain, build, waiter, toEngine, orphaned>>

-----------------------------------------------------------------------------
(* The builder and the engine that waits for it.                           *)

needToBuild == evmTxs \/ length(mempool) > 0

\* awaitSubmittedTxs: wake the waiter, and notify unless the channel is full.
Signal ==
    /\ waiter' = IF waiter = "wait" THEN "check" ELSE waiter
    /\ toEngine' = TRUE

BuilderSubmitted ==
    /\ txSubmitChan /\ txSubmitChan' = FALSE
    /\ Signal
    /\ UNCHANGED <<mempool, chain, build, evmTxs, orphaned>>

BuilderPending ==
    /\ mempool.pending /\ mempool' = [mempool EXCEPT !.pending = FALSE]
    /\ Signal
    /\ UNCHANGED <<chain, build, evmTxs, txSubmitChan, orphaned>>

WaitForEvent ==
    /\ waiter = "out" /\ waiter' = "check"
    /\ UNCHANGED <<mempool, chain, build, evmTxs, txSubmitChan, toEngine, orphaned>>

\* waitForNeedToBuild's check, under buildBlockLock.
WaiterCheck ==
    /\ waiter = "check"
    /\ waiter' = IF needToBuild THEN "ready" ELSE "wait"
    /\ UNCHANGED <<mempool, chain, build, evmTxs, txSubmitChan, toEngine, orphaned>>

-----------------------------------------------------------------------------
(* BuildBlockWithContext, with postBatchOnFinalizeAndAssemble in it.       *)

BeginBuild ==
    /\ phase = "idle"
    /\ \/ waiter = "ready" /\ waiter' = "out" /\ UNCHANGED toEngine
       \/ toEngine /\ toEngine' = FALSE /\ UNCHANGED waiter
    /\ phase' = "next" /\ batch' = {}
    /\ UNCHANGED <<mempool, chain, losers, rejecting, evmTxs, txSubmitChan, orphaned>>

\* Mutant: does not compare a transaction with the batch.
BatchAnything(tx) ==
    IF verifyTx(tx, preferred)
    THEN batch' = batch \cup {tx} /\ mempool' = NextTx(mempool, tx)
    ELSE UNCHANGED batch /\ mempool' \in DiscardCurrentTx(NextTx(mempool, tx), {tx})

\* A transaction within the limits: included, or discarded when it conflicts
\* with the batch or fails verification.
Include(tx) ==
    IF Spent(batch) \cap InputUTXOs[tx] = {} /\ verifyTx(tx, preferred)
    THEN batch' = batch \cup {tx} /\ mempool' = NextTx(mempool, tx)
    ELSE UNCHANGED batch /\ mempool' \in DiscardCurrentTx(NextTx(mempool, tx), {tx})

BuildNext ==
    /\ phase = "next"
    /\ \E tx \in MaxHeap(mempool) :
          IF Cardinality(batch) = MaxBatch
          THEN /\ mempool' = CancelCurrentTx(NextTx(mempool, tx), tx)
               /\ phase' = "finish" /\ UNCHANGED batch
          ELSE Include(tx) /\ UNCHANGED phase
    /\ UNCHANGED <<chain, losers, rejecting, builder, orphaned>>

BuildLast ==
    /\ phase = "next" /\ mempool.heap = {}
    /\ phase' = "finish"
    /\ UNCHANGED <<mempool, chain, batch, losers, rejecting, builder, orphaned>>

EndBuild == phase' = "idle" /\ batch' = {} /\ UNCHANGED <<losers, rejecting>>

\* An empty block, or an error of GenerateBlock or of the block's verification.
BuildFails ==
    /\ phase \in {"next", "finish"}
    /\ mempool' = CancelCurrentTxs(mempool)
    /\ EndBuild
    /\ UNCHANGED <<chain, builder, orphaned>>

\* The block cannot be wrapped, or its transactions cannot be marshalled: an
\* error of GenerateBlock, which also cancels.
BuildDiscards ==
    /\ phase = "finish" /\ (batch # {} \/ evmTxs)
    /\ \E p \in DiscardCurrentTxs(mempool) : mempool' \in {p, CancelCurrentTxs(p)}
    /\ EndBuild
    /\ UNCHANGED <<chain, builder, orphaned>>

\* The block is built, and the engine verifies and prefers it.
BuildIssues ==
    /\ phase = "finish" /\ (batch # {} \/ evmTxs)
    /\ Len(preferred) < MaxDepth
    /\ mempool' = IssueCurrentTxs(mempool)
    /\ processing' = processing \cup {Append(preferred, batch)}
    /\ preferred' = Append(preferred, batch)
    /\ evmTxs' \in {evmTxs, FALSE}
    /\ EndBuild
    /\ UNCHANGED <<spent, txSubmitChan, waiter, toEngine, orphaned>>

-----------------------------------------------------------------------------
(* Other nodes' blocks, and decisions.                                     *)

VerifyForeign(path, txs) ==
    /\ phase = "idle"
    /\ Cardinality(processing) < MaxProcessing /\ Len(path) < MaxDepth
    /\ Cardinality(txs) <= MaxBatch /\ Disjoint(txs)
    /\ \A tx \in txs : verifyTx(tx, path)
    /\ processing' = processing \cup {Append(path, txs)}
    /\ UNCHANGED <<mempool, preferred, spent, build, builder, orphaned>>

SetPreference(path) ==
    /\ phase = "idle"
    /\ preferred' = path
    /\ UNCHANGED <<mempool, processing, spent, build, builder, orphaned>>

\* The entries that removing txs takes from other transactions.
Orphans(txs) == {u \in Spent(txs) : mempool.spenders[u] \notin txs \cup {NoTx}}

\* Mutant: leaves the preference where it was.
AcceptKeepsPreference(txs) ==
    /\ phase = "idle" /\ <<txs>> \in processing
    /\ mempool' = RemoveTxs(mempool, txs)
    /\ spent' = spent \cup Spent(txs)
    /\ processing' = {Tail(p) : p \in {q \in processing : Head(q) = txs}} \ {<<>>}
    /\ losers' = {p \in processing : Head(p) # txs}
    /\ phase' = "reject"
    /\ orphaned' = orphaned \cup Orphans(txs)
    /\ UNCHANGED <<preferred, batch, rejecting, builder>>

\* blockExtension.Accept: the transactions leave the mempool, and their
\* inputs leave shared memory; the engine goes on to reject the losers.
Accept(txs) ==
    /\ phase = "idle" /\ <<txs>> \in processing
    /\ mempool' = RemoveTxs(mempool, txs)
    /\ spent' = spent \cup Spent(txs)
    /\ processing' = {Tail(p) : p \in {q \in processing : Head(q) = txs}} \ {<<>>}
    /\ preferred' = IF preferred # <<>> /\ Head(preferred) = txs
                    THEN Tail(preferred) ELSE <<>>
    /\ losers' = {p \in processing : Head(p) # txs}
    /\ phase' = "reject"
    /\ orphaned' = orphaned \cup Orphans(txs)
    /\ UNCHANGED <<batch, rejecting, builder>>

\* blockExtension.Reject re-issues each transaction of the block.
RejectTx ==
    /\ phase = "reject"
    /\ \E tx \in rejecting :
          /\ mempool' \in AddRemoteTx(RemoveTxs(mempool, {tx}), tx,
                                      verifyTx(tx, preferred))
          /\ rejecting' = rejecting \ {tx}
          /\ orphaned' = orphaned \cup Orphans({tx})
    /\ UNCHANGED <<chain, phase, batch, losers, builder>>

RejectNext ==
    /\ phase = "reject" /\ rejecting = {}
    /\ \/ /\ losers = {} /\ phase' = "idle" /\ UNCHANGED <<losers, rejecting>>
       \/ \E p \in losers :
             /\ \A q \in losers : Len(p) <= Len(q)
             /\ losers' = losers \ {p} /\ rejecting' = p[Len(p)]
             /\ UNCHANGED phase
    /\ UNCHANGED <<mempool, chain, batch, builder, orphaned>>

-----------------------------------------------------------------------------
Build == BeginBuild \/ BuildNext \/ BuildLast \/ BuildFails \/ BuildDiscards
            \/ BuildIssues
Builder == BuilderSubmitted \/ BuilderPending
Decide == RejectTx \/ RejectNext \/ \E txs \in SUBSET Tx : Accept(txs)

Next ==
    \/ \E tx \in Tx : Issue(tx)
    \/ SubmitEvmTx \/ Builder \/ WaitForEvent \/ WaiterCheck \/ Build \/ Decide
    \/ \E path \in processing \cup {<<>>} :
          \/ SetPreference(path)
          \/ \E txs \in SUBSET Tx : VerifyForeign(path, txs)

Spec == Init /\ [][Next]_vars

\* The builder's goroutine is scheduled, and the engine waits for events,
\* builds when told to and finishes the calls it begins.
FairSpec ==
    /\ Spec
    /\ WF_vars(Builder) /\ WF_vars(WaitForEvent) /\ WF_vars(WaiterCheck)
    /\ WF_vars(BuildNext \/ BuildLast \/ BuildFails \/ RejectTx \/ RejectNext)
    /\ SF_vars(BeginBuild)

-----------------------------------------------------------------------------
\* The type of every variable.
TypeOK ==
    /\ mempool \in [heap : SUBSET Tx, current : SUBSET Tx, issued : SUBSET Tx,
                    discarded : SUBSET Tx, spenders : [Utxo -> Tx \cup {NoTx}],
                    pending : BOOLEAN]
    /\ processing \subseteq Seq(SUBSET Tx) /\ preferred \in processing \cup {<<>>}
    /\ spent \subseteq Utxo /\ orphaned \subseteq Utxo
    /\ phase \in {"idle", "next", "finish", "reject"}
    /\ batch \subseteq Tx /\ rejecting \subseteq Tx
    /\ losers \subseteq Seq(SUBSET Tx)
    /\ evmTxs \in BOOLEAN /\ txSubmitChan \in BOOLEAN /\ toEngine \in BOOLEAN
    /\ waiter \in {"out", "check", "wait", "ready"}

\* A transaction is in one place: waiting, being built, issued or discarded.
\* (addTx "so it's not in two places within the mempool")
OnePlace ==
    /\ mempool.heap \cap (mempool.current \cup mempool.issued) = {}
    /\ mempool.current \cap mempool.issued = {}
    /\ mempool.discarded \cap Known(mempool) = {}

\* Every spender entry names a transaction of the mempool with that input: a
\* transaction that left never refuses another one.
NoStaleSpender ==
    \A u \in Utxo : mempool.spenders[u] # NoTx =>
        /\ mempool.spenders[u] \in Known(mempool)
        /\ u \in InputUTXOs[mempool.spenders[u]]

\* Two transactions of the mempool spend the same UTXO only after a decision
\* on a block took the entry of one of them away.
ConflictsAreOrphans ==
    \A s, t \in Known(mempool) :
        s # t => InputUTXOs[s] \cap InputUTXOs[t] \subseteq orphaned

\* maxSize bounds the mempool, the block being built included: no sequence of
\* cancelled, rejected and re-issued transactions exceeds it.
SizeBound == Cardinality(Known(mempool)) <= maxSize

\* The mempool's maps agree with one another, within their bounds.
MempoolSafety == TypeOK /\ OnePlace /\ NoStaleSpender /\ SizeBound

\* No block being built, and none this node issued, spends a UTXO twice,
\* whatever conflicts the mempool holds.
BlocksSpendOnce ==
    /\ Disjoint(batch)
    /\ phase # "idle" => batch \subseteq mempool.current
    /\ \A p \in processing : \A i \in DOMAIN p :
          /\ Disjoint(p[i])
          /\ \A j \in 1..(i - 1) : Spent(p[i]) \cap Spent(p[j]) = {}
          /\ Spent(p[i]) \cap spent = {}

\* A transaction is forgotten only when a block with it is accepted, or when
\* the cache of discarded ones overflows: failed builds and rejected blocks
\* give it back or record it as discarded.
NothingLost ==
    [][\A tx \in Known(mempool) \cup mempool.discarded :
          \/ tx \in Known(mempool') \cup mempool'.discarded
          \/ InputUTXOs[tx] \subseteq spent'
          \/ Cardinality(mempool.discarded \cup mempool'.discarded)
                >= discardedTxsCacheSize]_vars

\* Transactions that wait get a build attempt: no signal is lost between the
\* mempool, the builder and the engine.
Owed == mempool.heap # {} /\ phase # "next"
PendingGetsBuild == []<>~Owed
=============================================================================
