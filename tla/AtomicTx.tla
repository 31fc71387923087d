------------------------------ MODULE AtomicTx ------------------------------
(***************************************************************************)
(* The two atomic transactions and what they do to balances, nonces and    *)
(* shared memory (plugin/evm/atomic: import_tx.go, export_tx.go, tx.go;    *)
(* plugin/evm/atomic/vm: tx_semantic_verifier.go, and from vm.go verifyTx, *)
(* verifyTxs, postBatchOnFinalizeAndAssemble and onExtraStateChange).      *)
(*                                                                         *)
(* Wallets make transactions against the preferred block, at the base fee  *)
(* of their own next block. The node builds blocks from what is issued,    *)
(* other nodes build blocks of any of it, in any order. Everything is in   *)
(* normal operation: bootstrapping skips the look into shared memory.      *)
(*                                                                         *)
(* Amounts on the other chains are in nLUX, balances here in wei. Rate     *)
(* stands for X2CRate. A transaction's gas is a base cost plus a cost per  *)
(* input or output.                                                        *)
(***************************************************************************)
EXTENDS Integers, Sequences, SequencesExt, FiniteSetsExt

CONSTANTS
  Keys,        \* the accounts, as the sequence a wallet tries them in
  Balance,     \* [account -> wei] at the start
  UTXO,        \* [utxo -> nLUX] in shared memory at the start
  Rate, BaseCost, EVMInputGas, EVMOutputGas, AtomicGasLimit,
  Fees,        \* the base fees a block can have
  Amounts,     \* the amounts a wallet exports
  MaxBlocks, MaxIssued

VARIABLES
  blocks,      \* [1..n -> block]; block 1 is accepted from the start
  last,        \* the last accepted block
  preferred,
  rejected,    \* the blocks decided against
  shared,      \* what is left to import
  exported,    \* nLUX put into shared memory for the other chain
  issued       \* the transactions made so far

vars == <<blocks, last, preferred, rejected, shared, exported, issued>>

Account == ToSet(Keys)

SumOver(f, S) == FoldSet(LAMBDA x, t : f[x] + t, 0, S)

-----------------------------------------------------------------------------
(* A transaction has inputs, the amount that comes out of it, and gas. An   *)
(* import's inputs are UTXOs and its output goes to an account; an export's *)
(* inputs are [addr, amount, nonce] and its output goes to the other chain. *)

ImportGas == BaseCost + EVMOutputGas

ExportGas(ins) == BaseCost + EVMInputGas * Cardinality(ins)

GasUsed(tx) == IF tx.kind = "import" THEN ImportGas ELSE ExportGas(tx.ins)

\* (A variant that rounds the fee down.)
RoundedDown(cost, baseFee) == (cost * baseFee) \div Rate

CalculateDynamicFee(cost, baseFee) == (cost * baseFee + Rate - 1) \div Rate

Imported(utxos) == SumOver(UTXO, utxos)

Spent(ins) == FoldSet(LAMBDA in, t : in.amount + t, 0, ins)

Consumed(tx) == Imported(tx.utxos) + Spent(tx.ins)

Burned(tx) == Consumed(tx) - tx.out

\* What keeps two transactions apart: the UTXOs, or hash(address:nonce).
Nonces(ins) == {<<in.addr, in.nonce>> : in \in ins}

InputUTXOs(tx) == (tx.utxos \X {0}) \cup Nonces(tx.ins)

\* Verify of the two kinds: inputs and outputs that are there and worth
\* something.
ImportWellFormed(tx) == tx.utxos # {} /\ tx.out > 0

ExportWellFormed(tx) == tx.out > 0 /\ \A in \in tx.ins : in.amount > 0

\* NewImportTx: everything goes to one account, if something is left of it
\* after the fee of a transaction with an output.
NewImportTx(utxos, to, baseFee) ==
  LET amount == Imported(utxos)
      fee    == CalculateDynamicFee(ImportGas, baseFee)
  IN  IF amount > fee
      THEN {[kind |-> "import", utxos |-> utxos, ins |-> {}, to |-> to, out |-> amount - fee]}
      ELSE {}

\* One key of getSpendableLUXWithFee. s: what is still needed, the cost so far,
\* the inputs.
SpendKey(s, key, st, baseFee) ==
  LET more    == CalculateDynamicFee(s.cost + EVMInputGas, baseFee)
                   - CalculateDynamicFee(s.cost, baseFee)
      balance == st.bal[key] \div Rate
      input   == Min({balance, s.need + more})
  IN  IF s.need = 0 \/ balance <= more THEN s
      ELSE [need |-> s.need + more - input, cost |-> s.cost + EVMInputGas,
            ins |-> s.ins \cup {[addr |-> key, amount |-> input, nonce |-> st.nonce[key]]}]

\* NewExportTx with the keys in their order.
NewExportTx(amount, st, baseFee) ==
  LET start == [need |-> amount + CalculateDynamicFee(BaseCost, baseFee),
                cost |-> BaseCost, ins |-> {}]
      spent == FoldLeft(LAMBDA s, key : SpendKey(s, key, st, baseFee), start, Keys)
  IN  IF spent.need = 0
      THEN {[kind |-> "export", utxos |-> {}, ins |-> spent.ins, to |-> "x", out |-> amount]}
      ELSE {}

\* EVMStateTransfer, on [bal, nonce]; Failed when a balance or a nonce is not
\* what the transaction says.
Failed == [failed |-> TRUE]

Moved(st, in) == [st EXCEPT !.bal[in.addr] = @ - in.amount * Rate,
                            !.nonce[in.addr] = in.nonce + 1]

Credit(tx, st) == [st EXCEPT !.bal[tx.to] = @ + tx.out * Rate]

Debit(tx, st) ==
  IF \E in \in tx.ins : st.bal[in.addr] < in.amount * Rate \/ st.nonce[in.addr] # in.nonce
  THEN Failed
  ELSE FoldSet(LAMBDA in, s : Moved(s, in), st, tx.ins)

EVMStateTransfer(tx, st) == IF tx.kind = "import" THEN Credit(tx, st) ELSE Debit(tx, st)

-----------------------------------------------------------------------------
(* Verification *)

RECURSIVE Ancestry(_)
Ancestry(b) == IF b = 1 THEN {1} ELSE {b} \cup Ancestry(blocks[b].parent)

\* The blocks conflicts() walks: from the parent down to the last accepted height.
Undecided(b) == {a \in Ancestry(b) : blocks[a].height > blocks[last].height}

conflicts(inputs, parent) ==
  \E b \in Undecided(parent), i \in 1 .. MaxIssued :
    i <= Len(blocks[b].txs) /\ inputs \cap InputUTXOs(blocks[b].txs[i]) # {}

\* The flow check of both: what goes in covers what comes out and the fee.
Flows(tx, baseFee) == Consumed(tx) >= tx.out + CalculateDynamicFee(GasUsed(tx), baseFee)

ImportTx(tx, parent, baseFee) ==
  /\ ImportWellFormed(tx) /\ Flows(tx, baseFee)
  /\ tx.utxos \subseteq shared
  /\ ~ conflicts(InputUTXOs(tx), parent)

ExportTx(tx, baseFee) == ExportWellFormed(tx) /\ Flows(tx, baseFee)

SemanticVerify(tx, parent, baseFee) ==
  IF tx.kind = "import" THEN ImportTx(tx, parent, baseFee) ELSE ExportTx(tx, baseFee)

\* verifyTx: the transaction alone, on the state so far.
verifyTx(tx, parent, baseFee, st) ==
  IF SemanticVerify(tx, parent, baseFee) THEN EVMStateTransfer(tx, st) ELSE Failed

\* The block's ordinary transactions come first: here, at most one transfer out
\* of an account.
Processed(st, sender) ==
  IF sender = "none" THEN st
  ELSE [st EXCEPT !.bal[sender] = @ - 1, !.nonce[sender] = @ + 1]

StateOf(b) == [bal |-> blocks[b].bal, nonce |-> blocks[b].nonce]

GasOf(txs) == FoldLeft(LAMBDA g, tx : g + GasUsed(tx), 0, txs)

Distinct(txs) ==
  \A i, j \in DOMAIN txs : i # j => InputUTXOs(txs[i]) \cap InputUTXOs(txs[j]) = {}

\* onExtraStateChange: verifyTxs, then the transfers, then the gas limit.
onExtraStateChange(txs, parent, baseFee, st) ==
  IF (\E i \in DOMAIN txs : ~ SemanticVerify(txs[i], parent, baseFee)) \/ ~ Distinct(txs)
     \/ GasOf(txs) > AtomicGasLimit
  THEN Failed
  ELSE FoldLeft(LAMBDA s, tx : IF s = Failed THEN s ELSE EVMStateTransfer(tx, s), st, txs)

-----------------------------------------------------------------------------
(* Building *)

\* One turn of postBatchOnFinalizeAndAssemble. s: the batch, the state, whether
\* the turns are over, and whether they ended with an error: the first
\* transaction that does not pay for its gas at the block's base fee.
Take(s, tx, parent, baseFee) ==
  LET used == UNION {InputUTXOs(s.txs[i]) : i \in DOMAIN s.txs}
      next == verifyTx(tx, parent, baseFee, s.st)
  IN  IF s.over THEN s
      ELSE IF Burned(tx) < CalculateDynamicFee(GasUsed(tx), baseFee)
           THEN [s EXCEPT !.over = TRUE, !.error = TRUE]
      ELSE IF GasOf(s.txs) + GasUsed(tx) > AtomicGasLimit THEN [s EXCEPT !.over = TRUE]
      ELSE IF used \cap InputUTXOs(tx) # {} \/ next = Failed THEN s
      ELSE [s EXCEPT !.txs = Append(@, tx), !.st = next]

\* Nothing when there is no block to build.
Batch(order, parent, baseFee, st) ==
  LET s == FoldLeft(LAMBDA t, tx : Take(t, tx, parent, baseFee),
                    [txs |-> <<>>, st |-> st, over |-> FALSE, error |-> FALSE], order)
  IN  IF s.error THEN <<>> ELSE s.txs

-----------------------------------------------------------------------------

Init ==
  /\ blocks = << [parent |-> 1, height |-> 0, fee |-> 1, txs |-> <<>>, sender |-> "none",
                  bal |-> Balance, nonce |-> [a \in Account |-> 0], built |-> FALSE,
                  ok |-> TRUE] >>
  /\ last = 1 /\ preferred = 1 /\ rejected = {}
  /\ shared = DOMAIN UTXO /\ exported = 0
  /\ issued = {}

Issue ==
  /\ Cardinality(issued) < MaxIssued
  /\ \E baseFee \in Fees :
     \E tx \in UNION {NewImportTx(us, Last(Keys), baseFee) : us \in (SUBSET shared) \ {{}}}
               \cup UNION {NewExportTx(n, StateOf(preferred), baseFee) : n \in Amounts} :
       issued' = issued \cup {tx}
  /\ UNCHANGED <<blocks, last, preferred, rejected, shared, exported>>

\* A new block on parent. An invalid one is not kept, unless this node built it:
\* then the property looks at it.
NewBlock(parent, txs, baseFee, sender, built) ==
  LET st == onExtraStateChange(txs, parent, baseFee, Processed(StateOf(parent), sender))
      ok == st # Failed
  IN  /\ txs # <<>>
      /\ ok \/ built
      /\ blocks' = Append(blocks,
           [parent |-> parent, height |-> blocks[parent].height + 1, fee |-> baseFee,
            txs |-> txs, sender |-> sender, built |-> built, ok |-> ok,
            bal |-> IF ok THEN st.bal ELSE blocks[parent].bal,
            nonce |-> IF ok THEN st.nonce ELSE blocks[parent].nonce])

Live == {b \in DOMAIN blocks : blocks[b].ok /\ last \in Ancestry(b) /\ b \notin rejected}

Senders(b) == {"none"} \cup {a \in Account : blocks[b].bal[a] > 0}

BuildBlock ==
  /\ Len(blocks) < MaxBlocks
  /\ \E order \in SetToSeqs(issued), baseFee \in Fees, sender \in Senders(preferred) :
       LET st == Processed(StateOf(preferred), sender)
       IN  NewBlock(preferred, Batch(order, preferred, baseFee, st), baseFee, sender, TRUE)
  /\ UNCHANGED <<last, preferred, rejected, shared, exported, issued>>

VerifyForeign ==
  /\ Len(blocks) < MaxBlocks
  /\ \E parent \in Live, S \in SUBSET issued, baseFee \in Fees :
       \E txs \in SetToSeqs(S) : NewBlock(parent, txs, baseFee, "none", FALSE)
  /\ UNCHANGED <<last, preferred, rejected, shared, exported, issued>>

SetPreference ==
  /\ \E b \in Live : b # preferred /\ preferred' = b
  /\ UNCHANGED <<blocks, last, rejected, shared, exported, issued>>

\* AtomicOps: an import removes its UTXOs from shared memory, an export puts its
\* output there.
Removed(txs) == UNION {tx.utxos : tx \in txs}

Put(txs) == FoldSet(LAMBDA t, n : t.out + n, 0, {t \in txs : t.kind = "export"})

\* Accept applies them; the blocks that conflict are rejected.
Accept ==
  /\ \E b \in Live \ {last} :
       LET txs == ToSet(blocks[b].txs)
       IN  /\ blocks[b].parent = last
           /\ last' = b
           /\ preferred' = IF b \in Ancestry(preferred) THEN preferred ELSE b
           /\ rejected' = {c \in DOMAIN blocks : c \notin Ancestry(b) /\ b \notin Ancestry(c)}
           /\ shared' = shared \ Removed(txs)
           /\ exported' = exported + Put(txs)
  /\ UNCHANGED <<blocks, issued>>

Next == Issue \/ BuildBlock \/ VerifyForeign \/ SetPreference \/ Accept

Spec == Init /\ [][Next]_vars

-----------------------------------------------------------------------------
(* Properties *)

Sent(b) == IF blocks[b].sender = "none" THEN 0 ELSE 1

\* What the blocks up to b have burned, in wei. (The ordinary transfers leave
\* the accounts as well.)
RECURSIVE BurnedBy(_)
BurnedBy(b) ==
  IF b = 1 THEN 0
  ELSE BurnedBy(blocks[b].parent) + Sent(b) +
       FoldLeft(LAMBDA n, tx : n + Rate * Burned(tx), 0, blocks[b].txs)

\* Over the accepted chain nothing is made and nothing is lost: the accounts,
\* what is left to import, what went to the other chain and what was burned add
\* up to what there was.
Conserved ==
  SumOver(blocks[last].bal, Account) + Rate * (SumOver(UTXO, shared) + exported)
    + BurnedBy(last)
  = SumOver(Balance, Account) + Rate * SumOver(UTXO, DOMAIN UTXO)

\* No account of any valid block is overdrawn.
NotOverdrawn == \A b \in DOMAIN blocks : \A a \in Account : blocks[b].bal[a] >= 0

\* On every branch that can still be accepted a UTXO is imported once, and one
\* that an undecided block imports is still there.
ImportedOnce ==
  \A b \in Live :
    LET spent == [a \in Undecided(b) |-> Removed(ToSet(blocks[a].txs))]
    IN  /\ \A a \in Undecided(b) : spent[a] \subseteq shared
        /\ \A a, c \in Undecided(b) : a # c => spent[a] \cap spent[c] = {}

\* Every transaction of a block pays, in wei, for its gas at the block's base fee.
FeePaid ==
  \A b \in DOMAIN blocks :
    \A i \in DOMAIN blocks[b].txs :
      blocks[b].ok => Rate * Burned(blocks[b].txs[i]) >= GasUsed(blocks[b].txs[i]) * blocks[b].fee

\* What the node builds, checking one transaction at a time, passes the
\* verification of the block as a whole.
BuiltVerifies == \A b \in DOMAIN blocks : blocks[b].built => blocks[b].ok

\* A wallet's transaction burns the fee of its own gas to the unit.
ExactFee ==
  \A tx \in issued : \E f \in Fees : Burned(tx) = CalculateDynamicFee(GasUsed(tx), f)

Safety == Conserved /\ NotOverdrawn /\ ImportedOnce /\ FeePaid /\ BuiltVerifies /\ ExactFee

=============================================================================
