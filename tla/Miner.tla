-------------------------------- MODULE Miner --------------------------------
(***************************************************************************)
(* Building a block and verifying one: the worker (miner/worker.go and     *)
(* ordering.go), the state transition of a transaction                     *)
(* (core/state_transition.go), the processor and the validator             *)
(* (core/state_processor.go, block_validator.go), the consensus engine     *)
(* (consensus/dummy/consensus.go), the predicates                          *)
(* (core/predicate_check.go, predicate/) and the checks on a header        *)
(* (plugin/evm/header, wrapped_block.go), with the fee state a header      *)
(* carries (plugin/evm/upgrade/lp176/lp176.go).                            *)
(*                                                                         *)
(* One chain, every block of it accepted. The worker fills a block from    *)
(* what it saw of the pool when it started, while the pool and the clock   *)
(* move on. Blocks of other nodes are what their makers say they are, or   *)
(* have one field that is wrong. The EVM is left out: a transaction has    *)
(* the gas its execution would use, and fails if its limit is below that.  *)
(* Blob transactions have no pool in this node.                            *)
(***************************************************************************)
EXTENDS Integers, FiniteSetsExt, Sequences, SequencesExt, Functions

CONSTANTS
  MaxGas,        \* the largest gas: a uint64
  MinTargetPerSecond, TargetConversion, MaxTargetExcessDiff,
  TimeToFillCapacity, TargetToMax, TargetToPriceUpdateConversion,
  MinGasPrice,
  Tx,            \* [from, to, nonce, gas, use, cap, tip, value, pred, size]
  Funds,         \* [account -> balance] at genesis
  Locals,        \* the accounts whose transactions go first
  TxGas,         \* the intrinsic gas
  PredicateGas,  \* and the gas of a predicate
  Contexts,      \* the contexts a block is built in, "none" for no context
  Holds,         \* [predicate -> the contexts it holds in]
  ExtGas,        \* the gas atomic transactions may take
  Targets,       \* the targets a node may want
  TargetTxsSize, LegacyGasLimit, FutureTime,
  MaxTime, MaxBlocks, MaxForeignTxs

VARIABLES
  chain,     \* the blocks, [header, txs, bal, nonce]
  clock,
  pool,      \* the transactions the pool holds
  env,       \* the worker's environment
  refused    \* ghost: the worker's own block did not verify

vars == <<chain, clock, pool, env, refused>>

Account == DOMAIN Funds

Coinbase == "blackhole"

CurrentBlock == Last(chain)

StateOf(b) == [bal |-> b.bal, nonce |-> b.nonce]

-----------------------------------------------------------------------------
(* The fee state [cap, excess, target]: the gas that may still be used now, *)
(* the gas used above the target so far, and the exponent of the target.    *)

\* factor * e^(excess / conversion), by its Taylor series in integers.
RECURSIVE Series(_, _, _, _, _)
Series(output, accum, excess, conversion, i) ==
  IF accum = 0 THEN output
  ELSE Series(output + accum, ((accum * excess) \div conversion) \div i,
              excess, conversion, i + 1)

CalculatePrice(factor, excess, conversion) ==
  Min({MaxGas, Series(0, factor * conversion, excess, conversion, 1) \div conversion})

mulWithUpperBound(a, b) == Min({a * b, MaxGas})

Target(s) == CalculatePrice(MinTargetPerSecond, s.target, TargetConversion)

MaxPerSecond(s) == mulWithUpperBound(Target(s), TargetToMax)

MaxCapacity(s) == mulWithUpperBound(Target(s), TargetToMax * TimeToFillCapacity)

GasPrice(s) ==
  CalculatePrice(MinGasPrice, s.excess,
                 mulWithUpperBound(Target(s), TargetToPriceUpdateConversion))

AdvanceTime(s, seconds) ==
  [s EXCEPT !.cap    = Min({@ + MaxPerSecond(s) * seconds,
                            mulWithUpperBound(MaxPerSecond(s), TimeToFillCapacity)}),
            !.excess = Max({0, @ - Target(s) * seconds})]

Insufficient == [cap |-> -1, excess |-> -1, target |-> -1]

Consume(s, gas) ==
  IF s = Insufficient \/ s.cap < gas THEN Insufficient
  ELSE [s EXCEPT !.cap = @ - gas, !.excess = Min({@ + gas, MaxGas})]

\* The transactions' gas first, then that of the atomic transactions.
ConsumeGas(s, gasUsed, extraGasUsed) == Consume(Consume(s, gasUsed), extraGasUsed)

targetExcess(excess, desired) ==
  IF excess < desired THEN excess + Min({desired - excess, MaxTargetExcessDiff})
                      ELSE excess - Min({excess - desired, MaxTargetExcessDiff})

\* (A variant that leaves the excess as it is when the target moves.)
NotScaled(excess, new, previous) == excess

scaleExcess(excess, new, previous) == ((excess * new) \div previous) % (MaxGas + 1)

\* (A variant that lets the capacity be what it was.)
NotLowered(s, desired) ==
  LET moved == [s EXCEPT !.target = targetExcess(@, desired)]
  IN  [moved EXCEPT !.excess = scaleExcess(@, Target(moved), Target(s))]

UpdateTargetExcess(s, desired) ==
  LET moved == [s EXCEPT !.target = targetExcess(@, desired)]
  IN  [moved EXCEPT !.excess = scaleExcess(@, Target(moved), Target(s)),
                    !.cap    = Min({@, MaxCapacity(moved)})]

-----------------------------------------------------------------------------
(* Of a header: [number, time, fee, ...], fee the state its Extra begins with. *)

feeStateBeforeBlock(parent, time) ==
  AdvanceTime(IF parent.number = 0 THEN [cap |-> 0, excess |-> 0, target |-> 0] ELSE parent.fee,
              time - parent.time)

\* desired is a set: empty when the node has no target of its own.
feeStateAfterBlock(parent, time, gasUsed, ext, desired) ==
  LET used == ConsumeGas(feeStateBeforeBlock(parent, time), gasUsed, ext)
  IN  IF used = Insufficient \/ desired = {} THEN used
      ELSE UpdateTargetExcess(used, CHOOSE d \in desired : TRUE)

BaseFee(parent, time) == GasPrice(feeStateBeforeBlock(parent, time))

GasLimit(parent, time) == MaxCapacity(feeStateBeforeBlock(parent, time))

GasCapacity(parent, time) == feeStateBeforeBlock(parent, time).cap

RemainingAtomicGasCapacity(parent, time, gasUsed) ==
  ConsumeGas(feeStateBeforeBlock(parent, time), gasUsed, 0).cap

\* VerifyExtraPrefix: by passing the claimed target the expected one is the same,
\* if it can be reached.
VerifyExtraPrefix(parent, h) ==
  h.fee = feeStateAfterBlock(parent, h.time, h.gasUsed, h.ext, {h.fee.target})

VerifyGasUsed(parent, h) == h.gasUsed + h.ext <= GasCapacity(parent, h.time)

VerifyGasLimit(parent, h) == h.gasLimit = GasLimit(parent, h.time)

-----------------------------------------------------------------------------
(* One transaction: st is [bal, nonce], gp the gas pool *)

IntrinsicGas(tx) == TxGas + (IF tx.pred = "none" THEN 0 ELSE PredicateGas)

EffectivePrice(tx, baseFee) == Min({tx.tip + baseFee, tx.cap})

EffectiveTip(tx, baseFee) == Min({tx.tip, tx.cap - baseFee})

\* The sender has enough for all of the gas at the fee cap, and the block has it.
buyGas(tx, st, gp) ==
  IF st.bal[tx.from] < tx.gas * tx.cap + tx.value THEN "funds"
  ELSE IF gp < tx.gas THEN "gas limit"
  ELSE "none"

preCheck(tx, st, gp, baseFee) ==
  IF tx.nonce < st.nonce[tx.from] THEN "nonce too low"
  ELSE IF tx.nonce > st.nonce[tx.from] THEN "nonce too high"
  ELSE IF tx.cap < tx.tip \/ tx.cap < baseFee THEN "fee cap"
  ELSE buyGas(tx, st, gp)

\* The gas is bought at the effective price, what is left of it returned, what is
\* used goes to the coinbase. An execution that fails uses all of it and moves
\* no value. Refunds are skipped.
GasUsed(tx) == Min({IntrinsicGas(tx) + tx.use, tx.gas})

Fails(tx) == IntrinsicGas(tx) + tx.use > tx.gas

Pay(bal, from, to, amount) == [[bal EXCEPT ![from] = @ - amount] EXCEPT ![to] = @ + amount]

\* (A variant that gives the rest back at the fee cap.)
TransitionAtCap(tx, st, baseFee) ==
  LET price == EffectivePrice(tx, baseFee)
      paid  == Pay(st.bal, tx.from, Coinbase, GasUsed(tx) * price)
      extra == [paid EXCEPT ![tx.from] = @ + (tx.gas - GasUsed(tx)) * (tx.cap - price)]
  IN  [bal   |-> IF Fails(tx) THEN extra ELSE Pay(extra, tx.from, tx.to, tx.value),
       nonce |-> [st.nonce EXCEPT ![tx.from] = @ + 1]]

TransitionDb(tx, st, baseFee) ==
  LET paid == Pay(st.bal, tx.from, Coinbase, GasUsed(tx) * EffectivePrice(tx, baseFee))
  IN  [bal   |-> IF Fails(tx) THEN paid ELSE Pay(paid, tx.from, tx.to, tx.value),
       nonce |-> [st.nonce EXCEPT ![tx.from] = @ + 1]]

-----------------------------------------------------------------------------
(* Predicates: a transaction with one needs a context, and its result is part *)
(* of the header whether it holds or not.                                     *)

CheckPredicates(tx, ctx) == tx.gas >= IntrinsicGas(tx) /\ (tx.pred = "none" \/ ctx # "none")

Results(txs, ctx) == {<<tx, ctx \in Holds[tx.pred]>> : tx \in {t \in txs : t.pred # "none"}}

-----------------------------------------------------------------------------
(* Verification of a block [header, txs] on a parent *)

\* Process: every transaction, in order, on one gas pool of the gas limit.
Apply(r, tx, baseFee) ==
  IF r.ok /\ preCheck(tx, r.st, r.gp, baseFee) = "none" /\ tx.gas >= IntrinsicGas(tx)
  THEN [ok |-> TRUE, st |-> TransitionDb(tx, r.st, baseFee), gp |-> r.gp - GasUsed(tx)]
  ELSE [r EXCEPT !.ok = FALSE]

Process(b, parent) ==
  FoldLeft(LAMBDA r, tx : Apply(r, tx, b.header.baseFee),
           [ok |-> TRUE, st |-> StateOf(parent), gp |-> b.header.gasLimit], b.txs)

verifyHeaderGasFields(h, parent) ==
  /\ VerifyGasUsed(parent, h)
  /\ VerifyGasLimit(parent, h)
  /\ VerifyExtraPrefix(parent, h)
  /\ h.baseFee = BaseFee(parent, h.time)

verifyHeader(h, parent) ==
  /\ h.time >= parent.time
  /\ verifyHeaderGasFields(h, parent)
  /\ h.time <= clock + FutureTime
  /\ h.number = parent.number + 1
  /\ h.blobs = 0

syntacticVerify(b) ==
  /\ b.header.coinbase = Coinbase
  /\ b.header.blobs = 0
  /\ b.txs # <<>> \/ b.header.ext > 0

\* The context is that of the block it is wrapped in, the same for every node.
verifyPredicates(b) ==
  /\ \A tx \in ToSet(b.txs) : CheckPredicates(tx, b.header.ctx)
  /\ b.header.preds = Results(ToSet(b.txs), b.header.ctx)

\* BlockGasCost is 0: any tip that there is covers it.
verifyBlockFee(txs, baseFee) == baseFee > 0 /\ \A tx \in ToSet(txs) : tx.cap >= baseFee

\* The atomic gas of the block's own transactions, within what is left.
Finalize(b, parent, used) ==
  /\ verifyBlockFee(b.txs, b.header.baseFee)
  /\ b.header.ext = b.ext
  /\ b.ext <= RemainingAtomicGasCapacity(parent.header, b.header.time, used)

ValidateState(b, used, st) == b.header.gasUsed = used /\ b.header.root = st

\* No transaction of the body is a blob transaction.
ValidateBody(b) == b.header.blobs = 0

semanticVerify(b) == b.header.time <= clock + FutureTime

Verify(b, parent) ==
  /\ syntacticVerify(b)
  /\ semanticVerify(b)
  /\ verifyPredicates(b)
  /\ verifyHeader(b.header, parent.header)
  /\ ValidateBody(b)
  /\ LET r    == Process(b, parent)
         used == b.header.gasLimit - r.gp
     IN  r.ok /\ Finalize(b, parent, used) /\ ValidateState(b, used, r.st)

-----------------------------------------------------------------------------
(* The worker *)

Idle == [pc |-> "idle"]

\* What the pool can hold: one transaction per nonce. It hears of a new head late,
\* so that the nonces can be anything.
Pools == {S \in SUBSET Tx : \A t, u \in S : t.from = u.from /\ t.nonce = u.nonce => t = u}

\* What it offers: of each account the transactions in the order of their
\* nonces, up to the first that does not pay the base fee.
Pending(txs, baseFee) ==
  [a \in Account |->
     LET mine == SetToSortSeq({t \in txs : t.from = a}, LAMBDA t, u : t.nonce < u.nonce)
         bad  == {i \in DOMAIN mine : mine[i].cap < baseFee}
     IN  IF bad = {} THEN mine ELSE SubSeq(mine, 1, Min(bad) - 1)]

Only(lists, S) == [a \in Account |-> IF a \in S THEN lists[a] ELSE <<>>]

minimumBuildableCapacity(gasLimit) ==
  Min({gasLimit - gasLimit \div TimeToFillCapacity, LegacyGasLimit})

\* commitNewWork up to the first transaction. A block is not begun when too
\* little gas may be used now.
Start ==
  LET parent == CurrentBlock.header
      time   == Max({clock, parent.time})
      limit  == GasLimit(parent, time)
      fee    == BaseFee(parent, time)
  IN  /\ env.pc = "idle"
      /\ Len(chain) < MaxBlocks
      /\ GasCapacity(parent, time) >= minimumBuildableCapacity(limit)
      /\ \E ctx \in Contexts, txs \in Pools :
           /\ pool' = txs
           /\ env' = [pc |-> "local", time |-> time, limit |-> limit, baseFee |-> fee,
                      gp |-> GasCapacity(parent, time), st |-> StateOf(CurrentBlock),
                      txs |-> <<>>, used |-> 0, size |-> 0, preds |-> {}, ctx |-> ctx,
                      lists  |-> Only(Pending(txs, fee), Locals),
                      others |-> Only(Pending(txs, fee), Account \ Locals)]
      /\ UNCHANGED <<chain, clock, refused>>

Heads(lists) == {lists[a][1] : a \in {b \in Account : lists[b] # <<>>}}

\* (A variant that takes any account's first.)
AnyHead(lists, baseFee) == Heads(lists)

Peek(lists, baseFee) ==
  {t \in Heads(lists) : \A u \in Heads(lists) : EffectiveTip(t, baseFee) >= EffectiveTip(u, baseFee)}

Shift(lists, t) == [lists EXCEPT ![t.from] = Tail(@)]

Pop(lists, t) == [lists EXCEPT ![t.from] = <<>>]

Full == env.gp < TxGas \/ Heads(env.lists) = {}

Applied(t) ==
  LET err == preCheck(t, env.st, env.gp, env.baseFee)
  IN  IF ~ CheckPredicates(t, env.ctx) THEN "predicate" ELSE err

Included(t) ==
  [env EXCEPT !.st = TransitionDb(t, @, env.baseFee), !.gp = @ - GasUsed(t),
              !.used = @ + GasUsed(t), !.txs = Append(@, t), !.size = @ + t.size,
              !.preds = @ \cup Results({t}, env.ctx)]

\* One turn of commitTransactions.
CommitTransaction ==
  /\ env.pc \in {"local", "remote"} /\ ~ Full
  /\ \E t \in Peek(env.lists, env.baseFee) :
       IF env.gp < t.gas \/ t \notin pool \/ env.size + t.size > TargetTxsSize
       THEN env' = [env EXCEPT !.lists = Pop(@, t)]
       ELSE CASE Applied(t) = "none" -> env' = [Included(t) EXCEPT !.lists = Shift(@, t)]
              [] Applied(t) = "nonce too low" -> env' = [env EXCEPT !.lists = Shift(@, t)]
              [] OTHER -> env' = [env EXCEPT !.lists = Pop(@, t)]
  /\ UNCHANGED <<chain, clock, pool, refused>>

NextList ==
  /\ env.pc = "local" /\ Full
  /\ env' = [env EXCEPT !.pc = "remote", !.lists = env.others]
  /\ UNCHANGED <<chain, clock, pool, refused>>

\* A block of the given contents, its fee state moved toward a target.
Header(parent, time, limit, baseFee, used, ext, desired, preds, ctx, st) ==
  [number |-> parent.number + 1, time |-> time, gasLimit |-> limit, baseFee |-> baseFee,
   gasUsed |-> used, ext |-> ext, coinbase |-> Coinbase, blobs |-> 0,
   fee |-> feeStateAfterBlock(parent, time, used, ext, desired),
   preds |-> preds, ctx |-> ctx, root |-> st]

Block(header, txs, ext, st) ==
  [header |-> header, txs |-> txs, ext |-> ext, bal |-> st.bal, nonce |-> st.nonce]

\* commit: FinalizeAndAssemble with the atomic transactions that fit, and the
\* verification of what was built, on the same head: the engine's lock is held.
Commit ==
  /\ env.pc = "remote" /\ Full
  /\ \E ext \in ExtGas, desired \in {{}} \cup {{q} : q \in Targets} :
       LET parent == CurrentBlock.header
           b == Block(Header(parent, env.time, env.limit, env.baseFee, env.used, ext, desired,
                             env.preds, env.ctx, env.st), env.txs, ext, env.st)
       IN  /\ ext <= RemainingAtomicGasCapacity(parent, env.time, env.used)
           /\ env.txs # <<>> \/ ext > 0
           /\ verifyBlockFee(env.txs, env.baseFee)
           /\ chain' = IF Verify(b, CurrentBlock) THEN Append(chain, b) ELSE chain
           /\ refused' = (refused \/ ~ Verify(b, CurrentBlock))
  /\ env' = Idle /\ pool' = {}
  /\ UNCHANGED clock

\* Nothing to put into a block.
Empty ==
  /\ env.pc = "remote" /\ Full /\ env.txs = <<>>
  /\ env' = Idle /\ pool' = {}
  /\ UNCHANGED <<chain, clock, refused>>

-----------------------------------------------------------------------------
(* Everyone else *)

\* One field of a block as its maker might have got it wrong.
Defects == {"coinbase", "number", "time", "limit", "price", "less gas", "less ext",
            "blobs", "preds", "root", "capacity"}

Spoiled(b, d) ==
  CASE d = "coinbase" -> [b EXCEPT !.header.coinbase = "someone"]
    [] d = "number"   -> [b EXCEPT !.header.number = @ + 1]
    [] d = "time"     -> [b EXCEPT !.header.time = @ - 1]
    [] d = "limit"    -> [b EXCEPT !.header.gasLimit = @ + 1]
    [] d = "price"    -> [b EXCEPT !.header.baseFee = @ + 1]
    [] d = "less gas" -> [b EXCEPT !.header.gasUsed = @ - 1]
    [] d = "less ext" -> [b EXCEPT !.header.ext = @ - 1]
    [] d = "blobs"    -> [b EXCEPT !.header.blobs = 1]
    [] d = "preds"    -> [b EXCEPT !.header.preds = {}]
    [] d = "root"     -> [b EXCEPT !.header.root.nonce = [a \in DOMAIN @ |-> 0]]
    [] d = "capacity" -> [b EXCEPT !.header.fee.cap = @ + 1]

\* The maker's block, at a time and for a target it chose. It may claim a target
\* that is too far.
Made(time, txs, ext, ctx, q) ==
  LET parent == CurrentBlock.header
      limit  == GasLimit(parent, time)
      fee    == BaseFee(parent, time)
      r      == Process([header |-> [baseFee |-> fee, gasLimit |-> limit], txs |-> txs], CurrentBlock)
      h      == Header(parent, time, limit, fee, limit - r.gp, ext, {q},
                       Results(ToSet(txs), ctx), ctx, r.st)
  IN  IF r.ok THEN Block([h EXCEPT !.fee.target = q], txs, ext, r.st)
              ELSE Block(h, txs, ext, r.st)

Foreign ==
  /\ env.pc = "idle"
  /\ Len(chain) < MaxBlocks
  /\ \E time \in CurrentBlock.header.time .. clock + FutureTime + 1, S \in kSubset(MaxForeignTxs, Tx) \cup {{}},
        ext \in ExtGas, q \in Targets, ctx \in Contexts :
       \E txs \in SetToSeqs(S) :
         LET made == Made(time, txs, ext, ctx, q)
         IN  \E b \in {made} \cup {Spoiled(made, d) : d \in Defects} :
               Verify(b, CurrentBlock) /\ chain' = Append(chain, b)
  /\ UNCHANGED <<clock, pool, env, refused>>

\* The pool gives one up while the worker is at it.
Evict ==
  /\ env.pc # "idle"
  /\ \E t \in pool : pool' = pool \ {t}
  /\ UNCHANGED <<chain, clock, env, refused>>

Tick ==
  /\ clock < MaxTime
  /\ clock' = clock + 1
  /\ UNCHANGED <<chain, pool, env, refused>>

Genesis ==
  [header |-> [number |-> 0, time |-> 0, gasLimit |-> 0, baseFee |-> MinGasPrice, gasUsed |-> 0,
               ext |-> 0, coinbase |-> Coinbase, blobs |-> 0,
               fee |-> [cap |-> 0, excess |-> 0, target |-> 0], preds |-> {}, ctx |-> "none",
               root |-> [bal |-> Funds @@ (Coinbase :> 0), nonce |-> [a \in Account |-> 0]]],
   txs |-> <<>>, ext |-> 0,
   bal |-> Funds @@ (Coinbase :> 0), nonce |-> [a \in Account |-> 0]]

Init ==
  /\ chain = <<Genesis>> /\ clock = 0 /\ pool = {}
  /\ env = Idle /\ refused = FALSE

Next ==
  Start \/ CommitTransaction \/ NextList \/ Commit \/ Empty \/ Foreign \/ Evict \/ Tick

Spec == Init /\ [][Next]_vars

-----------------------------------------------------------------------------
(* Properties *)

RECURSIVE GasBetween(_, _)
GasBetween(i, j) ==
  IF j = i THEN 0 ELSE chain[j].header.gasUsed + chain[j].ext + GasBetween(i, j - 1)

RECURSIVE Refill(_, _)
Refill(i, j) ==
  IF j = i THEN 0
  ELSE MaxPerSecond(chain[j - 1].header.fee) * (chain[j].header.time - chain[j - 1].header.time)
       + Refill(i, j - 1)

\* What the worker builds verifies: the gas it gave out, the atomic gas on top of
\* it, the results of the predicates, the base fee of a time fixed at the start
\* and the target it moved toward are the ones the verifier finds.
BuiltVerifies == ~ refused

\* Verification is tight: no block gets in with a field that is not what the
\* block's transactions, its parent and its time give.
Tight ==
  \A i \in 2 .. Len(chain) :
    LET h == chain[i].header
        p == chain[i - 1].header
        r == Process(chain[i], chain[i - 1])
    IN  /\ h.number = i - 1 /\ h.time >= p.time /\ h.coinbase = Coinbase /\ h.blobs = 0
        /\ h.ext = chain[i].ext /\ h.gasUsed = h.gasLimit - r.gp /\ h.root = r.st
        /\ h.gasLimit = GasLimit(p, h.time) /\ h.baseFee = BaseFee(p, h.time)
        /\ h.preds = Results(ToSet(chain[i].txs), h.ctx)

\* The gas used between any two blocks, atomic gas included, is at most what was
\* there and what came back with time, and never is there more than the maximum.
RateLimited ==
  /\ \A i \in 1 .. Len(chain) : \A j \in i .. Len(chain) :
       GasBetween(i, j) <= chain[i].header.fee.cap + Refill(i, j)
  /\ \A i \in 1 .. Len(chain) :
       chain[i].header.fee.cap \in 0 .. MaxCapacity(chain[i].header.fee)

\* The target moves by a bounded amount per block.
TargetMoves ==
  \A i \in 2 .. Len(chain) :
    LET d == chain[i].header.fee.target - chain[i - 1].header.fee.target
    IN  d <= MaxTargetExcessDiff /\ -d <= MaxTargetExcessDiff

\* Moving the target does not move the price by itself: the price after what the
\* block used is the same on the old target, but for the rounding of the series.
PriceKept ==
  \A i \in 2 .. Len(chain) :
    LET h   == chain[i].header
        old == feeStateAfterBlock(chain[i - 1].header, h.time, h.gasUsed, h.ext, {})
    IN  GasPrice(h.fee) - GasPrice(old) \in -1 .. 1

\* No wei is made or lost: what the accounts and the coinbase have is what there
\* was, and no account is overdrawn, in the chain and while a block is filled.
Conserved ==
  LET total(bal) == FoldSet(LAMBDA a, t : bal[a] + t, 0, DOMAIN bal)
      states     == {chain[i].bal : i \in DOMAIN chain}
                      \cup (IF env.pc = "idle" THEN {} ELSE {env.st.bal})
  IN  \A bal \in states :
        total(bal) = total(Genesis.bal) /\ \A a \in DOMAIN bal : bal[a] >= 0

\* A worker that has to wait for gas has to wait less than the time it takes to
\* fill the capacity.
WaitsLess ==
  LET p == CurrentBlock.header
      t == p.time + TimeToFillCapacity - 1
  IN  GasCapacity(p, t) >= minimumBuildableCapacity(GasLimit(p, t))

\* Of the accounts in one list the better tip goes first: a transaction that comes
\* later paid no more, or waited for one of its own account that paid no more.
BetterFirst ==
  env.pc # "idle" =>
    \A i, j \in DOMAIN env.txs :
      LET t == env.txs[i]
          u == env.txs[j]
      IN  i < j /\ t.from # u.from /\ (t.from \in Locals) = (u.from \in Locals) =>
            \E v \in Tx : v.from = u.from /\ v.nonce <= u.nonce
              /\ (v.nonce < CurrentBlock.nonce[v.from] \/ \E k \in i .. j : env.txs[k] = v)
              /\ EffectiveTip(v, env.baseFee) <= EffectiveTip(t, env.baseFee)

Safety ==
  /\ BuiltVerifies /\ Tight /\ RateLimited /\ TargetMoves /\ PriceKept /\ Conserved
  /\ WaitsLess /\ BetterFirst

=============================================================================
