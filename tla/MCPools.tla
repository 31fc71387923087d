------------------------------ MODULE MCPools -------------------------------
(***************************************************************************)
(* The transaction pools for TLC: the pool of ordinary transactions, the   *)
(* pool of blob transactions and the coordinator above them, and the       *)
(* mempool of atomic transactions with the block builder, and the atomic   *)
(* transactions themselves.  The pools share only the reservations of      *)
(* addresses, which each module takes and gives up on its own (OtherPool), *)
(* so a behaviour runs one of them.                                        *)
(***************************************************************************)
EXTENDS Integers, Sequences, TLC

CONSTANT Parts  \* the components to run

VARIABLES
    part,
    lPool, lSched, lCur, lAdder, lHead, lAnnounced, lAdds, lResets,
    bStore, bLimbo, bGone, bPool, bFinal, bKept, bSteps,
    tChain, tLoop, tReset, tAt, tJumps, tCaller, tStarted, tClosed, tAdded,
    kMempool, kProcessing, kPreferred, kSpent, kPhase, kBatch, kLosers, kRejecting, kEvmTxs,
    kTxSubmitChan, kWaiter, kToEngine, kOrphaned,
    xBlocks, xLast, xPreferred, xRejected, xShared, xExported, xIssued

lVars == <<lPool, lSched, lCur, lAdder, lHead, lAnnounced, lAdds, lResets>>
bVars == <<bStore, bLimbo, bGone, bPool, bFinal, bKept, bSteps>>
tVars == <<tChain, tLoop, tReset, tAt, tJumps, tCaller, tStarted, tClosed, tAdded>>
kVars == <<kMempool, kProcessing, kPreferred, kSpent, kPhase, kBatch, kLosers, kRejecting,
           kEvmTxs, kTxSubmitChan, kWaiter, kToEngine, kOrphaned>>
xVars == <<xBlocks, xLast, xPreferred, xRejected, xShared, xExported, xIssued>>
vars == <<part, lVars, bVars, tVars, kVars, xVars>>

Accounts == {"A", "B"}
Txs == {"a0", "a0x", "a1", "a2", "b0", "b1"}
TxFrom == [t \in Txs |-> IF t \in {"b0", "b1"} THEN "B" ELSE "A"]
TxNonce == [t \in Txs |-> CASE t = "a2" -> 2 [] t \in {"a1", "b1"} -> 1 [] OTHER -> 0]
TxPrice == ("a0" :> 2) @@ ("a0x" :> 6) @@ ("a1" :> 1) @@ ("a2" :> 5) @@ ("b0" :> 3) @@ ("b1" :> 4)
TxCost == [t \in Txs |-> IF t = "a1" THEN 2 ELSE 1]

\* g - x - z and g - y - v, and w next to x and y, whose state is not there.
Blocks == {"g", "x", "y", "z", "v", "w"}
BlockParent == [b \in Blocks |-> CASE b = "z" -> "x" [] b = "v" -> "y" [] OTHER -> "g"]
BlockNumber == [b \in Blocks |-> CASE b = "g" -> 0 [] b \in {"v", "z"} -> 2 [] OTHER -> 1]
BlockBody == ("g" :> <<>>) @@ ("x" :> <<"a0">>) @@ ("z" :> <<"a1">>)
             @@ ("y" :> <<"b0">>) @@ ("v" :> <<"a0">>) @@ ("w" :> <<>>)
LegacyBalance == [b \in Blocks |-> [a \in Accounts |-> IF b = "y" /\ a = "A" THEN 1 ELSE 3]]
BlobBalance == [b \in Blocks |-> [a \in Accounts |-> IF b \in {"v", "x"} /\ a = "A" THEN 1 ELSE 3]]

Legacy == INSTANCE LegacyPool WITH
    pool <- lPool, sched <- lSched, cur <- lCur, adder <- lAdder, head <- lHead,
    announced <- lAnnounced, adds <- lAdds, resets <- lResets,
    Account <- Accounts, Tx <- Txs, From <- TxFrom, Nonce <- TxNonce, Price <- TxPrice,
    Cost <- TxCost, Block <- Blocks \ {"v"}, Genesis <- "g", Parent <- BlockParent,
    Number <- BlockNumber, Body <- BlockBody, Start <- "z", Balance <- LegacyBalance,
    NoState <- {"w"}, GlobalSlots <- 2, GlobalQueue <- 1, AccountSlots <- 1,
    AccountQueue <- 1, PriceBump <- 100, MaxReorg <- 64, Tips <- {3}, LocalTx <- {"b1"},
    Shared <- {"B"}, MaxAdds <- 3, MaxResets <- 1

Blob == INSTANCE BlobPool WITH
    store <- bStore, limbo <- bLimbo, gone <- bGone, pool <- bPool, final <- bFinal,
    kept <- bKept, steps <- bSteps,
    Account <- Accounts, Tx <- Txs \ {"a2", "b1"}, From <- TxFrom, Nonce <- TxNonce,
    Price <- TxPrice, Cost <- TxCost, Block <- Blocks \ {"w"}, Genesis <- "g",
    Parent <- BlockParent, Number <- BlockNumber, Body <- BlockBody, Balance <- BlobBalance,
    Datacap <- 2, MaxTxsPerAccount <- 2, PriceBump <- 100, Tips <- {2}, Shared <- {"B"},
    MaxSteps <- 6

\* A batch mixed over two subpools, with a transaction no subpool takes.
Mixed == << [pool |-> 2, err |-> "e1"], [pool |-> 1, err |-> "e2"], [pool |-> 0, err |-> "e3"],
            [pool |-> 2, err |-> "e4"], [pool |-> 1, err |-> "e5"] >>

Coordinator == INSTANCE TxPool WITH
    chain <- tChain, loop <- tLoop, reset <- tReset, at <- tAt, jumps <- tJumps,
    caller <- tCaller, started <- tStarted, closed <- tClosed, added <- tAdded,
    Pools <- 2, Heads <- 3, Caller <- {"c1", "c2"}, Batches <- {Mixed}

\* Two conflicting transactions, and the EVM's pool as another reason to build.
Building == INSTANCE BlockBuilding WITH
    mempool <- kMempool, processing <- kProcessing, preferred <- kPreferred,
    spent <- kSpent, phase <- kPhase, batch <- kBatch, losers <- kLosers,
    rejecting <- kRejecting, evmTxs <- kEvmTxs, txSubmitChan <- kTxSubmitChan,
    waiter <- kWaiter, toEngine <- kToEngine, orphaned <- kOrphaned,
    Tx <- {"t1", "t2"}, NoTx <- "none", Utxo <- {"u1", "u2"},
    InputUTXOs <- [t1 |-> {"u1"}, t2 |-> {"u1", "u2"}], gasPrice <- [t1 |-> 1, t2 |-> 2],
    maxSize <- 1, discardedTxsCacheSize <- 1, MaxBatch <- 1, MaxDepth <- 1,
    MaxProcessing <- 1, EvmPool <- TRUE

\* The same two, in blocks on top of blocks that are not decided.
Deep == INSTANCE BlockBuilding WITH
    mempool <- kMempool, processing <- kProcessing, preferred <- kPreferred,
    spent <- kSpent, phase <- kPhase, batch <- kBatch, losers <- kLosers,
    rejecting <- kRejecting, evmTxs <- kEvmTxs, txSubmitChan <- kTxSubmitChan,
    waiter <- kWaiter, toEngine <- kToEngine, orphaned <- kOrphaned,
    Tx <- {"t1", "t2"}, NoTx <- "none", Utxo <- {"u1", "u2"},
    InputUTXOs <- [t1 |-> {"u1"}, t2 |-> {"u1", "u2"}], gasPrice <- [t1 |-> 1, t2 |-> 2],
    maxSize <- 1, discardedTxsCacheSize <- 1, MaxBatch <- 1, MaxDepth <- 2,
    MaxProcessing <- 1, EvmPool <- FALSE

\* Two accounts, two UTXOs and a gas limit that a block of two transactions may exceed.
Atomic == INSTANCE AtomicTx WITH
    blocks <- xBlocks, last <- xLast, preferred <- xPreferred, rejected <- xRejected,
    shared <- xShared, exported <- xExported, issued <- xIssued,
    Keys <- <<"p", "q">>, Balance <- [p |-> 9, q |-> 14], UTXO <- [u |-> 4, v |-> 3],
    Rate <- 2, BaseCost <- 1, EVMInputGas <- 1, EVMOutputGas <- 2, AtomicGasLimit <- 6,
    Fees <- {1, 2}, Amounts <- {1, 4}, MaxBlocks <- 3, MaxIssued <- 2

\* A component that does not run has no state.
IdleLegacy ==
    /\ lPool = 0 /\ lSched = 0 /\ lCur = 0 /\ lAdder = 0 /\ lHead = 0 /\ lAnnounced = 0
    /\ lAdds = 0 /\ lResets = 0
IdleBlob ==
    /\ bStore = 0 /\ bLimbo = 0 /\ bGone = 0 /\ bPool = 0 /\ bFinal = 0 /\ bKept = 0
    /\ bSteps = 0
IdleCoordinator ==
    /\ tChain = 0 /\ tLoop = 0 /\ tReset = 0 /\ tAt = 0 /\ tJumps = 0 /\ tCaller = 0
    /\ tStarted = 0 /\ tClosed = 0 /\ tAdded = 0
IdleBuilding ==
    /\ kMempool = 0 /\ kProcessing = 0 /\ kPreferred = 0 /\ kSpent = 0 /\ kPhase = 0
    /\ kBatch = 0 /\ kLosers = 0 /\ kRejecting = 0 /\ kEvmTxs = 0 /\ kTxSubmitChan = 0
    /\ kWaiter = 0 /\ kToEngine = 0 /\ kOrphaned = 0
IdleAtomic ==
    /\ xBlocks = 0 /\ xLast = 0 /\ xPreferred = 0 /\ xRejected = 0 /\ xShared = 0
    /\ xExported = 0 /\ xIssued = 0

Init ==
    /\ part \in Parts
    /\ IF part = "legacy" THEN Legacy!Init ELSE IdleLegacy
    /\ IF part = "blob" THEN Blob!Init ELSE IdleBlob
    /\ IF part = "txpool" THEN Coordinator!Init ELSE IdleCoordinator
    /\ CASE part = "building" -> Building!Init
         [] part = "deep" -> Deep!Init
         [] OTHER -> IdleBuilding
    /\ IF part = "atomictx" THEN Atomic!Init ELSE IdleAtomic

OnlyL == UNCHANGED <<part, bVars, tVars, kVars, xVars>>
OnlyB == UNCHANGED <<part, lVars, tVars, kVars, xVars>>
OnlyT == UNCHANGED <<part, lVars, bVars, kVars, xVars>>
OnlyK == UNCHANGED <<part, lVars, bVars, tVars, xVars>>
OnlyX == UNCHANGED <<part, lVars, bVars, tVars, kVars>>

LegacyNext == part = "legacy" /\ Legacy!Next /\ OnlyL
BlobNext == part = "blob" /\ Blob!Next /\ OnlyB
TxPoolNext == part = "txpool" /\ Coordinator!Next /\ OnlyT
BuildingNext == part = "building" /\ Building!Next /\ OnlyK
DeepNext == part = "deep" /\ Deep!Next /\ OnlyK
AtomicNext == part = "atomictx" /\ Atomic!Next /\ OnlyX

Next == LegacyNext \/ BlobNext \/ TxPoolNext \/ BuildingNext \/ DeepNext \/ AtomicNext

\* The variables of the component that runs: its steps change no others.
Mine == CASE part = "txpool" -> tVars [] part = "building" -> kVars [] OTHER -> 0

\* The head events come, the reset goroutine runs and the loop takes its answer.  The
\* builder's goroutine is scheduled, and the engine waits for events, builds when told to
\* and finishes the calls it begins.
PoolsFair ==
    /\ WF_Mine(part = "txpool" /\ part' = part /\ Coordinator!HeadEvent)
    /\ WF_Mine(part = "txpool" /\ part' = part /\ Coordinator!ResetSubpool)
    /\ WF_Mine(part = "txpool" /\ part' = part /\ Coordinator!ResetDone)
    /\ WF_Mine(part = "building" /\ part' = part /\ Building!Builder)
    /\ WF_Mine(part = "building" /\ part' = part /\ Building!WaitForEvent)
    /\ WF_Mine(part = "building" /\ part' = part /\ Building!WaiterCheck)
    /\ WF_Mine(/\ part = "building" /\ part' = part
               /\ \/ Building!BuildNext \/ Building!BuildLast \/ Building!BuildFails
                  \/ Building!RejectTx \/ Building!RejectNext)
    /\ SF_Mine(part = "building" /\ part' = part /\ Building!BeginBuild)

Spec == Init /\ [][Next]_vars
FairSpec == Spec /\ PoolsFair

-----------------------------------------------------------------------------
\* The legacy pool, through adds, replacements, evictions, reorgs and background runs in
\* any order: its lists, lookup and price heaps agree, an address is reserved while it has
\* transactions, every executable transaction is announced, none that is ready is left
\* behind (but for an account a reset found with executable transactions), and the
\* executable ones follow the state without a gap unless a reorg could not put all of its
\* transactions back (core/txpool/legacypool).
LegacySafety == part = "legacy" => Legacy!Safety

\* The blob pool, through reorgs, restarts and deletions that a crash undid: the index of
\* an account follows the state of the head without a gap and within its balance, its
\* blobs are on disk, and the blobs of an included transaction stay in the limbo until it
\* is final (core/txpool/blobpool).
BlobSafety == part = "blob" => Blob!Safety

\* The coordinator: every subpool is reset from the head it was last reset to, a Sync that
\* succeeds saw a reset that started after it, no head is forgotten, and Add returns the
\* errors of a mixed batch in its order (core/txpool/txpool.go).
CoordinatorSafety == part = "txpool" => Coordinator!Safety

\* Atomic transactions: value is conserved between the EVM's balances and shared memory, on
\* every branch; no account is overdrawn, a UTXO is imported once along a branch, the fee
\* of a built transaction is the required one, and a built block verifies.  A block on top
\* of blocks that are not decided spends nothing that they spend (plugin/evm/atomic).
AtomicTxSafety ==
    /\ part = "atomictx" => Atomic!Safety
    /\ part = "deep" => Deep!BlocksSpendOnce

\* A pool that is not closed ends with every subpool at the last head, and answers the
\* Sync caller it waits for; and atomic transactions that wait get a build attempt, so that
\* no signal is lost between the mempool, the builder and the engine.
Owed ==
    CASE part = "txpool" -> Coordinator!Owed
      [] part = "building" -> Building!Owed
      [] OTHER -> FALSE
PoolsServed == []<>~Owed
=============================================================================
