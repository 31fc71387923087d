------------------------------- MODULE MCNode -------------------------------
(***************************************************************************)
(* The node around its chain, for TLC: queries against a moving chain, the *)
(* index of its blooms, the VM between the consensus engine and the chain, *)
(* and the miner with the fee state.  Each has its own view of the chain   *)
(* here, and a behaviour runs one of them.                                 *)
(***************************************************************************)
EXTENDS Integers, Sequences

CONSTANT Parts  \* the components to run

VARIABLES
    part,
    qAllow, qChain, qCanon, qIndex, qLookups, qHistory, qMail, qLastHead, qReader,
    iDb, iEvents, iLoop, iIx, iDisk, iWork, iQuery, iBudget,
    vNode, vChain, vExt, vState, vVdb, vEng, vImp, vCalls, vGhost,
    mChain, mClock, mPool, mEnv, mRefused

qVars == <<qAllow, qChain, qCanon, qIndex, qLookups, qHistory, qMail, qLastHead, qReader>>
iVars == <<iDb, iEvents, iLoop, iIx, iDisk, iWork, iQuery, iBudget>>
vVars == <<vNode, vChain, vExt, vState, vVdb, vEng, vImp, vCalls, vGhost>>
mVars == <<mChain, mClock, mPool, mEnv, mRefused>>
vars == <<part, qVars, iVars, vVars, mVars>>

-----------------------------------------------------------------------------
\* g - a1 - a2 and g - b1, with a transaction in both branches; g was synced.
QBlocks == {"g", "a1", "a2", "b1"}
QParent == [b \in {"a1", "a2", "b1"} |-> IF b = "a2" THEN "a1" ELSE "g"]
T(tx, gas, tip) == [tx |-> tx, gas |-> gas, tip |-> tip]
QTxs == [g |-> <<T("s", 1, 1)>>, a1 |-> <<T("t", 3, 2), T("u", 2, 1), T("v", 5, 2)>>,
         a2 |-> <<T("w", 1, 4)>>, b1 |-> <<T("t", 3, 1)>>]
Q(kind, number, hash, tx, blocks, percentiles) ==
    [kind |-> kind, number |-> number, hash |-> hash, tx |-> tx,
     blocks |-> blocks, percentiles |-> percentiles]
QWanted ==
    [x |-> {Q("number", -2, "none", "none", 0, <<>>), Q("number", 1, "none", "none", 0, <<>>),
            Q("hash", 0, "b1", "none", 0, <<>>), Q("tx", 0, "none", "t", 0, <<>>),
            Q("fees", -1, "none", "none", 3, <<20, 50, 100>>)},
     y |-> {Q("fees", 1, "none", "none", 2, <<0, 31>>)}]
Query == INSTANCE Queries WITH
    allow <- qAllow, chain <- qChain, canon <- qCanon, index <- qIndex, lookups <- qLookups,
    history <- qHistory, mail <- qMail, lastHead <- qLastHead, reader <- qReader,
    Block <- QBlocks, Genesis <- "g", Parent <- QParent, Txs <- QTxs, NoReceipts <- {"g"},
    Reader <- {"x", "y"}, Wanted <- QWanted, MaxBlockHistory <- 2, MaxCallBlockHistory <- 3

\* Chains with logs, a bloom collision and empty blocks that fork in the first section.
IChains == {<<"", "log", "", "like", "">>, <<"", "", "log", "">>}
Indexer == INSTANCE ChainIndexer WITH
    db <- iDb, events <- iEvents, loop <- iLoop, ix <- iIx, disk <- iDisk, work <- iWork,
    query <- iQuery, budget <- iBudget,
    Chains <- IChains, Size <- 2, Confirms <- 1, MaxEvents <- 2, MaxCrashes <- 1,
    Ranges <- {<<0, -1, FALSE>>, <<1, 2, TRUE>>}

\* g - a1 - a2 and g - b1, which is valid only in the context of a proposer; a1 can be
\* imported from a file.
VBlocks == {"g", "a1", "a2", "b1"}
VParent == [b \in {"a1", "a2", "b1"} |-> IF b = "a2" THEN "a1" ELSE "g"]
VValidIn == [b \in VBlocks |-> IF b = "b1" THEN {"ctx"} ELSE {"none", "ctx"}]
Node == INSTANCE VM WITH
    node <- vNode, chain <- vChain, ext <- vExt, state <- vState, vdb <- vVdb, eng <- vEng,
    imp <- vImp, calls <- vCalls, ghost <- vGhost,
    Block <- VBlocks, Genesis <- "g", Parent <- VParent, Contexts <- {"none", "ctx"},
    ValidIn <- VValidIn, Bad <- {}, Files <- {<<"a1">>}, Configured <- {<<"a1">>},
    MaxImports <- 1, MaxCrashes <- 0, MaxReady <- 1

\* The same blocks, with a crash, for a node that is still bootstrapping.
Restarted == INSTANCE VM WITH
    node <- vNode, chain <- vChain, ext <- vExt, state <- vState, vdb <- vVdb, eng <- vEng,
    imp <- vImp, calls <- vCalls, ghost <- vGhost,
    Block <- VBlocks, Genesis <- "g", Parent <- VParent, Contexts <- {"none", "ctx"},
    ValidIn <- VValidIn, Bad <- {}, Files <- {<<"a1">>}, Configured <- {<<"a1">>},
    MaxImports <- 1, MaxCrashes <- 1, MaxReady <- 0

\* Two accounts with two transactions each: a fee cap below the next base fee, gas that is
\* not all used, a predicate that only one block context satisfies.
MT(f, t, n, g, u, c, tip, v, p) ==
    [from |-> f, to |-> t, nonce |-> n, gas |-> g, use |-> u, cap |-> c, tip |-> tip,
     value |-> v, pred |-> p, size |-> 1]
MTxs == {MT("p", "q", 0, 4, 1, 4, 1, 2, "none"), MT("p", "q", 1, 3, 3, 5, 3, 1, "none"),
         MT("q", "p", 0, 4, 0, 6, 2, 1, "w"), MT("q", "p", 1, 2, 0, 3, 0, 0, "none")}
Mine == INSTANCE Miner WITH
    chain <- mChain, clock <- mClock, pool <- mPool, env <- mEnv, refused <- mRefused,
    MaxGas <- 255, MinTargetPerSecond <- 2, TargetConversion <- 4, MaxTargetExcessDiff <- 2,
    TimeToFillCapacity <- 2, TargetToMax <- 2, TargetToPriceUpdateConversion <- 2,
    MinGasPrice <- 1, Tx <- MTxs, Funds <- [p |-> 40, q |-> 30], Holds <- [w |-> {"new"}],
    Locals <- {}, TxGas <- 2, PredicateGas <- 1, Contexts <- {"none", "new"},
    ExtGas <- {0, 2}, Targets <- {0, 3}, TargetTxsSize <- 3, LegacyGasLimit <- 7,
    FutureTime <- 1, MaxTime <- 2, MaxBlocks <- 3, MaxForeignTxs <- 1

-----------------------------------------------------------------------------
\* A component that does not run has no state.
IdleQuery ==
    /\ qAllow = 0 /\ qChain = 0 /\ qCanon = 0 /\ qIndex = 0 /\ qLookups = 0 /\ qHistory = 0
    /\ qMail = 0 /\ qLastHead = 0 /\ qReader = 0
IdleIndexer ==
    /\ iDb = 0 /\ iEvents = 0 /\ iLoop = 0 /\ iIx = 0 /\ iDisk = 0 /\ iWork = 0
    /\ iQuery = 0 /\ iBudget = 0
IdleNode ==
    /\ vNode = 0 /\ vChain = 0 /\ vExt = 0 /\ vState = 0 /\ vVdb = 0 /\ vEng = 0
    /\ vImp = 0 /\ vCalls = 0 /\ vGhost = 0
IdleMine ==
    /\ mChain = 0 /\ mClock = 0 /\ mPool = 0 /\ mEnv = 0 /\ mRefused = 0

Init ==
    /\ part \in Parts
    /\ IF part = "queries" THEN Query!Init ELSE IdleQuery
    /\ IF part = "indexer" THEN Indexer!Init ELSE IdleIndexer
    /\ IF part \in {"vm", "restart"} THEN Node!Init ELSE IdleNode
    /\ IF part = "miner" THEN Mine!Init ELSE IdleMine

OnlyQ == UNCHANGED <<part, iVars, vVars, mVars>>
OnlyI == UNCHANGED <<part, qVars, vVars, mVars>>
OnlyV == UNCHANGED <<part, qVars, iVars, mVars>>
OnlyM == UNCHANGED <<part, qVars, iVars, vVars>>

QueryNext == part = "queries" /\ Query!Next /\ OnlyQ
IndexerNext == part = "indexer" /\ Indexer!Next /\ OnlyI
NodeNext == part = "vm" /\ Node!Next /\ OnlyV
RestartedNext == part = "restart" /\ Restarted!Next /\ OnlyV
MineNext == part = "miner" /\ Mine!Next /\ OnlyM

Next ==
    \/ QueryNext
    \/ IndexerNext
    \/ NodeNext
    \/ RestartedNext
    \/ MineNext

Spec == Init /\ [][Next]_vars

-----------------------------------------------------------------------------
\* Queries: answers by number are accepted blocks, lookups and fee history are cached for
\* accepted blocks only, a fee history is a gapless run of them with the right rewards, and
\* an answer by hash that is not accepted was above the tip when it was asked for
\* (eth/api_backend.go, core/blockchain_reader.go, eth/gasprice/feehistory.go).
QuerySafety == part = "queries" => Query!Safety

\* "Allows queries for unfinalized (not yet accepted) blocks/transactions. Defaults to
\* `false`" (plugin/evm/config/config.md:398): a block asked for by hash is accepted.
OnlyAccepted == part = "queries" => Query!OnlyAccepted

\* The bloom index, through reorgs, crashes and failed sections: sections are linked by
\* their heads, the bits of a valid section are those of its canonical blocks, and a query
\* of accepted blocks gives their logs (core/chain_indexer.go, eth/filters/filter.go).
IndexerSafety == part = "indexer" => Indexer!Safety

\* "building up a rotated bloom bits index for the Ethereum header bloom filters, permitting
\* blazing fast filtering" (core/bloom_indexer.go:51): a filtered query over an indexed
\* section can be answered from the index.
IndexServes == part = "indexer" => Indexer!IndexServes

\* The VM between the engine and the chain: the engine's, the VM's and the chain's accepted
\* tip agree except around an import, the durable tip has its state, a verified block keeps
\* one reference to its state though it is verified again in another context, and an
\* accepted block stays unless an import replaced it (plugin/evm/vm.go, wrapped_block.go).
VMSafety == part \in {"vm", "restart"} => Node!Safety

\* "it refreshes chain.State.lastAcceptedBlock AND notifies the consensus engine to resume
\* block production from the imported tip" (plugin/evm/vm.go:1811-1823): after an import
\* the engine's next Accept succeeds.
AcceptSucceeds == part = "vm" => Node!AcceptSucceeds

\* Mining under the dynamic fee state: a built block passes its own verification, pays each
\* transaction's price, follows nonces, stays within capacity, and the fee state a header
\* claims is the one its parents imply (miner/worker.go, plugin/evm/upgrade/lp176).
MinerSafety == part = "miner" => Mine!Safety
=============================================================================
