----------------------------- MODULE MCStorage ------------------------------
(***************************************************************************)
(* The storage layer for TLC: the snapshot tree with its generator, the    *)
(* iterators over it, the check of its tries, the two trie databases,      *)
(* offline pruning, the population of missing tries, the buffer of recent  *)
(* roots, and a chain that archives every state.  They share no state but  *)
(* the disk, in different key spaces; a behaviour runs one of them.        *)
(***************************************************************************)
EXTENDS BoundedBuffer, TLC

CONSTANT Parts  \* the components to run

VARIABLES
    part,
    sDisk, sAccepted, sCache, sMem, sGen, sOp, sCrashes,
    iStack, iSeek, iIts, iInitiated, iOut, iPc,
    rAccts, rResults, rRunning, rFed, rDrained, rFail, rPc,
    hDirties, hFlush, hDisk, hLive, hJob, hUpdates, hCrashes,
    pObj, pTree, pBuf, pCleans, pDisk, pMode, pOp, pFaults,
    oDb, oMem, oFile, oBloom, oPc, oSession, oOffline, oCursor, oFaults, oExposed,
    tDisk, tMarker, tMain, tIt, tReader, tClosed, tCrashes,
    aBlocks, aCanonical, aHeadBlock, aDiskTip, aTxLookup, aDiskRoots, aDurable, aMode,
    aLastAccepted, aAcceptorTip, aAnnounced, aAcceptorQueue, aAccepting, aAcceptorAt,
    aTipBuffer, aDirty, aDiskLayer, aDiffLayers, aProcessing, aPhase, aOp, aTarget,
    aTrimFrom, aCursor, aWriteIndices, aPreviousRoot, aDecided, aCrashes, aClean

sVars == <<sDisk, sAccepted, sCache, sMem, sGen, sOp, sCrashes>>
iVars == <<iStack, iSeek, iIts, iInitiated, iOut, iPc>>
rVars == <<rAccts, rResults, rRunning, rFed, rDrained, rFail, rPc>>
hVars == <<hDirties, hFlush, hDisk, hLive, hJob, hUpdates, hCrashes>>
pVars == <<pObj, pTree, pBuf, pCleans, pDisk, pMode, pOp, pFaults>>
oVars == <<oDb, oMem, oFile, oBloom, oPc, oSession, oOffline, oCursor, oFaults, oExposed>>
tVars == <<tDisk, tMarker, tMain, tIt, tReader, tClosed, tCrashes>>
aVars == <<aBlocks, aCanonical, aHeadBlock, aDiskTip, aTxLookup, aDiskRoots, aDurable,
           aMode, aLastAccepted, aAcceptorTip, aAnnounced, aAcceptorQueue, aAccepting,
           aAcceptorAt, aTipBuffer, aDirty, aDiskLayer, aDiffLayers, aProcessing, aPhase,
           aOp, aTarget, aTrimFrom, aCursor, aWriteIndices, aPreviousRoot, aDecided,
           aCrashes, aClean>>
allVars == <<part, vars, sVars, iVars, rVars, hVars, pVars, oVars, tVars, aVars>>

-----------------------------------------------------------------------------
\* g - x - z and g - y; account 10 with two slots is destructed and created again by x.
SBlocks == {"g", "x", "y", "z"}
SParent == [b \in SBlocks |-> IF b = "z" THEN "x" ELSE "g"]
SKeys == {10, 11, 12, 20}
Account(a, s1, s2, b) == (10 :> a) @@ (11 :> s1) @@ (12 :> s2) @@ (20 :> b)
SState == ("g" :> Account(1, 1, 1, 0)) @@ ("x" :> Account(2, 0, 2, 1))
          @@ ("y" :> Account(0, 0, 0, 0)) @@ ("z" :> Account(2, 0, 2, 0))
SRecreated == [b \in SBlocks |-> IF b = "x" THEN {10} ELSE {}]

Snapshot == INSTANCE SnapshotTree WITH
    disk <- sDisk, accepted <- sAccepted, cache <- sCache, mem <- sMem, gen <- sGen,
    op <- sOp, crashes <- sCrashes,
    Block <- SBlocks, Genesis <- "g", Parent <- SParent, Key <- SKeys, State <- SState,
    Recreated <- SRecreated, MaxCrashes <- 1

\* Three layers over three keys: every key may be in each of them, or deleted there, and key 2
\* is in the lowest.
TopLayers == UNION {[S -> {0, 3}] : S \in SUBSET (1..3)}
Bottoms == {[k \in S |-> 1] : S \in {T \in SUBSET (1..3) : 2 \in T}}
Stacks3 == {[layers |-> <<a, [k \in S |-> IF k = 2 THEN 0 ELSE 2], c>>, cut |-> n] :
               a \in TopLayers, S \in SUBSET (1..3), c \in Bottoms, n \in {0, 2}}

Iterator == INSTANCE FastIterator WITH
    stack <- iStack, seek <- iSeek, its <- iIts, initiated <- iInitiated, out <- iOut,
    pc <- iPc, Stacks <- Stacks3, Seeks <- {1, 2}

Root3 == INSTANCE TrieRoot WITH
    accts <- rAccts, results <- rResults, running <- rRunning, fed <- rFed,
    drained <- rDrained, fail <- rFail, pc <- rPc,
    Threads <- 2, Accounts <- UNION {[1..n -> {"good", "bad", "garbled"}] : n \in {0, 1, 4}}

\* k2 changes a leaf of R1, k3 changes it back; the accounts of a and c share a storage trie.
HNodes == {"s", "a", "b", "c", "R1", "R2"}
HChildren == [h \in HNodes |-> CASE h = "R1" -> {"a", "b"} [] h = "R2" -> {"a", "c"} [] OTHER -> {}]

Hash == INSTANCE HashDB WITH
    dirties <- hDirties, flush <- hFlush, disk <- hDisk, live <- hLive, job <- hJob,
    updates <- hUpdates, crashes <- hCrashes,
    Node <- HNodes, Children <- HChildren, Block <- {"k1", "k2", "k3"},
    New <- [k1 |-> <<"s", "a", "b", "R1">>, k2 |-> <<"c", "R2">>, k3 |-> <<"b", "R1">>],
    Parent <- [k1 |-> "none", k2 |-> "k1", k3 |-> "k2"],
    Leaves <- [k1 |-> {<<"s", "a">>}, k2 |-> {<<"s", "c">>}, k3 |-> {}],
    Limits <- {1}, MaxUpdates <- 3, MaxCrashes <- 0

\* e - a - b - c and a - b2, with nodes that come and go.
PState(root, x, y) == [root |-> root, x |-> x, y |-> y]

Paths == INSTANCE PathDB WITH
    obj <- pObj, tree <- pTree, buf <- pBuf, cleans <- pCleans, disk <- pDisk,
    mode <- pMode, op <- pOp, faults <- pFaults,
    Root <- {"e", "a", "b", "b2", "c"}, Empty <- "e",
    Parent <- [e |-> "e", a |-> "e", b |-> "a", b2 |-> "a", c |-> "b"],
    Path <- {"root", "x", "y"},
    State <- [e |-> PState("", "", ""), a |-> PState("a", "1", ""), b |-> PState("b", "", "1"),
              b2 |-> PState("b2", "2", ""), c |-> PState("c", "1", "1")],
    MaxDiffLayers <- 2, Limits <- {0, 2}, MaxFaults <- 1

\* Three blocks after the genesis; the first leaves the state as it is, the last two share an
\* entry.
ORoot == (0 :> 1) @@ (1 :> 1) @@ (2 :> 3) @@ (3 :> 4)
OState == (0 :> {1}) @@ (1 :> {1}) @@ (2 :> {2, 3}) @@ (3 :> {2, 4})

Offline == INSTANCE Pruner WITH
    db <- oDb, mem <- oMem, file <- oFile, bloom <- oBloom, pc <- oPc, session <- oSession,
    offline <- oOffline, cursor <- oCursor, faults <- oFaults, exposed <- oExposed,
    Key <- 1..4, Last <- 3, Root <- ORoot, State <- OState, MaxFaults <- 3

\* Five blocks, the third of which leaves the state as it is; three states are on disk.
Populate == INSTANCE PopulateTries WITH
    disk <- tDisk, marker <- tMarker, main <- tMain, it <- tIt, reader <- tReader,
    closed <- tClosed, crashes <- tCrashes,
    Last <- 5, From <- 0, Root <- [h \in 0..5 |-> IF h = 3 THEN 2 ELSE h],
    Stored <- {0, 4, 5}, NoBlock <- {}, Reader <- {"x", "y"}, MaxCrashes <- 1

\* g - a1 - a2 and g - b1 - b2; a1 and b1 have the same state root.
ABlocks == {"g", "a1", "a2", "b1", "b2"}

Archive == INSTANCE BlockChain WITH
    blocks <- aBlocks, canonical <- aCanonical, headBlock <- aHeadBlock,
    diskTip <- aDiskTip, txLookup <- aTxLookup, diskRoots <- aDiskRoots,
    durable <- aDurable, mode <- aMode, lastAccepted <- aLastAccepted,
    acceptorTip <- aAcceptorTip, announced <- aAnnounced, acceptorQueue <- aAcceptorQueue,
    accepting <- aAccepting, acceptorAt <- aAcceptorAt, tipBuffer <- aTipBuffer,
    dirty <- aDirty, diskLayer <- aDiskLayer, diffLayers <- aDiffLayers,
    processing <- aProcessing, phase <- aPhase, op <- aOp, target <- aTarget,
    trimFrom <- aTrimFrom, cursor <- aCursor, writeIndices <- aWriteIndices,
    previousRoot <- aPreviousRoot, decided <- aDecided, crashes <- aCrashes, clean <- aClean,
    Block <- ABlocks, Genesis <- "g", NoBlock <- "none",
    parent <- [g |-> "none", a1 |-> "g", a2 |-> "a1", b1 |-> "g", b2 |-> "b1"],
    number <- [g |-> 0, a1 |-> 1, a2 |-> 2, b1 |-> 1, b2 |-> 2],
    ancestors <- [g |-> {"g"}, a1 |-> {"g", "a1"}, a2 |-> {"g", "a1", "a2"},
                  b1 |-> {"g", "b1"}, b2 |-> {"g", "b1", "b2"}],
    root <- [g |-> "g", a1 |-> "a1", a2 |-> "a2", b1 |-> "a1", b2 |-> "b2"],
    NoRoot <- "noroot", MaxNumber <- 2, AcceptorQueueLimit <- 1, CommitInterval <- 2,
    StateHistory <- 1, Pruning <- FALSE, Snapshots <- TRUE, MaxBatchSize <- 4,
    MaxCrashes <- 2

-----------------------------------------------------------------------------
\* A component that does not run has no state.
IdleSnapshot ==
    /\ sDisk = 0 /\ sAccepted = 0 /\ sCache = 0 /\ sMem = 0 /\ sGen = 0 /\ sOp = 0
    /\ sCrashes = 0
IdleIterator ==
    /\ iStack = 0 /\ iSeek = 0 /\ iIts = 0 /\ iInitiated = 0 /\ iOut = 0 /\ iPc = 0
IdleRoot3 ==
    /\ rAccts = 0 /\ rResults = 0 /\ rRunning = 0 /\ rFed = 0 /\ rDrained = 0 /\ rFail = 0
    /\ rPc = 0
IdleHash ==
    /\ hDirties = 0 /\ hFlush = 0 /\ hDisk = 0 /\ hLive = 0 /\ hJob = 0 /\ hUpdates = 0
    /\ hCrashes = 0
IdlePaths ==
    /\ pObj = 0 /\ pTree = 0 /\ pBuf = 0 /\ pCleans = 0 /\ pDisk = 0 /\ pMode = 0 /\ pOp = 0
    /\ pFaults = 0
IdleOffline ==
    /\ oDb = 0 /\ oMem = 0 /\ oFile = 0 /\ oBloom = 0 /\ oPc = 0 /\ oSession = 0 /\ oOffline = 0
    /\ oCursor = 0 /\ oFaults = 0 /\ oExposed = 0
IdlePopulate ==
    /\ tDisk = 0 /\ tMarker = 0 /\ tMain = 0 /\ tIt = 0 /\ tReader = 0 /\ tClosed = 0
    /\ tCrashes = 0
IdleArchive ==
    /\ aBlocks = 0 /\ aCanonical = 0 /\ aHeadBlock = 0 /\ aDiskTip = 0 /\ aTxLookup = 0
    /\ aDiskRoots = 0 /\ aDurable = 0 /\ aMode = 0 /\ aLastAccepted = 0 /\ aAcceptorTip = 0
    /\ aAnnounced = 0
    /\ aAcceptorQueue = 0 /\ aAccepting = 0 /\ aAcceptorAt = 0 /\ aTipBuffer = 0 /\ aDirty = 0
    /\ aDiskLayer = 0 /\ aDiffLayers = 0 /\ aProcessing = 0 /\ aPhase = 0 /\ aOp = 0 /\ aTarget = 0
    /\ aTrimFrom = 0 /\ aCursor = 0 /\ aWriteIndices = 0 /\ aPreviousRoot = 0 /\ aDecided = 0
    /\ aCrashes = 0 /\ aClean = 0

SInit ==
    /\ part \in Parts
    /\ NewBoundedBuffer /\ (part = "buffer" \/ ~callbackFails)
    /\ IF part = "snapshot" THEN Snapshot!Init ELSE IdleSnapshot
    /\ IF part = "iterator" THEN Iterator!Init ELSE IdleIterator
    /\ IF part = "root" THEN Root3!Init ELSE IdleRoot3
    /\ IF part = "hashdb" THEN Hash!Init ELSE IdleHash
    /\ IF part = "pathdb" THEN Paths!Init ELSE IdlePaths
    /\ IF part = "pruner" THEN Offline!Init ELSE IdleOffline
    /\ IF part = "populate" THEN Populate!Init ELSE IdlePopulate
    /\ IF part = "archive" THEN Archive!Init ELSE IdleArchive

OnlyBuffer == UNCHANGED <<part, sVars, iVars, rVars, hVars, pVars, oVars, tVars, aVars>>
OnlySnapshot == UNCHANGED <<part, vars, iVars, rVars, hVars, pVars, oVars, tVars, aVars>>
OnlyIterator == UNCHANGED <<part, vars, sVars, rVars, hVars, pVars, oVars, tVars, aVars>>
OnlyRoot == UNCHANGED <<part, vars, sVars, iVars, hVars, pVars, oVars, tVars, aVars>>
OnlyHash == UNCHANGED <<part, vars, sVars, iVars, rVars, pVars, oVars, tVars, aVars>>
OnlyPath == UNCHANGED <<part, vars, sVars, iVars, rVars, hVars, oVars, tVars, aVars>>
OnlyPruner == UNCHANGED <<part, vars, sVars, iVars, rVars, hVars, pVars, tVars, aVars>>
OnlyPopulate == UNCHANGED <<part, vars, sVars, iVars, rVars, hVars, pVars, oVars, aVars>>
OnlyArchive == UNCHANGED <<part, vars, sVars, iVars, rVars, hVars, pVars, oVars, tVars>>

BufferNext == part = "buffer" /\ Next /\ OnlyBuffer
SnapshotNext == part = "snapshot" /\ Snapshot!Next /\ OnlySnapshot
IteratorNext == part = "iterator" /\ Iterator!Next /\ OnlyIterator
RootNext == part = "root" /\ Root3!Next /\ OnlyRoot
HashNext == part = "hashdb" /\ Hash!Next /\ OnlyHash
PathNext == part = "pathdb" /\ Paths!Next /\ OnlyPath
PrunerNext == part = "pruner" /\ Offline!Next /\ OnlyPruner
PopulateNext == part = "populate" /\ Populate!Next /\ OnlyPopulate
ArchiveNext == part = "archive" /\ Archive!Next /\ OnlyArchive

SNext ==
    \/ BufferNext \/ SnapshotNext \/ IteratorNext \/ RootNext \/ HashNext \/ PathNext
    \/ PrunerNext \/ PopulateNext \/ ArchiveNext

\* The goroutines run: the snapshot generator and the acceptor, the feeder of a trie and the
\* checks of storage, the readers of blocks and the loop they serve; the call that holds
\* chainmu, the acceptor, a start and a stop.  There are finitely many such steps in a
\* behaviour, so that it is enough that one of them is taken while there is one; but the
\* engine may change its preference for ever, so the acceptor needs its own.
Scheduled ==
    \/ part = "snapshot" /\ (Snapshot!GeneratorStep \/ Snapshot!FlattenStep)
    \/ /\ part = "root"
       /\ Root3!FeederStep \/ \E i \in DOMAIN rRunning : Root3!CheckEnds(i)
    \/ /\ part = "populate"
       /\ Populate!MainStep \/ \E r \in {"x", "y"} : Populate!ReaderStep(r)
    \/ /\ part = "archive"
       /\ \/ Archive!Writer \/ Archive!StopDrained
          \/ Archive!Search \/ Archive!Reexecute \/ Archive!Loaded

\* The variables of the component that runs: its steps change no others.
Mine ==
    CASE part = "snapshot" -> sVars [] part = "root" -> rVars
      [] part = "populate" -> tVars [] part = "archive" -> aVars [] OTHER -> 0

StorageFair ==
    /\ WF_Mine(part' = part /\ Scheduled)
    /\ WF_Mine(part = "archive" /\ part' = part /\ Archive!Acceptor)

StorageSpec == SInit /\ [][SNext]_allVars
StorageFairSpec == StorageSpec /\ StorageFair

-----------------------------------------------------------------------------
\* The snapshot, while its generator, the flattening of accepted blocks, the wiper, aborts
\* and crashes interleave: the disk layer holds its block's state up to the marker, every
\* read through any layer gives the block's value or says that it cannot, an aborted
\* generator stays stopped, and accepted blocks can be flattened.  The fast iterator and the
\* binary iterator give, in order, the keys that the layers hold above each other, each once
\* and none that is deleted.  A trie root is trusted only if every storage check ended well,
\* and no check is left behind or starved of its permit (core/state/snapshot).
SnapshotSafety ==
    /\ part = "snapshot" => Snapshot!Safety
    /\ part = "iterator" => Iterator!Safety
    /\ part = "root" => Root3!Safety

\* Node reference counts, the flush-list and the unlocked writes of Cap and Commit: what is
\* on disk is whole at any moment, a referenced state can be read entirely, and nothing
\* stays in memory without a reason (triedb/hashdb/database.go).
HashSafety == part = "hashdb" => Hash!Safety

\* The layer tree, node buffer, clean cache and journal: a reader gets the right node or
\* an error, the disk holds one state in full, restarts and failed batches included
\* (triedb/pathdb).
PathSafety == part = "pathdb" => Paths!Safety

\* Offline pruning, interrupted, failed and resumed beside a chain that goes on: the state
\* that a start takes from the disk is whole, that of the accepted block stays readable, and
\* a finished session leaves nothing else.  Population of missing tries, interrupted and
\* resumed: blocks are handled in order whatever the order they were read in, none is
\* skipped and every trie up to the marker is on disk (core/state/pruner,
\* core/blockchain_iterator.go, core/blockchain.go).
OfflineSafety ==
    /\ part = "pruner" => Offline!Safety
    /\ part = "populate" => Populate!Safety

\* A chain that archives, with two crashes: every start recovers the last accepted state,
\* the indices have no hole, blocks that can still be accepted can be executed and
\* flattened, the accepted ones stay canonical (core/blockchain.go).
ArchiveSafety == part = "archive" =>
    /\ Archive!StartRecoversState /\ Archive!LiveBlocksUsable /\ Archive!NoIndexHole
    /\ Archive!AcceptedCanonical /\ Archive!CanonicalIsHeadChain

\* Flattening ends: a generator answers the abort wherever it is; generateTrieRoot returns,
\* unless an account does not decode; populating ends; every accepted block is processed
\* and every start and stop ends, so that the engine's call, the acceptor and the stop
\* never wait for one another in a circle.
Owed ==
    CASE part = "snapshot" -> Snapshot!Owed
      [] part = "root" -> Root3!Owed
      [] part = "populate" -> Populate!Owed
      [] part = "archive" -> Archive!Owed
      [] OTHER -> FALSE
StorageEnds == []<>~Owed
=============================================================================
