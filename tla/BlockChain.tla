------------------------------- MODULE BlockChain -------------------------------
(***************************************************************************)
(* core/blockchain.go with core/state_manager.go: the canonical chain, the *)
(* asynchronous acceptor, the state tries held in memory or on disk, and   *)
(* what a restart rebuilds after a crash.  The consensus engine is the     *)
(* environment: it verifies, prefers, accepts and rejects blocks, one call *)
(* at a time (the calls hold chainmu, and the engine's own lock).          *)
(***************************************************************************)
EXTENDS Integers, Sequences, Functions

CONSTANTS
    Block, Genesis, NoBlock,  \* the block tree; NoBlock is the empty hash
    parent, number,           \* header fields, as functions on Block
    ancestors,                \* a block's ancestors, itself included
    root, NoRoot,             \* a block's state root; siblings may share one
    MaxNumber,                \* bound: the height of the tallest block
    AcceptorQueueLimit, CommitInterval, StateHistory,  \* CacheConfig
    Pruning, Snapshots,       \* CacheConfig: Pruning, SnapshotLimit > 0
    MaxBatchSize,             \* reorg's maxBatchSize
    MaxCrashes                \* bound: crashes in a behaviour

Height == 0..MaxNumber
Root == {root[b] : b \in Block}

\* Headers form a tree rooted at the genesis block: what VerifyHeader enforces
\* of ParentHash and Number.  A state root never repeats along one chain.
ASSUME BlockTree ==
    /\ Genesis \in Block /\ NoBlock \notin Block
    /\ MaxNumber \in Nat /\ MaxCrashes \in Nat
    /\ number \in [Block -> Height] /\ number[Genesis] = 0
    /\ ancestors \in [Block -> SUBSET Block] /\ ancestors[Genesis] = {Genesis}
    /\ parent[Genesis] = NoBlock
    /\ \A b \in Block \ {Genesis} :
          /\ parent[b] \in Block
          /\ number[b] = number[parent[b]] + 1
          /\ ancestors[b] = {b} \cup ancestors[parent[b]]
    /\ \A b \in Block : \A a \in ancestors[b] :
          /\ number[a] <= number[b]
          /\ ancestors[a] \subseteq ancestors[b]
          /\ a # b => root[a] # root[b]
    /\ \A h \in Block : \A a, b \in ancestors[h] :
          number[a] <= number[b] => a \in ancestors[b]
    /\ \A b \in Block : \A n \in 0..number[b] :
          \E a \in ancestors[b] : number[a] = n

\* config.Validate refuses a pruning node with an empty history or interval.
ASSUME CacheConfig ==
    /\ AcceptorQueueLimit \in Nat \ {0}
    /\ CommitInterval \in Nat \ {0} /\ StateHistory \in Nat \ {0}
    /\ MaxBatchSize \in Nat \ {0}
    /\ Pruning \in BOOLEAN /\ Snapshots \in BOOLEAN
    /\ NoRoot \notin Root

VARIABLES
    \* On disk.
    blocks,        \* blocks stored by rawdb.WriteBlock
    canonical,     \* number -> canonical hash
    headBlock,     \* head block hash; bc.currentBlock mirrors it in memory
    diskTip,       \* the acceptor tip key
    txLookup,      \* blocks whose transaction lookup entries are written
    diskRoots,     \* state roots committed or flushed to disk
    durable,       \* the last accepted ID the VM committed
    \* In memory, lost in a crash.
    mode,          \* down, loading, running, stopping, failed
    lastAccepted,  \* bc.lastAccepted; while down, what the next start loads
    acceptorTip, announced,  \* bc.acceptorTip; the last accepted event sent
    acceptorQueue, accepting, acceptorAt,  \* channel, item, next step
    tipBuffer,     \* cappedMemoryTrieWriter.tipBuffer, oldest first
    dirty,         \* roots in the trie database's memory, oldest first
    diskLayer, diffLayers,   \* blocks of the snapshot layers
    processing,    \* blocks the engine verified and has not decided
    phase, op, target,       \* where the call that holds chainmu stands
    trimFrom,      \* next number reorg deletes
    cursor, writeIndices, previousRoot,  \* reprocessState's locals
    \* The environment.
    decided,       \* the network's last accepted block
    crashes, clean \* crashes so far; the last stop was a clean one

disk == <<blocks, canonical, headBlock, diskTip, txLookup, diskRoots, durable>>
chain == <<blocks, canonical, headBlock, durable>>
acceptor == <<acceptorQueue, accepting, acceptorAt, acceptorTip, announced>>
indices == <<diskTip, txLookup>>
tries == <<diskRoots, dirty, tipBuffer>>
layers == <<diskLayer, diffLayers>>
call == <<phase, op, target, trimFrom>>
recovery == <<cursor, writeIndices, previousRoot>>
env == <<decided, crashes, clean>>
vars == <<disk, mode, lastAccepted, acceptor, tipBuffer, dirty, layers,
          processing, call, recovery, env>>

IsLowest(b, S) == b \in S /\ \A c \in S : number[b] <= number[c]
IsHighest(b, S) == b \in S /\ \A c \in S : number[c] <= number[b]

Init ==
    /\ blocks = {Genesis} /\ headBlock = Genesis /\ durable = Genesis
    /\ canonical = [n \in Height |-> IF n = 0 THEN Genesis ELSE NoBlock]
    /\ diskTip = NoBlock /\ txLookup = {} /\ diskRoots = {root[Genesis]}
    /\ mode = "down" /\ lastAccepted = Genesis
    /\ acceptorTip = NoBlock /\ announced = NoBlock
    /\ acceptorQueue = <<>> /\ accepting = NoBlock /\ acceptorAt = "idle"
    /\ tipBuffer = <<>> /\ dirty = <<>>
    /\ diskLayer = NoBlock /\ diffLayers = {}
    /\ processing = {}
    /\ phase = "idle" /\ op = "none" /\ target = NoBlock /\ trimFrom = 0
    /\ cursor = NoBlock /\ writeIndices = FALSE /\ previousRoot = NoRoot
    /\ decided = Genesis /\ crashes = 0 /\ clean = TRUE

-----------------------------------------------------------------------------
(* The trie database (external): a root's nodes are in memory, on disk or  *)
(* gone.  Commit and Dereference of a root that is not in memory do nothing.*)

HasState(b) == root[b] \in diskRoots \cup Range(dirty)

TrieUpdate(s, r) == IF r \in Range(s) THEN s ELSE Append(s, r)

Forget(s, r) == IF r \in Range(s)
                THEN LET i == CHOOSE j \in DOMAIN s : s[j] = r
                     IN SubSeq(s, 1, i - 1) \o SubSeq(s, i + 1, Len(s))
                ELSE s

\* Cap flushes the oldest nodes until memory is below a limit: k roots of s.
CapAt(s, k) ==
    /\ dirty' = SubSeq(s, k + 1, Len(s))
    /\ diskRoots' = diskRoots \cup {s[i] : i \in 1..k}

\* A writer may or may not be over its limit.  Archive nodes never Cap.
MayCap(s) == \E k \in (IF Pruning THEN 0..Len(s) ELSE {0}) : CapAt(s, k)

\* Mutant: commits without asking whether there is a root.
CommitAnyRoot(s, r) ==
    dirty' = Forget(s, r) /\ diskRoots' = diskRoots \cup {r}

CommitRoot(s, r) ==
    /\ dirty' = Forget(s, r)
    /\ diskRoots' = diskRoots \cup ({r} \cap Range(s))

-----------------------------------------------------------------------------
(* Reorganising the canonical chain.                                       *)

writeHeadBlock(b) ==
    /\ canonical' = [canonical EXCEPT ![number[b]] = b]
    /\ headBlock' = b

\* The blocks reorg walks through, down to the common block.
Walked(b, commonBlock) == (ancestors[headBlock] \cup ancestors[b])
                              \ (ancestors[commonBlock] \ {commonBlock})

\* Mutant: without the check for finalized blocks.
ReorgUnchecked(b, accepted) ==
    \E commonBlock \in Block :
        /\ IsHighest(commonBlock, ancestors[headBlock] \cap ancestors[b])
        /\ Walked(b, commonBlock) \subseteq blocks

\* reorg's early returns: a missing block, an accepted block orphaned.
ReorgAllowed(b, accepted) ==
    \E commonBlock \in Block :
        /\ IsHighest(commonBlock, ancestors[headBlock] \cap ancestors[b])
        /\ Walked(b, commonBlock) \subseteq blocks
        /\ number[commonBlock] >= number[accepted]

\* writeKnownBlock(b): straight to the head write when b extends the head.
BeginWriteKnown(b, why, accepted) ==
    /\ IF parent[b] = headBlock
       THEN phase' = "head"
       ELSE ReorgAllowed(b, accepted) /\ phase' = "link"
    /\ op' = why /\ target' = b
    /\ trimFrom' = IF parent[b] = headBlock THEN 0 ELSE number[b] + 1

Return == phase' = "idle" /\ op' = "none" /\ target' = NoBlock

\* newChain except its last block.
Pending == ancestors[target] \ (ancestors[headBlock] \cup {target})

\* One writeHeadBlock of reorg's loop over newChain.
ReorgLink ==
    /\ phase = "link"
    /\ \E b \in Pending : IsLowest(b, Pending) /\ writeHeadBlock(b)
    /\ UNCHANGED <<blocks, indices, diskRoots, durable, mode, lastAccepted,
                   acceptor, tipBuffer, dirty, layers, processing, call,
                   recovery, env>>

\* Mutant: starts one number too high.
TrimRunLate == {n \in Height : /\ n > trimFrom
                               /\ \A m \in (trimFrom + 1)..n :
                                     canonical[m] # NoBlock}

\* The canonical numbers one indexesBatch deletes: up to the first gap.
TrimRun == {n \in Height : /\ n >= trimFrom
                           /\ \A m \in trimFrom..n : canonical[m] # NoBlock}
TrimSet == {n \in TrimRun : n < trimFrom + MaxBatchSize}

\* One batch of canonical hashes deleted above the new head.
ReorgTrim ==
    /\ phase \in {"link", "trim"} /\ Pending = {}
    /\ canonical' = [n \in Height |->
                        IF n \in TrimSet THEN NoBlock ELSE canonical[n]]
    /\ phase' = IF TrimRun = TrimSet THEN "head" ELSE "trim"
    /\ trimFrom' = IF TrimRun = TrimSet THEN 0 ELSE trimFrom + MaxBatchSize
    /\ UNCHANGED <<blocks, headBlock, indices, diskRoots, durable, mode,
                   lastAccepted, acceptor, tipBuffer, dirty, layers,
                   processing, op, target, recovery, env>>

\* The last writeHeadBlock of writeKnownBlock, and the return to the caller.
WriteHead ==
    /\ phase = "head"
    /\ writeHeadBlock(target)
    /\ CASE op = "prefer" -> Return
         [] op = "accept" -> phase' = "enqueue" /\ UNCHANGED <<op, target>>
         [] op = "load" -> phase' = "search" /\ UNCHANGED <<op, target>>
    /\ UNCHANGED <<blocks, indices, diskRoots, durable, mode, lastAccepted,
                   acceptor, tipBuffer, dirty, layers, processing, trimFrom,
                   recovery, env>>

-----------------------------------------------------------------------------
(* The engine's calls.                                                     *)

Ready == mode = "running" /\ phase = "idle"

\* Blocks the engine may ask to verify: children of live blocks.
Verifiable(b) ==
    /\ b \notin processing /\ b # Genesis
    /\ parent[b] \in processing \cup {lastAccepted}

Layers == diffLayers \cup {diskLayer}

\* insertBlock up to writeBlockWithState: the block batch, the state commit
\* into memory, the snapshot layer and InsertTrie.  flattenLock stays held.
InsertBlock(b) ==
    /\ Ready /\ Verifiable(b)
    /\ parent[b] \in blocks /\ HasState(parent[b])
    /\ Snapshots => parent[b] \in Layers
    /\ blocks' = blocks \cup {b}
    /\ MayCap(TrieUpdate(dirty, root[b]))
    /\ diffLayers' = IF Snapshots THEN diffLayers \cup {b} ELSE diffLayers
    /\ phase' = "insert" /\ target' = b
    /\ UNCHANGED <<canonical, headBlock, indices, durable, mode, lastAccepted,
                   acceptor, tipBuffer, diskLayer, processing, op, trimFrom,
                   recovery, env>>

\* writeBlockAndSetHead after writeBlockWithState: the new tip becomes head.
InsertTip ==
    /\ phase = "insert"
    /\ IF parent[target] = headBlock
       THEN writeHeadBlock(target)
       ELSE UNCHANGED <<canonical, headBlock>>
    /\ processing' = processing \cup {target}
    /\ Return
    /\ UNCHANGED <<blocks, indices, diskRoots, durable, mode, lastAccepted,
                   acceptor, tipBuffer, dirty, layers, trimFrom, recovery, env>>

SetPreference(b) ==
    /\ Ready
    /\ b \in processing \cup {lastAccepted} /\ b # headBlock
    /\ BeginWriteKnown(b, "prefer", lastAccepted)
    /\ UNCHANGED <<disk, mode, lastAccepted, acceptor, tipBuffer, dirty,
                   layers, processing, recovery, env>>

\* Mutant: does not reorganise to the accepted block.
AcceptInPlace(b) ==
    /\ Ready
    /\ b \in processing /\ parent[b] = lastAccepted
    /\ b \in ancestors[decided] \/ decided = lastAccepted
    /\ phase' = "enqueue" /\ op' = "accept" /\ target' = b /\ trimFrom' = 0
    /\ decided' = IF b \in ancestors[decided] THEN decided ELSE b
    /\ UNCHANGED <<disk, mode, lastAccepted, acceptor, tipBuffer, dirty,
                   layers, processing, recovery, crashes, clean>>

\* Accept as far as the reorg it may need.  Consensus is safe: a restarted
\* node accepts the blocks the network decided, before it decides new ones.
Accept(b) ==
    /\ Ready
    /\ b \in processing /\ parent[b] = lastAccepted
    /\ b \in ancestors[decided] \/ decided = lastAccepted
    /\ IF canonical[number[b]] = b
       THEN phase' = "enqueue" /\ op' = "accept" /\ target' = b /\ trimFrom' = 0
       ELSE BeginWriteKnown(b, "accept", lastAccepted)
    /\ decided' = IF b \in ancestors[decided] THEN decided ELSE b
    /\ UNCHANGED <<disk, mode, lastAccepted, acceptor, tipBuffer, dirty,
                   layers, processing, recovery, crashes, clean>>

\* The end of Accept: addAcceptorQueue blocks while the channel is full.
Enqueue ==
    /\ phase = "enqueue"
    /\ Len(acceptorQueue) < AcceptorQueueLimit
    /\ lastAccepted' = target
    /\ acceptorQueue' = Append(acceptorQueue, target)
    /\ phase' = "commit"
    /\ UNCHANGED <<disk, mode, accepting, acceptorAt, acceptorTip, announced,
                   tipBuffer, dirty, layers, processing, op, target, trimFrom,
                   recovery, env>>

\* wrappedBlock.Accept after blockChain.Accept: the last accepted ID is
\* committed in the batch that goes with the shared memory operations.
CommitLastAccepted ==
    /\ phase = "commit"
    /\ durable' = target
    /\ processing' = processing \ {target}
    /\ Return
    /\ UNCHANGED <<blocks, canonical, headBlock, indices, diskRoots, mode,
                   lastAccepted, acceptor, tipBuffer, dirty, layers, trimFrom,
                   recovery, env>>

\* Mutant: RejectTrie dereferences the root.
RejectDereferences(b) ==
    /\ Ready
    /\ b \in processing /\ parent[b] \notin processing
    /\ lastAccepted \notin ancestors[b]
    /\ blocks' = blocks \ {b}
    /\ diffLayers' = diffLayers \ {b}
    /\ processing' = processing \ {b}
    /\ dirty' = Forget(dirty, root[b])
    /\ UNCHANGED <<canonical, headBlock, indices, diskRoots, durable, mode,
                   lastAccepted, acceptor, tipBuffer, diskLayer, call,
                   recovery, env>>

\* The engine rejects the losers of a decision, parents before children.
\* RejectTrie dereferences nothing.
Reject(b) ==
    /\ Ready
    /\ b \in processing /\ parent[b] \notin processing
    /\ lastAccepted \notin ancestors[b]
    /\ blocks' = blocks \ {b}
    /\ diffLayers' = diffLayers \ {b}
    /\ processing' = processing \ {b}
    /\ UNCHANGED <<canonical, headBlock, indices, diskRoots, durable, mode,
                   lastAccepted, acceptor, tipBuffer, dirty, diskLayer, call,
                   recovery, env>>

-----------------------------------------------------------------------------
(* The acceptor goroutine, startAcceptor.                                  *)

AcceptorTake ==
    /\ acceptorAt = "idle" /\ acceptorQueue # <<>>
    /\ accepting' = Head(acceptorQueue)
    /\ acceptorQueue' = Tail(acceptorQueue)
    /\ acceptorAt' = "trie"
    /\ UNCHANGED <<disk, mode, lastAccepted, acceptorTip, announced, tipBuffer,
                   dirty, layers, processing, call, recovery, env>>

\* tipBuffer.Insert: the window of recent roots, and what Dereference leaves.
InsertTipBuffer(r) ==
    tipBuffer' = IF Len(tipBuffer) = StateHistory
                 THEN Append(Tail(tipBuffer), r) ELSE Append(tipBuffer, r)
Dereferenced == IF Len(tipBuffer) = StateHistory
                THEN Forget(dirty, Head(tipBuffer)) ELSE dirty

\* cappedMemoryTrieWriter.AcceptTrie, or noPruningTrieWriter.AcceptTrie.
AcceptTrie(b) ==
    IF Pruning
    THEN /\ InsertTipBuffer(root[b])
         /\ IF number[b] % CommitInterval = 0
            THEN CommitRoot(Dereferenced, root[b])
            ELSE MayCap(Dereferenced)
    ELSE CommitRoot(dirty, root[b]) /\ UNCHANGED tipBuffer

AcceptorTrie ==
    /\ acceptorAt = "trie"
    /\ AcceptTrie(accepting)
    /\ acceptorAt' = "flatten"
    /\ UNCHANGED <<blocks, canonical, headBlock, indices, durable, mode,
                   lastAccepted, acceptorQueue, accepting, acceptorTip,
                   announced, layers, processing, call, recovery, env>>

\* What Flatten needs to merge b's layer into the disk layer; otherwise it
\* returns an error and the acceptor ends the process with log.Crit.
CanFlatten(b) == b \in diffLayers /\ parent[b] = diskLayer

\* Mutant: leaves the base of the layer tree where it was.
FlattenKeepsBase ==
    /\ acceptorAt = "flatten" /\ phase # "insert"
    /\ diffLayers' = diffLayers \ {accepting}
    /\ acceptorAt' = "index"
    /\ UNCHANGED <<disk, mode, lastAccepted, acceptorQueue, accepting,
                   acceptorTip, announced, tipBuffer, dirty, diskLayer,
                   processing, call, recovery, env>>

\* Mutant: needs chainmu, which a blocked Accept holds, and tries again.
FlattenTakesChainmu ==
    /\ acceptorAt = "flatten"
    /\ acceptorAt' = IF phase = "idle" THEN "index" ELSE "trie"
    /\ UNCHANGED <<disk, mode, lastAccepted, acceptorQueue, accepting,
                   acceptorTip, announced, tipBuffer, dirty, layers,
                   processing, call, recovery, env>>

\* flattenSnapshot's Flatten, which waits for a block being inserted.
AcceptorFlatten ==
    /\ acceptorAt = "flatten" /\ phase # "insert"
    /\ IF Snapshots
       THEN /\ CanFlatten(accepting)
            /\ diskLayer' = accepting
            /\ diffLayers' = diffLayers \ {accepting}
       ELSE UNCHANGED layers
    /\ acceptorAt' = "index"
    /\ UNCHANGED <<disk, mode, lastAccepted, acceptorQueue, accepting,
                   acceptorTip, announced, tipBuffer, dirty, processing, call,
                   recovery, env>>

writeBlockAcceptedIndices(b) == txLookup' = txLookup \cup {b} /\ diskTip' = b

AcceptorIndex ==
    /\ acceptorAt = "index"
    /\ writeBlockAcceptedIndices(accepting)
    /\ acceptorAt' = "tip"
    /\ UNCHANGED <<chain, tries, mode, lastAccepted, acceptorQueue, accepting,
                   acceptorTip, announced, layers, processing, call, recovery,
                   env>>

\* Mutant: publishes the last accepted block as the tip.
TipIsLastAccepted ==
    /\ acceptorAt = "tip"
    /\ acceptorTip' = lastAccepted
    /\ acceptorAt' = "notify"
    /\ UNCHANGED <<disk, mode, lastAccepted, acceptorQueue, accepting,
                   announced, tipBuffer, dirty, layers, processing, call,
                   recovery, env>>

AcceptorTip ==
    /\ acceptorAt = "tip"
    /\ acceptorTip' = accepting
    /\ acceptorAt' = "notify"
    /\ UNCHANGED <<disk, mode, lastAccepted, acceptorQueue, accepting,
                   announced, tipBuffer, dirty, layers, processing, call,
                   recovery, env>>

\* The accepted feeds and acceptorWg.Done.
AcceptorNotify ==
    /\ acceptorAt = "notify"
    /\ announced' = accepting
    /\ accepting' = NoBlock /\ acceptorAt' = "idle"
    /\ UNCHANGED <<disk, mode, lastAccepted, acceptorQueue, acceptorTip,
                   tipBuffer, dirty, layers, processing, call, recovery, env>>

-----------------------------------------------------------------------------
(* Stopping and crashing.                                                  *)

\* Everything a process holds in memory is gone.
MemoryLost ==
    /\ mode' = "down" /\ lastAccepted' = durable'
    /\ acceptorTip' = NoBlock /\ announced' = NoBlock
    /\ acceptorQueue' = <<>> /\ accepting' = NoBlock /\ acceptorAt' = "idle"
    /\ tipBuffer' = <<>> /\ dirty' = <<>>
    /\ diskLayer' = NoBlock /\ diffLayers' = {}
    /\ processing' = {}
    /\ phase' = "idle" /\ op' = "none" /\ target' = NoBlock /\ trimFrom' = 0
    /\ cursor' = NoBlock /\ writeIndices' = FALSE /\ previousRoot' = NoRoot

\* Stop, as far as the wait of stopAcceptor.
Stop ==
    /\ Ready
    /\ mode' = "stopping"
    /\ UNCHANGED <<disk, lastAccepted, acceptor, tipBuffer, dirty, layers,
                   processing, call, recovery, env>>

\* Mutant: does not commit the last root.
StopUncommitted ==
    /\ mode = "stopping" /\ acceptorQueue = <<>> /\ acceptorAt = "idle"
    /\ UNCHANGED <<disk, decided, crashes>>
    /\ clean' = TRUE
    /\ MemoryLost

\* The queue is drained: close it and shut the state manager down.
StopDrained ==
    /\ mode = "stopping" /\ acceptorQueue = <<>> /\ acceptorAt = "idle"
    /\ diskRoots' = diskRoots \cup
          (IF tipBuffer = <<>> THEN {} ELSE {tipBuffer[Len(tipBuffer)]} \cap Range(dirty))
    /\ UNCHANGED <<chain, indices, decided, crashes>>
    /\ clean' = TRUE
    /\ MemoryLost

Crash ==
    /\ mode \in {"loading", "running", "stopping"} /\ crashes < MaxCrashes
    /\ crashes' = crashes + 1 /\ clean' = FALSE
    /\ UNCHANGED <<disk, decided>>
    /\ MemoryLost

-----------------------------------------------------------------------------
(* Starting: loadLastState, reprocessState and the rest of NewBlockChain.  *)

\* loadLastState: setPreference(lastAccepted) from the head found on disk.
Start ==
    /\ mode \in {"down", "failed"}
    /\ mode' = "loading"
    /\ headBlock \in blocks /\ durable \in blocks
    /\ IF headBlock = durable
       THEN phase' = "search" /\ op' = "load" /\ target' = durable /\ trimFrom' = 0
       ELSE BeginWriteKnown(durable, "load", durable)
    /\ UNCHANGED <<disk, lastAccepted, acceptor, tipBuffer, dirty, layers,
                   processing, recovery, env>>

\* Mutant: an acceptor tip that is up to date is trusted to have its state.
SearchTrustsTip ==
    /\ phase = "search"
    /\ phase' = "reexecute"
    /\ IF diskTip \in {NoBlock, lastAccepted}
       THEN cursor' = lastAccepted
       ELSE \E b \in ancestors[diskTip] :
               /\ IsHighest(b, {c \in ancestors[diskTip] : HasState(c)})
               /\ cursor' = b
    /\ UNCHANGED <<disk, mode, lastAccepted, acceptor, tipBuffer, dirty,
                   layers, processing, op, target, trimFrom, writeIndices,
                   previousRoot, env>>

\* Mutant: searches from the last accepted block, whatever the acceptor tip.
SearchIgnoresTip ==
    /\ phase = "search"
    /\ phase' = "reexecute"
    /\ \E b \in ancestors[lastAccepted] :
          /\ IsHighest(b, {c \in ancestors[lastAccepted] : HasState(c)})
          /\ cursor' = b
    /\ UNCHANGED <<disk, mode, lastAccepted, acceptor, tipBuffer, dirty,
                   layers, processing, op, target, trimFrom, writeIndices,
                   previousRoot, env>>

\* reprocessState up to its forward loop: from the acceptor tip, if there is
\* one, back to the first block whose state is on disk.
Search ==
    /\ phase = "search"
    /\ phase' = "reexecute"
    /\ LET acceptorTipUpToDate == diskTip \in {NoBlock, lastAccepted}
           from == IF diskTip = NoBlock THEN lastAccepted ELSE diskTip
       IN IF HasState(lastAccepted) /\ acceptorTipUpToDate
          THEN cursor' = lastAccepted
          ELSE \E b \in ancestors[from] :
                  /\ IsHighest(b, {c \in ancestors[from] : HasState(c)})
                  /\ cursor' = b
    /\ UNCHANGED <<disk, mode, lastAccepted, acceptor, tipBuffer, dirty,
                   layers, processing, op, target, trimFrom, writeIndices,
                   previousRoot, env>>

\* Mutant: dereferences the root just computed, not the one before it.
ReexecuteDropsNew ==
    /\ phase = "reexecute" /\ number[cursor] < number[lastAccepted]
    /\ LET next == canonical[number[cursor] + 1]
           indexing == writeIndices \/ cursor = diskTip
       IN /\ next \in blocks /\ HasState(cursor)
          /\ dirty' = Forget(dirty, root[next])
          /\ previousRoot' = root[next]
          /\ diskLayer' = IF Snapshots /\ indexing THEN next ELSE diskLayer
          /\ writeIndices' = indexing
          /\ IF indexing THEN writeBlockAcceptedIndices(next)
                         ELSE UNCHANGED indices
          /\ cursor' = next
    /\ UNCHANGED <<chain, diskRoots, mode, lastAccepted, acceptor, tipBuffer,
                   diffLayers, processing, call, env>>

\* One turn of the forward loop.  The canonical hash at the next number is
\* taken as the cursor's child; the only disk write is the index batch.
Reexecute ==
    /\ phase = "reexecute" /\ number[cursor] < number[lastAccepted]
    /\ LET next == canonical[number[cursor] + 1]
           indexing == writeIndices \/ cursor = diskTip
       IN /\ next \in blocks /\ HasState(cursor)
          /\ dirty' = Forget(TrieUpdate(dirty, root[next]), previousRoot)
          /\ previousRoot' = root[next]
          /\ diskLayer' = IF Snapshots /\ indexing THEN next ELSE diskLayer
          /\ writeIndices' = indexing
          /\ IF indexing THEN writeBlockAcceptedIndices(next)
                         ELSE UNCHANGED indices
          /\ cursor' = next
    /\ UNCHANGED <<chain, diskRoots, mode, lastAccepted, acceptor, tipBuffer,
                   diffLayers, processing, call, env>>

\* Mutant: starts the acceptor from the tip found on disk.
LoadedAtDiskTip ==
    /\ phase = "reexecute" /\ number[cursor] >= number[lastAccepted]
    /\ CommitRoot(dirty, previousRoot)
    /\ acceptorTip' = IF diskTip = NoBlock THEN lastAccepted ELSE diskTip
    /\ mode' = IF root[headBlock] \in diskRoots' \cup Range(dirty')
               THEN "running" ELSE "failed"
    /\ diskLayer' = IF Snapshots /\ diskLayer = NoBlock
                    THEN headBlock ELSE diskLayer
    /\ Return
    /\ cursor' = NoBlock /\ writeIndices' = FALSE /\ previousRoot' = NoRoot
    /\ UNCHANGED <<chain, indices, lastAccepted, acceptorQueue, accepting,
                   acceptorAt, announced, tipBuffer, diffLayers, processing,
                   trimFrom, env>>

\* The last commit, the check that the head state is there, and the
\* acceptor started on a chain whose tip is the last accepted block.
Loaded ==
    /\ phase = "reexecute" /\ number[cursor] >= number[lastAccepted]
    /\ CommitRoot(dirty, previousRoot)
    /\ acceptorTip' = lastAccepted
    /\ mode' = IF root[headBlock] \in diskRoots' \cup Range(dirty')
               THEN "running" ELSE "failed"
    /\ diskLayer' = IF Snapshots /\ diskLayer = NoBlock
                    THEN headBlock ELSE diskLayer
    /\ Return
    /\ cursor' = NoBlock /\ writeIndices' = FALSE /\ previousRoot' = NoRoot
    /\ UNCHANGED <<chain, indices, lastAccepted, acceptorQueue, accepting,
                   acceptorAt, announced, tipBuffer, diffLayers, processing,
                   trimFrom, env>>

-----------------------------------------------------------------------------
Writer == ReorgLink \/ ReorgTrim \/ WriteHead \/ InsertTip \/ Enqueue
             \/ CommitLastAccepted
Acceptor == AcceptorTake \/ AcceptorTrie \/ AcceptorFlatten \/ AcceptorIndex
               \/ AcceptorTip \/ AcceptorNotify
Load == Start \/ Search \/ Reexecute \/ Loaded
Engine == \E b \in Block :
             InsertBlock(b) \/ SetPreference(b) \/ Accept(b) \/ Reject(b)

Next == Writer \/ Acceptor \/ Load \/ Engine \/ Stop \/ StopDrained \/ Crash

Spec == Init /\ [][Next]_vars

\* The goroutines are scheduled: the call that holds chainmu, the acceptor,
\* a stop and a start in progress go on.  The engine and crashes do not.
FairSpec == /\ Spec /\ WF_vars(Writer) /\ WF_vars(Acceptor)
            /\ WF_vars(Search \/ Reexecute \/ Loaded) /\ WF_vars(StopDrained)

-----------------------------------------------------------------------------
(* Properties.                                                             *)

\* The type of every variable.
TypeOK ==
    /\ blocks \in SUBSET Block /\ headBlock \in Block /\ durable \in Block
    /\ canonical \in [Height -> Block \cup {NoBlock}]
    /\ diskTip \in Block \cup {NoBlock} /\ txLookup \in SUBSET Block
    /\ diskRoots \in SUBSET Root
    /\ mode \in {"down", "loading", "running", "stopping", "failed"}
    /\ lastAccepted \in Block
    /\ acceptorTip \in Block \cup {NoBlock}
    /\ announced \in Block \cup {NoBlock}
    /\ acceptorQueue \in Seq(Block)
    /\ accepting \in Block \cup {NoBlock}
    /\ acceptorAt \in {"idle", "trie", "flatten", "index", "tip", "notify"}
    /\ tipBuffer \in Seq(Root) /\ dirty \in Seq(Root)
    /\ diskLayer \in Block \cup {NoBlock} /\ diffLayers \in SUBSET Block
    /\ processing \in SUBSET Block
    /\ phase \in {"idle", "link", "trim", "head", "insert", "enqueue",
                  "commit", "search", "reexecute"}
    /\ op \in {"none", "prefer", "accept", "load"}
    /\ target \in Block \cup {NoBlock}
    /\ trimFrom \in Nat
    /\ cursor \in Block \cup {NoBlock} /\ writeIndices \in BOOLEAN
    /\ previousRoot \in Root \cup {NoRoot}
    /\ decided \in Block /\ crashes \in 0..MaxCrashes /\ clean \in BOOLEAN

\* The canonical index names every accepted block at its height, in every
\* state: in the middle of a reorg, after a crash at any point of one, and
\* while a restart rewinds the head.  (reorg "cannot orphan finalized block")
AcceptedCanonical ==
    \A b \in ancestors[lastAccepted] : canonical[number[b]] = b

\* Between calls the canonical index is exactly the chain of the head: no
\* number above the head, and none of an abandoned branch, has a hash.
\* (reorg "Delete any canonical number assignments above the new head")
CanonicalIsHeadChain ==
    Ready => \A n \in Height :
        canonical[n] = IF n > number[headBlock] THEN NoBlock
                       ELSE CHOOSE b \in ancestors[headBlock] : number[b] = n

\* Every call the engine may make on a live block can go through: the parent
\* of a block to verify is stored, its state is in memory or on disk and it
\* has a snapshot layer; the next block to accept can be made canonical.
\* Dereferencing, capping, rejecting a sibling with the same root, flattening
\* and restarting never take away what a live block needs.
LiveBlocksUsable ==
    Ready => \A b \in Block \ {Genesis} :
        /\ Verifiable(b) /\ lastAccepted \in ancestors[b] =>
              /\ parent[b] \in blocks /\ HasState(parent[b])
              /\ Snapshots => parent[b] \in Layers
        /\ b \in processing /\ parent[b] = lastAccepted =>
              \/ canonical[number[b]] = b /\ b \in ancestors[headBlock]
              \/ parent[b] = headBlock
              \/ ReorgAllowed(b, lastAccepted)

\* The acceptor never meets a layer it cannot flatten, which would end the
\* process with log.Crit.
FlattenPossible ==
    acceptorAt \in {"trie", "flatten"} /\ Snapshots => CanFlatten(accepting)

\* Whatever a crash interrupted, the next start finds its head and its last
\* accepted block and can rewind the one to the other.
RestartPossible ==
    mode = "down" =>
        /\ {headBlock, durable} \subseteq blocks
        /\ headBlock = durable \/ ReorgAllowed(durable, durable)

\* reprocessState re-executes each block on its own parent's state, although
\* it only follows canonical numbers forward from the state it found.
ReexecutionFollowsChain ==
    phase = "reexecute" /\ number[cursor] < number[lastAccepted] =>
        LET next == canonical[number[cursor] + 1]
        IN next \in blocks /\ parent[next] = cursor /\ HasState(cursor)

\* A start fails only after the crash of an Accept that the acceptor had
\* overtaken: the tip it wrote is above the last accepted block, the tip's
\* state is on disk and the last accepted block's is not.
FailureIsOvertakenAccept ==
    mode = "failed" =>
        /\ diskTip # NoBlock /\ number[diskTip] > number[durable]
        /\ root[diskTip] \in diskRoots /\ root[durable] \notin diskRoots

\* The blocks accepted and not yet processed are, in order, the chain from
\* the acceptor tip to the last accepted block.
AcceptorBacklog ==
    LET taken == IF acceptorAt \in {"idle", "notify"} THEN <<>> ELSE <<accepting>>
        backlog == <<acceptorTip>> \o taken \o acceptorQueue
    IN mode \in {"running", "stopping"} =>
         /\ \A i \in 1..(Len(backlog) - 1) : parent[backlog[i + 1]] = backlog[i]
         /\ backlog[Len(backlog)] = lastAccepted

\* Once an accepted block's transactions are indexed, so are those of every
\* accepted block after it: crashes and re-execution leave no hole.
NoIndexHole ==
    mode \in {"running", "stopping"} =>
        \A x \in txLookup, y \in ancestors[acceptorTip] :
            number[x] < number[y] => y \in txLookup

\* After a clean stop the state of the last accepted block is on disk and the
\* acceptor tip is not behind it: nothing is left to re-execute.
CleanStopKeepsAll ==
    mode = "down" /\ clean =>
        /\ root[durable] \in diskRoots
        /\ diskTip # NoBlock => durable \in ancestors[diskTip]

\* The states of the last StateHistory processed blocks can be read.
\* (AcceptTrie "so queries at tip can still be completed")
RecentStateReadable == Range(tipBuffer) \subseteq diskRoots \cup Range(dirty)

\* What the acceptor and a restart find, whatever interrupted the last run: layers that can
\* be flattened, a head that can be rewound, blocks to re-execute that follow one another,
\* the whole backlog, and a state to start from but for an Accept that was overtaken.
RestartSafety ==
    /\ FlattenPossible /\ RestartPossible /\ ReexecutionFollowsChain /\ AcceptorBacklog
    /\ CleanStopKeepsAll /\ RecentStateReadable /\ FailureIsOvertakenAccept

\* Subscribers see accepted blocks in order, none twice and none left out,
\* and a client that reads the tip on an event finds that block.
EventsInOrder ==
    [][announced' \notin {announced, NoBlock} =>
          /\ acceptorTip' = announced'
          /\ announced # NoBlock => parent[announced'] = announced]_vars

\* A start or a stop under way, or an accepted block that is not processed yet.
Owed ==
    \/ mode \in {"loading", "stopping"}
    \/ mode = "running" /\ (acceptorTip = NoBlock \/ lastAccepted \notin ancestors[acceptorTip])

\* Every block accepted is processed, unless the process ends first, and a start or a stop
\* comes to an end: draining the queue needs no lock it waits for.
AcceptedIsProcessed == []<>~Owed

\* Stated by blockchain.go and not so: a start finds, or rebuilds, the state
\* of the last accepted block.
StartRecoversState == mode # "failed"
=============================================================================
