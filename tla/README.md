# coreth: specifications, model checking and proofs

coreth is the EVM virtual machine of a Snow-consensus node (the C-Chain). It runs
as a plugin: a consensus engine tells it to build, verify, prefer, accept and
reject blocks, and the VM keeps the Ethereum chain, the cross-chain ("atomic")
transactions and their shared memory, syncs both from peers, and serves queries.

This directory holds TLA+ modules for the parts whose correctness depends on the
order of things (reorganisations, an asynchronous acceptor, crashes between two
writes, goroutines that wait for each other, a pool shared by building and gossip),
the TLC configurations that check them, and TLAPS proofs. `PROJECT.json` maps the
definitions to the source lines they model (a helper whose lines lie inside those of the
definition that uses it has no entry of its own) and lists components, runs, mutants,
findings, hazards and theorems.

## 1. The system

| Part | Source | Modules |
|---|---|---|
| Block chain, acceptor, trie writers | `core/blockchain.go`, `core/state_manager.go`, `core/bounded_buffer.go`, `core/blockchain_iterator.go` | `BlockChain`, `BoundedBuffer`, `SlidingWindow`, `PopulateTries` |
| Block builder, atomic mempool, atomic blocks | `plugin/evm/block_builder.go`, `plugin/evm/atomic/txpool`, `plugin/evm/atomic/vm` | `BlockBuilding`, `AtomicMempool` |
| Atomic transactions | `plugin/evm/atomic` | `AtomicTx` |
| Atomic trie and shared memory | `plugin/evm/atomic/state`, `sync/atomic` | `AtomicBackend` |
| VM | `plugin/evm/vm.go`, `wrapped_block.go`, `admin.go` | `VM` |
| State sync | `sync/vm`, `sync/statesync`, `sync/handlers`, `sync/client` | `SyncClient`, `StateSync`, `CodeSyncer`, `SyncHandlers` |
| Network | `network` | `Network` |
| Snapshots | `core/state/snapshot` | `SnapshotTree`, `FastIterator`, `TrieRoot` |
| Trie databases, pruning | `triedb`, `core/state/pruner` | `HashDB`, `PathDB`, `Pruner` |
| Transaction pools | `core/txpool` | `LegacyPool`, `BlobPool`, `TxPool` |
| Mining, verification, fees, predicates | `miner`, `core/state_transition.go`, `consensus/dummy`, `plugin/evm/header`, `plugin/evm/upgrade/lp176`, `predicate` | `Miner` |
| Queries, fee history | `eth/api_backend.go`, `core/blockchain_reader.go`, `eth/gasprice` | `Queries` |
| Bloom index, log queries | `core/chain_indexer.go`, `core/bloom_indexer.go`, `core/bloombits`, `eth/filters` | `ChainIndexer`, `BloomMatcher`, `FilterSystem` |
| RPC | `rpc` | `RPCClient`, `RPCHandler`, `RPCSubscription` |
| Tracers | `eth/tracers`, `eth/state_accessor.go` | `ChainTracer`, `BlockTracer` |
| Warp, ethapi, codec, clients, tools | `warp`, `internal/ethapi`, `accounts`, `ethclient`, `cmd` | not modelled, section 6 |

How they interact. The engine calls the VM under its own lock; the VM calls
`BlockChain` under `chainmu`. `Accept` puts the block on the acceptor queue and
then commits the VM's versiondb; the acceptor goroutine commits or caps tries,
flattens the snapshot, writes indices and publishes the tip, at its own pace. The
atomic VM adds to each acceptance one batch with the atomic trie, the index, the
last accepted block and the shared-memory operations. At a start `loadLastState`
and `reprocessState` rebuild what the acceptor had only in memory, and
`NewAtomicBackend` replays the atomic index above the last trie commit. Building
takes transactions from the two pools; accepting and rejecting return or drop them.
Queries, filters, the bloom index and the tracers read the chain while it moves. A
state sync replaces the tries, the atomic trie and the last accepted block, through
requests to peers that the network layer matches with their answers.

## 2. Modules

A module has the state of one component as variables, an action for each call, handler
or goroutine step, and ends with its properties. A call is split where
another goroutine or a crash can observe the middle; what a lock covers and nobody
sees is one step. Memory and disk are separate variables (or fields) wherever a crash
tells them apart.

**`BlockChain`.** On disk: stored blocks, the canonical index, the head, the acceptor
tip, the lookups, the state roots, the VM's last accepted block (`durable`). In memory:
the queue and the acceptor's position in its loop, the dirty tries, the tip buffer,
the snapshot layers, and where the call holding `chainmu` stands. `InsertBlock` (with
`InsertTip` when the block extends the head), `SetPreference` and `Accept` may run
`reorg` as `ReorgLink`, `ReorgTrim` (a step per deletion batch) and `WriteHead`; `Accept`
goes on with `Enqueue`, which blocks on a full queue, and `CommitLastAccepted`. The
acceptor runs trie, flatten, index, tip, notify, one step each. `Stop` drains the queue,
`Crash` may strike in any state, and `Start`, `Search`, `Reexecute` are `loadLastState` and
`reprocessState`. The engine is the environment: it decides one child of the last
accepted block at a time, and after a crash repeats a decision that was not durable.
The trie database is external here: a root is on disk, in memory or gone, and siblings
may share one.

**`BoundedBuffer`, `SlidingWindow`.** The ring of state roots behind the pruning trie
writer, with a callback that may fail, and what it promises: a sequence that releases its
oldest item when full.

**`AtomicMempool`, `BlockBuilding`.** The pool is a record with one operator per method of
`Txs` and `Mempool`. Which entry the cache of discarded transactions evicts is
left open: the code's LRU order is one of the choices. `BlockBuilding` puts the pool among
its users: gossip and API (`IssueTx`), the builder's goroutine and `WaitForEvent`, a build
that takes transactions one by one, blocks of other nodes, preference, acceptance and the
rejections it entails. A processing block is the path to it from the last accepted block.

**`AtomicBackend`.** Everything is written through one versiondb, so there are two views of
the store, `disk` and `vdb`. A trie root stands for its set of entries, each a block and
a peer chain. Starts with their intermediate commits, `ApplyToSharedMemory` batch by batch
from its cursor, `InsertTxs`, `Accept`, `Reject`, and a state sync down to the hand-over;
references to tries in memory are a bag. `bonusBlocks` repeat earlier transactions: they
are in the trie and never in shared memory.

**`AtomicTx`.** Imports and exports made against the preferred block at its base fee,
verified on a branch, and applied to balances, nonces and shared memory.

**`VM`.** The last accepted block is recorded three times: in `acceptedBlockDB` (pending,
then durable), in the chain and in `chain.State`. Initialisation, bootstrapping and normal
operation, verification with and without a proposer's context, accept, reject, the import at
start-up and `admin_importChain` with its callback, shutdown, crash.

**Sync.** `StateSync`: workers, segments, storage tries, markers, stop and resume.
`CodeSyncer`: adders, queue, workers, markers. `SyncClient`: a session of the VM from the
choice of a summary to the switch to the synced block. `SyncHandlers`: the answers to leaf,
block and code requests and how the client checks them. `Network`: slots, request
identifiers, handlers, peers, shutdown, under the client's retries.

**Storage.** `SnapshotTree`: disk layer, diff layers, generator, wiper, abort, journal.
`FastIterator`: both iterators, against a reference. `TrieRoot`: the goroutines of
`generateTrieRoot`. `HashDB`: reference counts and flush-list, with the unlocked writes of
`Cap` and `Commit`. `PathDB`: layer tree, node buffer, journal, readers that keep layers, and
flushes whose batch fails. `Pruner`: the bloom file, the deletion of the roots of blocks under
verification, deletion batch by batch, and recovery, beside a chain that inserts, prefers,
accepts, commits and restarts. `PopulateTries`: the read-ahead iterator.

**Pools.** `LegacyPool`: lists, lookup, price heaps, reservations, background runs,
resets, reorgs. `BlobPool`: index, store and limbo with crashes. `TxPool`: the reset loop,
`Sync`, `Add`, `Close`.

**Mining.** `Miner`: a block filled while pool and clock move, and the verification of own
and foreign blocks, which differ from what they claim in at most one field; and the LP-176
arithmetic, saturating at `MaxGas`.

**Service.** `Queries`: reads that hold no lock between the tip, the index and the caches.
`ChainIndexer`: sections, reorgs, crashes, range queries. `BloomMatcher`: the pipeline of
sub-matchers, schedulers, distributor and multiplexers; `Close` returns once all of them have
ended. `FilterSystem`: event loop, installation, polls, expiry. `RPCClient`, `RPCHandler`,
`RPCSubscription`: the two ends of a connection and its subscriptions. `ChainTracer`,
`BlockTracer`: feeder, tracers, catcher, and who releases states.

**MC modules.** `MCBlockChain` and `MCBlockBuilding` give one component its constants.
`MCSync`, `MCPools`, `MCStorage`, `MCService` and `MCNode` are suites: they instantiate
several components with variables of their own and `part` chooses the one that a behaviour
runs. The variables of the others are 0 throughout (`Idle...`), a property is about the
component that runs (`part = ... => ...`), and so is fairness (`Mine`). Components of a suite
share no state, so that running them side by side would only multiply states.

## 3. Runs

| Run | What runs, within which bounds | Checks |
|---|---|---|
| `chain_pruning` | a pruning node: two branches of 3 and 2 blocks, two blocks with the same root, queue 2, commit interval 2, history 1, one crash | `TypeOK`, `AcceptedCanonical`, `CanonicalIsHeadChain`, `LiveBlocksUsable`, `NoIndexHole`, `RestartSafety`, `EventsInOrder` |
| `building` | three transactions of which two conflict, a pool of 2, a cache of 1 discarded, the EVM pool, own blocks beside one foreign block | `MempoolSafety`, `ConflictsAreOrphans`, `BlocksSpendOnce`, `NothingLost` |
| `sync` | the atomic backend (main chain of 8, two forks, commit interval 3, three crashes), state syncer, code syncer, network, session, handlers | `SyncSafety`, `CodeSafety`, `NetworkSafety`, `SessionSafety`, `ServeSafety`, `AtomicSafety`, `SyncsEnd` |
| `pools` | the three EVM pools, atomic transactions, and building twice: beside the EVM pool, and with chains of two processing blocks | `LegacySafety`, `BlobSafety`, `CoordinatorSafety`, `AtomicTxSafety`, `PoolsServed` |
| `storage` | snapshots, iterators, both trie databases, pruner with three faults (crashes and failed steps), population, the ring of 3 roots, an archive chain with two crashes and a queue of 1 | `NoUnsetValue`, `ImplementsWindow`, `SnapshotSafety`, `HashSafety`, `PathSafety`, `OfflineSafety`, `ArchiveSafety`, `StorageEnds` |
| `service` | RPC (batches, and single requests with a notification and a subscription), filters, matcher, tracers, start and stop of the VM | `RPCSafety`, `FilterSafety`, `TracerSafety`, `ServiceEnds` |
| `node` | queries (one reader of every kind beside one of fees), bloom index, VM with imports twice, once with the engine's states and once with a crash, miner with blocks up to 3 and two ticks of the clock | `QuerySafety`, `IndexerSafety`, `VMSafety`, `MinerSafety` |
| `chain_overtaken`, `atomic_skipped`, `vm_import`, `query_unaccepted`, `bloom_index` | the smallest instance that shows it | one statement of the repository each: violated, section 4 |

The first seven hold. What the main properties say:

* `AcceptedCanonical`, `CanonicalIsHeadChain`: accepted blocks are never orphaned,
  at any crash point; between calls the index is exactly the head's chain.
* `LiveBlocksUsable`: the acceptor's dereferencing, capping and flattening never
  take what the engine needs next. `RestartSafety`: what a restart finds and rebuilds, and
  the one way in which a start can fail (section 4). `NoIndexHole`: every accepted block
  gets its lookups, exactly once per start. `EventsInOrder`: subscribers see
  accepted blocks in order, without a gap.
* `MempoolSafety`: a transaction is in one place, the size bound holds, and an entry of
  `utxoSpenders` names a transaction the pool holds. `NothingLost`: a transaction is forgotten
  only when a block takes its inputs or the cache overflows. `ConflictsAreOrphans` pins down
  when conflicting transactions can coexist, and `BlocksSpendOnce` shows that no block
  inherits the conflict.
* `AtomicSafety`: each operation of an accepted block reaches shared memory exactly once
  whatever crashes interrupt acceptances, syncs and batches; the trie follows the chain; its
  references are released exactly once.
* `SyncSafety`, `CodeSafety`, `SessionSafety`, `ServeSafety`, `NetworkSafety`: a resumed
  sync leaves no leaf, trie or code out, a marker outlives what it marks, an answer that the
  client believes is the trie's, and every slot and handler is accounted for.
* `LegacySafety`, `BlobSafety`, `CoordinatorSafety`, `AtomicTxSafety`: the pools' indices
  agree with each other through reorgs, evictions and crashes, and value is
  conserved between chains on every branch.
* `SnapshotSafety`, `HashSafety`, `PathSafety`, `OfflineSafety`, `ArchiveSafety`: a read gives
  the block's value or an error, the disk is whole at any moment, an interrupted
  generation, pruning or population resumes correctly. `PathSafety` covers flushes whose batch
  fails: the buffer keeps what the disk did not take. `OfflineSafety` says that a start finds
  whole states however pruning was interrupted, because the roots it leaves without nodes belong
  to blocks that can no longer be accepted, with the exception of section 4.
* `RPCSafety`, `FilterSafety`, `TracerSafety`, `QuerySafety`, `IndexerSafety`, `VMSafety`,
  `MinerSafety`: answers are complete and in order, caches hold accepted data
  only, the three records of the accepted tip agree except around an import, and a block that
  the worker builds passes the verification of the same code.
* `SyncsEnd`, `PoolsServed`, `StorageEnds`, `ServiceEnds`: what a component owes (an
  answer, an end, a build after a signal) does not stay owed, `[]<>~Owed`.

**Bounds.** Two branches and one crash reach reorganisations in both directions, below
and above the last accepted block, and every crash point in them. Commit intervals are
below the height of the chain and queues shorter than the backlog, so that commits, eviction
from the tip buffer, a full queue and re-execution all happen. In `building` the pool and the
cache are smaller than the number of transactions, two of which conflict and differ in price and
in inputs, so that eviction, replacement, refusal for size and orphaned entries occur; own blocks are not counted by
`MaxProcessing`, so a foreign block has siblings. In `sync`, an interval of 3 with a sync at 6
and blocks up to 8 gives heights that are commits, between commits and above the sync, and a
block with operations for two chains puts a batch boundary inside a height. In the suites each instance
has two of what can race (workers, callers, readers, multiplexers) and buffers one shorter
than what may be sent to them; the comment at each `INSTANCE` says which case it reaches.
Deadlock is checked in the two chain runs and in `building`. In the suites a behaviour may end:
a block tree, a batch of requests or a bound on crashes is used up.

**Fairness.** Weak fairness of goroutines that wait for nothing but each other: the call
that holds `chainmu`, the acceptor, the generator, the workers of a sync, the loops of
the pools and of RPC. The scheduler of the Go runtime gives each of them its turn. The suites
state it for the union of these steps where a behaviour has finitely many of them, which is the
weaker assumption, and one by one where it has not (the acceptor beside an engine that
changes its preference for ever, the matcher's goroutines). `BeginBuild` has strong fairness:
the engine builds when told, but other calls may hold its lock in between. No fairness is
assumed of the engine's decisions, users, peers, timers or crashes. A server need not answer, so
`Unsubscribe` owes an end only until its request is on its way (section 4).

**Mutants.** Each property of each passing run comes with a mutant of the modelled code
(a dropped guard, a missing reset, a swapped order) under which it fails.

## 4. Findings

Five runs show a statement of the repository that the code does not keep.

1. `chain_overtaken`: `Accept` enqueues the block (`core/blockchain.go:1282`) before
   the VM makes the acceptance durable. The acceptor may commit the trie and advance
   the tip in between; after a crash the start finds a last accepted block without a
   trie under a tip that has one, and fails.
2. `atomic_skipped`: the end of an atomic sync records commit heights between the
   last leaf and the target with the root that lacks the last leaf
   (`sync/atomic/syncer.go:264`).
3. `vm_import`: after a start that imports an RLP file the engine goes on from the
   imported tip, but the chain's last accepted block is still the old one: the first
   `Accept` fails until the next restart (`plugin/evm/vm.go:1825`).
4. `query_unaccepted`: a query by hash checks that the block is canonical and then its
   height; a sibling accepted between the two lets a block through that is not accepted
   (`eth/api_backend.go:136`).
5. `bloom_index`: the bloom indexer writes its bits under another key, and in another
   form, than queries read (`core/bloom_indexer.go:104`).

Met while modelling, and not stated as a run:

* Chain: a crash before the acceptor's first index write leaves an empty tip, taken
  for a node that never wrote one (`core/blockchain.go:2049`). A crash between two deletion
  batches of a reorg leaves a gap at which the next reorg stops (`:1790`); the theorems of
  section 5 assume that one batch suffices, and in the code it holds 10,000 hashes.
* Mempool: `removeSpenders` goes by UTXO and may take another transaction's entry
  (`txs.go:300`); `ConflictsAreOrphans` states the exception exactly. `PendingLen` counts issued
  transactions, so the builder may ask for a block when all of them are in one already.
* VM: the callback after an import races `Accept` and a second import; `admin_importChain`
  may rewind accepted blocks; imported blocks keep their state references, and their atomic
  operations never reach shared memory; a second entry into normal operation overwrites the
  cancel function and starts the gossip goroutines twice.
* Sync: a worker counts the tries in progress and then looks whether all were produced
  (`sync/statesync/state_syncer.go:130`); a trie added in between closes the segments early, and
  the root is written without it, which the comment at `:159` excludes (`RootImpliesState` states
  the exception). An interrupted atomic sync restarts from the last commit below the last accepted
  block. `GetAnyPeer` ignores its minimum version.
* Storage: a garbled account makes `generateTrieRoot` wait for ever
  (`conversion.go:327`); `Rebuild` waits for a generation that was skipped; in
  PathDB a sibling of the lowest layer kept by `cap` goes on pointing at the flattened one and
  stays in the tree (`layertree.go:209`).
* Pruning: an error of `RecoverPruning` is logged and the start goes on (`eth/backend.go:171`).
  The filter stays on disk while the chain moves, and the next recovery deletes by it without
  cleaning the roots of blocks flushed since, whose states may then be there in part. `Exposed`
  is that exception of `OfflineSafety`.
* RPC: a call overtaken by a reconnection waits for its own deadline
  (`rpc/client.go:668`); a client's `Unsubscribe` waits for the server's answer without a
  deadline; that of a filter blocks once the event loop has stopped. The timer of a single
  request answers it with an error even if it is a notification (`rpc/handler.go:307`,
  `handleNonBatchCall`), where JSON-RPC has none; `Answered` states the exception.
* Tracers: `debug_traceCall` with a transaction index runs on the state before that transaction
  (its test, `api_test.go:350`, expects so), the comment at `api.go:918` says otherwise;
  `TraceBadBlock` compares a nil block (`eth/tracers/api.go:505`); a cancelled
  `traceChain` and the error paths of `stateAtTransaction` keep states referenced.
* Miner: blob transactions would be included that verification refuses.
  FeeHistory indexes receipts that a synced block lacks.

## 5. Proofs

TLAPS checks the theorems below for every value of the constants that the named
assumptions of the modules allow: any block tree, queue limit, commit interval, history,
pruning or archive, with or without snapshots, any number of crashes; any set of atomic
transactions and UTXOs with any prices, any size of the pool and of its cache; any commit
and syncable intervals of the atomic trie; any goroutines and accounts of a code sync; any
size of ring. `BlockTree` and `Tree` state
what header verification enforces of parents and numbers, `BlockTree` also that a state root
does not repeat along one chain (every block pays fees and moves a nonce), `Tree` also that the
accepted blocks are one chain. `CacheConfig`, `MempoolConfig` and `Config` state what
configuration validation enforces. `Intervals` says that summaries are of commit
heights: validation fixes both intervals of a public network, at 4096 and four times that.
The `Config` of `CodeSyncer`, a hypothesis of its theorem, asks for at least one worker and
for requests of at least one hash, both constants of the code.

`OneBatch` (`MaxBatchSize >= MaxNumber`) is a hypothesis of the theorems that say so: a reorg
deletes the hashes above the new head in one batch, in the code 10,000 of them. Without it
they fail, by the crash between two batches of section 4.

### The chain: `BlockChainProofs`, `BlockChainAcceptorProofs`, `BlockChainStateProofs`

No property of `chain_pruning` is inductive. The invariant comes in layers, each a
conjunction that uses the ones above it; a layer has one lemma per action that disturbs it.
All of them also hold in TLC on the instance of `chain_pruning`, with snapshots off and a
history of 2, and for an archive node.

| Layer | What it adds to the properties | Theorems |
|---|---|---|
| `ChainInv` | canonical numbers have no gap (deletion stops at the first one); the last accepted block is on the head's chain and the durable one is its ancestor; when the head is the last accepted block nothing is above it (a restart then returns early and trims nothing); between the steps of a reorg, which part of the index is that of the new head (`Reorganising`) | `AcceptedStaysCanonical`, `CanonicalFollowsHead` (`OneBatch`) |
| `TypeInv` | which calls have a target, a cursor or a previous root | `TypeCorrect` |
| `CallInv`, `QueueInv` | what the call holding `chainmu` is about; the queue continues the chain from the block the acceptor took last to the last accepted one; the last event was for the tip, or for its parent while the next is due | `EventsFollowChain` |
| `IndexInv` | the tip on disk is at most one block above the durable one and on the chain of the network's decision, so that what the acceptor indexed before a crash is accepted again; lookups have no hole below the tip on disk; a re-execution that writes lookups follows that tip | `IndexHasNoHole` (`OneBatch`) |
| `BlocksInv` | the chains of the head, of every live block (one that may still be accepted) and of a reorg's target are stored | |
| `StatesInv`, `BufferInv` | live blocks and accepted blocks that the acceptor has not handled have their state; the tip buffer holds the roots of the last blocks handled, each once, so that the root it evicts belongs to no block that is still needed | `LiveBlocksStayUsable` (`OneBatch`) |
| `LayersInv` | the disk layer is that of the last block flattened, and what is above it has a diff layer | `RestartIsSafe` (`OneBatch`) |

The step that carries the state layer is `TrieStates`: `AcceptTrie` inserts the root of the
block into the tip buffer and dereferences the one that falls out. That root is of an
accepted block below the tip, and by `BlockTree` no block above it has the same root
(`EvictedRoot`), so every block that needs its state keeps it, also where siblings share a
root. What a rejection deletes, a block and its layer, is on no chain above the last accepted
block (`RejectedApart`). A block is usable when its parent is stored, has state and has a
layer, so the last two theorems rest on all the layers.

`EventsFollowChain` needs no `OneBatch`: the queue does not depend on the canonical index.

### Building: `BlockBuildingProofs`

`PoolInv(p, orphans)` is what each method of the mempool keeps: a transaction is in one place,
the pool is within its size, an entry of `utxoSpenders` names a transaction the pool holds
and an input of it, and the other way round except for UTXOs in `orphans`, whose entry the
removal of another transaction took. There is one lemma per method (`AddTxKeepsInv`,
`RemoveTxsKeepsInv`, `NextTxKeepsInv`, ...), each also saying which transactions may be
forgotten. `BuildInv` adds that every path of processing blocks spends each UTXO once and
nothing that is spent (`ChainInv`), and that the batch under construction fits on the
preferred block (`BatchInv`), and has one lemma per action. Theorems:
`MempoolIsSafe`, `OnlyOrphansConflict`, `NoDoubleSpend` and the action property
`NoTransactionLost`.

### Cross-chain operations: `AtomicBackendRunProofs`, `AtomicBackendProofs`

`AtomicIsSafe` is the whole of `AtomicSafety`, wherever crashes interrupt a start, an
`Accept` or a state sync. The invariant, `BackendInv`, has four parts besides the types and
`SharedMemoryExact`; it also holds in TLC on the instance of `sync`.

| Part | What it says |
|---|---|
| `StoreInv` | between two calls nothing is pending in the versiondb; the repository indexes every block with operations above the commit height that a start resumes from, and the root at that height is right, even if a sync skipped it; the committed height is that one, or above the last accepted block where a crash left the commits of an unfinished sync |
| `TrieInv` | the trie in memory is the accepted chain up to the height the start has replayed, or up to the last accepted block |
| `SyncInv` | a sync's trie is the target's chain up to the height it is at, and the commit heights it passed since the last leaf have no operation of their own, so the root accepted last is theirs |
| `RefInv` | a root has as many references as there are blocks that hold it (those under verification, and the last accepted one), or fewer if it is on disk: `Commit` drops the references of what it writes, and `Dereference` of a root that is only on disk does nothing |

No part is inductive without the others. `SharedMemoryExact` needs `TrieInv` at the
end of a sync, because the cursor iterates over the trie; `TrieInv` needs `StoreInv` at a
start, because the replay goes over the index; `StoreInv` needs `SyncInv` when a sync becomes
the last accepted block. Commit heights are arithmetic on an arbitrary interval, so the
products and remainders have their own lemmas (`Division`, `Multiple`, `Shift`). `Greatest`,
that a set of heights has a maximum, follows from the library's well-founded minimum.
There is one lemma per action, from `NewAtomicBackendInv` to `CrashInv`.

The heights of `skipped` are excepted from `CommittedRootsRight`: the code does store a wrong
root there, which is what `atomic_skipped` shows.

### The code of a state sync: `CodeSyncer`

`CodeIsSafe` is `Safety`, which the run `sync` checks as `CodeSafety`. Every conjunct of it
needs a layer of its own, all of which hold in TLC on the instance of `sync`:

| Layer | What it says | What it gives |
|---|---|---|
| `StoreInv` | what an adder's finished calls wanted is on disk (stored or marked) or will be added by some adder again; in a call, what it did not select is on disk or about to be marked by the adder that did | `CodeNotLost` |
| `DoneInv` | every marker is held: in the queue, by an adder, in a worker's batch; a worker that was not cancelled leaves only when the queue is closed and empty; the queue is closed only when every call has returned | `DoneMeansFetched` |
| `UniqueInv` | an outstanding hash is in one place, until its request is answered | `NoDuplicateRequest` |

The case that shapes `StoreInv` is an adder that returns because another one has claimed
its hash and not marked it yet (`QueueStore`). The hash is on no disk, and the leafs of the
call that returned may be stored before it is. Nothing is lost if the node stops there: the
claiming adder's own account is not stored, and a new session adds it again. `UniqueInv`
excludes batches being written, because `fulfillCodeRequest` takes the hashes out of
`outstandingCodeHashes` before it writes them, and they may be added again in between.

### The ring of roots: `BoundedBuffer`

`RingImplementsWindow`, a refinement: each step of the ring is a step of the sliding window
or a stutter. `NoUnsetValueRead`. The invariant `RingInv` says which slots are written.

### Only model-checked

* `SyncsEnd`, `PoolsServed`, `StorageEnds`, `ServiceEnds`: liveness, and with it
  fairness and `ENABLED`, is out of the prover's reach.
* What recursion or a fold computes over all inputs (the iterators, the fee
  arithmetic, sums of balances, the trie generation): it needs induction over data, which
  the prover cannot instantiate. TLC compares them with a reference on bounded inputs.
* The safety properties of the other suites (`SyncSafety`, `LegacySafety`, `SnapshotSafety`,
  `HashSafety`, `RPCSafety` and the rest of section 3) have no proof. Several rest on folds
  and sums over their data, as above; for the others (`SyncSafety`, `NetworkSafety`,
  `RPCSafety`, `VMSafety`, ...) nothing but the length of the invariant stands in the way.

## 6. What is left out

Whole parts, with no module:

* `warp`: a store with caches that are filled from it and never invalidated.
* The transaction indexer (`core/txindexer.go`): one background loop over the database.
* `internal/ethapi`, the extensions of the state database, custom types and codec: formatting,
  encoding and sequential accessors.
* Command-line tools, bindings, clients.

Inside the modelled parts:

* automining and the minimum delay between builds; bloom filters of gossip;
* the index of atomic transactions by ID and its one-time migration; signatures, owners
  and several assets of an atomic transaction (one asset and a verdict);
* fee rules before LP-176, the suggested tip, blob transactions in the miner;
* child indexers (none is ever added); transports, encoding and the CPU limiter of RPC;
* the journal of local transactions; the sizes, metrics and statistics of every part;
* the reset to a synced block beyond its markers, and the one-time checks of a start;
* in `BlockChain`, the scheme `DatabaseScheme`, which takes the archive
  writer when pruning and commits every root of a re-execution (`core/state_manager.go:71`,
  `core/blockchain.go:2196`): the module has the hash scheme.

Hashing, the disk (batches are atomic, written data survives), shared memory of peer chains
and the consensus engine are external: modelled by how this code uses them. The
component notes of `PROJECT.json` say the rest.
