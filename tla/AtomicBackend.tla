----------------------------- MODULE AtomicBackend -----------------------------
(***************************************************************************)
(* plugin/evm/atomic/state with sync/atomic: the trie of cross-chain       *)
(* operations, the index of cross-chain transactions and what shared       *)
(* memory is told, across accepted blocks, state sync, crashes and         *)
(* restarts.  Everything is written through one versiondb: a write stays   *)
(* in memory until a commit, or until the batch of a shared-memory Apply.  *)
(***************************************************************************)
EXTENDS Integers, FiniteSetsExt

CONSTANTS
    Block, Genesis,
    parent, number, ancestors,  \* the block tree, as functions on Block
    Canonical,                  \* the chain the network accepts
    Chain,                      \* peer chains: positive integers, in key order
    opsOn,                      \* opsOn[b]: the peer chains b has operations for
    bonusBlocks,                \* blocks that repeat earlier transactions
    MaxNumber,                  \* bound: the height of the tallest block
    commitInterval, syncableInterval,
    MaxCrashes                  \* bound: crashes in a behaviour

Height == 0..MaxNumber

\* Headers form a tree, and the accepted blocks one chain of it.
ASSUME Tree ==
    /\ Genesis \in Canonical /\ Canonical \subseteq Block /\ MaxNumber \in Nat
    /\ number \in [Block -> Height] /\ number[Genesis] = 0
    /\ ancestors \in [Block -> SUBSET Block] /\ ancestors[Genesis] = {Genesis}
    /\ \A b \in Block \ {Genesis} :
          /\ parent[b] \in Block /\ number[b] = number[parent[b]] + 1
          /\ ancestors[b] = {b} \cup ancestors[parent[b]]
    /\ \A b \in Block : \A a \in ancestors[b] : number[a] <= number[b]
    /\ \A b \in Canonical :
          /\ ancestors[b] = {a \in Canonical : number[a] <= number[b]}
          /\ \A n \in 0..number[b] : \E a \in Canonical : number[a] = n
    /\ Chain \subseteq Nat \ {0} /\ opsOn \in [Block -> SUBSET Chain]
    /\ opsOn[Genesis] = {} /\ bonusBlocks \subseteq Block

\* The default syncable interval is four commit intervals.
ASSUME Intervals ==
    /\ commitInterval \in Nat \ {0} /\ MaxCrashes \in Nat
    /\ \E k \in 1..MaxNumber : syncableInterval = k * commitInterval

(***************************************************************************)
(* An entry of the trie is keyed by height and peer chain.  A root stands  *)
(* for its entries; the empty set is EmptyRootHash, and also the zero hash *)
(* that getRoot returns for a missing height, which opens as empty.        *)
(***************************************************************************)
AtomicOps(b) == {b} \X opsOn[b]
Key == UNION {AtomicOps(b) : b \in Block}
Content(b) == UNION {AtomicOps(a) : a \in ancestors[b]}

\* A cursor <<height, chain>> is the last key applied; chain 0 precedes all.
NoCursor == <<0, 0>>
Past(cursor, k) == \/ number[k[1]] > cursor[1]
                   \/ number[k[1]] = cursor[1] /\ k[2] > cursor[2]

VARIABLES
    disk,              \* what is durable
    vdb,               \* the same through the versiondb: pending writes included
    sharedMemory,      \* how often each entry was applied; durable
    mode,              \* down, apply, init, boot, run, sync, mark, finish, failed
    trie,              \* AtomicTrie: last committed height and root, last accepted root
    dirty,             \* the trie database's reference counts of roots in memory
    lastAcceptedHash, verifiedRoots,  \* AtomicBackend
    height,            \* where initialize or the syncer is
    target, syncTrie,  \* the syncer's summary block and its open trie
    crashes,
    skipped            \* history: heights populated by the end of a sync

vars == <<disk, vdb, sharedMemory, mode, trie, dirty, lastAcceptedHash,
          verifiedRoots, height, target, syncTrie, crashes, skipped>>
db == <<disk, vdb>>
backend == <<trie, dirty, lastAcceptedHash, verifiedRoots>>
syncer == <<target, syncTrie, skipped>>

None == [b \in {} |-> {}]
NoRefs == [r \in {} |-> 0]

Init ==
    /\ disk = [accepted |-> Genesis, cursor |-> NoCursor, committed |-> 0,
               roots |-> [h \in Height |-> {}], nodes |-> {{}}, index |-> {}]
    /\ vdb = disk
    /\ sharedMemory = [k \in Key |-> 0]
    /\ mode = "down"
    /\ trie = [committed |-> 0, committedRoot |-> {}, acceptedRoot |-> {}]
    /\ dirty = NoRefs /\ lastAcceptedHash = Genesis /\ verifiedRoots = None
    /\ height = 0 /\ target = Genesis /\ syncTrie = {}
    /\ crashes = 0 /\ skipped = {}

\* versiondb.Commit, and the write of a CommitBatch.
Flush == disk' = vdb'

-----------------------------------------------------------------------------
(* The trie.                                                               *)

\* hashdb: only roots in memory are counted.
Copies(d, r) == IF r \in DOMAIN d THEN d[r] ELSE 0

Reference(d, r, inserted) ==
    IF inserted \/ r \in DOMAIN d
    THEN [s \in DOMAIN d \cup {r} |-> Copies(d, s) + IF s = r THEN 1 ELSE 0]
    ELSE d

\* Mutant: nothing is released.
DereferenceNone(d, r) == d

\* Mutant: a root no longer referenced stays, with count zero.
DereferenceToZero(d, r) == IF r \in DOMAIN d THEN [d EXCEPT ![r] = @ - 1] ELSE d

Dereference(d, r) ==
    [s \in {t \in DOMAIN d : t # r \/ d[t] > 1} |-> IF s = r THEN d[s] - 1 ELSE d[s]]

Readable(r) == r \in vdb.nodes \/ r \in DOMAIN dirty

Skipped(h) == {n \in Height : /\ n > trie.committed /\ n < h
                              /\ (n - trie.committed) % commitInterval = 0}
Reached(h) == IF h % commitInterval = 0 THEN {h} ELSE {}

\* Mutant: prior commit heights are not populated.
CommitReached(h) == Reached(h)

CommitHeights(h) == Skipped(h) \cup Reached(h)

\* AcceptTrie, given the versiondb v and the references d that its caller has
\* made.  Heights that were skipped get the root accepted before.
AcceptTrie(v, d, h, r) ==
    LET heights == CommitHeights(h)
        RootAt(n) == IF n \in Reached(h) THEN r ELSE trie.acceptedRoot
        saved == {RootAt(n) : n \in heights}
    IN /\ vdb' = [v EXCEPT
            !.committed = IF heights = {} THEN @ ELSE Max(heights),
            !.roots = [n \in Height |-> IF n \in heights THEN RootAt(n) ELSE @[n]],
            !.nodes = @ \cup {s \in saved : s \in DOMAIN d}]
       /\ trie' = [committed |-> IF heights = {} THEN trie.committed ELSE Max(heights),
                   committedRoot |-> IF heights = {} THEN trie.committedRoot
                                     ELSE RootAt(Max(heights)),
                   acceptedRoot |-> r]
       /\ dirty' = Dereference([s \in DOMAIN d \ saved |-> d[s]], trie.acceptedRoot)

-----------------------------------------------------------------------------
(* Start: newAtomicTrie, then NewAtomicBackend.                            *)

nearestCommitHeight(h) == h - (h % commitInterval)

\* Mutant: a commit above the last accepted block is taken as it is.
OpenCommitted == vdb.committed

\* The committed height to resume from: not above the last accepted block.
OpenHeight == IF vdb.committed > number[vdb.accepted]
              THEN nearestCommitHeight(number[vdb.accepted]) ELSE vdb.committed

NewAtomicBackend ==
    /\ mode = "down"
    /\ mode' = IF vdb.cursor = NoCursor THEN "init" ELSE "apply"
    /\ LET r == IF OpenHeight = 0 THEN {} ELSE vdb.roots[OpenHeight]
       IN trie' = [committed |-> OpenHeight, committedRoot |-> r, acceptedRoot |-> r]
    /\ lastAcceptedHash' = vdb.accepted
    /\ height' = OpenHeight
    /\ UNCHANGED <<db, sharedMemory, dirty, verifiedRoots, syncer, crashes>>

\* initialize: the indexed blocks above the last commit, in height order.
ToReplay == {b \in vdb.index : number[b] > height}

\* Mutant: the replay does not move on.
InitializeInPlace ==
    /\ mode = "init" /\ ToReplay # {}
    /\ \E b \in ToReplay :
         /\ \A c \in ToReplay : number[b] <= number[c]
         /\ LET r == trie.acceptedRoot \cup AtomicOps(b)
            IN /\ AcceptTrie(vdb, Reference(dirty, r, TRUE), number[b], r)
               /\ IF CommitHeights(number[b]) # {} THEN Flush ELSE UNCHANGED disk
         /\ height' = height
    /\ UNCHANGED <<sharedMemory, mode, lastAcceptedHash, verifiedRoots, syncer, crashes>>

Initialize ==
    /\ mode = "init" /\ ToReplay # {}
    /\ \E b \in ToReplay :
         /\ \A c \in ToReplay : number[b] <= number[c]
         /\ LET r == trie.acceptedRoot \cup AtomicOps(b)
            IN /\ AcceptTrie(vdb, Reference(dirty, r, TRUE), number[b], r)
               /\ IF CommitHeights(number[b]) # {} THEN Flush ELSE UNCHANGED disk
         /\ height' = number[b]
    /\ UNCHANGED <<sharedMemory, mode, lastAcceptedHash, verifiedRoots, syncer, crashes>>

\* Mutant: accepts the trie again without referencing it.
InitializedUnreferenced ==
    /\ mode = "init" /\ ToReplay = {}
    /\ mode' = "boot"
    /\ IF number[vdb.accepted] > height
       THEN AcceptTrie(vdb, dirty, number[vdb.accepted], trie.acceptedRoot)
       ELSE UNCHANGED <<vdb, trie, dirty>>
    /\ UNCHANGED <<disk, sharedMemory, lastAcceptedHash, verifiedRoots, height,
                   syncer, crashes>>

\* The trie is accepted up to the last accepted block; not flushed.
Initialized ==
    /\ mode = "init" /\ ToReplay = {}
    /\ mode' = "boot"
    /\ IF number[vdb.accepted] > height
       THEN AcceptTrie(vdb, Reference(dirty, trie.acceptedRoot, FALSE),
                       number[vdb.accepted], trie.acceptedRoot)
       ELSE UNCHANGED <<vdb, trie, dirty>>
    /\ UNCHANGED <<disk, sharedMemory, lastAcceptedHash, verifiedRoots, height,
                   syncer, crashes>>

-----------------------------------------------------------------------------
(* ApplyToSharedMemory: at a start that finds a cursor ("apply"), or as a  *)
(* sync ends ("finish").  A batch, the cursor past it and the pending      *)
(* writes become durable together.                                         *)

ToApply == {k \in trie.committedRoot :
               /\ Past(vdb.cursor, k) /\ number[k[1]] <= number[vdb.accepted]
               /\ k[1] \notin bonusBlocks}

Apply(ks) ==
    sharedMemory' = [k \in Key |-> sharedMemory[k] + IF k \in ks THEN 1 ELSE 0]

Cursor(k) == <<number[k[1]], k[2]>>

\* Mutant: the cursor names the height alone, so its entries come again.
BatchHeight ==
    /\ mode \in {"apply", "finish"}
    /\ \E k \in ToApply :
         /\ Apply({l \in ToApply : ~Past(Cursor(k), l)})
         /\ vdb' = [vdb EXCEPT !.cursor = <<number[k[1]], 0>>]
    /\ Flush
    /\ UNCHANGED <<mode, backend, height, syncer, crashes>>

ApplyBatch ==
    /\ mode \in {"apply", "finish"}
    /\ \E k \in ToApply :
         /\ Apply({l \in ToApply : ~Past(Cursor(k), l)})
         /\ vdb' = [vdb EXCEPT !.cursor = Cursor(k)]
    /\ Flush
    /\ UNCHANGED <<mode, backend, height, syncer, crashes>>

ApplyRest ==
    /\ mode \in {"apply", "finish"}
    /\ Apply(ToApply)
    /\ vdb' = [vdb EXCEPT !.cursor = NoCursor]
    /\ Flush
    /\ mode' = IF mode = "apply" THEN "init" ELSE "run"
    /\ UNCHANGED <<backend, height, syncer, crashes>>

-----------------------------------------------------------------------------
(* Blocks, once the engine bootstraps.                                     *)

Bootstrap ==
    /\ mode = "boot" /\ mode' = "run"
    /\ UNCHANGED <<db, sharedMemory, backend, height, syncer, crashes>>

\* getAtomicRootAt
HasRoot(b) == b = lastAcceptedHash \/ b \in DOMAIN verifiedRoots
getAtomicRootAt(b) ==
    IF b = lastAcceptedHash THEN trie.acceptedRoot ELSE verifiedRoots[b]

\* Verification: the block's trie on top of its parent's is pinned in memory.
InsertTxs(b) ==
    /\ mode = "run" /\ b \notin DOMAIN verifiedRoots
    /\ b \notin ancestors[lastAcceptedHash] /\ HasRoot(parent[b])
    /\ Readable(getAtomicRootAt(parent[b]))
    /\ LET r == getAtomicRootAt(parent[b]) \cup AtomicOps(b)
       IN /\ dirty' = Reference(dirty, r, opsOn[b] # {})
          /\ verifiedRoots' = [c \in DOMAIN verifiedRoots \cup {b} |->
                                  IF c = b THEN r ELSE verifiedRoots[c]]
    /\ UNCHANGED <<db, sharedMemory, mode, trie, lastAcceptedHash, height,
                   syncer, crashes>>

Unverify(b) == verifiedRoots' = [c \in DOMAIN verifiedRoots \ {b} |-> verifiedRoots[c]]

Sent(b) == IF b \in bonusBlocks THEN {} ELSE AtomicOps(b)

\* The index, the trie, the last accepted block and the operations become
\* durable together.
Accept(b) ==
    /\ mode = "run" /\ b \in DOMAIN verifiedRoots
    /\ b \in Canonical /\ parent[b] = lastAcceptedHash
    /\ AcceptTrie([vdb EXCEPT !.accepted = b,
                              !.index = IF opsOn[b] = {} THEN @ ELSE @ \cup {b}],
                  dirty, number[b], verifiedRoots[b])
    /\ lastAcceptedHash' = b /\ Unverify(b)
    /\ Apply(Sent(b)) /\ Flush
    /\ UNCHANGED <<mode, height, syncer, crashes>>

\* A block whose parent was rejected or passed over, or, after an insertion
\* that failed, a block with no verified child.
Reject(b) ==
    /\ mode = "run" /\ b \in DOMAIN verifiedRoots
    /\ \/ ~HasRoot(parent[b])
       \/ \A c \in DOMAIN verifiedRoots : parent[c] # b
    /\ dirty' = Dereference(dirty, verifiedRoots[b]) /\ Unverify(b)
    /\ UNCHANGED <<db, sharedMemory, mode, trie, lastAcceptedHash, height,
                   syncer, crashes>>

-----------------------------------------------------------------------------
(* State sync: sync/atomic, run by sync/vm before the engine bootstraps.   *)

\* Mutant: resumes at the last accepted block, with the last committed trie.
BeginAtAccepted(t) ==
    /\ mode = "boot" /\ mode' = "sync"
    /\ t \in Canonical /\ number[t] > number[vdb.accepted]
    /\ number[t] % syncableInterval = 0
    /\ target' = t
    /\ height' = number[vdb.accepted] /\ syncTrie' = trie.committedRoot
    /\ UNCHANGED <<db, sharedMemory, backend, crashes, skipped>>

BeginSync(t) ==
    /\ mode = "boot" /\ mode' = "sync"
    /\ t \in Canonical /\ number[t] > number[vdb.accepted]
    /\ number[t] % syncableInterval = 0
    /\ target' = t
    /\ height' = trie.committed /\ syncTrie' = trie.committedRoot
    /\ UNCHANGED <<db, sharedMemory, backend, crashes, skipped>>

ToSync == {b \in ancestors[target] : opsOn[b] # {} /\ number[b] > height}

\* onLeafs, at the first leaf of a new height: the trie below it is accepted.
\* The leaves of one height are one step, as none of them is durable alone.
OnLeafs ==
    /\ mode = "sync" /\ ToSync # {}
    /\ AcceptTrie(vdb, Reference(dirty, syncTrie, syncTrie # trie.committedRoot),
                  height, syncTrie)
    /\ IF CommitHeights(height) # {} THEN Flush ELSE UNCHANGED disk
    /\ \E b \in ToSync :
         /\ \A c \in ToSync : number[b] <= number[c]
         /\ height' = number[b] /\ syncTrie' = syncTrie \cup AtomicOps(b)
    /\ UNCHANGED <<sharedMemory, mode, lastAcceptedHash, verifiedRoots, target,
                   crashes, skipped>>

\* onFinish: accepts the target; every height above the last leaf is skipped.
OnFinish ==
    /\ mode = "sync" /\ ToSync = {}
    /\ AcceptTrie(vdb, Reference(dirty, syncTrie, syncTrie # trie.committedRoot),
                  number[target], syncTrie)
    /\ Flush
    /\ mode' = IF syncTrie = Content(target) THEN "mark" ELSE "failed"
    /\ skipped' = skipped \cup {n \in Skipped(number[target]) : n >= height}
    /\ UNCHANGED <<sharedMemory, lastAcceptedHash, verifiedRoots, height, target,
                   syncTrie, crashes>>

\* finishSync: OnFinishBeforeCommit, then commitVMMarkers.
Mark ==
    /\ mode = "mark" /\ mode' = "finish"
    /\ vdb' = [vdb EXCEPT !.accepted = target,
                          !.cursor = <<number[vdb.accepted] + 1, 0>>]
    /\ Flush
    /\ lastAcceptedHash' = target
    /\ UNCHANGED <<sharedMemory, trie, dirty, verifiedRoots, height, syncer, crashes>>

\* The process ends, at any point, and with it what is in memory.
Crash ==
    /\ mode # "down" /\ crashes < MaxCrashes
    /\ mode' = "down" /\ crashes' = crashes + 1
    /\ vdb' = disk
    /\ trie' = [committed |-> 0, committedRoot |-> {}, acceptedRoot |-> {}]
    /\ dirty' = NoRefs /\ lastAcceptedHash' = Genesis /\ verifiedRoots' = None
    /\ height' = 0 /\ target' = Genesis /\ syncTrie' = {}
    /\ UNCHANGED <<disk, sharedMemory, skipped>>

Next ==
    \/ NewAtomicBackend \/ Initialize \/ Initialized
    \/ ApplyBatch \/ ApplyRest \/ Bootstrap
    \/ \E b \in Block : InsertTxs(b) \/ Accept(b) \/ Reject(b)
    \/ \E t \in Block : BeginSync(t)
    \/ OnLeafs \/ OnFinish \/ Mark \/ Crash

Spec == Init /\ [][Next]_vars

\* The goroutine that starts the VM or syncs it runs on until it is done.
FairSpec == Spec /\ WF_vars(NewAtomicBackend \/ Initialize \/ Initialized)
                 /\ WF_vars(ApplyBatch \/ ApplyRest)
                 /\ WF_vars(OnLeafs \/ OnFinish \/ Mark)

-----------------------------------------------------------------------------
(* Properties.                                                             *)

Store == [accepted : Canonical, cursor : (0..MaxNumber + 1) \X ({0} \cup Chain),
          committed : Height, roots : [Height -> SUBSET Key],
          nodes : SUBSET SUBSET Key, index : SUBSET Canonical]

\* References are counted by positive numbers.
Counts(d) == d \in [DOMAIN d -> {n \in Nat : n > 0}] /\ DOMAIN d \subseteq SUBSET Key

\* The types of AtomicBackend, AtomicTrie, the syncer and their database.
TypeOK ==
    /\ disk \in Store /\ vdb \in Store
    /\ sharedMemory \in [Key -> Nat]
    /\ mode \in {"down", "apply", "init", "boot", "run", "sync", "mark",
                "finish", "failed"}
    /\ trie \in [committed : Height, committedRoot : SUBSET Key,
                 acceptedRoot : SUBSET Key]
    /\ Counts(dirty)
    /\ lastAcceptedHash \in Block /\ target \in Canonical
    /\ DOMAIN verifiedRoots \subseteq Block
    /\ \A b \in DOMAIN verifiedRoots : verifiedRoots[b] \subseteq Key
    /\ height \in Height /\ syncTrie \subseteq Key
    /\ crashes \in 0..MaxCrashes /\ skipped \subseteq Height

\* Shared memory has the operations of every accepted block exactly once, at
\* every crash point: those of bonus blocks never, and, while a sync's cursor
\* is set, exactly those at or before it (Accept, ApplyToSharedMemory and
\* MarkApplyToSharedMemoryCursor).
SharedMemoryExact ==
    \A k \in Key :
        sharedMemory[k] =
            IF /\ k \in Content(disk.accepted) /\ k[1] \notin bonusBlocks
               /\ disk.cursor = NoCursor \/ ~Past(disk.cursor, k)
            THEN 1 ELSE 0

\* Once started, the tries of the last accepted block and of every block under
\* verification hold exactly the operations of their chain, whatever crash or
\* unfinished sync came before (newAtomicTrie's fallback, initialize).
TriesMatchChain ==
    mode \in {"boot", "run", "finish"} =>
        /\ lastAcceptedHash = vdb.accepted
        /\ trie.acceptedRoot = Content(lastAcceptedHash)
        /\ \A b \in DOMAIN verifiedRoots : verifiedRoots[b] = Content(b)

\* The durable root of each commit height h up to the last accepted block.
RootRight(h) ==
    \E b \in ancestors[disk.accepted] :
        /\ number[b] = h
        /\ disk.roots[h] = Content(b) /\ disk.roots[h] \in disk.nodes

CommitHeight == {h \in 1..MaxNumber : h % commitInterval = 0}

\* On disk, the root recorded at a commit height is that of the accepted chain
\* and its nodes are there, so that it can be served and restarted from; the
\* heights a sync skipped after its last leaf are left out (AcceptTrie).
CommittedRootsRight ==
    \A h \in CommitHeight \ skipped : h <= number[disk.accepted] => RootRight(h)

\* The same of every commit height, as AcceptTrie says it populates them:
\* onFinish passes the target only, so that the heights between the last leaf
\* and the target get the root without that leaf.
SkippedRootsRight ==
    \A h \in CommitHeight : h <= number[disk.accepted] => RootRight(h)

\* The trie of the last accepted block and of each block under verification
\* can be opened: none is released while a block still needs it (the
\* references of InsertTrie, AcceptTrie and RejectTrie).
NeededTriesReadable ==
    mode \in {"boot", "run"} =>
        /\ Readable(trie.acceptedRoot) /\ Readable(trie.committedRoot)
        /\ \A b \in DOMAIN verifiedRoots : Readable(verifiedRoots[b])

\* And no other trie stays in memory: every reference is released once.
NoTrieLeaks ==
    mode = "run" =>
        \A r \in DOMAIN dirty :
            dirty[r] <= Cardinality({b \in DOMAIN verifiedRoots : verifiedRoots[b] = r})
                        + IF r = trie.acceptedRoot THEN 1 ELSE 0

\* The leaves above the height a sync starts from lead to the summary's root,
\* also when a crash or an earlier sync left commits behind: the check that
\* ends onFinish "should never fail".
SyncReachesTarget == mode = "sync" /\ ToSync = {} => syncTrie = Content(target)

\* A start, and a sync, finish: the cursor and the replay advance.
Owed == mode \notin {"boot", "run"}
StartFinishes == []<>~Owed

\* The atomic backend, whatever crash interrupts a start, a sync or an Accept: shared memory
\* has the operations of each accepted block exactly once and those of bonus blocks never;
\* the tries of the accepted block and of those under verification hold the operations of
\* their chain, can be opened, and are released when nobody needs them; the durable root of
\* a commit height is the one of the accepted chain; and a sync reaches the root of its
\* summary (plugin/evm/atomic/state, sync/atomic).
AtomicSafety ==
    /\ TypeOK /\ SharedMemoryExact /\ TriesMatchChain /\ CommittedRootsRight
    /\ NeededTriesReadable /\ NoTrieLeaks /\ SyncReachesTarget
=============================================================================
