----------------------------- MODULE SyncClient -----------------------------
(***************************************************************************)
(* The state sync session of the VM: sync/vm/client.go (accepting a        *)
(* summary, fetching blocks, running the EVM syncer and then the atomic    *)
(* syncer, moving the VM to the synced block), sync/atomic/syncer.go and   *)
(* extender.go, with the restart of plugin/evm/vm.go and the shared memory *)
(* cursor of plugin/evm/atomic/state.  The EVM syncer itself is StateSync; *)
(* the chain's own pointers are BlockChain.  A block is its height, a      *)
(* summary the height it names, and an atomic trie the set of heights it   *)
(* has entries for.                                                        *)
(***************************************************************************)
EXTENDS Integers, FiniteSets, FiniteSetsExt

CONSTANTS
    Summary,        \* heights of the summaries the network may agree on
    AtomicHeight,   \* heights with atomic operations
    MaxHeight,      \* bound on the blocks the node accepts
    MinBlocks,      \* StateSyncMinBlocks
    ParentsToFetch, \* blocks below the synced one that are fetched
    Interval,       \* commitInterval of the atomic trie
    MaxStops        \* bound on restarts

VARIABLES
    disk,      \* what survives a crash
    vm,        \* the client and the atomic trie in memory
    applied,   \* applied[k]: times the operations of height k reached shared memory
    offered,   \* the last summary the network agreed on
    declined,  \* an ongoing summary was left on disk while the node went on
    stops

vars == <<disk, vm, applied, offered, declined, stops>>

NoSummary == 0
NoCursor == 0
Empty == 0
Live == -1
Up(h) == {k \in AtomicHeight : k <= h}
Session == {"blocks", "evm", "atomic"}

-----------------------------------------------------------------------------
(* The atomic trie *)

\* AcceptTrie: commit heights that were passed over get the previously accepted
\* root; the height itself is committed when it is a multiple of the interval.  The
\* caller flushes the database after a commit, so the pointers on disk follow.
AcceptTrie(height, root) ==
    LET passed == {c \in (disk.committed + 1)..(height - 1) : (c - disk.committed) % Interval = 0}
    IN  IF height % Interval = 0 THEN [committed |-> height, root |-> root]
        ELSE IF passed # {} THEN [committed |-> Max(passed), root |-> vm.acceptedRoot]
        ELSE [committed |-> disk.committed, root |-> disk.root]

Flush(d, acc) == [d EXCEPT !.committed = acc.committed, !.root = acc.root]

-----------------------------------------------------------------------------
(* Start of the VM *)

\* Initialize reads the last accepted height, rebuilds the in-memory trie from the
\* committed root and the repository, and clears the ongoing summary when state
\* sync is disabled; a cursor left behind is worked off before the engine asks.
Initialize(d, enabled) ==
    [pc |-> IF d.cursor # NoCursor THEN "apply" ELSE "engine",
     enabled |-> enabled, resumable |-> NoSummary, last |-> d.lastAccepted,
     summary |-> NoSummary, trie |-> {}, lastHeight |-> 0,
     acceptedRoot |-> d.root \cup {k \in AtomicHeight : d.committed < k /\ k <= d.lastAccepted}]

ClearOngoingSummary(d, enabled) == IF enabled THEN d ELSE [d EXCEPT !.summary = NoSummary]

Restart ==
    /\ stops < MaxStops
    /\ stops' = stops + 1
    /\ \E enabled \in BOOLEAN :
          /\ disk' = ClearOngoingSummary(disk, enabled)
          /\ vm' = Initialize(disk, enabled)
    /\ UNCHANGED <<applied, offered, declined>>

-----------------------------------------------------------------------------
(* Accepting a summary *)

\* The engine asks for an ongoing summary first, unless resuming is disabled.
GetOngoingSyncStateSummary(skipResume) ==
    IF skipResume THEN NoSummary ELSE disk.summary

\* The engine proposes a summary the network agrees on, or the ongoing one.
Proposed(s) == s \in Summary /\ (s >= offered \/ s = disk.summary)

AcceptResume(s) ==
    /\ vm.pc = "engine" /\ vm.enabled /\ Proposed(s)
    /\ GetOngoingSyncStateSummary(FALSE) = s
    /\ vm' = [vm EXCEPT !.pc = "blocks", !.resumable = s, !.summary = s]
    /\ offered' = Max({offered, s})
    /\ UNCHANGED <<disk, applied, declined, stops>>

\* A summary too close to the last accepted block is skipped.
TooClose(s) == vm.last + MinBlocks > s

WipeSnapshot(d) == [d EXCEPT !.snap = Empty]

\* A fresh session wipes the snapshot before it writes the summary.
AcceptFresh(s) ==
    /\ vm.pc = "engine" /\ vm.enabled /\ Proposed(s)
    /\ \E skip \in BOOLEAN : GetOngoingSyncStateSummary(skip) # s
    /\ ~TooClose(s)
    /\ offered' = Max({offered, s})
    /\ disk' = WipeSnapshot(disk)
    /\ vm' = [vm EXCEPT !.pc = "wiped", !.summary = s]
    /\ UNCHANGED <<applied, declined, stops>>

WriteSummary ==
    /\ vm.pc = "wiped"
    /\ disk' = [disk EXCEPT !.summary = vm.summary]
    /\ vm' = [vm EXCEPT !.pc = "blocks"]
    /\ UNCHANGED <<applied, offered, declined, stops>>

\* The engine goes on without syncing: state sync is disabled, the summary was
\* skipped, or the network did not agree on one.
GoOn ==
    /\ vm.pc = "engine"
    /\ vm' = [vm EXCEPT !.pc = "normal"]
    /\ declined' = (declined \/ disk.summary # NoSummary)
    /\ disk' = [disk EXCEPT !.snap = Live]
    /\ UNCHANGED <<applied, offered, stops>>

-----------------------------------------------------------------------------
(* stateSync: blocks, the EVM syncer, the atomic syncer *)

\* syncBlocks skips the blocks on disk from the top, then fetches the rest of the
\* parents and writes them in one batch.  GetBlocks answers with at least one
\* block, so it may write a few more than it needs.
OnDisk(s) == Max({n \in 0..(ParentsToFetch + 1) : \A i \in 0..(n - 1) : s - i \in disk.blocks})

ToFetch(have) == ParentsToFetch - have

SyncBlocks(extra) ==
    LET have == OnDisk(vm.summary)
        want == ToFetch(have)
    IN  /\ vm.pc = "blocks"
        /\ disk' = [disk EXCEPT !.blocks = @ \cup
               {h \in 0..(vm.summary - have) : want > 0 /\ h > vm.summary - have - want - extra}]
        /\ vm' = [vm EXCEPT !.pc = "evm"]
        /\ UNCHANGED <<applied, offered, declined, stops>>

\* The EVM syncer writes the snapshot of its summary as it goes.
EVMProgress ==
    /\ vm.pc = "evm" /\ disk.snap # vm.summary
    /\ disk' = [disk EXCEPT !.snap = vm.summary]
    /\ UNCHANGED <<vm, applied, offered, declined, stops>>

\* newSyncer opens the atomic trie at the last committed root and starts behind it.
EVMDone ==
    /\ vm.pc = "evm" /\ disk.snap = vm.summary
    /\ vm' = [vm EXCEPT !.pc = "atomic", !.trie = disk.root, !.lastHeight = disk.committed]
    /\ UNCHANGED <<disk, applied, offered, declined, stops>>

Remaining == {k \in Up(vm.summary) : k > vm.lastHeight}

\* onLeafs, for the next key: the trie is accepted at the previous height first.
OnLeafs ==
    /\ vm.pc = "atomic" /\ Remaining # {}
    /\ disk' = Flush(disk, AcceptTrie(vm.lastHeight, vm.trie))
    /\ vm' = [vm EXCEPT !.acceptedRoot = vm.trie, !.lastHeight = Min(Remaining),
                        !.trie = @ \cup {Min(Remaining)}]
    /\ UNCHANGED <<applied, offered, declined, stops>>

\* onFinish accepts the trie at the target height and compares the roots.
OnFinish ==
    /\ vm.pc = "atomic" /\ Remaining = {}
    /\ disk' = Flush(disk, AcceptTrie(vm.summary, vm.trie))
    /\ vm' = [vm EXCEPT !.acceptedRoot = vm.trie,
                        !.pc = IF vm.trie = Up(vm.summary) THEN "markers" ELSE "mismatch"]
    /\ UNCHANGED <<applied, offered, declined, stops>>

\* A failing request or a Shutdown cancels the session; finishSync is not cancelled.
Cancel ==
    /\ vm.pc \in Session
    /\ stops < MaxStops
    /\ vm' = [vm EXCEPT !.pc = "failed"]
    /\ UNCHANGED <<disk, applied, offered, declined, stops>>

-----------------------------------------------------------------------------
(* finishSync *)

\* OnFinishBeforeCommit marks the cursor and commitVMMarkers commits it with the last
\* accepted block and without the summary.
CommitVMMarkers ==
    /\ vm.pc = "markers"
    /\ disk' = [disk EXCEPT !.cursor = vm.last + 1, !.lastAccepted = vm.summary,
                            !.summary = NoSummary]
    /\ vm' = [vm EXCEPT !.pc = "apply"]
    /\ UNCHANGED <<applied, offered, declined, stops>>

\* ApplyToSharedMemory: the entries from the cursor on, in batches that move the cursor
\* with them; the last batch deletes it.
PendingBehindCursor == {k \in disk.root : disk.cursor < k /\ k <= disk.lastAccepted}
Pending == {k \in disk.root : disk.cursor <= k /\ k <= disk.lastAccepted}

ApplyBatch(upTo) ==
    /\ vm.pc = "apply" /\ upTo \in Pending
    /\ applied' = [k \in AtomicHeight |-> applied[k] + IF k \in Pending /\ k <= upTo THEN 1 ELSE 0]
    /\ disk' = [disk EXCEPT !.cursor = upTo + 1]
    /\ UNCHANGED <<vm, offered, declined, stops>>

ApplyLast ==
    /\ vm.pc = "apply"
    /\ applied' = [k \in AtomicHeight |-> applied[k] + IF k \in Pending THEN 1 ELSE 0]
    /\ disk' = [disk EXCEPT !.cursor = NoCursor]
    /\ vm' = [vm EXCEPT !.pc = IF vm.summary = NoSummary THEN "engine" ELSE "normal"]
    /\ UNCHANGED <<offered, declined, stops>>

-----------------------------------------------------------------------------
\* Bootstrapping and consensus: a block is accepted with its operations.
AcceptBlock ==
    LET h == disk.lastAccepted + 1
        root == vm.acceptedRoot \cup ({h} \cap AtomicHeight)
    IN  /\ vm.pc = "normal" /\ h <= MaxHeight
        /\ disk' = Flush([disk EXCEPT !.lastAccepted = h, !.blocks = @ \cup {h}, !.snap = Live],
                         AcceptTrie(h, root))
        /\ vm' = [vm EXCEPT !.acceptedRoot = root]
        /\ applied' = [k \in AtomicHeight |-> applied[k] + IF k = h THEN 1 ELSE 0]
        /\ UNCHANGED <<offered, declined, stops>>

FreshDisk == [summary |-> NoSummary, lastAccepted |-> 0, blocks |-> {0}, snap |-> Live,
              committed |-> 0, root |-> {}, cursor |-> NoCursor]

Init ==
    /\ disk = FreshDisk
    /\ vm = Initialize(FreshDisk, TRUE)
    /\ applied = [k \in AtomicHeight |-> 0]
    /\ offered = NoSummary
    /\ declined = FALSE
    /\ stops = 0

Progress ==
    \/ \E s \in Summary : AcceptResume(s) \/ AcceptFresh(s)
    \/ WriteSummary \/ GoOn \/ EVMProgress \/ EVMDone \/ OnLeafs \/ OnFinish
    \/ \E extra \in {0, 1} : SyncBlocks(extra)
    \/ CommitVMMarkers \/ ApplyLast
    \/ \E k \in AtomicHeight : ApplyBatch(k)

Next == Progress \/ Restart \/ Cancel \/ AcceptBlock

Spec == Init /\ [][Next]_vars

-----------------------------------------------------------------------------
TypeOK ==
    /\ disk.summary \in Summary \cup {NoSummary}
    /\ disk.lastAccepted \in 0..Max(Summary \cup {MaxHeight})
    /\ disk.snap \in Summary \cup {Empty, Live}
    /\ disk.root \subseteq AtomicHeight
    /\ vm.pc \in Session \cup {"engine", "wiped", "markers", "mismatch", "failed", "apply", "normal"}

\* Once syncBlocks returned, the synced block and its parents are on disk whatever was
\* there before, so BLOCKHASH and the sync server can read them (sync/vm/client.go).
BlocksAvailable ==
    vm.pc \in {"evm", "atomic", "markers"} =>
        \A h \in 0..vm.summary : h > vm.summary - ParentsToFetch => h \in disk.blocks

\* "it should never fail": the synced atomic root is the target root (sync/atomic/syncer.go).
AtomicRootMatches == declined \/ vm.pc # "mismatch"

\* While the node runs normally, the operations of every accepted height reached shared
\* memory exactly once, across crashes between the markers and the last batch.
AppliedOnce ==
    declined \/ (vm.pc = "normal" =>
        \A k \in AtomicHeight : applied[k] = IF k <= disk.lastAccepted THEN 1 ELSE 0)

\* The EVM syncer only ever extends a snapshot its own summary started.
OwnSnapshot == declined \/ (vm.pc = "evm" => disk.snap \in {Empty, vm.summary})

\* "(Also ensures we don't sync to a height prior to local state.)": the block that is
\* about to become the last accepted one is not below it (acceptSyncSummary).
NeverBackward == declined \/ (vm.pc = "markers" => vm.summary >= disk.lastAccepted)

Safety == TypeOK /\ BlocksAvailable /\ AtomicRootMatches /\ AppliedOnce /\ OwnSnapshot /\ NeverBackward
=============================================================================
