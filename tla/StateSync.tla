----------------------------- MODULE StateSync -----------------------------
(***************************************************************************)
(* The state syncer (sync/statesync): the main account trie is downloaded  *)
(* leaf by leaf by a pool of workers, every storage trie it refers to is   *)
(* registered on disk and downloaded after it, and a trie that looks large *)
(* is split into segments.  Progress survives a stop: the markers of the   *)
(* storage tries, the starts of the segments and the leafs themselves are  *)
(* on disk, and a new session resumes from them.                           *)
(*                                                                         *)
(* A trie is a number, the main trie is 0.  A key is a number below Space, *)
(* the two leading bytes the code segments by.  `trie' holds what a        *)
(* session keeps in memory, `disk' what a stop leaves.                     *)
(***************************************************************************)
EXTENDS Integers, Sequences, FiniteSets, FiniteSetsExt, SequencesExt

CONSTANTS
    Worker,       \* the goroutines of the leaf syncer (defaultNumWorkers)
    Keys,         \* Keys[t]: the keys of trie t; DOMAIN Keys is the set of tries
    StorageRoot,  \* StorageRoot[k]: storage trie of the account at key k, 0 if none
    Space,        \* the size of the key space (0x10000 in the code)
    Limit,        \* leafs per request
    BatchSize,    \* leafs a segment buffers before it writes them
    Threshold,    \* segmentThreshold
    NumSegments,  \* NumSegments[t]: segments a large trie t is split into
    SemCap,       \* storage tries in progress at a time
    Cap,          \* capacity of the segments channel
    OldTries,     \* storage tries the disk holds before the first session
    MaxStops      \* bound on crashes and cancellations

VARIABLES
    disk,      \* root, markers, segs, leafs and tries survive a stop
    trie,      \* the tries of the session and their segments
    run,       \* the rest of the session: the segments channel (queue, closed),
               \* inProgress, sem, the done channels, nextRoot, ctx; and, for the
               \* properties, stale: a trie was added after a worker counted none
    worker, producer, phase, stops

vars == <<disk, trie, run, worker, producer, phase, stops>>

Main == 0
Tries == DOMAIN Keys
Nil == -1
Idle == [pc |-> "idle", t |-> Nil, i |-> 0, from |-> 0]

-----------------------------------------------------------------------------
(* Segments of a trie *)

Segment(start, end) ==
    [start |-> start, pos |-> Nil, end |-> end, batch |-> {}, leafs |-> 0]

InSegment(seg, k) == k >= seg.start /\ (seg.end = Nil \/ k <= seg.end)

From(seg) == IF seg.pos = Nil THEN seg.start ELSE seg.pos

ResumeBehindAnyLeaf(seg, leafs) ==
    [seg EXCEPT !.pos = IF leafs = {} THEN Nil ELSE Max(leafs) + 1, !.leafs = Cardinality(leafs)]

\* A segment read back from disk continues behind its last persisted leaf.
Resume(seg, leafs) ==
    LET have == {k \in leafs : InSegment(seg, k)}
    IN  [seg EXCEPT !.pos = IF have = {} THEN Nil ELSE Max(have) + 1,
                    !.leafs = Cardinality(have)]

\* The start of every segment but the first is on disk; a segment ends just
\* before the next one starts.
LoadSegments(t) ==
    LET starts == SetToSortSeq({s[2] : s \in {x \in disk.segs : x[1] = t}}, <)
        n      == Len(starts)
        seg(i) == Segment(IF i = 1 THEN 0 ELSE starts[i - 1],
                          IF i = n + 1 THEN Nil ELSE starts[i] - 1)
    IN  [i \in 1..(n + 1) |-> Resume(seg(i), disk.leafs[t])]

NewTrieToSync(t) == [segs |-> LoadSegments(t), done |-> {}, next |-> 1, hashed |-> {}]

\* Leafs expected if the rest of the segment is as dense as what was read.
EstimateSize(seg) ==
    LET pos      == IF seg.pos = Nil THEN 0 ELSE seg.pos
        end      == IF seg.end = Nil THEN Space - 1 ELSE seg.end
        progress == (pos - seg.start) % Space
    IN  IF progress = 0 THEN 0 ELSE (seg.leafs * ((end - pos) % Space)) \div progress

ShouldSegment(t) ==
    Len(trie[t].segs) = 1 /\ EstimateSize(trie[t].segs[1]) >= Threshold

\* The key space in equal ranges, without the ranges that are behind the first
\* segment: the first that is left bounds that segment, the others are new ones.
Ranges(t, pos) ==
    LET step == Space \div NumSegments[t]
    IN  SelectSeq([i \in 1..NumSegments[t] |->
                      Segment((i - 1) * step, (i - 1) * step + step - 1)],
                  LAMBDA r : pos < r.end)

CreateSegments(t) ==
    LET first == trie[t].segs[1]
        left  == Ranges(t, first.pos)
    IN  IF left = <<>> THEN <<first>>
        ELSE <<[first EXCEPT !.end = Head(left).end]>> \o Tail(left)

NoTries == [t \in Tries |-> [segs |-> <<>>, done |-> {}, next |-> 1, hashed |-> {}]]
NewRun == [queue |-> <<>>, closed |-> FALSE, inProgress |-> {}, sem |-> 0,
           mainTrieDone |-> FALSE, storageTriesDone |-> FALSE, nextRoot |-> 0,
           ctx |-> "live", stale |-> FALSE]
Waiting == [pc |-> "wait", t |-> Nil, i |-> 0, more |-> FALSE]

-----------------------------------------------------------------------------
(* A session: NewSyncer and Start.  Markers and segments of another root are *)
(* dropped, the main trie is the first task.                                 *)

ClearIfRootDoesNotMatch ==
    /\ phase = "down"
    /\ LET keep == disk.root \in {"none", "current"}
       IN  disk' = [disk EXCEPT !.root = "current",
                                !.markers = IF keep THEN @ ELSE {},
                                !.segs = IF keep THEN @ ELSE {}]
    /\ phase' = "starting"
    /\ UNCHANGED <<trie, run, worker, producer, stops>>

StartSession ==
    /\ phase = "starting"
    /\ LET main == NewTrieToSync(Main)
       IN  /\ trie' = [trie EXCEPT ![Main] = main]
           /\ run' = [run EXCEPT !.queue = [i \in 1..Len(main.segs) |-> <<Main, i>>],
                                 !.inProgress = {Main}]
    /\ phase' = "syncing"
    /\ UNCHANGED <<disk, worker, producer, stops>>

-----------------------------------------------------------------------------
(* The workers *)

\* Sends on the segments channel block while it is full.
Room(n) == Len(run.queue) + n <= Cap

At(w, pc) == phase = "syncing" /\ worker[w].pc = pc
Goto(w, pc) == worker' = [worker EXCEPT ![w].pc = pc]

TakeTask(w) ==
    /\ At(w, "idle") /\ run.queue # <<>>
    /\ LET t == Head(run.queue)[1]
           i == Head(run.queue)[2]
       IN  worker' = [worker EXCEPT ![w] =
                         [pc |-> "start", t |-> t, i |-> i, from |-> From(trie[t].segs[i])]]
    /\ run' = [run EXCEPT !.queue = Tail(@)]
    /\ UNCHANGED <<disk, trie, producer, phase, stops>>

WorkerExit(w) ==
    /\ \/ At(w, "idle") /\ run.queue = <<>> /\ run.closed /\ Goto(w, "exit")
       \/ (At(w, "idle") \/ At(w, "fetch")) /\ run.ctx = "cancelled" /\ Goto(w, "failed")
    /\ UNCHANGED <<disk, trie, run, producer, phase, stops>>

\* A storage trie the disk already holds only fills the snapshot.
OnStart(w) ==
    /\ At(w, "start")
    /\ LET t == worker[w].t
       IN  IF t # Main /\ t \in disk.tries
           THEN disk' = [disk EXCEPT !.leafs[t] = Keys[t]] /\ Goto(w, "release")
           ELSE Goto(w, "fetch") /\ UNCHANGED disk
    /\ UNCHANGED <<trie, run, producer, phase, stops>>

\* The leafs a peer returns from a key on: at most Limit, in order.
Response(t, from) ==
    LET rest == {k \in Keys[t] : k >= from}
    IN  {k \in rest : Cardinality({j \in rest : j < k}) < Limit}

\* Every account with storage has a marker, accounts that share a root too.
Markers(t, keys) ==
    {<<StorageRoot[k], k>> : k \in {j \in keys : t = Main /\ StorageRoot[j] # 0}}

\* One request and its OnLeafs.  The markers of the storage tries go to disk at
\* once, the leafs through the segment's batch.  OnLeafs and syncTask both
\* increment the last key, which they share: the next request starts two past it.
OnLeafs(w) ==
    /\ At(w, "fetch") /\ run.ctx = "live"
    /\ LET t     == worker[w].t
           i     == worker[w].i
           seg   == trie[t].segs[i]
           resp  == Response(t, worker[w].from)
           keys  == {k \in resp : seg.end = Nil \/ k <= seg.end}
           last  == keys # resp \/ {k \in Keys[t] : k >= worker[w].from} = resp
           batch == seg.batch \cup keys
           write == Cardinality(batch) > BatchSize
           pos   == IF keys = {} THEN seg.pos ELSE Max(keys) + 1
       IN  /\ disk' = [disk EXCEPT
                 !.markers = @ \cup Markers(t, keys),
                 !.leafs[t] = IF write THEN @ \cup batch ELSE @]
           /\ trie' = [trie EXCEPT ![t].segs[i] =
                          [@ EXCEPT !.batch = IF write THEN {} ELSE batch,
                                    !.leafs = @ + Cardinality(keys),
                                    !.pos = pos]]
           /\ worker' = [worker EXCEPT ![w].pc = IF last THEN "split_last" ELSE "split",
                                       ![w].from = IF keys = {} THEN @ ELSE pos + 1]
    /\ UNCHANGED <<run, producer, phase, stops>>

\* createSegmentsIfNeeded: the new segments are persisted, then queued; a send on
\* a full channel blocks.  Between two requests pos shares the second increment.
Split(w) ==
    /\ At(w, "split") \/ At(w, "split_last")
    /\ LET t    == worker[w].t
           more == worker[w].pc = "split"
           segs == IF ShouldSegment(t) THEN CreateSegments(t) ELSE trie[t].segs
           new  == IF ShouldSegment(t) THEN 2..Len(segs) ELSE {}
       IN  /\ Room(Cardinality(new))
           /\ trie' = [trie EXCEPT ![t].segs =
                          IF more THEN [segs EXCEPT ![worker[w].i].pos = worker[w].from] ELSE segs]
           /\ disk' = [disk EXCEPT !.segs = @ \cup {<<t, segs[i].start>> : i \in new}]
           /\ run' = [run EXCEPT !.queue = @ \o [i \in 1..Cardinality(new) |-> <<t, i + 1>>]]
           /\ Goto(w, IF more THEN "fetch" ELSE "finish")
    /\ UNCHANGED <<producer, phase, stops>>

\* segmentFinished: the finished segments at the front of the trie are written
\* and hashed in order; the last one completes the trie.
SegmentFinished(w) ==
    /\ At(w, "finish")
    /\ LET t    == worker[w].t
           tr   == trie[t]
           done == tr.done \cup {worker[w].i}
           upto == Max({n \in 0..Len(tr.segs) : 1..n \subseteq done})
           new  == tr.next..upto
           leafs == disk.leafs[t] \cup UNION {tr.segs[i].batch : i \in new}
           hashed == tr.hashed \cup {k \in leafs : \E i \in new : InSegment(tr.segs[i], k)}
       IN  /\ disk' = [disk EXCEPT !.leafs[t] = leafs]
           /\ trie' = [trie EXCEPT ![t] = [tr EXCEPT !.done = done, !.next = upto + 1,
                          !.hashed = hashed,
                          !.segs = [i \in DOMAIN @ |->
                                      IF i \in new THEN [@[i] EXCEPT !.batch = {}] ELSE @[i]]]]
           /\ Goto(w, IF upto < Len(tr.segs) THEN "idle"
                      ELSE IF hashed = Keys[t] THEN "commit" ELSE "mismatch")
    /\ UNCHANGED <<run, producer, phase, stops>>

\* The end of segmentFinished for the whole trie: the nodes of a storage trie are
\* written (those of the main trie wait for the end of the sync), then its
\* segments are dropped from disk.
TrieFinished(w) ==
    /\ \/ /\ At(w, "commit")
          /\ disk' = [disk EXCEPT !.tries = @ \cup ({worker[w].t} \ {Main})]
          /\ Goto(w, "clear")
       \/ /\ At(w, "clear")
          /\ disk' = [disk EXCEPT !.segs = {s \in @ : s[1] # worker[w].t}]
          /\ Goto(w, IF worker[w].t = Main THEN "announce" ELSE "release")
    /\ UNCHANGED <<trie, run, producer, phase, stops>>

MainTrieNotAnnounced(w) ==
    /\ At(w, "announce")
    /\ run' = [run EXCEPT !.inProgress = @ \ {Main}]
    /\ Goto(w, "idle")
    /\ UNCHANGED <<disk, trie, producer, phase, stops>>

\* onMainTrieFinished: mainTrieDone is closed first, the count is not looked at.
OnMainTrieFinished(w) ==
    /\ \/ /\ At(w, "announce")
          /\ run' = [run EXCEPT !.mainTrieDone = TRUE]
          /\ Goto(w, "remove_main")
       \/ /\ At(w, "remove_main")
          /\ run' = [run EXCEPT !.inProgress = @ \ {Main}]
          /\ Goto(w, "idle")
    /\ UNCHANGED <<disk, trie, producer, phase, stops>>

\* onStorageTrieFinished: the semaphore, the markers, the count, and then the
\* check that nothing is left.  Closing a closed channel panics.
OnStorageTrieFinished(w) ==
    /\ \/ /\ At(w, "release")
          /\ run' = [run EXCEPT !.sem = @ - 1]
          /\ Goto(w, "unmark") /\ UNCHANGED disk
       \/ /\ At(w, "unmark")
          /\ disk' = [disk EXCEPT !.markers = {m \in @ : m[1] # worker[w].t}]
          /\ Goto(w, "count") /\ UNCHANGED run
       \/ /\ At(w, "count")
          /\ run' = [run EXCEPT !.inProgress = @ \ {worker[w].t}]
          /\ Goto(w, IF run'.inProgress = {} THEN "close" ELSE "idle")
          /\ UNCHANGED disk
       \/ /\ At(w, "close")
          /\ run' = [run EXCEPT !.closed = @ \/ run.storageTriesDone]
          /\ Goto(w, IF run.closed /\ run.storageTriesDone THEN "panic" ELSE "idle")
          /\ UNCHANGED disk
    /\ UNCHANGED <<trie, producer, phase, stops>>

-----------------------------------------------------------------------------
(* storageTrieProducer *)

ProducerAt(pc) == phase = "syncing" /\ producer.pc = pc

RootsFromNext == {m[1] : m \in {x \in disk.markers : x[1] >= run.nextRoot}}

\* getNextTrie: the first root at or after nextRoot, and whether one follows it.
GetNextTrie ==
    /\ ProducerAt("next") \/ (ProducerAt("wait") /\ run.mainTrieDone)
    /\ run.ctx = "live"
    /\ LET roots == RootsFromNext
           later == roots \ {Min(roots)}
       IN  IF roots = {}
           THEN /\ run' = [run EXCEPT !.closed = TRUE]
                /\ producer' = [producer EXCEPT !.pc = "exit"]
           ELSE /\ run' = [run EXCEPT !.nextRoot = IF later = {} THEN @ ELSE Min(later)]
                /\ producer' = [pc |-> "acquire", t |-> Min(roots), i |-> 1, more |-> later # {}]
    /\ UNCHANGED <<disk, trie, worker, phase, stops>>

\* triesInProgressSem bounds the storage tries in progress.
Permit == run.sem < SemCap

AddTrie ==
    /\ ProducerAt("acquire") /\ Permit
    /\ trie' = [trie EXCEPT ![producer.t] = NewTrieToSync(producer.t)]
    /\ run' = [run EXCEPT !.sem = @ + 1, !.inProgress = @ \cup {producer.t},
                          !.stale = @ \/ \E w \in Worker : worker[w].pc = "close"]
    /\ producer' = [producer EXCEPT !.pc = IF producer.more THEN "send" ELSE "last"]
    /\ UNCHANGED <<disk, worker, phase, stops>>

\* storageTriesDone is closed, then startSyncing sends one segment at a time.
SendSegment ==
    /\ \/ /\ ProducerAt("last")
          /\ run' = [run EXCEPT !.storageTriesDone = TRUE]
          /\ producer' = [producer EXCEPT !.pc = "send"]
       \/ /\ ProducerAt("send") /\ run.closed
          /\ producer' = [producer EXCEPT !.pc = "panic"]
          /\ UNCHANGED run
       \/ /\ ProducerAt("send") /\ ~run.closed /\ Room(1)
          /\ run' = [run EXCEPT !.queue = Append(@, <<producer.t, producer.i>>)]
          /\ producer' = [producer EXCEPT !.i = @ + 1,
                 !.pc = IF producer.i < Len(trie[producer.t].segs) THEN "send"
                        ELSE IF producer.more THEN "next" ELSE "exit"]
    /\ UNCHANGED <<disk, trie, worker, phase, stops>>

ProducerExit ==
    /\ run.ctx = "cancelled" /\ \E pc \in {"wait", "next", "acquire"} : ProducerAt(pc)
    /\ producer' = [producer EXCEPT !.pc = "exit"]
    /\ UNCHANGED <<disk, trie, run, worker, phase, stops>>

-----------------------------------------------------------------------------
(* The end of a session *)

\* onSyncComplete writes the nodes of the main trie, its root among them.
OnSyncComplete ==
    /\ phase = "syncing" /\ \A w \in Worker : worker[w].pc = "exit"
    /\ disk' = [disk EXCEPT !.tries = @ \cup {Main}]
    /\ phase' = "done"
    /\ UNCHANGED <<trie, run, worker, producer, stops>>

Cancel ==
    /\ phase = "syncing" /\ run.ctx = "live" /\ stops < MaxStops
    /\ run' = [run EXCEPT !.ctx = "cancelled"]
    /\ stops' = stops + 1
    /\ UNCHANGED <<disk, trie, worker, producer, phase>>

Stop ==
    /\ phase' = "down"
    /\ trie' = NoTries /\ run' = NewRun
    /\ worker' = [w \in Worker |-> Idle] /\ producer' = Waiting

\* A cancelled session writes the batches of the tries in progress.
OnSyncFailure ==
    /\ phase = "syncing"
    /\ \A w \in Worker : worker[w].pc \in {"exit", "failed"}
    /\ \E w \in Worker : worker[w].pc = "failed"
    /\ disk' = [disk EXCEPT !.leafs = [t \in Tries |-> @[t] \cup
                   UNION {s.batch : s \in {x \in Range(trie[t].segs) : t \in run.inProgress}}]]
    /\ Stop
    /\ UNCHANGED stops

Panicked == producer.pc = "panic" \/ \E w \in Worker : worker[w].pc = "panic"

Crash ==
    /\ phase \in {"starting", "syncing"}
    /\ \/ Panicked /\ UNCHANGED stops
       \/ stops < MaxStops /\ stops' = stops + 1
    /\ Stop
    /\ UNCHANGED disk

-----------------------------------------------------------------------------
Init ==
    /\ disk = [root |-> "old", markers |-> {<<Max(Tries), 0>>}, segs |-> {<<Main, 1>>},
               leafs |-> [t \in Tries |-> {}], tries |-> OldTries]
    /\ trie = NoTries /\ run = NewRun
    /\ worker = [w \in Worker |-> Idle] /\ producer = Waiting
    /\ phase = "down" /\ stops = 0

WorkerStep(w) ==
    \/ TakeTask(w) \/ WorkerExit(w) \/ OnStart(w) \/ OnLeafs(w) \/ Split(w)
    \/ SegmentFinished(w) \/ TrieFinished(w)
    \/ OnMainTrieFinished(w) \/ OnStorageTrieFinished(w)

ProducerStep == GetNextTrie \/ AddTrie \/ SendSegment \/ ProducerExit
SessionStep == ClearIfRootDoesNotMatch \/ StartSession \/ OnSyncComplete \/ OnSyncFailure

Next ==
    \/ SessionStep
    \/ \E w \in Worker : WorkerStep(w)
    \/ ProducerStep
    \/ Cancel
    \/ Crash

Spec == Init /\ [][Next]_vars

-----------------------------------------------------------------------------
Needed == {StorageRoot[k] : k \in Keys[Main]} \ {0}

TypeOK ==
    /\ disk.markers \subseteq Tries \X (0..Space)
    /\ disk.segs \subseteq Tries \X (0..Space)
    /\ disk.leafs \in [Tries -> SUBSET (0..Space)]
    /\ disk.tries \subseteq Tries
    /\ run.inProgress \subseteq Tries
    /\ Len(run.queue) <= Cap
    /\ run.sem \in 0..SemCap

\* "We persist [mainTrie]'s batch last to avoid persisting the state root before
\* all storage tries are done syncing" (state_syncer.go:159-161): with the root
\* on disk there is every leaf of the account trie, and for each account the
\* nodes and the snapshot of its storage trie.
RootPersistedLast ==
    Main \in disk.tries =>
        /\ disk.leafs[Main] = Keys[Main]
        /\ \A r \in Needed : r \in disk.tries /\ disk.leafs[r] = Keys[r]

\* RootPersistedLast holds through every stop and resume as long as no trie is
\* added between a worker's count of the tries in progress and its check of it.
RootImpliesState == run.stale \/ RootPersistedLast

\* An account leaf that reached the disk is never asked for again, so its
\* storage trie must be registered for download or be complete.
StorageNotForgotten ==
    disk.root = "current" =>
        \A k \in disk.leafs[Main] : StorageRoot[k] # 0 =>
            \/ <<StorageRoot[k], k>> \in disk.markers
            \/ StorageRoot[k] \in disk.tries /\ disk.leafs[StorageRoot[k]] = Keys[StorageRoot[k]]

\* Segments that finish out of order, are split while a request is in flight or
\* are resumed from disk still hash to the requested root.
RootAlwaysMatches == \A w \in Worker : worker[w].pc # "mismatch"

\* The last storage trie was taken off while the main trie was still counted:
\* no one is left to close the segments channel.
Overtaken ==
    /\ run.inProgress \subseteq {Main} /\ run.mainTrieDone /\ run.storageTriesDone
    /\ producer.pc = "exit" /\ run.queue = <<>> /\ ~run.closed
    /\ \A w \in Worker : worker[w].pc # "close"

\* A sync that is stopped at most MaxStops times ends, unless the last storage
\* trie overtakes the main trie or a worker acts on a stale count.
Ended == phase = "done" \/ run.stale \/ Overtaken

Safety == TypeOK /\ RootImpliesState /\ StorageNotForgotten /\ RootAlwaysMatches
=============================================================================
