------------------------------- MODULE PathDB -------------------------------
(***************************************************************************)
(* The path-scheme trie database (triedb/pathdb): diff layers in a tree    *)
(* over one disk layer, whose node buffer aggregates what is written to    *)
(* disk.  A state is named by its root; an update of the database adds a   *)
(* layer and flattens what is too deep.  Readers hold layers, and go on    *)
(* using them while the database below changes.                            *)
(***************************************************************************)
EXTENDS Integers, SequencesExt, FiniteSetsExt

CONSTANTS
    Root,          \* the state roots
    Empty,         \* the root of the empty state
    Parent,        \* [Root -> Root]: the state a state is derived from
    Path,          \* where nodes are stored; "root" holds the root node
    State,         \* [Root -> [Path -> node]], "" where there is none
    MaxDiffLayers, Limits,
    MaxFaults      \* failed writes, crashes and state syncs

VARIABLES
    obj,       \* the layer objects that exist: [<<kind, root>> -> [parent, stale, id]]
    tree,      \* layerTree: [roots -> objects]
    buf,       \* the node buffer: [nodes, layers, limit]
    cleans,    \* the clean cache
    disk,      \* [nodes, id, journal]
    mode,      \* [readOnly, waitSync], and whether a write has failed since the start
    op,        \* a Commit that has persisted and not relinked yet, or NoOp
    faults

vars == <<obj, tree, buf, cleans, disk, mode, op, faults>>

None == [p \in {} |-> ""]
NoOp == [base |-> <<>>]
NoRoot == "noroot"
NoJournal == [on |-> FALSE, diskRoot |-> Empty, root |-> Empty, id |-> 0, nodes |-> None, diffs |-> <<>>]

Diff(r) == <<"diff", r>>
Disk(r) == <<"disk", r>>
IsDiff(o) == o[1] = "diff"
RootHash(o) == o[2]

\* What a transition writes: the nodes that differ, "" for a deletion.
Nodes(r) == [p \in {q \in Path : State[r][q] # State[Parent[r]][q]} |-> State[r][p]]

Merge(a, b) == [p \in DOMAIN a \cup DOMAIN b |-> IF p \in DOMAIN b THEN b[p] ELSE a[p]]

DiskRoot == IF disk.nodes["root"] = "" THEN Empty ELSE disk.nodes["root"]

FreshBuffer(limit) == [nodes |-> None, layers |-> 0, limit |-> limit]

Layer(up, n) == [parent |-> up, stale |-> FALSE, id |-> n]

Put(f, k, v) == [x \in DOMAIN f \cup {k} |-> IF x = k THEN v ELSE f[x]]

Init ==
    /\ obj = [o \in {Disk(Empty)} |-> Layer(<<>>, 0)] /\ tree = [r \in {Empty} |-> Disk(Empty)]
    /\ buf = FreshBuffer(Max(Limits)) /\ cleans = None
    /\ disk = [nodes |-> [p \in Path |-> ""], id |-> 0, journal |-> NoJournal]
    /\ mode = [readOnly |-> FALSE, waitSync |-> FALSE, failed |-> FALSE]
    /\ op = NoOp /\ faults = 0

RECURSIVE Bottom(_)
Bottom(o) == IF IsDiff(o) THEN Bottom(obj[o].parent) ELSE o

\* A layer that hangs on a diff layer that has been flattened below it: cap relinks only the
\* layer it came from.  The engine has rejected such a sibling of an old ancestor long before,
\* and neither extends nor accepts it.
Stranded(o) == IsDiff(o) /\ obj[Bottom(o)].stale /\ ~mode.failed

ModifyAllowed == ~mode.readOnly /\ ~mode.waitSync

\* A bound: after a failed write each further attempt counts one more layer in the buffer.
Bounded == buf.layers <= MaxDiffLayers + 1

-----------------------------------------------------------------------------
\* Writing.  m is all that a commit of layers changes: [obj, buf, cleans, disk, ok].

\* writeNodes: the batch holds the nodes of the buffer, and the clean cache has them already.
WriteNodes(m) ==
    LET left == [p \in DOMAIN m.cleans \ DOMAIN m.buf.nodes |-> m.cleans[p]]
        set == [p \in {q \in DOMAIN m.buf.nodes : m.buf.nodes[q] # ""} |-> m.buf.nodes[p]]
    IN  [m EXCEPT !.cleans = Merge(left, set)]

\* (A variant that forgets the buffer before the batch is on disk.)
ResetFirst(m) == [WriteNodes(m) EXCEPT !.buf = FreshBuffer(m.buf.limit)]

\* What flush leaves when its batch fails: the buffer as it was, the clean cache ahead of the disk.
BatchFails(m) == WriteNodes(m)

\* flush: the nodes and the state id in one batch, then the buffer is reset.
Flush(m, id, force, fails) ==
    IF Cardinality(DOMAIN m.buf.nodes) <= m.buf.limit /\ ~force THEN m
    ELSE IF m.disk.id + m.buf.layers # id THEN [m EXCEPT !.ok = FALSE]
    ELSE IF fails THEN [BatchFails(m) EXCEPT !.ok = FALSE]
    ELSE [WriteNodes(m) EXCEPT !.disk.nodes = Merge(@, m.buf.nodes), !.disk.id = id,
                               !.buf = FreshBuffer(m.buf.limit)]

\* diskLayer.commit: stale before anything is merged.  The batch of the layer "bad" fails.
CommitLayer(m, r, below, force, bad) ==
    LET marked == [m EXCEPT !.obj[below].stale = TRUE, !.buf.nodes = Merge(@, Nodes(r)), !.buf.layers = @ + 1]
        id == m.obj[below].id + 1
        flushed == Flush(marked, id, force, r = bad)
    IN  IF flushed.ok THEN [flushed EXCEPT !.obj = Put(@, Disk(r), Layer(<<>>, id))] ELSE flushed

\* diffLayer.persist: from the bottom-most layer up, relinking on the way.
RECURSIVE Persist(_, _, _, _)
Persist(m, o, force, bad) ==
    LET up == m.obj[o].parent
        below == IF IsDiff(up) THEN Persist(m, up, force, bad) ELSE m
        linked == IF IsDiff(up) THEN [below EXCEPT !.obj[o].parent = Disk(RootHash(up))] ELSE below
    IN  IF ~below.ok THEN below
        ELSE CommitLayer(linked, RootHash(o), linked.obj[o].parent, force, bad)

Mutable == [obj |-> obj, buf |-> buf, cleans |-> cleans, disk |-> disk, ok |-> TRUE]

\* A write fails, if one is to: "bad" is the layer whose batch does, or NoRoot.
Faulty(bad, m) ==
    /\ bad # NoRoot => ~m.ok /\ faults < MaxFaults
    /\ faults' = faults + (IF bad = NoRoot THEN 0 ELSE 1)

Persisted(m) == obj' = m.obj /\ buf' = m.buf /\ cleans' = m.cleans /\ disk' = m.disk

\* What hangs below the roots S, by the roots of the parents.
RECURSIVE Descendants(_, _, _)
Descendants(t, objs, S) ==
    LET more == S \cup {r \in DOMAIN t : IsDiff(t[r]) /\ RootHash(objs[t[r]].parent) \in S}
    IN  IF more = S THEN S ELSE Descendants(t, objs, more)

\* Dive MaxDiffLayers - 1 layers down from o; the layer there, or the disk layer if the stack is
\* too shallow.
RECURSIVE Dive(_, _, _)
Dive(objs, o, n) == IF n = 0 \/ ~IsDiff(o) THEN o ELSE Dive(objs, objs[o].parent, n - 1)

\* add and cap of Update, under the lock.
Update(r, bad) ==
    LET added == Put(obj, Diff(r), Layer(tree[Parent[r]], obj[tree[Parent[r]]].id + 1))
        grown == Put(tree, r, Diff(r))
        last == Dive(added, Diff(r), MaxDiffLayers - 1)
        up == added[last].parent
        m == Persist([Mutable EXCEPT !.obj = added], up, FALSE, bad)
        base == Disk(RootHash(up))
        relinked == [m.obj EXCEPT ![last].parent = base]
        capped == Put(grown, RootHash(up), base)
        gone == Descendants(capped, relinked, {x \in DOMAIN capped : ~IsDiff(capped[x]) /\ relinked[capped[x]].stale})
    IN  /\ op = NoOp /\ ModifyAllowed /\ Bounded
        /\ r # Empty /\ r \notin DOMAIN tree /\ Parent[r] \in DOMAIN tree /\ ~Stranded(tree[Parent[r]])
        /\ IF ~IsDiff(last) \/ ~IsDiff(up)
           THEN /\ bad = NoRoot /\ obj' = added /\ tree' = grown
                /\ UNCHANGED <<buf, cleans, disk, mode, faults>>
           ELSE /\ Faulty(bad, m)
                /\ IF m.ok
                   THEN /\ Persisted([m EXCEPT !.obj = relinked])
                        /\ tree' = [x \in DOMAIN capped \ gone |-> capped[x]]
                   ELSE Persisted(m) /\ tree' = grown
                /\ mode' = [mode EXCEPT !.failed = @ \/ ~m.ok]
        /\ UNCHANGED op

\* Commit, up to the end of persist: tree.lock is held, but readers need no more than a layer.
Commit(r, bad) ==
    LET m == Persist(Mutable, tree[r], TRUE, bad)
    IN  /\ op = NoOp /\ ModifyAllowed /\ Bounded
        /\ r \in DOMAIN tree /\ IsDiff(tree[r]) /\ ~Stranded(tree[r])
        /\ Faulty(bad, m)
        /\ Persisted(m) /\ op' = IF m.ok THEN [base |-> Disk(r)] ELSE NoOp
        /\ mode' = [mode EXCEPT !.failed = @ \/ ~m.ok]
        /\ UNCHANGED tree

\* The children of the new base are linked to it.
Relink(base) ==
    [o \in DOMAIN obj |->
        IF o \in Range(tree) /\ IsDiff(o) /\ RootHash(obj[o].parent) = RootHash(base)
        THEN [obj[o] EXCEPT !.parent = base] ELSE obj[o]]

\* The rest of Commit: only what descends from the new base stays in the tree.
KeepChildren ==
    LET base == op.base
        kept == Descendants(tree, obj, {RootHash(base)})
    IN  /\ op # NoOp /\ op' = NoOp
        /\ obj' = Relink(base)
        /\ tree' = [r \in kept |-> IF r = RootHash(base) THEN base ELSE tree[r]]
        /\ UNCHANGED <<buf, cleans, disk, mode, faults>>

\* The layer stays in use, whether its flush fails or not.
SetBufferSize(limit, bad) ==
    LET bottom == Bottom(CHOOSE o \in Range(tree) : TRUE)
        m == Flush([Mutable EXCEPT !.buf.limit = limit], obj[bottom].id, FALSE, RootHash(bottom) = bad)
    IN  /\ op = NoOp /\ ~obj[bottom].stale /\ limit # buf.limit
        /\ Faulty(bad, m)
        /\ Persisted(m) /\ UNCHANGED <<tree, mode, op>>

\* A read that misses the buffer fills the clean cache.
ReadThrough(p) ==
    /\ p \notin DOMAIN buf.nodes /\ p \notin DOMAIN cleans /\ disk.nodes[p] # ""
    /\ \E o \in Range(tree) : ~obj[Bottom(o)].stale
    /\ cleans' = Put(cleans, p, disk.nodes[p])
    /\ UNCHANGED <<obj, tree, buf, disk, mode, op, faults>>

-----------------------------------------------------------------------------
\* Shutdown and start.

RECURSIVE DiffsBelow(_)
DiffsBelow(o) == IF IsDiff(o) THEN Append(DiffsBelow(obj[o].parent), RootHash(o)) ELSE <<>>

\* Journal of a head: the buffer of the disk layer and the layers up to it; then read-only.
Journal(r) ==
    LET bottom == Bottom(tree[r])
    IN  /\ op = NoOp /\ ~mode.readOnly /\ r \in DOMAIN tree
        /\ ~obj[bottom].stale
        /\ disk' = [disk EXCEPT !.journal =
               [on |-> TRUE, diskRoot |-> DiskRoot, root |-> RootHash(bottom), id |-> obj[bottom].id,
                nodes |-> buf.nodes, diffs |-> DiffsBelow(tree[r])]]
        /\ mode' = [mode EXCEPT !.readOnly = TRUE]
        /\ UNCHANGED <<obj, tree, buf, cleans, op, faults>>

\* (A variant that loads a journal whatever is on disk.)
MatchesAny == disk.journal.on

\* A journal counts only on the disk state it was written for.
Matches == disk.journal.on /\ disk.journal.diskRoot = DiskRoot /\ disk.id <= disk.journal.id

\* The process starts again, after Journal or after a crash: loadLayers.
Restart ==
    LET j == disk.journal
        base == IF Matches THEN Disk(j.root) ELSE Disk(DiskRoot)
        id == IF Matches THEN j.id ELSE disk.id
        diffs == IF Matches THEN j.diffs ELSE <<>>
        at(i) == IF i = 0 THEN base ELSE Diff(diffs[i])
    IN  /\ (mode.readOnly \/ faults < MaxFaults)
        /\ faults' = faults + (IF mode.readOnly THEN 0 ELSE 1)
        /\ obj' = [o \in {at(i) : i \in 0..Len(diffs)} |->
                      LET i == CHOOSE k \in 0..Len(diffs) : at(k) = o
                      IN  IF i = 0 THEN Layer(<<>>, id) ELSE Layer(at(i - 1), id + i)]
        /\ tree' = [r \in {RootHash(at(i)) : i \in 0..Len(diffs)} |-> IF r = RootHash(base) THEN base ELSE Diff(r)]
        /\ buf' = IF Matches THEN [nodes |-> j.nodes, layers |-> j.id - disk.id, limit |-> Max(Limits)]
                   ELSE FreshBuffer(Max(Limits))
        /\ cleans' = None /\ op' = NoOp
        /\ mode' = [readOnly |-> FALSE, waitSync |-> FALSE, failed |-> FALSE]
        /\ UNCHANGED disk

\* Disable and Enable around a state sync, which writes the nodes of r to disk.
Disable ==
    /\ op = NoOp /\ ModifyAllowed /\ mode' = [mode EXCEPT !.waitSync = TRUE]
    /\ faults < MaxFaults /\ faults' = faults + 1
    /\ LET bottom == Bottom(CHOOSE o \in Range(tree) : TRUE)
       IN  ~obj[bottom].stale /\ obj' = [obj EXCEPT ![bottom].stale = TRUE]
    /\ UNCHANGED <<tree, buf, cleans, disk, op>>

Synced(r) ==
    /\ mode.waitSync /\ DiskRoot # r /\ disk' = [disk EXCEPT !.nodes = State[r]]
    /\ UNCHANGED <<obj, tree, buf, cleans, mode, op, faults>>

Enable(r) ==
    /\ mode.waitSync /\ ~mode.readOnly /\ DiskRoot = r
    /\ disk' = [disk EXCEPT !.id = 0]
    /\ obj' = Put(obj, Disk(r), Layer(<<>>, 0)) /\ tree' = [x \in {r} |-> Disk(r)]
    /\ buf' = FreshBuffer(buf.limit) /\ cleans' = None
    /\ mode' = [mode EXCEPT !.waitSync = FALSE]
    /\ UNCHANGED <<op, faults>>

Next ==
    \/ \E r \in Root, bad \in Root \cup {NoRoot} : Update(r, bad) \/ Commit(r, bad)
    \/ KeepChildren
    \/ \E l \in Limits, bad \in Root \cup {NoRoot} : SetBufferSize(l, bad)
    \/ \E p \in Path : ReadThrough(p)
    \/ \E r \in Root : Journal(r) \/ Synced(r) \/ Enable(r)
    \/ Restart \/ Disable

Spec == Init /\ [][Next]_vars

-----------------------------------------------------------------------------
\* What a reader of layer o that asks for its node at p gets.
RECURSIVE Node(_, _, _)
Node(o, p, want) ==
    LET check(v) == IF v = want THEN v ELSE "unexpected"
    IN  IF IsDiff(o)
        THEN IF p \in DOMAIN Nodes(RootHash(o)) THEN check(Nodes(RootHash(o))[p]) ELSE Node(obj[o].parent, p, want)
        ELSE IF obj[o].stale THEN "stale"
        ELSE IF p \in DOMAIN buf.nodes THEN check(buf.nodes[p])
        ELSE IF p \in DOMAIN cleans /\ cleans[p] = want THEN want
        ELSE IF disk.nodes[p] = "" THEN "missing" ELSE check(disk.nodes[p])

Asked(r) == {p \in Path : State[r][p] # ""}

\* A layer that anyone still holds gives the right node or says that it is stale; no reader,
\* however late, sees a node of another state or is told that a node is missing.
HeldLayersSafe ==
    \A o \in DOMAIN obj : \A p \in Asked(RootHash(o)) :
        Node(o, p, State[RootHash(o)][p]) \in {State[RootHash(o)][p], "stale"}

\* As long as no write has failed and no sync is under way, every layer of the tree can be
\* read in full, unless cap has left it behind or Commit is about to relink it.
TreeReadable ==
    (~mode.failed /\ ~mode.waitSync /\ op = NoOp) =>
        \A r \in DOMAIN tree : ~Stranded(tree[r]) =>
            \A p \in Asked(r) : Node(tree[r], p, State[r][p]) = State[r][p]

\* "All data must be written atomically": the disk holds one state in full, and the id says
\* how many transitions it stands for.
DiskIsAState ==
    ~mode.waitSync => disk.nodes = State[DiskRoot]

\* A failed batch leaves the clean cache ahead of the disk, but only at nodes that the buffer
\* still holds and answers for: whoever gets past the buffer finds in the cache what the disk has.
CleansRight ==
    \A p \in DOMAIN cleans : cleans[p] = disk.nodes[p] \/ p \in DOMAIN buf.nodes \/ mode.waitSync

\* The buffer bridges the persisted id and the id of the disk layer, so that the next flush
\* is accepted; after a failed write it need not, and flushes are refused.
IdsAligned ==
    \A o \in Range(tree) : (~obj[Bottom(o)].stale /\ op = NoOp /\ ~mode.failed) => disk.id + buf.layers = obj[Bottom(o)].id

Safety == HeldLayersSafe /\ TreeReadable /\ DiskIsAState /\ CleansRight /\ IdsAligned
=============================================================================
