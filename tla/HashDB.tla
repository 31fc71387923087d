------------------------------- MODULE HashDB -------------------------------
(***************************************************************************)
(* The hash-scheme trie database (triedb/hashdb/database.go): a cache of   *)
(* dirty nodes with reference counts and a flush-list in front of the      *)
(* disk.  Update, Reference and Dereference hold the lock throughout; Cap  *)
(* and Commit collect under it, write without it, and take it again to     *)
(* uncache what they wrote.  A node is named by its hash, which stands for *)
(* its blob.                                                               *)
(***************************************************************************)
EXTENDS Integers, SequencesExt

CONSTANTS
    Node,        \* the hashes
    Children,    \* [Node -> SUBSET Node]: the resolver's view of a blob
    Block,       \* the state transitions that may be committed to the database
    New,         \* [Block -> Seq(Node)]: its node sets in insertion order, the root last
    Parent,      \* [Block -> the block it builds on, or "none"]
    Leaves,      \* [Block -> SUBSET (Node \X Node)]: <<storage root, node with the account's leaf>>
    Limits,      \* the sizes that Cap is called with
    MaxUpdates, MaxCrashes

VARIABLES
    dirties,   \* [hashes -> [parents, external]]
    flush,     \* the flush-list, oldest first
    disk,      \* the nodes on disk
    live,      \* [Block -> references its owner holds on the root]
    job,       \* [Threads -> the flush items, and how many are written]
    updates, crashes

vars == <<dirties, flush, disk, live, job, updates, crashes>>

\* Cap runs under the insertion of a block, Commit in the acceptor.
Threads == {"cap", "commit"}

RootOf(b) == Last(New[b])

Idle == [items |-> <<>>, done |-> 0]

Init ==
    /\ dirties = <<>> /\ flush = <<>> /\ disk = {}
    /\ live = [b \in Block |-> 0] /\ job = [t \in Threads |-> Idle]
    /\ updates = 0 /\ crashes = 0

ForChildren(d, h) == Children[h] \cup d[h].external

Insert(d, h) ==
    IF h \in DOMAIN d THEN d
    ELSE [x \in DOMAIN d \cup {h} |->
             IF x = h THEN [parents |-> 0, external |-> {}]
             ELSE IF x \in Children[h] THEN [d[x] EXCEPT !.parents = @ + 1] ELSE d[x]]

ReferenceRoot(d, root) == IF root \in DOMAIN d THEN [d EXCEPT ![root].parents = @ + 1] ELSE d

\* A storage root is counted once for each node that holds a leaf pointing to it.
Reference(d, child, parent) ==
    IF child \notin DOMAIN d \/ child \in d[parent].external THEN d
    ELSE [d EXCEPT ![child].parents = @ + 1, ![parent].external = @ \cup {child}]

Without(d, h) == [x \in DOMAIN d \ {h} |-> d[x]]

\* (A variant that deletes a node whatever still refers to it.)
RECURSIVE DereferenceAll(_, _)
DereferenceAll(d, h) ==
    IF h \notin DOMAIN d THEN d
    ELSE Without(FoldSet(LAMBDA c, e : DereferenceAll(e, c), d, ForChildren(d, h)), h)

RECURSIVE DereferenceNode(_, _)
DereferenceNode(d, h) ==
    IF h \notin DOMAIN d THEN d
    ELSE LET n == [d EXCEPT ![h].parents = IF @ > 0 THEN @ - 1 ELSE 0]
         IN  IF n[h].parents > 0 THEN n
             ELSE Without(FoldSet(LAMBDA c, e : DereferenceNode(e, c), n, ForChildren(n, h)), h)

\* (A variant that collects a node before its children.)
RECURSIVE CollectTopDown(_, _, _)
CollectTopDown(d, h, toFlush) ==
    IF h \notin DOMAIN d THEN toFlush
    ELSE FoldSet(LAMBDA c, acc : CollectTopDown(d, c, acc), Append(toFlush, h), ForChildren(d, h))

\* commit: the dirty nodes below h, children before their parents.
RECURSIVE Collect(_, _, _)
Collect(d, h, toFlush) ==
    IF h \notin DOMAIN d THEN toFlush
    ELSE Append(FoldSet(LAMBDA c, acc : Collect(d, c, acc), toFlush, ForChildren(d, h)), h)

InFlush(d, list) == SelectSeq(list, LAMBDA h : h \in DOMAIN d)

Below(h, S) == LET RECURSIVE Reach(_)
                   Reach(T) == LET U == T \cup UNION {S[x] : x \in T} IN IF U = T THEN T ELSE Reach(U)
               IN  Reach({h})

\* All that a state root needs: its trie and the storage tries of its accounts.
Links == [h \in Node |-> Children[h] \cup {l[1] : l \in {m \in UNION {Leaves[b] : b \in Block} : m[2] = h}}]

NodesOf(root) == Below(root, Links)

\* Reader: the state is there if its root is.
Available(root) == root \in DOMAIN dirties \cup disk

HasState(b) == IF b = "none" THEN TRUE ELSE live[b] > 0 \/ RootOf(b) \in disk

-----------------------------------------------------------------------------
\* Update, with ReferenceRootAtomicallyOnUpdate.
Update(b) ==
    LET inserted == FoldLeft(Insert, dirties, New[b])
        linked == FoldSet(LAMBDA l, d : Reference(d, l[1], l[2]), inserted, Leaves[b])
        fresh == SelectSeq(New[b], LAMBDA h : h \notin DOMAIN dirties)
    IN  /\ updates < MaxUpdates /\ HasState(Parent[b])
        /\ dirties' = ReferenceRoot(linked, RootOf(b))
        /\ flush' = flush \o fresh
        /\ live' = [live EXCEPT ![b] = @ + 1] /\ updates' = updates + 1
        /\ UNCHANGED <<disk, job, crashes>>

Dereference(b) ==
    /\ live[b] > 0
    /\ dirties' = DereferenceNode(dirties, RootOf(b))
    /\ flush' = InFlush(dirties', flush)
    /\ live' = [live EXCEPT ![b] = @ - 1]
    /\ UNCHANGED <<disk, job, updates, crashes>>

\* Cap collects from the oldest node until the rest fits.
Cap(limit) ==
    /\ job["cap"] = Idle /\ Len(flush) > limit
    /\ job' = [job EXCEPT !["cap"].items = SubSeq(flush, 1, Len(flush) - limit)]
    /\ UNCHANGED <<dirties, flush, disk, live, updates, crashes>>

Commit(b) ==
    /\ job["commit"] = Idle /\ live[b] > 0
    /\ job' = [job EXCEPT !["commit"].items = Collect(dirties, RootOf(b), <<>>)]
    /\ UNCHANGED <<dirties, flush, disk, live, updates, crashes>>

\* A batch reaches the disk; the lock is not held.
WriteFlushItems(t) ==
    /\ job[t].done < Len(job[t].items)
    /\ disk' = disk \cup {job[t].items[job[t].done + 1]}
    /\ job' = [job EXCEPT ![t].done = @ + 1]
    /\ UNCHANGED <<dirties, flush, live, updates, crashes>>

\* A batch fails: nothing is uncached.
WriteFails(t) ==
    /\ job[t].done < Len(job[t].items)
    /\ job' = [job EXCEPT ![t] = Idle]
    /\ UNCHANGED <<dirties, flush, disk, live, updates, crashes>>

\* What was written is uncached, if it is still there.
RemoveFromDirties(t) ==
    /\ job[t] # Idle /\ job[t].done = Len(job[t].items)
    /\ dirties' = FoldLeft(Without, dirties, job[t].items)
    /\ flush' = InFlush(dirties', flush)
    /\ job' = [job EXCEPT ![t] = Idle]
    /\ UNCHANGED <<disk, live, updates, crashes>>

\* The process ends; it starts again over what is on disk.
Crash ==
    /\ crashes < MaxCrashes /\ crashes' = crashes + 1
    /\ dirties' = <<>> /\ flush' = <<>> /\ live' = [b \in Block |-> 0]
    /\ job' = [t \in Threads |-> Idle]
    /\ UNCHANGED <<disk, updates>>

Next ==
    \/ \E b \in Block : Update(b) \/ Dereference(b) \/ Commit(b)
    \/ \E l \in Limits : Cap(l)
    \/ \E t \in Threads : WriteFlushItems(t) \/ WriteFails(t) \/ RemoveFromDirties(t)
    \/ Crash

Spec == Init /\ [][Next]_vars

-----------------------------------------------------------------------------
TypeOK ==
    /\ DOMAIN dirties \subseteq Node /\ disk \subseteq Node
    /\ \A h \in DOMAIN dirties : dirties[h].parents \in Nat /\ dirties[h].external \subseteq Node
    /\ live \in [Block -> Nat]

\* The flush-list links exactly the dirty nodes, each of them once.
FlushListIsDirties == ToSet(flush) = DOMAIN dirties /\ IsInjective(flush)

\* "Children are committed before their parents": whatever is on disk is whole, after any
\* batch, of any of the goroutines, at any crash.
DiskWhole == \A h \in disk : NodesOf(h) \subseteq disk

\* A state whose root its owner holds can be read entirely, whatever Cap, Commit and the
\* dereferencing of other states do meanwhile.
LiveWhole == \A b \in Block : live[b] > 0 => NodesOf(RootOf(b)) \subseteq DOMAIN dirties \cup disk

\* Whatever a reader can open is whole.
AvailableWhole ==
    \A b \in Block : Available(RootOf(b)) => NodesOf(RootOf(b)) \subseteq DOMAIN dirties \cup disk

\* Nothing stays in memory for good: a dirty node is held by a state that is still
\* referenced, or is on disk already and waits for Cap.
NoLeak ==
    \A h \in DOMAIN dirties :
        h \in disk \/ \E b \in Block : live[b] > 0 /\ h \in NodesOf(RootOf(b))

Safety == TypeOK /\ FlushListIsDirties /\ DiskWhole /\ LiveWhole /\ AvailableWhole /\ NoLeak
=============================================================================
