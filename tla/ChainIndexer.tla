---------------------------- MODULE ChainIndexer ----------------------------
(***************************************************************************)
(* The bloom-bits index of the chain (core/chain_indexer.go,               *)
(* core/bloom_indexer.go, core/bloombits/generator.go) and the range log   *)
(* queries that read it (eth/filters/filter.go, eth/bloombits.go).         *)
(*                                                                         *)
(* A chain is the sequence of the contents of its blocks from genesis on,  *)
(* and a block is the prefix of the chain that ends in it: equal prefixes, *)
(* equal hashes.  <<>> is the zero hash.  Content "log" has a matching     *)
(* log, "like" only matches the bloom filter, "" matches nothing.          *)
(* The node has one indexer, with neither children nor checkpoints.        *)
(***************************************************************************)
EXTENDS Integers, Sequences, SequencesExt

CONSTANTS
    Chains,      \* the chains that consensus may prefer
    Size,        \* blocks of a section (params.BloomBitsBlocks)
    Confirms,    \* blocks on top of a section before it is indexed
    MaxEvents,   \* head events in a behaviour
    MaxCrashes,
    Ranges       \* <<begin, end, filtered>> of the queries; end -1 is "latest"

VARIABLES
    db,       \* canonical chain, number of the last accepted block, deleted blocks
    events,   \* head events in the subscription's channel
    loop,     \* eventLoop: the last header handled, the newHead calls to make
    ix,       \* the indexer: knownSections, and the update channel
    disk,     \* its tables: the count, the section heads, the bits
    work,     \* updateLoop: the section in process
    query,    \* a range query
    budget

vars == <<db, events, loop, ix, disk, work, query, budget>>

Sections == 0..2

Number(b) == Len(b) - 1
Parent(b) == Front(b)
\* rawdb.ReadCanonicalHash.
ReadCanonicalHash(n) == IF n < Len(db.canon) THEN SubSeq(db.canon, 1, n + 1) ELSE <<>>
\* rawdb.ReadHeader finds the header unless its block was rejected.
HasHeader(b) == b # <<>> /\ b \notin db.gone

\* findCommonAncestor: the headers are read one by one, a missing one ends the search.
Common(a, b) == LongestCommonPrefix({a, b})
Walked(a, c) == {SubSeq(a, 1, n) : n \in Len(c)..(Len(a) - 1)}
findCommonAncestor(a, b) ==
    LET c == Common(a, b)
    IN  IF \A x \in Walked(a, c) \cup Walked(b, c) : HasHeader(x) THEN c ELSE <<>>

Init ==
    /\ db = [canon |-> <<"">>, accepted |-> 0, gone |-> {}]
    /\ events = <<>>
    /\ loop = [prev |-> <<"">>, todo |-> << <<0, FALSE>> >>]
    /\ ix = [known |-> 0, update |-> FALSE]
    /\ disk = [stored |-> 0, shead |-> [s \in Sections |-> <<>>],
               bits |-> [s \in Sections |-> <<>>]]
    /\ work = [pc |-> "idle", section |-> 0, old |-> <<>>, last |-> <<>>, blooms |-> <<>>]
    /\ query = [pc |-> "none"]
    /\ budget = [events |-> 0, crashes |-> 0]

-----------------------------------------------------------------------------
\* Consensus prefers another chain and the head event is sent; accepted blocks stay.
SetHead(c) ==
    /\ budget.events < MaxEvents /\ c # db.canon /\ Len(c) > db.accepted
    /\ SubSeq(c, 1, db.accepted + 1) = ReadCanonicalHash(db.accepted)
    /\ db' = [db EXCEPT !.canon = c]
    /\ events' = Append(events, c)
    /\ budget' = [budget EXCEPT !.events = @ + 1]
    /\ query' = IF query.pc \in {"none", "done"} THEN query ELSE [query EXCEPT !.moved = TRUE]
    /\ UNCHANGED <<loop, ix, disk, work>>

\* The next block of the chain is accepted, and the blocks against it are rejected: their
\* headers are deleted.
Against(b) == {SubSeq(c, 1, n) : <<c, n>> \in
                  {<<c, n>> \in Chains \X (1..7) : n <= Len(c) /\ n >= Len(b)
                                                   /\ SubSeq(c, 1, Len(b)) # b}}
Accept ==
    /\ db.accepted < Len(db.canon) - 1
    /\ db' = [db EXCEPT !.accepted = @ + 1, !.gone = @ \cup Against(ReadCanonicalHash(db.accepted + 1))]
    /\ UNCHANGED <<events, loop, ix, disk, work, query, budget>>

\* eventLoop receives a head: was there a reorg since the last one it handled?
Event ==
    /\ events # <<>> /\ loop.todo = <<>>
    /\ LET h == Head(events)
           a == findCommonAncestor(loop.prev, h)
           reorged == /\ Parent(h) # loop.prev
                      /\ ReadCanonicalHash(Number(loop.prev)) # loop.prev
                      /\ a # <<>>
       IN  loop' = [prev |-> h,
                    todo |-> (IF reorged THEN << <<Number(a), TRUE>> >> ELSE <<>>)
                             \o << <<Number(h), FALSE>> >>]
    /\ events' = Tail(events)
    /\ UNCHANGED <<db, ix, disk, work, query, budget>>

\* setValidSections: the count, then the heads above it are removed.
setValidSections(d, n) ==
    [d EXCEPT !.stored = n,
              !.shead = [s \in Sections |-> IF s >= n /\ s < d.stored THEN <<>> ELSE @[s]]]

\* newHead: sections above a reorg are no longer known nor stored; sections that are
\* confirmed become known and updateLoop is told.
newHead ==
    /\ loop.todo # <<>>
    /\ LET head == Head(loop.todo)[1]
           reorg == Head(loop.todo)[2]
           known == IF reorg THEN (head + 1) \div Size ELSE (head + 1 - Confirms) \div Size
       IN  IF reorg
           THEN /\ ix' = [ix EXCEPT !.known = IF known < @ THEN known ELSE @]
                /\ disk' = IF known < disk.stored THEN setValidSections(disk, known) ELSE disk
           ELSE /\ ix' = IF head >= Confirms /\ known > ix.known
                         THEN [known |-> known, update |-> TRUE] ELSE ix
                /\ UNCHANGED disk
    /\ loop' = [loop EXCEPT !.todo = Tail(@)]
    /\ UNCHANGED <<db, events, work, query, budget>>

-----------------------------------------------------------------------------
\* verifyLastHead drops sections until the last head is canonical.
Canonical(d, s) == d.shead[s] = ReadCanonicalHash((s + 1) * Size - 1)
verifyLastHead(d) ==
    LET ok == {n \in 1..d.stored : Canonical(d, n - 1)}
    IN  setValidSections(d, IF ok = {} THEN 0 ELSE CHOOSE n \in ok : \A k \in ok : k <= n)

\* updateLoop takes the next section, under the lock; BloomIndexer.Reset.
Begin ==
    /\ ix.update /\ work.pc = "idle"
    /\ IF ix.known > disk.stored
       THEN /\ disk' = verifyLastHead(disk)
            /\ LET n == disk'.stored
                   old == IF n > 0 THEN disk'.shead[n - 1] ELSE <<>>
               IN  work' = [pc |-> "process", section |-> n, old |-> old, last |-> old, blooms |-> <<>>]
       ELSE UNCHANGED <<disk, work>>
    /\ ix' = [ix EXCEPT !.update = FALSE]
    /\ UNCHANGED <<db, events, loop, query, budget>>

\* processSection, one block without the lock: its header must continue the last one;
\* BloomIndexer.Process, Generator.AddBloom.
\* (A variant that does not look at the parent.)
AnyParent(b, last) == TRUE
Continues(b, last) == Parent(b) = last

Process ==
    /\ work.pc = "process" /\ Len(work.blooms) < Size
    /\ LET b == ReadCanonicalHash(work.section * Size + Len(work.blooms))
       IN  work' = IF HasHeader(b) /\ Continues(b, work.last)
                   THEN [work EXCEPT !.last = b, !.blooms = Append(@, Last(b))]
                   ELSE [work EXCEPT !.pc = "failed"]
    /\ UNCHANGED <<db, events, loop, ix, disk, query, budget>>

\* BloomIndexer.Commit writes the bits in one batch, under the section alone.
Commit ==
    /\ work.pc = "process" /\ Len(work.blooms) = Size
    /\ disk' = [disk EXCEPT !.bits[work.section] = work.blooms]
    /\ work' = [work EXCEPT !.pc = "committed"]
    /\ UNCHANGED <<db, events, loop, ix, query, budget>>

\* updateLoop with the lock again: the section counts if the one below it still does.
Unmoved == IF work.section = 0 THEN TRUE ELSE work.old = disk.shead[work.section - 1]
Done ==
    /\ work.pc \in {"committed", "failed"}
    /\ IF work.pc = "committed" /\ Unmoved
       THEN /\ disk' = setValidSections([disk EXCEPT !.shead[work.section] = work.last], work.section + 1)
            /\ ix' = [ix EXCEPT !.update = @ \/ ix.known > disk'.stored]
       ELSE /\ disk' = verifyLastHead(disk)
            /\ ix' = [ix EXCEPT !.known = disk'.stored]
    /\ work' = [work EXCEPT !.pc = "idle"]
    /\ UNCHANGED <<db, events, loop, query, budget>>

\* The node stops, perhaps between the write of a head and that of the count, and starts
\* from the last accepted block.
Restart ==
    /\ budget.crashes < MaxCrashes
    /\ \/ UNCHANGED disk
       \/ /\ work.pc = "committed" /\ Unmoved
          /\ disk' = [disk EXCEPT !.shead[work.section] = work.last]
    /\ loop' = [prev |-> ReadCanonicalHash(db.accepted), todo |-> << <<db.accepted, FALSE>> >>]
    /\ events' = <<>>
    /\ ix' = [known |-> 0, update |-> FALSE]
    /\ work' = [work EXCEPT !.pc = "idle"]
    /\ query' = [pc |-> "none"]
    /\ budget' = [budget EXCEPT !.crashes = @ + 1]
    /\ UNCHANGED db

-----------------------------------------------------------------------------
\* Logs: the range is resolved, and blocks that are not accepted are refused.
\* (HeaderByNumber gives the last accepted block as the latest one.)
Query(r) ==
    /\ query.pc = "none"
    /\ LET begin == r[1]
           end == IF r[2] = -1 THEN db.accepted ELSE r[2]
           refused == begin > db.accepted \/ r[2] > db.accepted \/ (r[2] >= 0 /\ end < begin)
           q == [pc |-> "status", begin |-> begin, from |-> begin, end |-> end, filtered |-> r[3],
                 indexed |-> 0, out |-> <<>>, err |-> FALSE, moved |-> FALSE, numbers |-> <<>>]
       IN  query' = IF refused THEN [q EXCEPT !.pc = "done", !.err = TRUE] ELSE q
    /\ UNCHANGED <<db, events, loop, ix, disk, work, budget>>

\* BloomStatus: Sections verifies the last head and gives the count.
Status ==
    /\ query.pc = "status"
    /\ disk' = verifyLastHead(disk)
    /\ LET indexed == disk'.stored * Size
       IN  query' = IF indexed > query.from
                    THEN [query EXCEPT !.pc = "retrieve",
                                       !.indexed = IF indexed > query.end THEN query.end + 1 ELSE indexed]
                    ELSE [query EXCEPT !.pc = "unindexed"]
    /\ UNCHANGED <<db, events, loop, ix, work, budget>>

\* The keys of the bits of a section: writeBloomBits, and bloomBitsKey of ReadBloomBits.
WriteKey(s) == <<"iB", s>>
ReadKey(s, head) == <<"B", s, head>>
\* A bloom handler looks for the bits of a section under its canonical head.
Found(s) == ReadKey(s, ReadCanonicalHash((s + 1) * Size - 1)) \in
            {WriteKey(t) : t \in {t \in Sections : disk.bits[t] # <<>>}}

\* indexedLogs runs the matcher.  A filter with no rule fetches nothing and matches every
\* block; an error of a retrieval ends the session.
Retrieve ==
    /\ query.pc = "retrieve"
    /\ LET sections == (query.from \div Size)..((query.indexed - 1) \div Size)
           all == [i \in 1..(query.indexed - query.from) |-> query.from + i - 1]
           bloom(n) == disk.bits[n \div Size][1 + (n % Size)]
       IN  query' = IF ~query.filtered THEN [query EXCEPT !.pc = "matches", !.numbers = all]
                    ELSE IF \A s \in sections : Found(s)
                    THEN [query EXCEPT !.pc = "matches",
                                       !.numbers = SelectSeq(all, LAMBDA n : bloom(n) # "")]
                    ELSE [query EXCEPT !.pc = "done", !.err = TRUE]
    /\ UNCHANGED <<db, events, loop, ix, disk, work, budget>>

\* checkMatches and blockLogs of the canonical block of a number.
Blocklogs(n) == IF Last(ReadCanonicalHash(n)) = "log" THEN <<ReadCanonicalHash(n)>> ELSE <<>>

\* indexedLogs, one match: a missing header ends it with no error.
Match ==
    /\ query.pc = "matches"
    /\ query' =
        IF query.numbers = <<>> THEN [query EXCEPT !.pc = "unindexed", !.from = query.indexed]
        ELSE LET n == Head(query.numbers)
             IN  IF ReadCanonicalHash(n) = <<>>
                 THEN [query EXCEPT !.pc = "unindexed", !.from = n + 1]
                 ELSE [query EXCEPT !.from = n + 1, !.numbers = Tail(@), !.out = @ \o Blocklogs(n)]
    /\ UNCHANGED <<db, events, loop, ix, disk, work, budget>>

\* unindexedLogs, one block.
Unindexed ==
    /\ query.pc = "unindexed"
    /\ query' =
        IF query.from > query.end \/ ReadCanonicalHash(query.from) = <<>>
        THEN [query EXCEPT !.pc = "done"]
        ELSE [query EXCEPT !.from = @ + 1, !.out = @ \o Blocklogs(query.from)]
    /\ UNCHANGED <<db, events, loop, ix, disk, work, budget>>

Next ==
    \/ \E c \in Chains : SetHead(c)
    \/ \E r \in Ranges : Query(r)
    \/ Accept \/ Event \/ newHead \/ Begin \/ Process \/ Commit \/ Done \/ Restart
    \/ Status \/ Retrieve \/ Match \/ Unindexed

Spec == Init /\ [][Next]_vars

-----------------------------------------------------------------------------
\* The heads of the stored sections are one chain, so that verifyLastHead may look at the
\* last of them alone.
HeadsLinked == \A s \in 0..(disk.stored - 1) :
    /\ Len(disk.shead[s]) = (s + 1) * Size
    /\ s > 0 => IsPrefix(disk.shead[s - 1], disk.shead[s])

\* The bits of a stored section, kept under no head, are those of the blocks under its head.
BitsOfHead == \A s \in 0..(disk.stored - 1) :
    disk.bits[s] = SubSeq(disk.shead[s], s * Size + 1, (s + 1) * Size)

\* A query that ends without an error gives the matching logs of the accepted blocks of its
\* range, all of them and in order, whatever was indexed, preferred or accepted meanwhile.
Expected == LET ns == [i \in 1..(query.end + 1 - query.begin) |-> query.begin + i - 1]
            IN  FoldLeft(LAMBDA acc, n : acc \o Blocklogs(n), <<>>, ns)
QueryRight == query.pc = "done" /\ ~query.err => query.out = Expected

Safety == HeadsLinked /\ BitsOfHead /\ QueryRight

\* "BloomIndexer ... building up a rotated bloom bits index ... permitting blazing fast
\* filtering" (core/bloom_indexer.go:51): the bits of a section that is indexed are found
\* by the queries over it.
IndexServes == query.pc = "done" /\ query.indexed > 0 /\ ~query.moved => ~query.err
=============================================================================
