------------------------------- MODULE Pruner -------------------------------
(***************************************************************************)
(* Offline pruning (core/state/pruner, and its callers in eth/backend.go): *)
(* the state entries outside a bloom filter are deleted, and the filter's  *)
(* file lets a start after a crash resume.  Around it the chain, which     *)
(* keeps states in memory and takes a root on disk for a whole state       *)
(* (core/blockchain.go): blocks are inserted, accepted, committed now and  *)
(* then, and executed again by a start.  The node may stop at any step.    *)
(***************************************************************************)
EXTENDS Integers, FiniteSets

CONSTANTS
    Key,         \* the state entries, in the order of the iterator (integers)
    Last,        \* the blocks are 0..Last, each on top of the one before; 0 is the genesis
    Root,        \* [0..Last -> Key]: two blocks may have the same root, of the same state
    State,       \* [0..Last -> SUBSET Key], the root included
    MaxFaults    \* crashes and failed operations of a session

VARIABLES
    db,        \* [entries, blocks, head, pref, marker]: the disk; the accepted and the head block
    mem,       \* the blocks whose state is in memory
    file,      \* the bloom filter on disk: [kind, root, bloom]
    bloom,     \* the filter in memory
    pc,        \* "down", "run", or the step of a start or a session
    session,   \* "prune" or "recover"
    offline,   \* whether the node was started with offline pruning enabled
    cursor,    \* how far the iterator is
    faults,
    exposed    \* blocks whose nodes went to disk while a filter that was left behind was there

vars == <<db, mem, file, bloom, pc, session, offline, cursor, faults, exposed>>

NoFile == [kind |-> "none", root |-> 0, bloom |-> {}]

Init ==
    /\ db = [entries |-> State[0], blocks |-> {0}, head |-> 0, pref |-> 0, marker |-> FALSE]
    /\ mem = {} /\ file = NoFile /\ bloom = {} /\ pc = "run" /\ session = "prune"
    /\ offline = FALSE /\ cursor = 0 /\ faults = 0 /\ exposed = {}

-----------------------------------------------------------------------------
(* The chain.                                                              *)

\* The nodes a block adds to the state before it, and those in memory.
New(b) == State[b] \ State[b - 1]
Dirty == UNION {New(b) : b \in mem}

\* insertBlock, which executes a known block again; a tip becomes the head.  Capping the trie
\* database flushes the oldest nodes first, and the root of a state after the rest of it.
InsertBlock(b, flush) ==
    LET all == Dirty \cup New(b)
        flushed == CASE flush = "none" -> {} [] flush = "nodes" -> all \ {Root[b]} [] flush = "all" -> all
    IN  /\ pc = "run" /\ b > db.head /\ b \notin mem /\ (b - 1 = db.head \/ b - 1 \in mem)
        /\ mem' = mem \cup {b}
        /\ db' = [db EXCEPT !.blocks = @ \cup {b}, !.entries = @ \cup flushed,
                            !.pref = IF @ = b - 1 THEN b ELSE @]
        /\ exposed' = IF flush # "none" /\ file.kind = "final" THEN exposed \cup mem' ELSE exposed
        /\ UNCHANGED <<file, bloom, pc, session, offline, cursor, faults>>

SetPreference(b) ==
    /\ pc = "run" /\ b \in {db.head} \cup mem /\ b >= db.head /\ b # db.pref
    /\ db' = [db EXCEPT !.pref = b]
    /\ UNCHANGED <<mem, file, bloom, pc, session, offline, cursor, faults, exposed>>

\* Accept; the state goes to disk only at a multiple of the commit interval.
Accept(commit) ==
    LET b == db.head + 1
    IN  /\ pc = "run" /\ b \in mem
        /\ db' = [db EXCEPT !.head = b, !.pref = IF @ < b THEN b ELSE @,
                            !.entries = IF commit THEN @ \cup (State[b] \cap Dirty) ELSE @]
        /\ UNCHANGED <<mem, file, bloom, pc, session, offline, cursor, faults, exposed>>

\* A stop in order commits the last accepted state.
Shutdown ==
    /\ pc = "run" /\ pc' = "down" /\ mem' = {}
    /\ db' = [db EXCEPT !.entries = @ \cup (State[db.head] \cap Dirty)]
    /\ UNCHANGED <<file, bloom, session, offline, cursor, faults, exposed>>

\* The last block up to b whose root is on disk.
HasState(b) == Root[b] \in db.entries
Search(b) == CHOOSE f \in 0..b : HasState(f) /\ \A x \in f + 1..b : ~HasState(x)

\* NewBlockChain: the head is the last accepted block again, and reprocessState executes the
\* blocks after the last state on disk and commits the result.  (The acceptor has processed
\* every accepted block here; BlockChain has an acceptor that lags.)
NewBlockChain ==
    LET again == UNION {New(b) : b \in Search(db.head) + 1..db.head}
    IN  /\ pc \in {"load", "reload"} /\ pc' = IF pc = "load" THEN "open" ELSE "run"
        /\ db' = [db EXCEPT !.pref = db.head, !.entries = @ \cup (again \cap State[db.head])]
        /\ UNCHANGED <<mem, file, bloom, session, offline, cursor, faults, exposed>>

-----------------------------------------------------------------------------
(* A start.                                                                *)

\* (A variant that resumes whatever the head has become.)
AnyFilter == file.kind = "final"

\* RecoverPruning refuses a filter of another state than that of the head block.
RightFilter == file.kind = "final" /\ file.root = Root[db.pref]

\* The node starts; pruning that was interrupted is resumed first, before the head is reset.
Start(off) ==
    /\ pc = "down" /\ offline' = off
    /\ IF RightFilter
       THEN pc' = "delete" /\ session' = "recover" /\ bloom' = file.bloom /\ cursor' = 0
       ELSE pc' = "load" /\ UNCHANGED <<session, bloom, cursor>>
    /\ UNCHANGED <<db, mem, file, faults, exposed>>

BlockRoots == {Root[b] : b \in {x \in db.blocks : x > db.head}}

\* (Variants that delete the root of the accepted state too, or leave the roots alone.)
AllRoots == BlockRoots
NoRoots == {}

\* The roots that CleanBlockRootsAboveLastAccepted deletes: a block that leaves the state as it
\* is has the root of the last accepted one.
ProcessingRoots == BlockRoots \ {Root[db.head]}

\* handleOfflinePruning, up to the call of Prune.  The roots are deleted one by one.
HandleOfflinePruning(deleted) ==
    /\ pc = "open"
    /\ \/ /\ ~offline /\ deleted = {} /\ pc' = "run" /\ db' = [db EXCEPT !.marker = FALSE]
          /\ UNCHANGED faults
       \/ offline /\ db.marker /\ deleted = {} /\ pc' = "down" /\ UNCHANGED <<db, faults>>
       \/ /\ offline /\ ~db.marker /\ deleted \subseteq ProcessingRoots
          /\ db' = [db EXCEPT !.entries = @ \ deleted]
          /\ IF deleted = ProcessingRoots THEN pc' = "prune" /\ UNCHANGED faults
             ELSE pc' = "down" /\ faults < MaxFaults /\ faults' = faults + 1
    /\ exposed' = {b \in exposed : Root[b] \notin deleted}
    /\ UNCHANGED <<mem, file, bloom, session, offline, cursor>>

\* Prune: a filter left behind is for RecoverPruning.
Prune ==
    /\ pc = "prune" /\ session' = "prune"
    /\ IF file.kind = "final"
       THEN IF RightFilter THEN pc' = "delete" /\ bloom' = file.bloom /\ cursor' = 0
            ELSE pc' = "down" /\ UNCHANGED <<bloom, cursor>>
       ELSE pc' = (IF HasState(db.head) THEN "build" ELSE "down") /\ UNCHANGED <<bloom, cursor>>
    /\ UNCHANGED <<db, mem, file, offline, faults, exposed>>

-----------------------------------------------------------------------------
(* A session.                                                              *)

\* GenerateTrie and extractGenesis; a bloom filter may hold more than was put in.
Build(extra) ==
    /\ pc = "build" /\ pc' = "write"
    /\ bloom' = State[db.head] \cup State[0] \cup extra
    /\ UNCHANGED <<db, mem, file, session, offline, cursor, faults, exposed>>

\* stateBloom.Commit: a temporary file, which no search finds, is renamed when it is synced.
WriteFile ==
    /\ pc = "write" /\ pc' = "rename" /\ file' = [kind |-> "tmp", root |-> Root[db.head], bloom |-> bloom]
    /\ UNCHANGED <<db, mem, bloom, session, offline, cursor, faults, exposed>>

Rename ==
    /\ pc = "rename" /\ pc' = "delete" /\ file' = [file EXCEPT !.kind = "final"] /\ cursor' = 0
    /\ UNCHANGED <<db, mem, bloom, session, offline, faults, exposed>>

\* A batch of deletions; the iterator is opened again where it was.
DeleteBatch(to) ==
    /\ pc = "delete" /\ to > cursor /\ cursor' = to
    /\ db' = [db EXCEPT !.entries = {k \in @ : k > cursor /\ k <= to => k \in bloom}]
    /\ UNCHANGED <<mem, file, bloom, pc, session, offline, faults, exposed>>

WriteMarker ==
    /\ pc = "delete" /\ \A k \in Key : k <= cursor
    /\ pc' = "remove" /\ db' = [db EXCEPT !.marker = TRUE]
    /\ UNCHANGED <<mem, file, bloom, session, offline, cursor, faults, exposed>>

RemoveFile ==
    /\ pc = "remove" /\ file' = NoFile
    /\ pc' = IF session = "recover" THEN "load" ELSE "reload"
    /\ UNCHANGED <<db, mem, bloom, session, offline, cursor, faults, exposed>>

\* An operation fails: a node that recovers logs it and goes on, one that prunes stops.
Fails ==
    /\ faults < MaxFaults /\ faults' = faults + 1
    /\ pc \in {"build", "write", "rename", "delete", "remove"}
    /\ pc' = IF session = "recover" /\ pc \in {"delete", "remove"} THEN "load" ELSE "down"
    /\ UNCHANGED <<db, mem, file, bloom, session, offline, cursor, exposed>>

Crash ==
    /\ pc # "down" /\ pc' = "down" /\ mem' = {}
    /\ IF pc = "run" THEN UNCHANGED faults ELSE faults < MaxFaults /\ faults' = faults + 1
    /\ UNCHANGED <<db, file, bloom, session, offline, cursor, exposed>>

Next ==
    \/ \E b \in 1..Last, f \in {"none", "nodes", "all"} : InsertBlock(b, f)
    \/ \E b \in 0..Last : SetPreference(b)
    \/ \E c \in BOOLEAN : Accept(c)
    \/ Shutdown \/ NewBlockChain \/ Prune \/ WriteFile \/ Rename \/ WriteMarker \/ RemoveFile
    \/ Fails \/ Crash
    \/ \E off \in BOOLEAN : Start(off)
    \/ \E S \in SUBSET {Root[b] : b \in 1..Last} : HandleOfflinePruning(S)
    \/ \E k \in {{}} \cup {{k} : k \in Key \ {Root[b] : b \in 0..Last}} : Build(k)
    \/ \E to \in Key : DeleteBatch(to)

Spec == Init /\ [][Next]_vars

-----------------------------------------------------------------------------
\* Exception to what follows: a recovery failed, the node went on, and nodes of a block that
\* it flushed then may be deleted in part by the next recovery, which cleans no roots.
Exposed == exposed \cap 0..db.head # {}

\* However often pruning is interrupted, fails and is resumed, and whatever the chain inserts,
\* accepts and commits in between: the state on disk that a start would begin with is whole,
\* because no root that pruning left without its nodes belongs to a block that can still be
\* accepted; and the genesis is never touched.
StartFindsState ==
    /\ State[0] \subseteq db.entries
    /\ ~Exposed => State[Search(db.head)] \subseteq db.entries

\* The state of the last accepted block is there for a node that runs.
HeadStateKept ==
    pc \in {"run", "open", "prune", "build", "write", "rename"} /\ ~Exposed =>
        State[db.head] \subseteq db.entries \cup Dirty

\* When a session reports success nothing is left but what its filter holds, even if an
\* earlier session had begun the deletions.
StaleGone == pc = "remove" => db.entries \subseteq bloom

\* A filter in its final place is complete and was made for a state that was the head's then.
FilterComplete ==
    file.kind = "final" => \A b \in 0..Last : Root[b] = file.root => State[b] \cup State[0] \subseteq file.bloom

Safety == StartFindsState /\ HeadStateKept /\ StaleGone /\ FilterComplete
=============================================================================
