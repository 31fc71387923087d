---------------------------- MODULE PopulateTries ----------------------------
(***************************************************************************)
(* Filling the gaps in the tries of an archive node at its start           *)
(* (core/blockchain.go: populateMissingTries), over the iterator that      *)
(* reads blocks ahead with several threads and hands them out in order     *)
(* (core/blockchain_iterator.go). The iterator's channels are unbuffered,  *)
(* its buffer is indexed by height modulo its size, and the same thread    *)
(* gives out the heights and takes in the blocks. The node may crash at    *)
(* any step and starts again.                                              *)
(***************************************************************************)
EXTENDS Integers, FiniteSets

CONSTANTS
  Last,          \* height of the last accepted block
  From,          \* PopulateMissingTries
  Root,          \* [0 .. Last -> state roots], empty blocks keeping their parent's
  Stored,        \* roots on disk at first
  NoBlock,       \* heights whose block is missing
  Reader,        \* the reading threads
  MaxCrashes

VARIABLES
  disk,      \* roots on disk
  marker,    \* the populate-missing-tries marker
  main,      \* [pc, i, block, has]
  it,        \* [next, toRead, blocks]: blocks is the buffer, by height modulo its size
  reader,    \* [Reader -> [pc, height, has]]
  closed,
  crashes

vars == <<disk, marker, main, it, reader, closed, crashes>>

Parallelism == Cardinality(Reader)

StartHeight == IF From = 0 THEN 1 ELSE From

Empty == [height |-> -1, has |-> FALSE]

NewReader == [pc |-> "read", height |-> -1, has |-> FALSE]

\* newBlockChainIterator
NewMain == [pc |-> "populate", i |-> StartHeight, block |-> Empty]

NewIterator == [next |-> StartHeight, toRead |-> StartHeight,
                blocks |-> [k \in 0 .. Parallelism - 1 |-> Empty]]

Init ==
  /\ disk = Stored /\ marker = FALSE
  /\ main = NewMain /\ it = NewIterator
  /\ reader = [r \in Reader |-> NewReader]
  /\ closed = FALSE /\ crashes = 0

-----------------------------------------------------------------------------
(* The threads that read *)

Fetch(r) ==
  /\ reader[r].pc = "fetch"
  /\ reader' = [reader EXCEPT ![r].pc = "send", ![r].has = Root[reader[r].height] \in disk]
  /\ UNCHANGED <<disk, marker, main, it, closed, crashes>>

ReaderExits(r) ==
  /\ closed /\ reader[r].pc \in {"read", "send"}
  /\ reader' = [reader EXCEPT ![r].pc = "done"]
  /\ UNCHANGED <<disk, marker, main, it, closed, crashes>>

-----------------------------------------------------------------------------
(* populateReaders, Next *)

\* (A variant that gives out one height more.)
WindowAndOne == it.next + Parallelism + 1

MaxHeightToRead == it.next + Parallelism

MoreToRead == it.toRead <= Last /\ it.toRead < MaxHeightToRead

\* A height is given to a thread that is waiting for one.
GiveHeight(r) ==
  /\ main.pc \in {"populate", "refill"} /\ MoreToRead
  /\ reader[r].pc = "read"
  /\ reader' = [reader EXCEPT ![r] = [pc |-> "fetch", height |-> it.toRead, has |-> FALSE]]
  /\ it' = [it EXCEPT !.toRead = @ + 1]
  /\ UNCHANGED <<disk, marker, main, closed, crashes>>

Populated ==
  /\ main.pc \in {"populate", "refill"} /\ ~ MoreToRead
  /\ main' = [main EXCEPT !.pc = IF @ = "refill" THEN "process"
                                 ELSE IF main.i < Last THEN "next" ELSE "finish"]
  /\ UNCHANGED <<disk, marker, it, reader, closed, crashes>>

\* (A variant that takes each block that arrives for the next one.)
PlaceOfNext(height) == it.next % Parallelism

Place(height) == height % Parallelism

\* The block is in the buffer.
Next1 ==
  /\ main.pc = "next"
  /\ it.blocks[Place(it.next)] # Empty
  /\ main' = [main EXCEPT !.pc = "refill", !.block = it.blocks[Place(it.next)]]
  /\ it' = [it EXCEPT !.blocks[Place(it.next)] = Empty, !.next = @ + 1]
  /\ UNCHANGED <<disk, marker, reader, closed, crashes>>

\* A block is taken from a thread; a missing one stops the iterator.
TakeBlock(r) ==
  /\ main.pc = "next" /\ reader[r].pc = "send"
  /\ it.blocks[Place(it.next)] = Empty
  /\ reader' = [reader EXCEPT ![r].pc = "read"]
  /\ IF reader[r].height \in NoBlock
     THEN /\ closed' = TRUE
          /\ main' = [main EXCEPT !.pc = "failing"]
          /\ UNCHANGED it
     ELSE /\ it' = [it EXCEPT !.blocks[Place(reader[r].height)] =
                      [height |-> reader[r].height, has |-> reader[r].has]]
          /\ UNCHANGED <<main, closed>>
  /\ UNCHANGED <<disk, marker, crashes>>

-----------------------------------------------------------------------------
(* populateMissingTries *)

\* The block processed on its parent's state, and its trie committed, if it was not there.
Process ==
  /\ main.pc = "process"
  /\ IF main.block.has
     THEN /\ main' = [main EXCEPT !.pc = "populate", !.i = @ + 1]
          /\ UNCHANGED <<disk, closed>>
     ELSE IF Root[main.i - 1] \notin disk
     THEN /\ main' = [main EXCEPT !.pc = "failing"] /\ closed' = TRUE
          /\ UNCHANGED disk
     ELSE /\ disk' = disk \cup {Root[main.block.height]}
          /\ main' = [main EXCEPT !.pc = "populate", !.i = @ + 1]
          /\ UNCHANGED closed
  /\ UNCHANGED <<marker, it, reader, crashes>>

\* The marker, then the deferred stop.
Finish ==
  /\ main.pc = "finish"
  /\ marker' = TRUE /\ closed' = TRUE
  /\ main' = [main EXCEPT !.pc = "stopping"]
  /\ UNCHANGED <<disk, it, reader, crashes>>

Stopped ==
  /\ main.pc \in {"stopping", "failing"}
  /\ \A r \in Reader : reader[r].pc = "done"
  /\ main' = [main EXCEPT !.pc = IF @ = "failing" THEN "failed" ELSE "done"]
  /\ UNCHANGED <<disk, marker, it, reader, closed, crashes>>

Crash ==
  /\ crashes < MaxCrashes
  /\ crashes' = crashes + 1
  /\ main' = NewMain /\ it' = NewIterator /\ closed' = FALSE
  /\ reader' = [r \in Reader |-> NewReader]
  /\ UNCHANGED <<disk, marker>>

MainStep ==
  \/ \E r \in Reader : GiveHeight(r) \/ TakeBlock(r)
  \/ Populated \/ Next1 \/ Process \/ Finish \/ Stopped

ReaderStep(r) == Fetch(r) \/ ReaderExits(r)

Next == MainStep \/ (\E r \in Reader : ReaderStep(r)) \/ Crash

Fairness == WF_vars(MainStep) /\ \A r \in Reader : WF_vars(ReaderStep(r))

Spec == Init /\ [][Next]_vars /\ Fairness

-----------------------------------------------------------------------------
(* Properties *)

\* The blocks come one by one from the start, whatever the order they were read in;
\* none overwrites another in the buffer; and what is said of a block's trie is true.
InOrder ==
  /\ main.pc \in {"refill", "process"} =>
       /\ main.block.height = main.i
       /\ main.block.has => Root[main.i] \in disk
  /\ \A k \in DOMAIN it.blocks : it.blocks[k] # Empty =>
       it.blocks[k].height \in it.next .. it.next + Parallelism - 1

\* When the marker is on disk so is every trie from the start to the last accepted
\* block, whose own was there before.
MarkerMeansAll ==
  marker /\ Root[Last] \in Stored => \A h \in StartHeight .. Last : Root[h] \in disk

\* It fails only on a missing block, or if the trie to begin with is missing.
FailsForReason ==
  main.pc \in {"failing", "failed"} =>
    \/ \E h \in NoBlock : h >= StartHeight
    \/ Root[StartHeight - 1] \notin Stored

Safety == InOrder /\ MarkerMeansAll /\ FailsForReason

\* It ends: the thread that both gives out heights and takes in blocks never waits for
\* a reader that waits for it.
Owed == main.pc \notin {"done", "failed"}
PopulatingEnds == []<>~Owed

=============================================================================
