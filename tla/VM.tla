--------------------------------- MODULE VM ---------------------------------
(***************************************************************************)
(* The VM around the chain (plugin/evm/vm.go, wrapped_block.go, the atomic *)
(* VM's lifecycle in plugin/evm/atomic/vm/vm.go) and the two ways of       *)
(* importing a chain: the start-up import and admin_importChain.           *)
(*                                                                         *)
(* The last accepted block is recorded three times: in acceptedBlockDB     *)
(* (behind a versiondb, so first pending and then on disk), in the chain   *)
(* (bc.lastAccepted) and in chain.State, which is what the engine goes by. *)
(* The engine's calls come one at a time, an import and its callback run   *)
(* beside them.                                                            *)
(***************************************************************************)
EXTENDS Naturals, Sequences, SequencesExt, FiniteSets

CONSTANTS
  Block, Genesis, Parent,   \* the tree of blocks: Parent \in [Block \ {Genesis} -> Block]
  Contexts, ValidIn,        \* ValidIn[b]: where b's predicate results are right
  Bad,                      \* the blocks that fail execution
  Files, Configured,        \* what can be imported; what Initialize may find configured
  MaxImports, MaxCrashes, MaxReady

VARIABLES
  node,     \* the process: its phase, its two bootstrapped flags, its goroutines
  chain,    \* core.BlockChain: known blocks, trie references, head, lastAccepted
  ext,      \* the atomic backend's verified states
  state,    \* chain.State: lastAccepted and the processing blocks
  vdb,      \* acceptedBlockDB: pending and on disk
  eng,      \* the Accept under way
  imp,      \* the admin_importChain under way
  calls,    \* the post-import callbacks under way
  ghost     \* what the properties remember

vars == <<node, chain, ext, state, vdb, eng, imp, calls, ghost>>

None == "none"
Idle == [pc |-> "idle", blk |-> None]

Lineage[b \in Block] == IF b = Genesis THEN {b} ELSE {b} \cup Lineage[Parent[b]]

Height(b) == Cardinality(Lineage[b]) - 1

-----------------------------------------------------------------------------
(* Starting *)

NewNode == [phase |-> "down", outer |-> FALSE, inner |-> FALSE, builder |-> FALSE,
            live |-> {}, cancelled |-> {}, cancel |-> [outer |-> 0, inner |-> 0],
            next |-> 1, readies |-> 0, waiter |-> FALSE, closed |-> FALSE]

NewChain(known, last) ==
  [known |-> known, refs |-> [b \in Block |-> 0], head |-> last, last |-> last]

NewState(last) == [last |-> last, processing |-> {}]

Init ==
  /\ node = NewNode
  /\ chain = NewChain({Genesis}, Genesis)
  /\ ext = {}
  /\ state = NewState(Genesis)
  /\ vdb = [disk |-> Genesis, pend |-> None]
  /\ eng = Idle
  /\ imp = [pc |-> "idle", file |-> <<>>, last |-> None]
  /\ calls = {}
  /\ ghost = [raced |-> FALSE, rlp |-> FALSE, rewound |-> FALSE, fatal |-> FALSE,
              accepted |-> {Genesis}, applied |-> {Genesis}, durable |-> {Genesis},
              imported |-> {}, imports |-> 0, crashes |-> 0]

Stored == IF vdb.pend = None THEN vdb.disk ELSE vdb.pend

\* InsertChain stops at the first block that fails.
Inserted(file) ==
  LET bad == {i \in DOMAIN file : file[i] \in Bad}
  IN  IF bad = {} THEN file ELSE SubSeq(file, 1, (CHOOSE i \in bad : \A j \in bad : i <= j) - 1)

\* insertBlock makes a block the head only when it extends the head.
HeadAfter(head, blocks) ==
  FoldLeft(LAMBDA h, b : IF Parent[b] = h THEN b ELSE h, head, blocks)

RefsAfter(refs, blocks) == [b \in Block |-> refs[b] + (IF b \in ToSet(blocks) THEN 1 ELSE 0)]

\* Blocks at or below the head's height are skipped by the start-up import.
NotYet(file) == SelectSeq(file, LAMBDA b : Height(b) > Height(Stored))

\* Initialize without an import: everything in memory starts from what
\* ReadLastAccepted finds.
Initialize ==
  /\ node.phase = "down"
  /\ node' = [NewNode EXCEPT !.phase = "up", !.next = node.next]
  /\ chain' = NewChain(chain.known, vdb.disk)
  /\ ext' = {}
  /\ state' = NewState(vdb.disk)
  /\ UNCHANGED <<vdb, eng, imp, calls, ghost>>

\* import-chain-data names a database: its content is copied and its last
\* block put into acceptedBlockDB before the chain is opened. The put is not
\* committed.
InitializeFromDatabase ==
  /\ node.phase = "down"
  /\ \E file \in Configured :
       LET last == Last(file)
       IN  /\ node' = [NewNode EXCEPT !.phase = "up", !.next = node.next]
           /\ chain' = NewChain(chain.known \cup ToSet(file), last)
           /\ state' = NewState(last)
           /\ vdb' = [vdb EXCEPT !.pend = last]
           /\ ghost' = [ghost EXCEPT !.rewound = @ \/ vdb.disk \notin Lineage[last],
                                     !.durable = @ \cup ToSet(file),
                                     !.imported = @ \cup ToSet(file)]
  /\ ext' = {}
  /\ UNCHANGED <<eng, imp, calls>>

\* import-chain-data names an RLP file: it is inserted after the chain and
\* chain.State are there. The state is committed, acceptedBlockDB written and
\* committed, and the post-import callback called, which refreshes chain.State.
\* bc.lastAccepted keeps what it was opened with. The atomic backend does not
\* exist yet, so no verified state is left behind.
InitializeFromRLP ==
  /\ node.phase = "down"
  /\ \E file \in Configured :
       LET in   == Inserted(NotYet(file))
           head == HeadAfter(vdb.disk, in)
       IN  /\ in # <<>>
           /\ node' = [NewNode EXCEPT !.phase = "up", !.next = node.next]
           /\ chain' = [NewChain(chain.known \cup ToSet(in), vdb.disk) EXCEPT
                          !.head = head, !.refs = RefsAfter(@, in)]
           /\ state' = NewState(head)
           /\ vdb' = [disk |-> head, pend |-> None]
           /\ ghost' = [ghost EXCEPT !.rlp = TRUE, !.durable = @ \cup {head},
                                     !.imported = @ \cup ToSet(in)]
  /\ ext' = {}
  /\ UNCHANGED <<eng, imp, calls>>

\* The process dies: only the database is left.
Crash ==
  /\ node.phase # "down"
  /\ ghost.crashes < MaxCrashes
  /\ node' = [NewNode EXCEPT !.next = node.next]
  /\ vdb' = [vdb EXCEPT !.pend = None]
  /\ eng' = Idle
  /\ imp' = [pc |-> "idle", file |-> <<>>, last |-> None]
  /\ calls' = {}
  /\ ghost' = [ghost EXCEPT !.rlp = FALSE, !.fatal = FALSE, !.crashes = @ + 1]
  /\ UNCHANGED <<chain, ext, state>>

-----------------------------------------------------------------------------
(* The lifecycle the engine drives *)

Up == node.phase = "up" /\ ~ ghost.fatal

\* SetState(Syncing) and SetState(Bootstrapping) clear both flags.
NotReady ==
  /\ Up
  /\ node.outer \/ node.inner
  /\ node' = [node EXCEPT !.outer = FALSE, !.inner = FALSE]
  /\ UNCHANGED <<chain, ext, state, vdb, eng, imp, calls, ghost>>

\* SetState(Ready): each of the two VMs sets its flag, makes a context, keeps
\* its cancel function and starts goroutines under it. Coming back to Ready, a
\* start may fail before the goroutines are there (its metrics are registered
\* already, which it meets first); the flag and the new cancel function stay.
ReadyOuter(fails) ==
  /\ Up /\ ~ node.outer /\ node.readies < MaxReady
  /\ fails => node.cancel.outer > 0
  /\ node' = [node EXCEPT !.outer = TRUE, !.cancel.outer = node.next, !.next = @ + 1,
                          !.live = IF fails THEN @ ELSE @ \cup {node.next},
                          !.readies = @ + 1]
  /\ UNCHANGED <<chain, ext, state, vdb, eng, imp, calls, ghost>>

ReadyInner(fails) ==
  /\ Up /\ node.outer /\ ~ node.inner
  /\ fails => node.cancel.inner > 0
  /\ node' = [node EXCEPT !.inner = TRUE, !.cancel.inner = node.next, !.next = @ + 1,
                          !.live = IF fails THEN @ ELSE @ \cup {node.next},
                          !.builder = @ \/ ~ fails]
  /\ UNCHANGED <<chain, ext, state, vdb, eng, imp, calls, ghost>>

SetState ==
  \/ NotReady
  \/ \E fails \in BOOLEAN : ReadyOuter(fails) \/ ReadyInner(fails)

\* WaitForEvent called while there is no builder waits for the end of a state
\* sync or for the shutdown.
WaitForEvent ==
  /\ Up /\ ~ node.builder /\ ~ node.waiter
  /\ node' = [node EXCEPT !.waiter = TRUE]
  /\ UNCHANGED <<chain, ext, state, vdb, eng, imp, calls, ghost>>

EventWaited ==
  /\ node.waiter /\ node.closed
  /\ node' = [node EXCEPT !.waiter = FALSE]
  /\ UNCHANGED <<chain, ext, state, vdb, eng, imp, calls, ghost>>

\* A gossip goroutine returns once its context is cancelled.
WorkerEnds ==
  /\ \E w \in node.live \cap node.cancelled : node' = [node EXCEPT !.live = @ \ {w}]
  /\ UNCHANGED <<chain, ext, state, vdb, eng, imp, calls, ghost>>


\* (A variant that leaves the inner VM's goroutines running.)
CancelOuterOnly == {node.cancel.outer}

Cancelled == {node.cancel.outer, node.cancel.inner} \ {0}

\* Shutdown of the atomic VM and, inside it, of the inner one: both contexts
\* are cancelled, the network and the sync client shut down, the shutdown
\* channel is closed, the RPC servers and the Ethereum service are stopped.
Shutdown ==
  /\ Up /\ eng = Idle
  /\ node' = [node EXCEPT !.phase = "stopping", !.cancelled = @ \cup Cancelled,
                          !.closed = TRUE]
  /\ UNCHANGED <<chain, ext, state, vdb, eng, imp, calls, ghost>>

\* shutdownWg.Wait, of the inner VM and then of the outer one: every goroutine
\* ever started has to return.
ShutdownReturns ==
  /\ node.phase = "stopping" /\ node.live = {}
  /\ node' = [node EXCEPT !.phase = "stopped"]
  /\ UNCHANGED <<chain, ext, state, vdb, eng, imp, calls, ghost>>

-----------------------------------------------------------------------------
(* Blocks *)

InFlight == imp.pc # "idle" \/ calls # {}

\* verifyPredicates only runs in normal operation.
Predicates(b, ctx) == node.inner => ctx \in ValidIn[b]

\* InsertBlockManual: executing the block leaves a verified state with the
\* atomic backend, which is cleaned up if nothing was to be written or the
\* block is bad. A written block gets a trie reference that Accept or Reject
\* takes back.
Insert(b, writes) ==
  IF b \in Bad \/ ~ writes
  THEN /\ ext' = ext \ {b}
       /\ UNCHANGED chain
  ELSE /\ ext' = ext \cup {b}
       /\ chain' = [chain EXCEPT !.known = @ \cup {b}, !.refs[b] = @ + 1,
                                 !.head = HeadAfter(@, <<b>>)]

\* (A variant that inserts a block again for every context it is verified in.)
NeverSkips(b) == FALSE

\* IsProcessing: the block is already in, only its predicates were of interest.
Skips(b) == b \in state.processing

\* Verify and VerifyWithContext, from the engine: chain.State then holds the
\* block as processing.
Verify(b, ctx) ==
  /\ Up /\ eng = Idle
  /\ b # Genesis /\ Parent[b] \in {state.last} \cup state.processing
  /\ Parent[b] \in chain.known
  /\ Predicates(b, ctx)
  /\ IF Skips(b) THEN UNCHANGED <<chain, ext>> ELSE Insert(b, TRUE)
  /\ state' = [state EXCEPT !.processing = IF b \in Bad THEN @ ELSE @ \cup {b}]
  /\ ghost' = [ghost EXCEPT !.raced = @ \/ InFlight]
  /\ UNCHANGED <<node, vdb, eng, imp, calls>>

\* buildBlock: a block on the head, verified without writing it.
Build(b, ctx) ==
  /\ Up /\ node.builder
  /\ b # Genesis /\ Parent[b] = chain.head
  /\ Predicates(b, ctx)
  /\ IF Skips(b) THEN UNCHANGED <<chain, ext>> ELSE Insert(b, FALSE)
  /\ UNCHANGED <<node, state, vdb, eng, imp, calls, ghost>>

SetPreference(b) ==
  /\ Up /\ eng = Idle
  /\ b \in state.processing \cup {state.last}
  /\ chain.last \in Lineage[b]
  /\ chain' = [chain EXCEPT !.head = b]
  /\ UNCHANGED <<node, ext, state, vdb, eng, imp, calls, ghost>>

\* wrappedBlock.Accept, first part. chain.State (external) moves its own record
\* first; the precompiles see the logs; then the chain accepts, which fails
\* when its own last accepted block is not the parent. The engine takes a
\* failure as fatal; one of a later step is like a crash there.
Accept(b) ==
  /\ Up /\ eng = Idle
  /\ b \in state.processing /\ Parent[b] = state.last
  /\ state' = [last |-> b, processing |-> state.processing \ {b}]
  /\ IF chain.last # Parent[b]
     THEN /\ ghost' = [ghost EXCEPT !.fatal = TRUE, !.raced = @ \/ InFlight]
          /\ UNCHANGED <<chain, eng>>
     ELSE /\ chain' = [chain EXCEPT !.last = b, !.refs[b] = @ - 1,
                                    !.head = IF b \in Lineage[@] THEN @ ELSE b]
          /\ eng' = [pc |-> "put", blk |-> b]
          /\ ghost' = [ghost EXCEPT !.raced = @ \/ InFlight]
  /\ UNCHANGED <<node, ext, vdb, imp, calls>>

\* PutLastAcceptedID
AcceptPut ==
  /\ eng.pc = "put"
  /\ vdb' = [vdb EXCEPT !.pend = eng.blk]
  /\ eng' = [eng EXCEPT !.pc = "batch"]
  /\ UNCHANGED <<node, chain, ext, state, imp, calls, ghost>>

\* CommitBatch and the extension's Accept: one write holds the record and the
\* block's atomic operations. The deferred Abort clears what is pending.
AcceptWrite ==
  /\ eng.pc = "batch"
  /\ vdb' = [disk |-> Stored, pend |-> None]
  /\ ext' = ext \ {eng.blk}
  /\ eng' = Idle
  /\ ghost' = [ghost EXCEPT !.accepted = @ \cup {eng.blk}, !.applied = @ \cup {eng.blk},
                            !.durable = IF Parent[eng.blk] \in @ THEN @ \cup {eng.blk} ELSE @]
  /\ UNCHANGED <<node, chain, state, imp, calls>>

\* Reject of a block that can no longer be accepted.
Reject(b) ==
  /\ Up /\ eng = Idle
  /\ b \in state.processing /\ state.last \notin Lineage[b]
  /\ state' = [state EXCEPT !.processing = @ \ {b}]
  /\ ext' = ext \ {b}
  /\ chain' = [chain EXCEPT !.refs[b] = @ - 1]
  /\ UNCHANGED <<node, vdb, eng, imp, calls, ghost>>

-----------------------------------------------------------------------------
(* admin_importChain *)

Import ==
  /\ Up /\ imp.pc = "idle" /\ ghost.imports < MaxImports
  /\ \E file \in Files : imp' = [pc |-> "insert", file |-> file, last |-> None]
  /\ ghost' = [ghost EXCEPT !.imports = @ + 1,
                            !.raced = @ \/ calls # {} \/ eng # Idle \/ state.processing # {}]
  /\ UNCHANGED <<node, chain, ext, state, vdb, eng, calls>>

\* The batches. A block that fails ends the import with an error, what was
\* inserted before it stays.
ImportInsert ==
  /\ imp.pc = "insert" /\ node.phase = "up"
  /\ Parent[Head(imp.file)] \in chain.known
  /\ LET in == Inserted(imp.file)
     IN  /\ chain' = [chain EXCEPT !.known = @ \cup ToSet(in), !.refs = RefsAfter(@, in),
                                   !.head = HeadAfter(@, in)]
         /\ ext' = ext \cup ToSet(in)
         /\ ghost' = [ghost EXCEPT !.imported = @ \cup ToSet(in)]
         /\ imp' = IF in = imp.file
                   THEN [imp EXCEPT !.pc = "direct", !.last = Last(in)]
                   ELSE [imp EXCEPT !.pc = "idle"]
  /\ UNCHANGED <<node, state, vdb, eng, calls>>

\* SetLastAcceptedBlockDirect, which does not ask what was accepted before.
ImportDirect ==
  /\ imp.pc = "direct" /\ node.phase = "up"
  /\ chain' = [chain EXCEPT !.last = imp.last, !.head = imp.last]
  /\ imp' = [imp EXCEPT !.pc = "commit"]
  /\ ghost' = [ghost EXCEPT !.rewound = @ \/ chain.last \notin Lineage[imp.last]]
  /\ UNCHANGED <<node, ext, state, vdb, eng, calls>>

\* (A variant that starts the callback without committing the state.)
NothingCommitted(durable, b) == durable

Committed(durable, b) == durable \cup {b}

\* AcceptImportedState, then the callback is left to a goroutine.
ImportCommit ==
  /\ imp.pc = "commit" /\ node.phase = "up"
  /\ ghost' = [ghost EXCEPT !.durable = Committed(@, imp.last)]
  /\ calls' = calls \cup {[pc |-> "put", blk |-> imp.last]}
  /\ imp' = [imp EXCEPT !.pc = "idle"]
  /\ UNCHANGED <<node, chain, ext, state, vdb, eng>>

\* The callback: put, commit, then chain.State, which refuses (external) while
\* blocks are processing.
Callback(c) ==
  /\ c \in calls /\ node.phase = "up"
  /\ calls' = (calls \ {c}) \cup
              (CASE c.pc = "put"    -> {[c EXCEPT !.pc = "commit"]}
                 [] c.pc = "commit" -> {[c EXCEPT !.pc = "state"]}
                 [] OTHER           -> {})
  /\ vdb' = CASE c.pc = "put"    -> [vdb EXCEPT !.pend = c.blk]
              [] c.pc = "commit" -> [disk |-> Stored, pend |-> None]
              [] OTHER           -> vdb
  /\ state' = IF c.pc = "state" /\ state.processing = {}
              THEN [state EXCEPT !.last = c.blk] ELSE state
  /\ UNCHANGED <<node, chain, ext, eng, imp, ghost>>

-----------------------------------------------------------------------------

Start == Initialize \/ InitializeFromDatabase \/ InitializeFromRLP

Lifecycle ==
  SetState \/ WaitForEvent \/ EventWaited \/ WorkerEnds \/ Shutdown \/ ShutdownReturns

Blocks ==
  \/ \E b \in Block, ctx \in Contexts : Verify(b, ctx) \/ Build(b, ctx)
  \/ \E b \in Block : SetPreference(b) \/ Accept(b) \/ Reject(b)
  \/ AcceptPut
  \/ AcceptWrite

Imports ==
  Import \/ ImportInsert \/ ImportDirect \/ ImportCommit \/ (\E c \in calls : Callback(c))

Next == Start \/ Crash \/ Lifecycle \/ Blocks \/ Imports

Stops == EventWaited \/ WorkerEnds \/ ShutdownReturns

Spec == Init /\ [][Next]_vars /\ WF_vars(EventWaited) /\ WF_vars(WorkerEnds)
             /\ WF_vars(ShutdownReturns)

-----------------------------------------------------------------------------
(* Properties *)

TypeOK ==
  /\ node.phase \in {"down", "up", "stopping", "stopped"}
  /\ {state.last, chain.last, chain.head, vdb.disk} \subseteq Block
  /\ state.processing \subseteq chain.known /\ ext \subseteq Block

Quiet == node.phase = "up" /\ eng = Idle /\ ~ InFlight /\ ~ ghost.fatal

\* When nothing is under way the three records of the last accepted block
\* agree, across verifications, accepts, imports and crashes. Two cases are
\* apart: an import that ran beside the engine or another import, and the
\* start-up import of an RLP file (see AcceptSucceeds).
ViewsAgree ==
  Quiet /\ ~ ghost.raced =>
    /\ state.last = Stored
    /\ ~ ghost.rlp => chain.last = Stored

\* What acceptedBlockDB names on disk can be started from: its state was
\* committed, or it was accepted on top of a block whose state was. And a
\* block the engine accepted is on disk only together with its atomic
\* operations.
DurableHead ==
  ~ ghost.raced =>
    /\ vdb.disk \in ghost.durable
    /\ vdb.disk \in ghost.applied \cup ghost.imported

\* However often a block is built and verified, in whatever contexts, it holds
\* one trie reference and one verified atomic state while it is processing, and
\* none before or after. (Imported blocks keep theirs.)
OneReference ==
  node.phase = "up" /\ eng = Idle /\ ~ ghost.fatal =>
    \A b \in Block \ ghost.imported :
      LET held == IF b \in state.processing THEN 1 ELSE 0
      IN  chain.refs[b] = held /\ (b \in ext <=> held = 1)

\* A block the engine has accepted stays accepted over any crash and restart,
\* unless a chain was imported that does not contain it.
KeepsAccepted ==
  Quiet /\ ~ ghost.raced /\ ~ ghost.rewound => ghost.accepted \subseteq Lineage[state.last]

\* Accepting fails in no case but the two above.
FatalExplained == ghost.fatal => ghost.raced \/ ghost.rlp

Safety == TypeOK /\ ViewsAgree /\ DurableHead /\ OneReference /\ KeepsAccepted /\ FatalExplained

\* What importRLPBlocks promises: after the callback the engine goes on from
\* the imported tip.
AcceptSucceeds == ghost.fatal => ghost.raced

\* Shutdown returns and whoever waits for an event is released, when normal
\* operation was entered once.
Owed == (node.phase = "stopping" /\ node.readies <= 1) \/ (node.waiter /\ node.closed)
StopReturns == []<>~Owed

=============================================================================
