----------------------------- MODULE ChainTracer -----------------------------
(***************************************************************************)
(* Tracing a range of blocks (eth/tracers/api.go: traceChain, tracker.go,  *)
(* and eth/state_accessor.go): a feeder makes the state before each block  *)
(* from the state before the last one, tracers take the blocks from a      *)
(* channel and trace them, a catcher puts the results in order. A state    *)
(* holds trie nodes until it is released. Releases are kept by the tracker *)
(* and called by the feeder, after the next state has been made. The       *)
(* subscriber may go away at any time.                                     *)
(*                                                                         *)
(* State n is the one after block n, on which block n + 1 is traced. It is *)
(* read from disk, and then holds nothing, or made by processing block n   *)
(* on state n - 1, in memory.                                              *)
(***************************************************************************)
EXTENDS Integers, Sequences, FiniteSets, SequencesExt

CONSTANTS
  Start, End,   \* block Start + 1 to block End are traced
  Tracer,       \* the tracing threads
  Limit,        \* maximumPendingTraceStates
  OnDisk,       \* the states that are on disk
  EmptyBlock    \* the blocks without transactions

VARIABLES
  feeder,    \* [pc, number, base, failed]
  taskCh,    \* states, with the block on top
  tracer,    \* [Tracer -> [pc, n]]
  resCh,
  catcher,   \* [pc, next, done]
  out,       \* the blocks streamed to the subscriber
  tracker,   \* [oldest, used, releases]
  held,      \* the states that hold nodes in memory
  closed

vars == <<feeder, taskCh, tracer, resCh, catcher, out, tracker, held, closed>>

Threads == Cardinality(Tracer)

Init ==
  /\ feeder = [pc |-> "check", number |-> Start, base |-> -1, failed |-> FALSE]
  /\ taskCh = <<>> /\ resCh = <<>> /\ out = <<>>
  /\ tracer = [t \in Tracer |-> [pc |-> "range", n |-> -1]]
  /\ catcher = [pc |-> "range", next |-> Start + 1, done |-> {}]
  /\ tracker = [oldest |-> Start, used |-> {}, releases |-> {}]
  /\ held = {} /\ closed = FALSE

-----------------------------------------------------------------------------
(* The tracker *)

RECURSIVE OldestUnused(_, _)
OldestUnused(n, used) == IF n \in used THEN OldestUnused(n + 1, used) ELSE n

releaseState(t, n) ==
  LET used == t.used \cup {n}
      old  == IF n = t.oldest THEN OldestUnused(n, used) ELSE t.oldest
  IN  [oldest |-> old, used |-> {u \in used : u >= old}, releases |-> t.releases \cup {n}]

callReleases ==
  /\ held' = held \ tracker.releases
  /\ tracker' = [tracker EXCEPT !.releases = {}]

-----------------------------------------------------------------------------
(* The feeder *)

FeederAt(pc) == feeder.pc = pc

Goto(pc) == feeder' = [feeder EXCEPT !.pc = pc]

\* Leaving the loop: at its end, because the subscriber left, or on an error.
Check ==
  /\ FeederAt("check")
  /\ IF feeder.number = End \/ closed THEN Goto("exit")
     ELSE \/ Goto("wait")
          \/ feeder' = [feeder EXCEPT !.pc = "exit", !.failed = TRUE]
  /\ UNCHANGED <<taskCh, tracer, resCh, catcher, out, tracker, held, closed>>

\* (A variant that lets one state too many be made.)
OneMore(n) == n <= tracker.oldest + Limit

\* tracker.wait: the flags have room for the state.
MayCreate(n) == n < tracker.oldest + Limit

Wait ==
  /\ FeederAt("wait") /\ MayCreate(feeder.number)
  /\ Goto("build")
  /\ UNCHANGED <<taskCh, tracer, resCh, catcher, out, tracker, held, closed>>

\* StateAtNextBlock, hashState: from disk when there is no base, or when the
\* memory is full and it is there.
Build ==
  /\ FeederAt("build")
  /\ \/ /\ feeder.number \in OnDisk
        /\ held' = held
        /\ feeder' = [feeder EXCEPT !.pc = "release", !.base = feeder.number]
     \/ /\ feeder.base # -1
        /\ held' = held \cup {feeder.number}
        /\ feeder' = [feeder EXCEPT !.pc = "release", !.base = feeder.number]
     \/ /\ feeder' = [feeder EXCEPT !.pc = "exit", !.failed = TRUE]
        /\ held' = held
  /\ UNCHANGED <<taskCh, tracer, resCh, catcher, out, tracker, closed>>

CallReleases ==
  /\ FeederAt("release")
  /\ callReleases
  /\ Goto("send")
  /\ UNCHANGED <<taskCh, tracer, resCh, catcher, out, closed>>

Send ==
  /\ FeederAt("send")
  /\ \/ /\ Len(taskCh) < Threads
        /\ taskCh' = Append(taskCh, feeder.number)
        /\ feeder' = [feeder EXCEPT !.pc = "check", !.number = @ + 1]
        /\ UNCHANGED tracker
     \/ /\ closed
        /\ tracker' = releaseState(tracker, feeder.number)
        /\ Goto("exit")
        /\ UNCHANGED taskCh
  /\ UNCHANGED <<tracer, resCh, catcher, out, held, closed>>

\* The deferred function: the channel closed, the tracers joined.
Exit ==
  /\ FeederAt("exit")
  /\ Goto("join")
  /\ UNCHANGED <<taskCh, tracer, resCh, catcher, out, tracker, held, closed>>

Join ==
  /\ FeederAt("join")
  /\ \A t \in Tracer : tracer[t].pc = "done"
  /\ callReleases
  /\ Goto("done")
  /\ UNCHANGED <<taskCh, tracer, resCh, catcher, out, closed>>

FeederStep == Check \/ Wait \/ Build \/ CallReleases \/ Send \/ Exit \/ Join

-----------------------------------------------------------------------------
(* A tracer *)

Take(t) ==
  /\ tracer[t].pc = "range"
  /\ IF taskCh # <<>>
     THEN /\ tracer' = [tracer EXCEPT ![t] = [pc |-> "trace", n |-> Head(taskCh)]]
          /\ taskCh' = Tail(taskCh)
     ELSE /\ FeederAt("join")
          /\ tracer' = [tracer EXCEPT ![t].pc = "done"]
          /\ UNCHANGED taskCh
  /\ UNCHANGED <<feeder, resCh, catcher, out, tracker, held, closed>>

\* The transactions traced, with an error or without, and the state queued.
Trace(t) ==
  /\ tracer[t].pc = "trace"
  /\ tracker' = releaseState(tracker, tracer[t].n)
  /\ tracer' = [tracer EXCEPT ![t].pc = "send"]
  /\ UNCHANGED <<feeder, taskCh, resCh, catcher, out, held, closed>>

Result(t) ==
  /\ tracer[t].pc = "send"
  /\ \/ /\ Len(resCh) < Threads
        /\ resCh' = Append(resCh, tracer[t].n + 1)
        /\ tracer' = [tracer EXCEPT ![t].pc = "range"]
     \/ /\ closed
        /\ tracer' = [tracer EXCEPT ![t].pc = "done"]
        /\ UNCHANGED resCh
  /\ UNCHANGED <<feeder, taskCh, catcher, out, tracker, held, closed>>

TracerStep(t) == Take(t) \/ Trace(t) \/ Result(t)

-----------------------------------------------------------------------------
(* The catcher *)

RECURSIVE Ready(_, _)
Ready(next, done) == IF next \in done THEN {next} \cup Ready(next + 1, done) ELSE {}

Streamed(ready) == SetToSortSeq({b \in ready : b \notin EmptyBlock \/ b = End}, <)

Catch ==
  /\ catcher.pc = "range" /\ resCh # <<>>
  /\ LET done  == catcher.done \cup {Head(resCh)}
         ready == Ready(catcher.next, done)
     IN  /\ catcher' = [catcher EXCEPT !.next = @ + Cardinality(ready), !.done = done \ ready]
         /\ out' = out \o Streamed(ready)
  /\ resCh' = Tail(resCh)
  /\ UNCHANGED <<feeder, taskCh, tracer, tracker, held, closed>>

CatcherEnds ==
  /\ catcher.pc = "range" /\ resCh = <<>> /\ FeederAt("done")
  /\ catcher' = [catcher EXCEPT !.pc = "done"]
  /\ UNCHANGED <<feeder, taskCh, tracer, resCh, out, tracker, held, closed>>

Leave ==
  /\ ~ closed
  /\ closed' = TRUE
  /\ UNCHANGED <<feeder, taskCh, tracer, resCh, catcher, out, tracker, held>>

Next ==
  FeederStep \/ (\E t \in Tracer : TracerStep(t)) \/ Catch \/ CatcherEnds \/ Leave

Fairness ==
  /\ WF_vars(FeederStep)
  /\ \A t \in Tracer : WF_vars(TracerStep(t))
  /\ WF_vars(Catch \/ CatcherEnds)

Spec == Init /\ [][Next]_vars /\ Fairness

-----------------------------------------------------------------------------
(* Properties *)

InUse == {tracer[t].n : t \in {u \in Tracer : tracer[u].pc = "trace"}} \cup ToSet(taskCh)

\* The flag of a state has a place: the state is not below the oldest, and less
\* than the limit above it.
FlagInRange ==
  \A n \in InUse : n \in tracker.oldest .. tracker.oldest + Limit - 1

\* No state is up for release, or released, that a block is still to be traced
\* on; and the state the next one is made from is there when it is made.
NotTooEarly ==
  /\ InUse \cap tracker.releases = {}
  /\ InUse \subseteq held \cup OnDisk
  /\ FeederAt("build") /\ feeder.base # -1 => feeder.base \in held \cup OnDisk

\* The subscriber gets the blocks in order, none twice and none left out, and
\* when nobody interferes all of them.
InOrder ==
  /\ \A i \in 1 .. Len(out) - 1 : out[i] < out[i + 1]
  /\ (Start + 1 .. catcher.next - 1) \ EmptyBlock \subseteq ToSet(out)
  /\ catcher.pc = "done" /\ ~ closed =>
       /\ catcher.done = {} /\ catcher.next = feeder.number + 1
       /\ ~ feeder.failed => feeder.number = End

\* At the end what still holds nodes are the states of the tasks that no tracer
\* took, because the subscriber left.
ReleasedButQueued ==
  FeederAt("done") =>
    held \subseteq ToSet(taskCh) /\ (taskCh # <<>> => closed)

Safety == FlagInRange /\ NotTooEarly /\ InOrder /\ ReleasedButQueued

\* The tracing ends, whether the subscriber stays or leaves, with fewer threads
\* than states that may be pending.
Owed == catcher.pc # "done"
TracingEnds == []<>~Owed

=============================================================================
