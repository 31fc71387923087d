----------------------------- MODULE BlockTracer -----------------------------
(***************************************************************************)
(* The tracing calls on one block (eth/tracers/api.go), one after another: *)
(* a whole block, by one thread or by many; the roots between its          *)
(* transactions; its transactions into files; one transaction of it; and a *)
(* call on top of it or within it. All but the last work on the state      *)
(* before the block, which a reference keeps in the live trie database     *)
(* (eth/state_accessor.go). A state is the number of transactions of the   *)
(* block that were applied to it, transaction i (from 0) being traced.     *)
(***************************************************************************)
EXTENDS Integers, Sequences, FiniteSets, SequencesExt

CONSTANTS
  Size,         \* transactions in the block
  Invalid,      \* those that cannot be applied (a block that is not canonical)
  Worker,       \* the threads of traceBlockParallel
  MaxCalls

VARIABLES
  call,       \* [kind, pc, at, i, state]
  jobs,       \* [index, state] of traceBlockParallel
  worker,     \* [Worker -> [pc, index, state]]
  results,    \* [0 .. Size - 1 -> the state a transaction was traced on]
  roots,      \* the states after the transactions
  answer,     \* "none", "ok" or "error"
  refs,       \* references held on the live state
  leaked,     \* of them, the ones whose release nobody has
  cancelled,  \* the request's context
  calls

vars == <<call, jobs, worker, results, roots, answer, refs, leaked, cancelled, calls>>

Kinds == {"block", "parallel", "roots", "files", "fileOf", "tx", "call", "callAt"}

Index == 0 .. Size - 1

NotTraced == -1
Failed == -2

Nobody == [pc |-> "range", index |-> 0, state |-> 0]

Init ==
  /\ call = [kind |-> "block", pc |-> "done", at |-> 0, i |-> 0, state |-> 0]
  /\ jobs = <<>> /\ worker = [w \in Worker |-> Nobody]
  /\ results = [i \in Index |-> NotTraced] /\ roots = <<>> /\ answer = "none"
  /\ refs = 0 /\ leaked = 0 /\ cancelled = FALSE /\ calls = 0

\* The call, with the state before the block, or for a plain call the one after it.
\* A transaction asked for by hash is in the block; an index may be beyond it.
Begin(kind, at) ==
  /\ call.pc = "done" /\ calls < MaxCalls
  /\ at < Size \/ kind = "callAt"
  /\ at = 0 \/ kind \in {"fileOf", "tx", "callAt"}
  /\ call' = [kind |-> kind, at |-> at, i |-> 0,
              pc |-> IF kind = "call" THEN "config" ELSE "run",
              state |-> IF kind = "call" THEN Size ELSE 0]
  /\ refs' = refs + 1
  /\ worker' = [w \in Worker |-> Nobody]
  /\ results' = [i \in Index |-> NotTraced] /\ roots' = <<>> /\ answer' = "none"
  /\ calls' = calls + 1 /\ cancelled' = FALSE
  /\ UNCHANGED <<jobs, leaked>>

\* The return of a call that deferred its release.
Return(a) ==
  /\ call' = [call EXCEPT !.pc = "done"]
  /\ answer' = a
  /\ refs' = refs - 1

Applied == call' = [call EXCEPT !.state = @ + 1, !.i = @ + 1]

Running(kinds) == call.pc = "run" /\ call.kind \in kinds

-----------------------------------------------------------------------------
(* One thread *)

\* traceBlock: a transaction that fails, or whose trace is stopped by the timeout,
\* ends the call.
TraceBlock ==
  /\ Running({"block"})
  /\ UNCHANGED <<jobs, worker, roots, leaked, cancelled, calls>>
  /\ \/ call.i = Size /\ Return("ok") /\ UNCHANGED results
     \/ call.i < Size /\ Return("error") /\ UNCHANGED results
     \/ /\ call.i < Size /\ call.i \notin Invalid
        /\ results' = [results EXCEPT ![call.i] = call.state]
        /\ Applied
        /\ UNCHANGED <<answer, refs>>

\* A transaction that fails ends the list of roots, without an error.
IntermediateRoots ==
  /\ Running({"roots"})
  /\ UNCHANGED <<jobs, worker, results, leaked, cancelled, calls>>
  /\ \/ call.i = Size /\ Return("ok") /\ UNCHANGED roots
     \/ call.i < Size /\ cancelled /\ Return("error") /\ UNCHANGED roots
     \/ call.i \in Invalid /\ ~ cancelled /\ Return("ok") /\ UNCHANGED roots
     \/ /\ call.i < Size /\ ~ cancelled /\ call.i \notin Invalid
        /\ roots' = Append(roots, call.state + 1)
        /\ Applied
        /\ UNCHANGED <<answer, refs>>

IntoFile(i) == call.kind = "files" \/ i = call.at

StandardTraceBlockToFile ==
  /\ Running({"files", "fileOf"})
  /\ UNCHANGED <<jobs, worker, roots, leaked, cancelled, calls>>
  /\ IF call.i = Size \/ (call.kind = "fileOf" /\ call.i = call.at + 1)
     THEN Return("ok") /\ UNCHANGED results
     ELSE \/ /\ IntoFile(call.i)                      \* no file can be made
             /\ Return("error") /\ UNCHANGED results
          \/ /\ call.i \in Invalid
             /\ results' = [results EXCEPT ![call.i] = IF IntoFile(call.i) THEN call.state ELSE @]
             /\ Return("error")
          \/ /\ call.i \notin Invalid
             /\ results' = [results EXCEPT ![call.i] = IF IntoFile(call.i) THEN call.state ELSE @]
             /\ Applied
             /\ UNCHANGED <<answer, refs>>

\* stateAtTransaction: the transactions before the one asked for. On an error the
\* release is not returned.
StateAtTransaction ==
  /\ Running({"tx", "callAt"})
  /\ IF call.i = call.at /\ (call.i < Size \/ Size = 0)
     THEN /\ call' = [call EXCEPT !.pc = IF call.kind = "tx" THEN "trace" ELSE "config"]
          /\ UNCHANGED <<answer, leaked>>
     ELSE IF call.i \in Invalid \/ call.i = Size
     THEN /\ call' = [call EXCEPT !.pc = "done"]
          /\ answer' = "error" /\ leaked' = leaked + 1
     ELSE Applied /\ UNCHANGED <<answer, leaked>>
  /\ UNCHANGED <<jobs, worker, results, roots, refs, cancelled, calls>>

\* TraceCall's overrides, and its message.
Configure ==
  /\ call.pc = "config"
  /\ \/ /\ call' = [call EXCEPT !.pc = "trace"]
        /\ UNCHANGED <<answer, refs>>
     \/ Return("error")
  /\ UNCHANGED <<jobs, worker, results, roots, leaked, cancelled, calls>>

\* traceTx of the one transaction, or of the call.
TraceOne ==
  /\ call.pc = "trace"
  /\ \/ /\ Return("ok")
        /\ results' = [results EXCEPT ![call.at] = call.state]
     \/ Return("error") /\ UNCHANGED results
  /\ UNCHANGED <<jobs, worker, roots, leaked, cancelled, calls>>

-----------------------------------------------------------------------------
(* traceBlockParallel *)

\* The next transaction given to the tracers, then applied.
Feed ==
  /\ Running({"parallel"}) /\ call.i < Size
  /\ \/ /\ cancelled
        /\ call' = [call EXCEPT !.pc = "join"] /\ answer' = "error"
        /\ UNCHANGED jobs
     \/ /\ Len(jobs) < Cardinality(Worker)
        /\ jobs' = Append(jobs, [index |-> call.i, state |-> call.state])
        /\ IF call.i \in Invalid
           THEN call' = [call EXCEPT !.pc = "join"] /\ answer' = "error"
           ELSE Applied /\ UNCHANGED answer
  /\ UNCHANGED <<worker, results, roots, refs, leaked, cancelled, calls>>

FeedEnds ==
  /\ Running({"parallel"}) /\ call.i = Size
  /\ call' = [call EXCEPT !.pc = "join"] /\ answer' = "ok"
  /\ UNCHANGED <<jobs, worker, results, roots, refs, leaked, cancelled, calls>>

\* (A variant that returns while tracers are at work.)
NotJoined == jobs = <<>>

Joined == \A w \in Worker : worker[w].pc = "done"

Join ==
  /\ call.pc = "join" /\ Joined
  /\ Return(answer)
  /\ UNCHANGED <<jobs, worker, results, roots, leaked, cancelled, calls>>

WorkerTakes(w) ==
  /\ call.kind = "parallel" /\ worker[w].pc = "range"
  /\ IF jobs # <<>>
     THEN /\ worker' = [worker EXCEPT ![w] = [pc |-> "trace", index |-> Head(jobs).index,
                                              state |-> Head(jobs).state]]
          /\ jobs' = Tail(jobs)
     ELSE /\ call.pc = "join"
          /\ worker' = [worker EXCEPT ![w].pc = "done"] /\ UNCHANGED jobs
  /\ UNCHANGED <<call, results, roots, answer, refs, leaked, cancelled, calls>>

WorkerTraces(w) ==
  /\ worker[w].pc = "trace"
  /\ \E r \in (IF worker[w].index \in Invalid THEN {Failed} ELSE {worker[w].state, Failed}) :
       results' = [results EXCEPT ![worker[w].index] = r]
  /\ worker' = [worker EXCEPT ![w].pc = "range"]
  /\ UNCHANGED <<call, jobs, roots, answer, refs, leaked, cancelled, calls>>

Cancel ==
  /\ call.pc # "done" /\ ~ cancelled
  /\ cancelled' = TRUE
  /\ UNCHANGED <<call, jobs, worker, results, roots, answer, refs, leaked, calls>>

CallStep ==
  \/ TraceBlock \/ IntermediateRoots \/ StandardTraceBlockToFile \/ StateAtTransaction
  \/ Configure \/ TraceOne \/ Feed \/ FeedEnds \/ Join

WorkerStep(w) == WorkerTakes(w) \/ WorkerTraces(w)

Next ==
  \/ \E kind \in Kinds, at \in 0 .. Size : Begin(kind, at)
  \/ CallStep
  \/ \E w \in Worker : WorkerStep(w)
  \/ Cancel

Fairness == WF_vars(CallStep) /\ \A w \in Worker : WF_vars(WorkerStep(w))

Spec == Init /\ [][Next]_vars /\ Fairness

-----------------------------------------------------------------------------
(* Properties *)

\* A transaction is traced on the state its block gives it, whichever thread does
\* it; a call is made on the state after the block or, with an index, before the
\* transaction named, as TestTraceCall has it (eth/tracers/api_test.go:350); the comment
\* on TraceCall says "after executing the specified transaction" (eth/tracers/api.go:918).
OnPrestate ==
  /\ \A i \in Index : call.kind # "call" => results[i] \in {NotTraced, Failed, i}
  /\ call.kind = "call" => results[0] \in {NotTraced, Size}
  /\ \A i \in 1 .. Len(roots) : roots[i] = i

\* An answer without error has a trace, or a reason, for each transaction asked for,
\* the intermediate roots up to the first transaction that fails.
AnswerComplete ==
  call.pc = "done" /\ answer = "ok" =>
    CASE call.kind \in {"block", "parallel", "files"} -> \A i \in Index : results[i] # NotTraced
      [] call.kind = "roots" ->
           \A i \in Index : (\A j \in 0 .. i : j \notin Invalid) => Len(roots) > i
      [] call.kind \in {"tx", "fileOf"} -> \A i \in Index : results[i] = NotTraced <=> i # call.at
      [] OTHER -> TRUE

\* The state is referenced as long as a thread works on it, and when no call is
\* running the references left are those that stateAtTransaction did not return.
ReferencesBalanced ==
  /\ (\E w \in Worker : worker[w].pc = "trace") => refs > leaked
  /\ refs = leaked + (IF call.pc = "done" THEN 0 ELSE 1)

Safety == OnPrestate /\ AnswerComplete /\ ReferencesBalanced

\* Every call returns.
Owed == call.pc # "done"
CallsReturn == []<>~Owed

=============================================================================
