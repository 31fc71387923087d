----------------------------- MODULE CodeSyncer -----------------------------
(***************************************************************************)
(* The code syncer (sync/statesync/code_syncer.go).  The leaf syncer's     *)
(* goroutines add the code hashes of the accounts they receive; each hash  *)
(* not known yet is marked on disk, queued, and fetched by a worker in a   *)
(* batch.  Account leafs reach the disk after addCode returned for them,   *)
(* so a new session sees their hashes only as the markers on disk.         *)
(***************************************************************************)
EXTENDS Integers, Sequences, FiniteSetTheorems, TLAPS

CONSTANTS
    Worker,        \* code fetching goroutines
    Adder,         \* leaf syncer goroutines that call addCode
    Adds,          \* Adds[a]: the sets of hashes goroutine a adds, in order
    MaxPerRequest, \* message.MaxCodeHashesPerRequest
    Cap,           \* MaxOutstandingCodeHashes
    MaxStops       \* bound on crashes and cancellations

VARIABLES
    db,     \* code: hashes whose code is stored; toFetch: markers;
            \* saved[a]: calls of a whose leafs are stored
    mem,    \* outstanding, the channel (queue, closed), ctx
    adder,  \* the call each goroutine is in; "db" is Start's own call
    worker, phase, stops

vars == <<db, mem, adder, worker, phase, stops>>

DB == "db"
Calls == Adder \cup {DB}
NewMem == [outstanding |-> {}, queue |-> <<>>, closed |-> FALSE, ctx |-> "live"]
NoCall == [pc |-> "idle", n |-> 0, sel |-> {}]
IdleWorker == [pc |-> "idle", batch |-> <<>>]

WantWithoutMarked(a) == IF a = DB THEN {} ELSE Adds[a][adder[a].n + 1]

\* The hashes of the call a goroutine is in: Start adds what is marked.
Want(a) == IF a = DB THEN db.toFetch ELSE Adds[a][adder[a].n + 1]

\* addCodeToFetchFromDBToQueue first drops the markers of code that is stored.
Start ==
    /\ phase = "down"
    /\ db' = [db EXCEPT !.toFetch = @ \ db.code]
    /\ adder' = [a \in Calls |-> [NoCall EXCEPT !.n = IF a = DB THEN 0 ELSE db.saved[a]]]
    /\ phase' = "syncing"
    /\ UNCHANGED <<mem, worker, stops>>

-----------------------------------------------------------------------------
(* addCode *)

Select(a) == Want(a) \ (mem.outstanding \cup db.code)

\* Under the lock: what is neither outstanding nor stored.  The leaf syncer is
\* started when Start's own call has returned.
SelectHashes(a) ==
    /\ phase = "syncing" /\ adder[a].pc = "idle"
    /\ IF a = DB THEN TRUE ELSE adder[DB].pc = "returned" /\ adder[a].n < Len(Adds[a])
    /\ LET sel == Select(a)
       IN  /\ mem' = [mem EXCEPT !.outstanding = @ \cup sel]
           /\ adder' = [adder EXCEPT ![a].pc = "mark", ![a].sel = sel]
    /\ UNCHANGED <<db, worker, phase, stops>>

AddCodeToFetch(a) ==
    /\ phase = "syncing" /\ adder[a].pc = "mark"
    /\ db' = [db EXCEPT !.toFetch = @ \cup adder[a].sel]
    /\ adder' = [adder EXCEPT ![a].pc = "queue"]
    /\ UNCHANGED <<mem, worker, phase, stops>>

\* addHashesToQueue: a send blocks while the channel is full, until ctx is done.
AddHashToQueue(a) ==
    /\ phase = "syncing" /\ adder[a].pc = "queue"
    /\ \/ \E h \in adder[a].sel :
             /\ Len(mem.queue) < Cap
             /\ mem' = [mem EXCEPT !.queue = Append(@, h)]
             /\ adder' = [adder EXCEPT ![a].sel = @ \ {h}]
       \/ /\ adder[a].sel = {}
          /\ adder' = [adder EXCEPT ![a] =
                 [pc |-> IF a = DB THEN "returned" ELSE "idle", n |-> @.n + 1, sel |-> {}]]
          /\ UNCHANGED mem
       \/ /\ adder[a].sel # {} /\ mem.ctx = "cancelled"
          /\ adder' = [adder EXCEPT ![a].pc = "failed"]
          /\ UNCHANGED mem
    /\ UNCHANGED <<db, worker, phase, stops>>

\* The leafs of a call that returned reach the disk some time later.
SaveLeafs(a) ==
    /\ phase = "syncing" /\ a \in Adder /\ db.saved[a] < adder[a].n
    /\ db' = [db EXCEPT !.saved[a] = adder[a].n]
    /\ UNCHANGED <<mem, adder, worker, phase, stops>>

\* notifyAccountTrieCompleted: every call has returned.
NotifyAccountTrieCompleted ==
    /\ phase = "syncing" /\ ~mem.closed /\ adder[DB].pc = "returned"
    /\ \A a \in Adder : db.saved[a] = Len(Adds[a])
    /\ mem' = [mem EXCEPT !.closed = TRUE]
    /\ UNCHANGED <<db, adder, worker, phase, stops>>

-----------------------------------------------------------------------------
(* The workers *)

\* work: read hashes until a request is full or the channel is closed.
Work(w) ==
    /\ phase = "syncing" /\ worker[w].pc = "idle"
    /\ \/ /\ mem.queue # <<>>
          /\ mem' = [mem EXCEPT !.queue = Tail(@)]
          /\ LET batch == Append(worker[w].batch, Head(mem.queue))
             IN  worker' = [worker EXCEPT ![w] =
                    [pc |-> IF Len(batch) < MaxPerRequest THEN "idle" ELSE "fetch", batch |-> batch]]
       \/ /\ mem.queue = <<>> /\ mem.closed
          /\ worker' = [worker EXCEPT ![w].pc = IF worker[w].batch = <<>> THEN "exit" ELSE "fetch_last"]
          /\ UNCHANGED mem
       \/ /\ mem.ctx = "cancelled"
          /\ worker' = [worker EXCEPT ![w].pc = "exit"]
          /\ UNCHANGED mem
    /\ UNCHANGED <<db, adder, phase, stops>>

Hashes(w) == {worker[w].batch[i] : i \in DOMAIN worker[w].batch}

\* fulfillCodeRequest: GetCode retries until it has the code or ctx is done; the
\* hashes leave outstanding under the lock, the batch is written after it.
FulfillCodeRequest(w) ==
    /\ phase = "syncing" /\ worker[w].pc \in {"fetch", "fetch_last"}
    /\ \/ /\ mem' = [mem EXCEPT !.outstanding = @ \ Hashes(w)]
          /\ worker' = [worker EXCEPT ![w].pc = IF @ = "fetch" THEN "write" ELSE "write_last"]
       \/ /\ mem.ctx = "cancelled"
          /\ worker' = [worker EXCEPT ![w].pc = "exit"]
          /\ UNCHANGED mem
    /\ UNCHANGED <<db, adder, phase, stops>>

WriteCode(w) ==
    /\ phase = "syncing" /\ worker[w].pc \in {"write", "write_last"}
    /\ db' = [db EXCEPT !.code = @ \cup Hashes(w), !.toFetch = @ \ Hashes(w)]
    /\ worker' = [worker EXCEPT ![w] =
                     [pc |-> IF @.pc = "write" THEN "idle" ELSE "exit", batch |-> <<>>]]
    /\ UNCHANGED <<mem, adder, phase, stops>>

-----------------------------------------------------------------------------
(* The end of a session *)

Cancel ==
    /\ phase = "syncing" /\ mem.ctx = "live" /\ stops < MaxStops
    /\ mem' = [mem EXCEPT !.ctx = "cancelled"]
    /\ stops' = stops + 1
    /\ UNCHANGED <<db, adder, worker, phase>>

Stop ==
    /\ phase' = "down" /\ mem' = NewMem
    /\ adder' = [a \in Calls |-> NoCall] /\ worker' = [w \in Worker |-> IdleWorker]
    /\ UNCHANGED db

Crash ==
    /\ phase = "syncing" /\ stops < MaxStops
    /\ stops' = stops + 1
    /\ Stop

\* Every worker returned: setError passes nil, or the cancellation.
SetError ==
    /\ phase = "syncing" /\ \A w \in Worker : worker[w].pc = "exit"
    /\ \/ mem.ctx = "live" /\ phase' = "done" /\ UNCHANGED <<db, mem, adder, worker>>
       \/ mem.ctx = "cancelled" /\ Stop
    /\ UNCHANGED stops

-----------------------------------------------------------------------------
Init ==
    /\ db = [code |-> {}, toFetch |-> {}, saved |-> [a \in Adder |-> 0]]
    /\ mem = NewMem
    /\ adder = [a \in Calls |-> NoCall] /\ worker = [w \in Worker |-> IdleWorker]
    /\ phase = "down" /\ stops = 0

AdderStep(a) == SelectHashes(a) \/ AddCodeToFetch(a) \/ AddHashToQueue(a) \/ SaveLeafs(a)
WorkerStep(w) == Work(w) \/ FulfillCodeRequest(w) \/ WriteCode(w)
Finish == Start \/ NotifyAccountTrieCompleted \/ SetError

Next ==
    \/ \E a \in Calls : AdderStep(a)
    \/ \E w \in Worker : WorkerStep(w)
    \/ Finish
    \/ Cancel
    \/ Crash


Spec == Init /\ [][Next]_vars

-----------------------------------------------------------------------------
Added(a, m, n) == UNION {Adds[a][i] : i \in m..n}

\* The code of an account on disk is stored, or marked, or wanted by an account
\* that is not on disk yet and will be added again: a goroutine may skip a hash
\* that another one has claimed and not marked yet.
CodeNotLost ==
    \A a \in Adder : Added(a, 1, db.saved[a]) \subseteq
        db.code \cup db.toFetch \cup UNION {Added(b, db.saved[b] + 1, Len(Adds[b])) : b \in Adder}

\* "codeHashes should not be empty or contain duplicate hashes"
\* (code_syncer.go:201), though a hash being written can be added again.
NoDuplicateRequest ==
    \A w \in Worker :
        /\ worker[w].pc \in {"fetch", "fetch_last"} => worker[w].batch # <<>>
        /\ Cardinality(Hashes(w)) = Len(worker[w].batch)

\* A sync that reports success has stored the code of every account and left no
\* marker behind.
DoneMeansFetched ==
    phase = "done" =>
        /\ \A a \in Adder : Added(a, 1, Len(Adds[a])) \subseteq db.code
        /\ db.toFetch = {}

\* Full queues, blocked adders and stops never keep the sync from ending.
Ended == phase = "done"

Safety == CodeNotLost /\ NoDuplicateRequest /\ DoneMeansFetched

-----------------------------------------------------------------------------
(* Proofs, for any number of goroutines, any accounts and any number of    *)
(* crashes and cancellations.                                              *)

Config ==
    /\ Worker # {} /\ DB \notin Adder /\ MaxPerRequest \in Nat \ {0}
    /\ \A a \in Adder : Len(Adds[a]) \in Nat

Hash == UNION {Added(a, 1, Len(Adds[a])) : a \in Adder}

DBType == [code : SUBSET Hash, toFetch : SUBSET Hash, saved : [Adder -> Nat]]
MemType ==
    [outstanding : SUBSET Hash, queue : Seq(Hash), closed : BOOLEAN, ctx : {"live", "cancelled"}]
CallType ==
    [pc : {"idle", "mark", "queue", "failed", "returned"}, n : Nat, sel : SUBSET Hash]
WorkerType ==
    [pc : {"idle", "fetch", "fetch_last", "write", "write_last", "exit"}, batch : Seq(Hash)]

TypeInv ==
    /\ db \in DBType /\ mem \in MemType
    /\ adder \in [Calls -> CallType] /\ worker \in [Worker -> WorkerType]
    /\ phase \in {"down", "syncing", "done"}

\* What the disk knows of never shrinks: a marker goes when its code comes.
Known == db.code \cup db.toFetch

\* What the goroutines have still to add, what they have claimed and not marked yet.
Rest == UNION {Added(b, adder[b].n + 1, Len(Adds[b])) : b \in Adder}
Marking == UNION {adder[b].sel : b \in {c \in Adder : adder[c].pc = "mark"}}

\* Every hash of a call that has returned is known, or will be added again.  In a call, a
\* hash that was not selected is known, or another goroutine is about to mark it.
AdderInv(a) ==
    /\ db.saved[a] <= adder[a].n /\ adder[a].n <= Len(Adds[a]) /\ adder[a].pc # "returned"
    /\ Added(a, 1, adder[a].n) \subseteq Known \cup Rest
    /\ adder[a].pc # "idle" =>
          adder[a].n < Len(Adds[a]) /\ Want(a) \subseteq Known \cup Marking
    /\ adder[a].pc = "mark" => adder[a].sel \subseteq Want(a)

StoreInv ==
    /\ phase # "syncing" => CodeNotLost /\ \A a \in Adder : db.saved[a] <= Len(Adds[a])
    /\ phase = "down" => mem = NewMem
    /\ phase = "syncing" =>
          /\ \A a \in Adder : AdderInv(a)
          /\ mem.outstanding \subseteq Known \cup Marking

Elems(s) == {s[i] : i \in DOMAIN s}

\* A hash that is waiting in the queue, or that some goroutine holds.
Held(h) ==
    \/ h \in Elems(mem.queue)
    \/ \E a \in Calls : h \in adder[a].sel
    \/ \E w \in Worker : h \in Hashes(w)

\* Until Start has collected the markers nobody else has begun.
Fresh ==
    /\ mem.outstanding = {} /\ mem.queue = <<>> /\ db.toFetch \cap db.code = {}
    /\ \A a \in Adder : adder[a].pc = "idle"
    /\ \A w \in Worker : worker[w].batch = <<>> /\ worker[w].pc \in {"idle", "exit"}

\* A worker that is not cancelled leaves when nothing more can come.
WorkerInv(w) ==
    /\ worker[w].pc \in {"fetch_last", "write_last"} => mem.closed /\ mem.queue = <<>>
    /\ worker[w].pc = "exit" /\ mem.ctx = "live" =>
          mem.closed /\ mem.queue = <<>> /\ worker[w].batch = <<>>

\* Every marker stands for a hash that is held.
SessionInv ==
    /\ adder[DB].pc = "idle" => Fresh
    /\ adder[DB].pc # "idle" => \A h \in db.toFetch : Held(h)
    /\ \A a \in Calls : adder[a].pc \in {"idle", "returned"} => adder[a].sel = {}
    /\ mem.closed => adder[DB].pc = "returned" /\ \A a \in Adder : adder[a].n = Len(Adds[a])
    /\ \A w \in Worker : WorkerInv(w)

DoneInv ==
    /\ phase = "down" => mem = NewMem /\ worker = [w \in Worker |-> IdleWorker]
    /\ phase = "done" => DoneMeansFetched
    /\ phase = "syncing" => SessionInv

\* A hash that is outstanding is in one place: with one adder, in the queue, or in the
\* batch of one worker.
Injective(s) == \A i, j \in DOMAIN s : s[i] = s[j] => i = j
Holds(w) == IF worker[w].pc \in {"write", "write_last"} THEN {} ELSE Hashes(w)
Apart(S, T) == \A h \in S : h \notin T

AdderAlone(a) ==
    /\ adder[a].sel \subseteq mem.outstanding /\ Apart(adder[a].sel, Elems(mem.queue))
    /\ \A b \in Calls : b # a => Apart(adder[a].sel, adder[b].sel)

WorkerAlone(w) ==
    /\ Holds(w) \subseteq mem.outstanding /\ Apart(Holds(w), Elems(mem.queue))
    /\ \A a \in Calls : Apart(Holds(w), adder[a].sel)
    /\ \A v \in Worker : v # w => Apart(Holds(w), Holds(v))

GoodBatch(w) ==
    /\ Injective(worker[w].batch)
    /\ worker[w].pc \in {"fetch", "fetch_last"} => worker[w].batch # <<>>

UniqueInv ==
    /\ Injective(mem.queue) /\ Elems(mem.queue) \subseteq mem.outstanding
    /\ \A a \in Calls : AdderAlone(a)
    /\ \A w \in Worker : WorkerAlone(w) /\ GoodBatch(w)

CodeInv == TypeInv /\ StoreInv /\ DoneInv /\ UniqueInv

\* Sequences of hashes.
LEMMA ElemsAppend ==
    ASSUME NEW S, NEW s \in Seq(S), NEW x \in S
    PROVE  /\ Append(s, x) \in Seq(S) /\ Append(s, x) # <<>>
           /\ Elems(Append(s, x)) = Elems(s) \cup {x}
           /\ Injective(s) /\ x \notin Elems(s) => Injective(Append(s, x))
<1>1. /\ Append(s, x) \in Seq(S) /\ Len(s) \in Nat /\ Len(Append(s, x)) = Len(s) + 1
      /\ DOMAIN s = 1..Len(s) /\ DOMAIN Append(s, x) = 1..(Len(s) + 1)
      /\ \A i \in 1..Len(s) : Append(s, x)[i] = s[i]
      /\ Append(s, x)[Len(s) + 1] = x
    OBVIOUS
<1>2. Append(s, x) # <<>>
    BY <1>1
<1>3. Elems(Append(s, x)) = Elems(s) \cup {x}
    <2>1. /\ \A i \in 1..(Len(s) + 1) : i \in 1..Len(s) \/ i = Len(s) + 1
          /\ \A i \in 1..Len(s) : i \in 1..(Len(s) + 1)
          /\ Len(s) + 1 \in 1..(Len(s) + 1)
        BY <1>1
    <2> QED
        BY ZenonT(30), <1>1, <2>1 DEF Elems
<1>4. ASSUME Injective(s), x \notin Elems(s) PROVE Injective(Append(s, x))
    BY <1>1, <1>4 DEF Injective, Elems
<1> QED
    BY <1>1, <1>2, <1>3, <1>4

\* Taking the head of a sequence takes one element, and the last copy of it if none repeats.
LEMMA ElemsTail ==
    ASSUME NEW S, NEW s \in Seq(S), s # <<>>
    PROVE  /\ Tail(s) \in Seq(S) /\ Head(s) \in S
           /\ Elems(s) = Elems(Tail(s)) \cup {Head(s)}
           /\ Injective(s) => Injective(Tail(s)) /\ Head(s) \notin Elems(Tail(s))
<1>1. /\ Len(s) \in Nat \ {0} /\ DOMAIN s = 1..Len(s) /\ Head(s) = s[1] /\ Head(s) \in S
      /\ Tail(s) \in Seq(S) /\ DOMAIN Tail(s) = 1..(Len(s) - 1)
      /\ \A i \in 1..(Len(s) - 1) : Tail(s)[i] = s[i + 1]
    OBVIOUS
<1>2. Elems(s) = Elems(Tail(s)) \cup {Head(s)}
    <2>1. ASSUME NEW x \in Elems(s) PROVE x \in Elems(Tail(s)) \cup {Head(s)}
        <3>1. PICK i \in 1..Len(s) : x = s[i]
            BY Zenon, <1>1 DEF Elems
        <3>2. CASE i = 1
            BY Zenon, <1>1, <3>1, <3>2
        <3>3. CASE i # 1
            <4>1. i - 1 \in 1..(Len(s) - 1) /\ (i - 1) + 1 = i
                BY <1>1, <3>1, <3>3
            <4>2. Tail(s)[i - 1] = s[i]
                BY <1>1, <4>1
            <4> QED
                BY Zenon, <1>1, <3>1, <4>1, <4>2 DEF Elems
        <3> QED
            BY Zenon, <3>2, <3>3
    <2>2. 1 \in 1..Len(s) /\ \A i \in 1..(Len(s) - 1) : i + 1 \in 1..Len(s)
        BY <1>1
    <2>3. Elems(Tail(s)) \subseteq Elems(s)
        BY Zenon, <1>1, <2>2 DEF Elems
    <2>4. Head(s) \in Elems(s)
        BY Zenon, <1>1, <2>2 DEF Elems
    <2> QED
        BY Zenon, <2>1, <2>3, <2>4
<1>3. ASSUME Injective(s) PROVE Injective(Tail(s)) /\ Head(s) \notin Elems(Tail(s))
    BY SMTT(30), <1>1, <1>3 DEF Injective, Elems
<1> QED
    BY <1>1, <1>2, <1>3

\* A sequence without repetition has as many elements as places.
LEMMA ElemsCount ==
    ASSUME NEW S, NEW s \in Seq(S), Injective(s)
    PROVE  Cardinality(Elems(s)) = Len(s)
<1>1. Len(s) \in Nat /\ DOMAIN s = 1..Len(s)
    OBVIOUS
<1>2. s \in Bijection(1..Len(s), Elems(s))
    <2>1. s \in [1..Len(s) -> Elems(s)]
        BY <1>1 DEF Elems
    <2>2. \A t \in Elems(s) : \E i \in 1..Len(s) : s[i] = t
        BY Zenon, <1>1 DEF Elems
    <2>3. IsInjective(s)
        BY Zenon DEF IsInjective, Injective
    <2> QED
        BY Zenon, <2>1, <2>2, <2>3 DEF Bijection, Injection, Surjection
<1>3. ExistsBijection(1..Len(s), Elems(s))
    BY Zenon, <1>2 DEF ExistsBijection
<1> QED
    BY Zenon, <1>1, <1>3, FS_CountingElements

\* The empty sequence has no element.
LEMMA EmptyElems == Elems(<<>>) = {} /\ Injective(<<>>)
BY DEF Elems, Injective

-----------------------------------------------------------------------------
(* What each step does to the parts of the state.                          *)

\* The parts of a typed state.
LEMMA Fields ==
    ASSUME TypeInv
    PROVE  /\ db.code \subseteq Hash /\ db.toFetch \subseteq Hash /\ db.saved \in [Adder -> Nat]
           /\ mem.outstanding \subseteq Hash /\ mem.queue \in Seq(Hash)
           /\ \A a \in Calls : adder[a].n \in Nat /\ adder[a].sel \subseteq Hash
           /\ \A w \in Worker : worker[w].batch \in Seq(Hash) /\ Hashes(w) \subseteq Hash
           /\ \A w \in Worker : Hashes(w) = Elems(worker[w].batch)
BY DEF TypeInv, DBType, MemType, CallType, WorkerType, Hashes, Elems

\* The hashes of a call.
LEMMA WantType ==
    ASSUME Config, TypeInv, NEW a \in Calls, a # DB => adder[a].n < Len(Adds[a])
    PROVE  Want(a) \subseteq Hash
<1>1. CASE a = DB
    BY <1>1 DEF Want, TypeInv, DBType, MemType, CallType, WorkerType
<1>2. CASE a # DB
    <2>1. a \in Adder /\ adder[a].n + 1 \in 1..Len(Adds[a])
        BY <1>2 DEF Config, TypeInv, DBType, MemType, CallType, WorkerType, Calls
    <2>2. Adds[a][adder[a].n + 1] \subseteq Added(a, 1, Len(Adds[a]))
        BY Zenon, <2>1 DEF Added
    <2> QED
        BY Zenon, <1>2, <2>1, <2>2 DEF Want, Hash
<1> QED
    BY <1>1, <1>2

\* Select claims hashes in outstanding and goes on to mark them.
LEMMA SelectFacts ==
    ASSUME TypeInv, NEW a \in Calls, SelectHashes(a)
    PROVE  /\ phase = "syncing" /\ phase' = "syncing" /\ db' = db /\ worker' = worker
           /\ mem' = [mem EXCEPT !.outstanding = @ \cup Select(a)]
           /\ mem'.outstanding = mem.outstanding \cup Select(a) /\ mem'.queue = mem.queue
           /\ mem'.closed = mem.closed /\ mem'.ctx = mem.ctx
           /\ adder[a].pc = "idle" /\ adder'[a].pc = "mark"
           /\ adder'[a].n = adder[a].n /\ adder'[a].sel = Select(a)
           /\ \A b \in Calls : b # a => adder'[b] = adder[b]
           /\ a # DB => adder[DB].pc = "returned" /\ adder[a].n < Len(Adds[a])
BY DEF SelectHashes, TypeInv, DBType, MemType, CallType, WorkerType

\* Marking adds the selected hashes to the markers on disk.
LEMMA MarkFacts ==
    ASSUME TypeInv, NEW a \in Calls, AddCodeToFetch(a)
    PROVE  /\ phase = "syncing" /\ phase' = "syncing" /\ mem' = mem /\ worker' = worker
           /\ db'.code = db.code /\ db'.saved = db.saved
           /\ db'.toFetch = db.toFetch \cup adder[a].sel
           /\ adder[a].pc = "mark" /\ adder'[a].pc = "queue"
           /\ adder'[a].n = adder[a].n /\ adder'[a].sel = adder[a].sel
           /\ \A b \in Calls : b # a => adder'[b] = adder[b]
BY DEF AddCodeToFetch, TypeInv, DBType, MemType, CallType, WorkerType

\* A hash is sent, the call returns, or it fails.
Sends(a) ==
    /\ \E h \in adder[a].sel :
          /\ mem'.queue = Append(mem.queue, h) /\ adder'[a].sel = adder[a].sel \ {h}
    /\ adder'[a].pc = "queue" /\ adder'[a].n = adder[a].n
Returns(a) ==
    /\ adder[a].sel = {} /\ adder'[a].sel = {} /\ mem' = mem
    /\ adder'[a].pc = IF a = DB THEN "returned" ELSE "idle"
    /\ adder'[a].n = adder[a].n + 1
Fails(a) ==
    /\ mem.ctx = "cancelled" /\ mem' = mem
    /\ adder'[a].pc = "failed" /\ adder'[a].n = adder[a].n /\ adder'[a].sel = adder[a].sel

\* A step of addHashesToQueue is one of the three above.
LEMMA QueueFacts ==
    ASSUME TypeInv, NEW a \in Calls, AddHashToQueue(a)
    PROVE  /\ phase = "syncing" /\ phase' = "syncing" /\ db' = db /\ worker' = worker
           /\ mem'.outstanding = mem.outstanding /\ mem'.closed = mem.closed
           /\ mem'.ctx = mem.ctx /\ adder[a].pc = "queue"
           /\ \A b \in Calls : b # a => adder'[b] = adder[b]
           /\ Sends(a) \/ Returns(a) \/ Fails(a)
<1>1. /\ phase = "syncing" /\ phase' = "syncing" /\ db' = db /\ worker' = worker
      /\ adder[a].pc = "queue"
    BY DEF AddHashToQueue
<1>2. CASE \E h \in adder[a].sel :
             /\ Len(mem.queue) < Cap
             /\ mem' = [mem EXCEPT !.queue = Append(@, h)]
             /\ adder' = [adder EXCEPT ![a].sel = @ \ {h}]
    BY <1>1, <1>2 DEF TypeInv, DBType, MemType, CallType, WorkerType, Sends
<1>3. CASE /\ adder[a].sel = {}
           /\ adder' = [adder EXCEPT ![a] =
                 [pc |-> IF a = DB THEN "returned" ELSE "idle", n |-> @.n + 1, sel |-> {}]]
           /\ UNCHANGED mem
    BY <1>1, <1>3 DEF TypeInv, DBType, MemType, CallType, WorkerType, Returns
<1>4. CASE /\ adder[a].sel # {} /\ mem.ctx = "cancelled"
           /\ adder' = [adder EXCEPT ![a].pc = "failed"]
           /\ UNCHANGED mem
    BY <1>1, <1>4 DEF TypeInv, DBType, MemType, CallType, WorkerType, Fails
<1> QED
    BY Zenon, <1>2, <1>3, <1>4 DEF AddHashToQueue

\* Storing leafs moves only the count of stored calls.
LEMMA SaveFacts ==
    ASSUME TypeInv, NEW a \in Calls, SaveLeafs(a)
    PROVE  /\ phase = "syncing" /\ phase' = "syncing" /\ mem' = mem /\ adder' = adder
           /\ worker' = worker /\ a \in Adder
           /\ db'.code = db.code /\ db'.toFetch = db.toFetch
           /\ db'.saved = [db.saved EXCEPT ![a] = adder[a].n]
BY DEF SaveLeafs, TypeInv, DBType, MemType, CallType, WorkerType

\* A worker takes a hash, finds the closed queue empty, or gives up.
Takes(w) ==
    /\ mem.queue # <<>> /\ mem'.queue = Tail(mem.queue)
    /\ worker'[w].batch = Append(worker[w].batch, Head(mem.queue))
    /\ worker'[w].pc \in {"idle", "fetch"}
Drains(w) ==
    /\ mem.queue = <<>> /\ mem.closed /\ mem' = mem /\ worker'[w].batch = worker[w].batch
    /\ worker'[w].pc = IF worker[w].batch = <<>> THEN "exit" ELSE "fetch_last"
GivesUp(w) ==
    /\ mem.ctx = "cancelled" /\ mem' = mem /\ worker'[w].batch = worker[w].batch
    /\ worker'[w].pc = "exit"

\* A step of work is one of the three above.
LEMMA WorkFacts ==
    ASSUME TypeInv, NEW w \in Worker, Work(w)
    PROVE  /\ phase = "syncing" /\ phase' = "syncing" /\ db' = db /\ adder' = adder
           /\ mem'.outstanding = mem.outstanding /\ mem'.closed = mem.closed
           /\ mem'.ctx = mem.ctx /\ worker[w].pc = "idle"
           /\ \A v \in Worker : v # w => worker'[v] = worker[v]
           /\ Takes(w) \/ Drains(w) \/ GivesUp(w)
<1>1. /\ phase = "syncing" /\ phase' = "syncing" /\ db' = db /\ adder' = adder
      /\ worker[w].pc = "idle"
    BY DEF Work
<1>2. CASE /\ mem.queue # <<>>
           /\ mem' = [mem EXCEPT !.queue = Tail(@)]
           /\ LET batch == Append(worker[w].batch, Head(mem.queue))
              IN  worker' = [worker EXCEPT ![w] =
                    [pc |-> IF Len(batch) < MaxPerRequest THEN "idle" ELSE "fetch", batch |-> batch]]
    BY <1>1, <1>2 DEF TypeInv, DBType, MemType, CallType, WorkerType, Takes
<1>3. CASE /\ mem.queue = <<>> /\ mem.closed
           /\ worker' = [worker EXCEPT ![w].pc =
                            IF worker[w].batch = <<>> THEN "exit" ELSE "fetch_last"]
           /\ UNCHANGED mem
    BY ZenonT(30), <1>1, <1>3 DEF TypeInv, DBType, MemType, CallType, WorkerType, Drains
<1>4. CASE /\ mem.ctx = "cancelled"
           /\ worker' = [worker EXCEPT ![w].pc = "exit"]
           /\ UNCHANGED mem
    BY <1>1, <1>4 DEF TypeInv, DBType, MemType, CallType, WorkerType, GivesUp
<1> QED
    BY Zenon, <1>2, <1>3, <1>4 DEF Work

Fetches(w) ==
    /\ mem'.outstanding = mem.outstanding \ Hashes(w)
    /\ worker'[w].pc = IF worker[w].pc = "fetch" THEN "write" ELSE "write_last"
Abandons(w) ==
    /\ mem.ctx = "cancelled" /\ mem'.outstanding = mem.outstanding /\ worker'[w].pc = "exit"

\* An answered request leaves outstanding, an abandoned one leaves the worker.
LEMMA FulfillFacts ==
    ASSUME TypeInv, NEW w \in Worker, FulfillCodeRequest(w)
    PROVE  /\ phase = "syncing" /\ phase' = "syncing" /\ db' = db /\ adder' = adder
           /\ mem'.queue = mem.queue /\ mem'.closed = mem.closed /\ mem'.ctx = mem.ctx
           /\ worker[w].pc \in {"fetch", "fetch_last"} /\ worker'[w].batch = worker[w].batch
           /\ \A v \in Worker : v # w => worker'[v] = worker[v]
           /\ Fetches(w) \/ Abandons(w)
<1>1. /\ phase = "syncing" /\ phase' = "syncing" /\ db' = db /\ adder' = adder
      /\ worker[w].pc \in {"fetch", "fetch_last"}
    BY DEF FulfillCodeRequest
<1>2. CASE /\ mem' = [mem EXCEPT !.outstanding = @ \ Hashes(w)]
           /\ worker' = [worker EXCEPT ![w].pc = IF @ = "fetch" THEN "write" ELSE "write_last"]
    BY <1>1, <1>2 DEF TypeInv, DBType, MemType, CallType, WorkerType, Fetches
<1>3. CASE /\ mem.ctx = "cancelled"
           /\ worker' = [worker EXCEPT ![w].pc = "exit"]
           /\ UNCHANGED mem
    BY <1>1, <1>3 DEF TypeInv, DBType, MemType, CallType, WorkerType, Abandons
<1> QED
    BY Zenon, <1>2, <1>3 DEF FulfillCodeRequest

\* Writing a batch stores its code and deletes its markers.
LEMMA WriteFacts ==
    ASSUME TypeInv, NEW w \in Worker, WriteCode(w)
    PROVE  /\ phase = "syncing" /\ phase' = "syncing" /\ mem' = mem /\ adder' = adder
           /\ db'.code = db.code \cup Hashes(w) /\ db'.toFetch = db.toFetch \ Hashes(w)
           /\ db'.saved = db.saved
           /\ worker[w].pc \in {"write", "write_last"} /\ worker'[w].batch = <<>>
           /\ worker'[w].pc = IF worker[w].pc = "write" THEN "idle" ELSE "exit"
           /\ \A v \in Worker : v # w => worker'[v] = worker[v]
BY DEF WriteCode, TypeInv, DBType, MemType, CallType, WorkerType

\* A session starts with every goroutine idle, where the disk left its account.
LEMMA StartFacts ==
    ASSUME Config, TypeInv, Start
    PROVE  /\ phase = "down" /\ phase' = "syncing" /\ mem' = mem /\ worker' = worker
           /\ db'.code = db.code /\ db'.toFetch = db.toFetch \ db.code /\ db'.saved = db.saved
           /\ \A a \in Calls : adder'[a].pc = "idle" /\ adder'[a].sel = {}
           /\ \A a \in Adder : adder'[a].n = db.saved[a]
<1>1. phase = "down" /\ phase' = "syncing" /\ mem' = mem /\ worker' = worker
    BY DEF Start
<1>2. db'.code = db.code /\ db'.toFetch = db.toFetch \ db.code /\ db'.saved = db.saved
    BY DEF Start, TypeInv, DBType, MemType, CallType, WorkerType
<1>3. \A a \in Calls : adder'[a].pc = "idle" /\ adder'[a].sel = {}
    BY DEF Start, NoCall
<1>4. \A a \in Adder : adder'[a].n = db.saved[a]
    BY DEF Start, NoCall, Config, Calls
<1> QED
    BY <1>1, <1>2, <1>3, <1>4

\* Closing the queue and cancelling change nothing but that.
LEMMA CloseFacts ==
    ASSUME TypeInv, NotifyAccountTrieCompleted \/ Cancel
    PROVE  /\ phase = "syncing" /\ phase' = "syncing" /\ db' = db /\ adder' = adder
           /\ worker' = worker /\ mem'.outstanding = mem.outstanding /\ mem'.queue = mem.queue
           /\ mem'.closed # mem.closed =>
                 /\ mem'.closed /\ mem'.ctx = mem.ctx /\ adder[DB].pc = "returned"
                 /\ \A a \in Adder : db.saved[a] = Len(Adds[a])
           /\ mem'.ctx # mem.ctx => mem'.ctx = "cancelled"
           /\ mem.closed => mem'.closed
BY DEF NotifyAccountTrieCompleted, Cancel, TypeInv, DBType, MemType, CallType, WorkerType

-----------------------------------------------------------------------------
(* Types.                                                                  *)

\* Every step keeps the types.
LEMMA TypeNext == Config /\ TypeInv /\ [Next]_vars => TypeInv'
<1> SUFFICES ASSUME Config, TypeInv, [Next]_vars PROVE TypeInv'
    BY Zenon
<1>0. NewMem \in MemType /\ NoCall \in CallType /\ IdleWorker \in WorkerType
    BY DEF NewMem, NoCall, IdleWorker, MemType, CallType, WorkerType
<1>1. ASSUME NEW a \in Calls, SelectHashes(a) PROVE TypeInv'
    <2>1. Select(a) \subseteq Hash
        BY Zenon, <1>1, WantType, SelectFacts DEF Select
    <2>2. mem' \in MemType
        BY <1>1, <2>1, SelectFacts DEF TypeInv, MemType
    <2>3. adder' = [adder EXCEPT ![a].pc = "mark", ![a].sel = Select(a)]
        BY Zenon, <1>1 DEF SelectHashes
    <2>4. adder' \in [Calls -> CallType]
        BY ZenonT(30), <2>1, <2>3 DEF TypeInv, CallType
    <2> QED
        BY <1>1, <2>2, <2>4, SelectFacts DEF TypeInv
<1>2. ASSUME NEW a \in Calls, AddCodeToFetch(a) PROVE TypeInv'
    BY ZenonT(30), <1>2 DEF AddCodeToFetch, TypeInv, DBType, CallType
<1>3. ASSUME NEW a \in Calls, AddHashToQueue(a) PROVE TypeInv'
    <2>1. ASSUME NEW h \in adder[a].sel,
                 mem' = [mem EXCEPT !.queue = Append(@, h)],
                 adder' = [adder EXCEPT ![a].sel = @ \ {h}]
          PROVE  mem' \in MemType /\ adder' \in [Calls -> CallType]
        <3>1. h \in Hash /\ Append(mem.queue, h) \in Seq(Hash)
            BY Fields
        <3> QED
            BY ZenonT(30), <2>1, <3>1 DEF TypeInv, MemType, CallType
    <2>2. ASSUME adder' = [adder EXCEPT ![a] = [pc |-> IF a = DB THEN "returned" ELSE "idle",
                                                n |-> @.n + 1, sel |-> {}]]
          PROVE  adder' \in [Calls -> CallType]
        BY <2>2 DEF TypeInv, CallType
    <2>3. ASSUME adder' = [adder EXCEPT ![a].pc = "failed"]
          PROVE  adder' \in [Calls -> CallType]
        BY <2>3 DEF TypeInv, CallType
    <2>4. mem' \in MemType /\ adder' \in [Calls -> CallType]
        BY Zenon, <1>3, <2>1, <2>2, <2>3 DEF AddHashToQueue, TypeInv
    <2> QED
        BY <1>3, <2>4, QueueFacts DEF TypeInv
<1>4. ASSUME NEW a \in Calls, SaveLeafs(a) PROVE TypeInv'
    BY <1>4 DEF SaveLeafs, TypeInv, DBType, CallType
<1>5. ASSUME NEW w \in Worker, Work(w) PROVE TypeInv'
    <2>1. ASSUME mem.queue # <<>>, mem' = [mem EXCEPT !.queue = Tail(@)],
                 NEW p \in {"idle", "fetch"},
                 worker' = [worker EXCEPT ![w] =
                    [pc |-> p, batch |-> Append(worker[w].batch, Head(mem.queue))]]
          PROVE  mem' \in MemType /\ worker' \in [Worker -> WorkerType]
        <3>1. Tail(mem.queue) \in Seq(Hash) /\ Head(mem.queue) \in Hash
            BY Zenon, <2>1, Fields, ElemsTail
        <3>2. Append(worker[w].batch, Head(mem.queue)) \in Seq(Hash)
            BY Zenon, <3>1, Fields, ElemsAppend
        <3> QED
            BY <2>1, <3>1, <3>2 DEF TypeInv, MemType, WorkerType
    <2>2. ASSUME NEW p \in {"fetch_last", "exit"}, worker' = [worker EXCEPT ![w].pc = p]
          PROVE  worker' \in [Worker -> WorkerType]
        BY <2>2 DEF TypeInv, WorkerType
    <2>3. mem' \in MemType /\ worker' \in [Worker -> WorkerType]
        BY Zenon, <1>5, <2>1, <2>2 DEF Work, TypeInv
    <2> QED
        BY <1>5, <2>3, WorkFacts DEF TypeInv
<1>6. ASSUME NEW w \in Worker, FulfillCodeRequest(w) PROVE TypeInv'
    <2>1. mem' \in MemType
        BY <1>6 DEF FulfillCodeRequest, TypeInv, MemType
    <2>2. worker' = [worker EXCEPT ![w].pc = worker'[w].pc]
        BY <1>6 DEF FulfillCodeRequest, TypeInv, WorkerType
    <2>3. worker'[w].pc \in {"write", "write_last", "exit"}
        BY <1>6, FulfillFacts DEF Fetches, Abandons
    <2>4. worker' \in [Worker -> WorkerType]
        BY <2>2, <2>3 DEF TypeInv, WorkerType
    <2> QED
        BY <1>6, <2>1, <2>4, FulfillFacts DEF TypeInv
<1>7. ASSUME NEW w \in Worker, WriteCode(w) PROVE TypeInv'
    <2>1. Hashes(w) \subseteq Hash /\ <<>> \in Seq(Hash)
        BY Fields
    <2> QED
        BY <1>7, <2>1 DEF WriteCode, TypeInv, DBType, WorkerType
<1>8. CASE Start
    <2>1. adder' \in [Calls -> CallType]
        BY <1>8 DEF Start, TypeInv, NoCall, Calls, CallType, DBType
    <2> QED
        BY SMTT(30), <1>8, <2>1 DEF Start, TypeInv, DBType
<1>9. CASE NotifyAccountTrieCompleted \/ Cancel
    BY <1>9 DEF NotifyAccountTrieCompleted, Cancel, TypeInv, MemType
<1>10. CASE Crash \/ SetError
    BY <1>0, <1>10 DEF Crash, SetError, Stop, TypeInv
<1>11. CASE UNCHANGED vars
    BY <1>11 DEF vars, TypeInv
<1> QED
    BY Zenon, <1>1, <1>2, <1>3, <1>4, <1>5, <1>6, <1>7, <1>8, <1>9, <1>10, <1>11
       DEF Next, AdderStep, WorkerStep, Finish

-----------------------------------------------------------------------------
(* No code is lost.                                                        *)

\* The known hashes grow, and the adders are where they were.
LEMMA StoreKeeps ==
    ASSUME StoreInv, phase = "syncing", phase' = "syncing", adder' = adder,
           db'.saved = db.saved, Known \subseteq Known',
           mem'.outstanding \subseteq mem.outstanding, DB \notin Adder
    PROVE  StoreInv'
<1>1. Rest' = Rest /\ Marking' = Marking /\ \A a \in Adder : Want(a)' = Want(a)
    BY DEF Rest, Marking, Want
<1> QED
    BY ZenonT(30), <1>1 DEF StoreInv, AdderInv

\* A session that is over leaves nothing out: whatever its calls have added and is not
\* known belongs to an account that is not stored.
LEMMA StoreEnds ==
    ASSUME Config, TypeInv, StoreInv
    PROVE  CodeNotLost /\ \A a \in Adder : db.saved[a] <= Len(Adds[a])
<1>1. CASE phase # "syncing"
    BY Zenon, <1>1 DEF StoreInv
<1>2. CASE phase = "syncing"
    <2>1. \A a \in Adder :
             /\ db.saved[a] \in Nat /\ adder[a].n \in Nat /\ Len(Adds[a]) \in Nat
             /\ db.saved[a] <= adder[a].n /\ adder[a].n <= Len(Adds[a])
             /\ Added(a, 1, adder[a].n) \subseteq Known \cup Rest
        BY <1>2 DEF StoreInv, AdderInv, TypeInv, DBType, CallType, Calls, Config
    <2>2. \A a \in Adder : /\ 1..db.saved[a] \subseteq 1..adder[a].n
                           /\ (adder[a].n + 1)..Len(Adds[a]) \subseteq (db.saved[a] + 1)..Len(Adds[a])
        BY <2>1
    <2>3. \A a \in Adder :
             /\ Added(a, 1, db.saved[a]) \subseteq Added(a, 1, adder[a].n)
             /\ Added(a, adder[a].n + 1, Len(Adds[a])) \subseteq Added(a, db.saved[a] + 1, Len(Adds[a]))
        BY Zenon, <2>2 DEF Added
    <2>4. Rest \subseteq UNION {Added(b, db.saved[b] + 1, Len(Adds[b])) : b \in Adder}
        BY Zenon, <2>3 DEF Rest
    <2>5. CodeNotLost
        BY Zenon, <2>1, <2>3, <2>4 DEF CodeNotLost, Known
    <2> QED
        BY <2>1, <2>5
<1> QED
    BY <1>1, <1>2

\* A hash that is not selected is on disk or about to be marked by another goroutine.
LEMMA SelectStore ==
    ASSUME Config, TypeInv, StoreInv, NEW a \in Calls, SelectHashes(a)
    PROVE  StoreInv'
<1>1. /\ phase = "syncing" /\ phase' = "syncing" /\ db' = db
      /\ mem'.outstanding = mem.outstanding \cup Select(a)
      /\ adder[a].pc = "idle" /\ adder'[a].pc = "mark"
      /\ adder'[a].n = adder[a].n /\ adder'[a].sel = Select(a)
      /\ \A b \in Calls : b # a => adder'[b] = adder[b]
      /\ a # DB => a \in Adder /\ adder[a].n < Len(Adds[a])
    BY SelectFacts DEF Calls
<1>2. /\ Known' = Known /\ \A b \in Adder : adder'[b].n = adder[b].n /\ b \in Calls
      /\ \A b \in Adder : b # a => adder'[b] = adder[b]
    BY <1>1 DEF Known, Calls
<1>3. Rest' = Rest /\ \A b \in Adder : Want(b)' = Want(b)
    BY <1>2 DEF Rest, Want, Config
<1>4. Marking \subseteq Marking' /\ (a \in Adder => Select(a) \subseteq Marking')
    <2>1. ASSUME NEW b \in Adder, adder[b].pc = "mark" PROVE adder[b].sel \subseteq Marking'
        <3>1. adder'[b].pc = "mark" /\ adder'[b].sel = adder[b].sel
            BY <1>1, <1>2, <2>1
        <3> QED
            BY Zenon, <3>1 DEF Marking
    <2>2. Marking \subseteq Marking'
        BY Zenon, <2>1 DEF Marking
    <2>3. ASSUME a \in Adder PROVE adder'[a].sel \subseteq Marking'
        BY Zenon, <1>1, <2>3 DEF Marking
    <2> QED
        BY Zenon, <1>1, <2>2, <2>3
<1>5. Want(a) \subseteq Known \cup Marking' \cup Select(a) /\ Select(a) \subseteq Want(a)
    BY Zenon, <1>1, <1>4 DEF Select, StoreInv, Known
<1>6. mem'.outstanding \subseteq Known \cup Marking'
    <2>1. CASE a = DB
        <3>1. Want(a) \subseteq Known
            BY Zenon, <2>1 DEF Want, Known
        <3> QED
            BY Zenon, <1>1, <1>4, <1>5, <3>1 DEF StoreInv
    <2>2. CASE a # DB
        BY Zenon, <1>1, <1>4, <2>2 DEF StoreInv
    <2> QED
        BY <2>1, <2>2
<1>7. ASSUME NEW b \in Adder PROVE AdderInv(b)'
    <2>1. AdderInv(b)
        BY Zenon, <1>1 DEF StoreInv
    <2>2. CASE b = a
        BY ZenonT(30), <1>1, <1>2, <1>3, <1>4, <1>5, <2>1, <2>2 DEF AdderInv, Config
    <2>3. CASE b # a
        BY Zenon, <1>1, <1>2, <1>3, <1>4, <2>1, <2>3 DEF AdderInv
    <2> QED
        BY <2>2, <2>3
<1> QED
    BY Zenon, <1>1, <1>2, <1>6, <1>7 DEF StoreInv

\* What one goroutine was about to mark is now on disk, for all that rely on it.
LEMMA MarkStore ==
    ASSUME Config, TypeInv, StoreInv, NEW a \in Calls, AddCodeToFetch(a)
    PROVE  StoreInv'
<1>1. /\ phase = "syncing" /\ phase' = "syncing" /\ mem' = mem /\ db'.saved = db.saved
      /\ Known' = Known \cup adder[a].sel
      /\ adder[a].pc = "mark" /\ adder'[a].pc = "queue" /\ adder'[a].n = adder[a].n
      /\ \A b \in Adder : b # a => adder'[b] = adder[b]
    BY MarkFacts DEF Calls, Known
<1>2. Rest' = Rest /\ \A b \in Adder : Want(b)' = Want(b) /\ adder'[b].n = adder[b].n
    BY <1>1 DEF Rest, Want, Config
<1>3. Known \cup Marking \subseteq Known' \cup Marking'
    <2>1. ASSUME NEW b \in Adder, adder[b].pc = "mark"
          PROVE  adder[b].sel \subseteq Known' \cup Marking'
        <3>1. CASE b = a
            BY Zenon, <1>1, <3>1
        <3>2. CASE b # a
            BY Zenon, <1>1, <2>1, <3>2 DEF Marking
        <3> QED
            BY Zenon, <3>1, <3>2
    <2>2. Marking \subseteq Known' \cup Marking'
        BY Zenon, <2>1 DEF Marking
    <2> QED
        BY Zenon, <1>1, <2>2
<1>4. ASSUME NEW b \in Adder PROVE AdderInv(b)'
    <2>1. AdderInv(b)
        BY Zenon, <1>1 DEF StoreInv
    <2>2. Added(b, 1, adder[b].n) \subseteq Known' \cup Rest
        BY Zenon, <1>1, <2>1 DEF AdderInv
    <2>3. CASE b = a
        BY ZenonT(30), <1>1, <1>2, <1>3, <2>1, <2>2, <2>3 DEF AdderInv
    <2>4. CASE b # a
        BY ZenonT(30), <1>1, <1>2, <1>3, <2>1, <2>2, <2>4 DEF AdderInv
    <2> QED
        BY <2>3, <2>4
<1> QED
    BY ZenonT(30), <1>1, <1>3, <1>4 DEF StoreInv

\* A call may return while another goroutine has yet to mark a hash it wanted: that
\* goroutine is still in its own call, whose account will be added again.
LEMMA QueueStore ==
    ASSUME Config, TypeInv, StoreInv, NEW a \in Calls, AddHashToQueue(a)
    PROVE  StoreInv'
<1>1. /\ phase = "syncing" /\ phase' = "syncing" /\ db' = db
      /\ mem'.outstanding = mem.outstanding /\ adder[a].pc = "queue"
      /\ \A b \in Adder : b # a => adder'[b] = adder[b]
      /\ Sends(a) \/ Returns(a) \/ Fails(a)
    BY QueueFacts DEF Calls
<1>2. adder'[a].pc \in {"queue", "failed", "idle", "returned"}
      /\ (a \in Adder => adder'[a].pc # "returned")
    BY <1>1 DEF Sends, Returns, Fails, Config
<1>3. Known' = Known /\ Marking' = Marking
    <2>1. {c \in Adder : adder'[c].pc = "mark"} = {c \in Adder : adder[c].pc = "mark"}
        BY <1>1, <1>2
    <2>2. \A b \in {c \in Adder : adder[c].pc = "mark"} : adder'[b] = adder[b]
        BY <1>1
    <2> QED
        BY <1>1, <2>1, <2>2 DEF Known, Marking
<1>4. CASE Sends(a) \/ Fails(a)
    <2>1. adder'[a].n = adder[a].n /\ adder'[a].pc \in {"queue", "failed"}
        BY Zenon, <1>4 DEF Sends, Fails
    <2>2. \A b \in Adder : adder'[b].n = adder[b].n
        BY Zenon, <1>1, <2>1
    <2>3. Rest' = Rest /\ \A b \in Adder : Want(b)' = Want(b)
        BY <2>2 DEF Rest, Want, Config
    <2>4. ASSUME NEW b \in Adder PROVE AdderInv(b)'
        <3>1. AdderInv(b)
            BY Zenon, <1>1 DEF StoreInv
        <3>2. \/ adder'[b].pc = adder[b].pc /\ adder'[b].sel = adder[b].sel
              \/ adder[b].pc = "queue" /\ adder'[b].pc \in {"queue", "failed"}
            BY <1>1, <2>1
        <3> QED
            BY ZenonT(30), <1>1, <1>3, <2>2, <2>3, <3>1, <3>2 DEF AdderInv
    <2> QED
        BY Zenon, <1>1, <1>3, <2>4 DEF StoreInv
<1>5. CASE Returns(a) /\ a = DB
    <2>1. \A b \in Adder : adder'[b] = adder[b]
        BY Zenon, <1>1, <1>5 DEF Config
    <2>2. Rest' = Rest /\ \A b \in Adder : Want(b)' = Want(b)
        BY SMTT(30), <2>1 DEF Rest, Want, Config
    <2> QED
        BY ZenonT(30), <1>1, <1>3, <2>1, <2>2 DEF StoreInv, AdderInv
<1>6. CASE Returns(a) /\ a # DB
    <2>0. /\ a \in Adder /\ adder'[a].pc = "idle" /\ adder'[a].n = adder[a].n + 1
          /\ adder[a].n \in Nat /\ adder[a].n < Len(Adds[a]) /\ Len(Adds[a]) \in Nat
          /\ db.saved[a] \in Nat /\ db.saved[a] <= adder[a].n
          /\ Want(a) = Adds[a][adder[a].n + 1] /\ Want(a) \subseteq Known \cup Marking
        BY <1>1, <1>6 DEF Returns, Calls, StoreInv, AdderInv, TypeInv, DBType, CallType, Config, Want
    <2>1. Marking \subseteq Rest'
        <3>1. ASSUME NEW b \in Adder, adder[b].pc = "mark"
              PROVE  adder[b].sel \subseteq Rest'
            <4>1. /\ b # a /\ adder'[b] = adder[b] /\ adder[b].n \in Nat
                  /\ adder[b].n + 1 \in (adder[b].n + 1)..Len(Adds[b])
                  /\ adder[b].sel \subseteq Adds[b][adder[b].n + 1]
                BY <1>1, <3>1 DEF StoreInv, AdderInv, TypeInv, CallType, Config, Want, Calls
            <4>2. Adds[b][adder[b].n + 1] \subseteq Added(b, adder'[b].n + 1, Len(Adds[b]))
                BY Zenon, <4>1 DEF Added
            <4> QED
                BY ZenonT(30), <4>1, <4>2 DEF Rest
        <3> QED
            BY Zenon, <3>1 DEF Marking
    <2>2. Rest \subseteq Known \cup Rest'
        <3>1. ASSUME NEW b \in Adder
              PROVE  Added(b, adder[b].n + 1, Len(Adds[b])) \subseteq Known \cup Rest'
            <4>1. CASE b # a
                BY Zenon, <1>1, <4>1 DEF Rest
            <4>2. CASE b = a
                <5>1. \A i \in (adder[a].n + 1)..Len(Adds[a]) :
                         i = adder[a].n + 1 \/ i \in (adder'[a].n + 1)..Len(Adds[a])
                    BY <2>0
                <5>2. Added(a, adder[a].n + 1, Len(Adds[a]))
                      \subseteq Want(a) \cup Added(a, adder'[a].n + 1, Len(Adds[a]))
                    BY Zenon, <2>0, <5>1 DEF Added
                <5> QED
                    BY Zenon, <2>0, <2>1, <4>2, <5>2 DEF Rest
            <4> QED
                BY Zenon, <4>1, <4>2
        <3> QED
            BY Zenon, <3>1 DEF Rest
    <2>3. ASSUME NEW b \in Adder PROVE AdderInv(b)'
        <3>1. AdderInv(b)
            BY Zenon, <1>1 DEF StoreInv
        <3>2. CASE b = a
            <4>1. \A i \in 1..adder'[a].n : i \in 1..adder[a].n \/ i = adder[a].n + 1
                BY <2>0
            <4>2. Added(a, 1, adder'[a].n) \subseteq Added(a, 1, adder[a].n) \cup Want(a)
                BY Zenon, <2>0, <4>1 DEF Added
            <4>3. Added(a, 1, adder'[a].n) \subseteq Known' \cup Rest'
                BY ZenonT(30), <1>3, <2>0, <2>1, <2>2, <3>1, <3>2, <4>2 DEF AdderInv
            <4>4. db.saved[a] <= adder'[a].n /\ adder'[a].n <= Len(Adds[a])
                BY SMTT(30), <2>0
            <4> QED
                BY ZenonT(30), <1>1, <2>0, <3>2, <4>3, <4>4 DEF AdderInv
        <3>3. CASE b # a
            <4>1. adder'[b] = adder[b] /\ Want(b)' = Want(b)
                BY <1>1, <3>3 DEF Want, Config
            <4> QED
                BY ZenonT(30), <1>1, <1>3, <2>2, <3>1, <4>1 DEF AdderInv
        <3> QED
            BY Zenon, <3>2, <3>3
    <2> QED
        BY Zenon, <1>1, <1>3, <2>3 DEF StoreInv
<1> QED
    BY Zenon, <1>1, <1>4, <1>5, <1>6

\* The leafs that are stored belong to calls that have returned.
LEMMA SaveStore ==
    ASSUME Config, TypeInv, StoreInv, NEW a \in Calls, SaveLeafs(a)
    PROVE  StoreInv'
<1>1. /\ phase = "syncing" /\ phase' = "syncing" /\ mem' = mem /\ adder' = adder
      /\ Known' = Known /\ \A b \in Adder : db'.saved[b] \in {db.saved[b], adder[b].n}
      /\ \A b \in Adder : adder[b].n \in Nat
    BY ZenonT(30), SaveFacts DEF Known, TypeInv, DBType, CallType, Calls
<1>2. Rest' = Rest /\ Marking' = Marking /\ \A b \in Adder : Want(b)' = Want(b)
    BY <1>1 DEF Rest, Marking, Want, Config
<1>3. ASSUME NEW b \in Adder PROVE AdderInv(b)'
    <2>1. AdderInv(b)
        BY Zenon, <1>1 DEF StoreInv
    <2>2. db'.saved[b] <= adder[b].n
        BY <1>1, <2>1 DEF AdderInv
    <2> QED
        BY ZenonT(30), <1>1, <1>2, <2>1, <2>2 DEF AdderInv
<1> QED
    BY Zenon, <1>1, <1>2, <1>3 DEF StoreInv

\* A new session adds what is not stored again, and what is stored was not lost.
LEMMA StartStore ==
    ASSUME Config, TypeInv, StoreInv, Start
    PROVE  StoreInv'
<1>1. /\ phase = "down" /\ phase' = "syncing" /\ mem' = mem
      /\ db'.code = db.code /\ db'.toFetch = db.toFetch \ db.code /\ db'.saved = db.saved
      /\ \A a \in Adder : adder'[a].pc = "idle" /\ adder'[a].n = db.saved[a]
    BY StartFacts DEF Calls
<1>2. CodeNotLost /\ mem.outstanding = {}
    BY <1>1 DEF StoreInv, NewMem
<1>3. Known' = Known
    BY Zenon, <1>1 DEF Known
<1>4. Rest' = UNION {Added(b, db.saved[b] + 1, Len(Adds[b])) : b \in Adder}
    BY <1>1 DEF Rest
<1>5. ASSUME NEW a \in Adder PROVE AdderInv(a)'
    <2>1. Added(a, 1, db.saved[a]) \subseteq Known \cup Rest'
        BY Zenon, <1>2, <1>4 DEF CodeNotLost, Known
    <2>2. db.saved[a] <= db.saved[a] /\ db.saved[a] <= Len(Adds[a])
        BY <1>1 DEF TypeInv, DBType, Config, StoreInv
    <2> QED
        BY ZenonT(30), <1>1, <1>3, <2>1, <2>2 DEF AdderInv
<1> QED
    BY Zenon, <1>1, <1>2, <1>5 DEF StoreInv

\* Every step keeps what the disk and the goroutines know.
LEMMA StoreNext == Config /\ TypeInv /\ StoreInv /\ [Next]_vars => StoreInv'
<1> SUFFICES ASSUME Config, TypeInv, StoreInv, [Next]_vars PROVE StoreInv'
    BY Zenon
<1>1. ASSUME NEW a \in Calls, AdderStep(a) PROVE StoreInv'
    BY Zenon, <1>1, SelectStore, MarkStore, QueueStore, SaveStore DEF AdderStep
<1>2. ASSUME NEW w \in Worker, WorkerStep(w) PROVE StoreInv'
    <2>1. CASE Work(w)
        BY Zenon, <2>1, WorkFacts, StoreKeeps DEF Known, Config
    <2>2. CASE FulfillCodeRequest(w)
        <3>1. mem'.outstanding \subseteq mem.outstanding
            BY Zenon, <2>2, FulfillFacts DEF Fetches, Abandons
        <3> QED
            BY Zenon, <2>2, <3>1, FulfillFacts, StoreKeeps DEF Known, Config
    <2>3. CASE WriteCode(w)
        <3>1. Known \subseteq Known'
            BY Zenon, <2>3, WriteFacts DEF Known
        <3> QED
            BY Zenon, <2>3, <3>1, WriteFacts, StoreKeeps DEF Config
    <2> QED
        BY Zenon, <1>2, <2>1, <2>2, <2>3 DEF WorkerStep
<1>3. CASE NotifyAccountTrieCompleted \/ Cancel
    BY Zenon, <1>3, CloseFacts, StoreKeeps DEF Known, Config
<1>4. CASE Crash \/ SetError
    <2>1. db' = db /\ phase' # "syncing" /\ (phase' = "down" => mem' = NewMem)
        BY <1>4 DEF Crash, SetError, Stop
    <2>2. CodeNotLost' /\ \A a \in Adder : db'.saved[a] <= Len(Adds[a])
        BY Zenon, <2>1, StoreEnds DEF CodeNotLost
    <2> QED
        BY Zenon, <2>1, <2>2 DEF StoreInv
<1>5. CASE UNCHANGED vars
    <2>1. /\ db' = db /\ mem' = mem /\ adder' = adder /\ phase' = phase
        BY <1>5 DEF vars
    <2>2. /\ Known' = Known /\ Rest' = Rest /\ Marking' = Marking /\ CodeNotLost' = CodeNotLost
          /\ \A a \in Adder : Want(a)' = Want(a)
        BY <2>1 DEF CodeNotLost, Known, Rest, Marking, Want
    <2> QED
        BY ZenonT(30), <2>1, <2>2 DEF StoreInv, AdderInv
<1> QED
    BY Zenon, <1>1, <1>2, <1>3, <1>4, <1>5, StartStore DEF Next, Finish

-----------------------------------------------------------------------------
(* Success means that everything is fetched.                               *)

\* A goroutine in a call can still send: the queue is open, and Start has begun.
LEMMA InCall ==
    ASSUME Config, TypeInv, StoreInv, SessionInv, phase = "syncing",
           NEW a \in Calls, adder[a].pc \in {"mark", "queue"}
    PROVE  ~mem.closed /\ adder[DB].pc # "idle"
<1>1. CASE a = DB
    BY <1>1 DEF SessionInv
<1>2. CASE a # DB
    <2>1. a \in Adder /\ adder[a].pc # "idle" /\ adder[a].n < Len(Adds[a])
        BY <1>2 DEF StoreInv, AdderInv, Calls
    <2>2. adder[a].n # Len(Adds[a])
        BY <2>1 DEF Config, TypeInv, CallType
    <2> QED
        BY Zenon, <2>1, <2>2 DEF SessionInv, Fresh
<1> QED
    BY Zenon, <1>1, <1>2

\* Start's own call collects every marker.
LEMMA SelectSession ==
    ASSUME Config, TypeInv, SessionInv, NEW a \in Calls, SelectHashes(a)
    PROVE  SessionInv'
<1>1. /\ db' = db /\ worker' = worker /\ DB \in Calls /\ Adder \subseteq Calls
      /\ mem'.outstanding = mem.outstanding \cup Select(a) /\ mem'.queue = mem.queue
      /\ mem'.closed = mem.closed /\ mem'.ctx = mem.ctx
      /\ adder[a].pc = "idle" /\ adder'[a].pc = "mark"
      /\ adder'[a].n = adder[a].n /\ adder'[a].sel = Select(a)
      /\ \A b \in Calls : b # a => adder'[b] = adder[b]
      /\ a # DB => adder[DB].pc = "returned"
    BY SMTT(30), SelectFacts DEF Calls
<1>2. \A w \in Worker : WorkerInv(w)' /\ Hashes(w)' = Hashes(w)
    BY <1>1 DEF SessionInv, WorkerInv, Hashes
<1>3. ASSUME NEW h, Held(h) \/ h \in Select(a) PROVE Held(h)'
    <2>1. ASSUME NEW b \in Calls, h \in adder[b].sel PROVE Held(h)'
        <3>1. b # a
            BY Zenon, <1>1, <2>1 DEF SessionInv
        <3> QED
            BY Zenon, <1>1, <2>1, <3>1 DEF Held
    <2> QED
        BY Zenon, <1>1, <1>2, <1>3, <2>1 DEF Held
<1>4. adder'[DB].pc # "idle" /\ \A h \in db.toFetch : Held(h)'
    <2>1. CASE a = DB
        <3>1. db.toFetch \subseteq Select(a)
            BY Zenon, <1>1, <2>1 DEF SessionInv, Fresh, Select, Want
        <3> QED
            BY <1>1, <1>3, <2>1, <3>1
    <2>2. CASE a # DB
        <3>1. adder[DB].pc # "idle" /\ adder'[DB] = adder[DB]
            BY SMTT(30), <1>1, <2>2
        <3> QED
            BY Zenon, <1>3, <3>1 DEF SessionInv
    <2> QED
        BY Zenon, <2>1, <2>2
<1>5. mem.closed => adder'[DB].pc = "returned" /\ \A b \in Adder : adder'[b].n = Len(Adds[b])
    BY <1>1 DEF SessionInv
<1>6. \A b \in Calls : adder'[b].pc \in {"idle", "returned"} => adder'[b].sel = {}
    BY <1>1 DEF SessionInv
<1> QED
    BY Zenon, <1>1, <1>2, <1>4, <1>5, <1>6 DEF SessionInv

\* A new marker is for a hash its goroutine holds.
LEMMA MarkSession ==
    ASSUME Config, TypeInv, StoreInv, SessionInv, NEW a \in Calls, AddCodeToFetch(a)
    PROVE  SessionInv'
<1>1. /\ phase = "syncing" /\ mem' = mem /\ worker' = worker
      /\ db'.toFetch = db.toFetch \cup adder[a].sel
      /\ adder[a].pc = "mark" /\ adder'[a].pc = "queue"
      /\ \A b \in Calls : adder'[b].n = adder[b].n /\ adder'[b].sel = adder[b].sel
      /\ \A b \in Calls : b # a => adder'[b] = adder[b]
      /\ DB \in Calls /\ Adder \subseteq Calls
    BY MarkFacts DEF Calls
<1>2. ~mem.closed /\ adder[DB].pc # "idle"
    BY Zenon, <1>1, InCall
<1>3. adder'[DB].pc # "idle"
    BY <1>1, <1>2
<1>4. \A w \in Worker : WorkerInv(w)' /\ Hashes(w)' = Hashes(w)
    BY <1>1 DEF SessionInv, WorkerInv, Hashes
<1>5. \A h : Held(h) => Held(h)'
    BY Zenon, <1>1, <1>4 DEF Held
<1>6. ASSUME NEW h \in db'.toFetch PROVE Held(h)'
    <2>1. h \in db.toFetch \/ h \in adder[a].sel
        BY Zenon, <1>1
    <2>2. Held(h)
        BY Zenon, <1>2, <2>1 DEF SessionInv, Held
    <2> QED
        BY Zenon, <1>5, <2>2
<1>7. \A b \in Calls : adder'[b].pc \in {"idle", "returned"} => adder'[b].sel = {}
    BY <1>1 DEF SessionInv
<1> QED
    BY Zenon, <1>1, <1>2, <1>3, <1>4, <1>6, <1>7 DEF SessionInv

\* A hash that leaves its goroutine is in the queue.
LEMMA QueueSession ==
    ASSUME Config, TypeInv, StoreInv, SessionInv, NEW a \in Calls, AddHashToQueue(a)
    PROVE  SessionInv'
<1>1. /\ phase = "syncing" /\ db' = db /\ worker' = worker
      /\ mem'.closed = mem.closed /\ mem'.ctx = mem.ctx /\ adder[a].pc = "queue"
      /\ \A b \in Calls : b # a => adder'[b] = adder[b]
      /\ Sends(a) \/ Returns(a) \/ Fails(a)
      /\ DB \in Calls
    BY SMTT(30), QueueFacts DEF Calls
<1>2. ~mem.closed /\ adder[DB].pc # "idle"
    BY Zenon, <1>1, InCall
<1>3. adder'[DB].pc # "idle"
    BY SMTT(30), <1>1, <1>2 DEF Sends, Returns, Fails
<1>4. \A w \in Worker : WorkerInv(w)' /\ Hashes(w)' = Hashes(w)
    BY SMTT(30), <1>1, <1>2 DEF SessionInv, WorkerInv, Hashes
<1>5. \A b \in Calls : adder'[b].pc \in {"idle", "returned"} => adder'[b].sel = {}
    BY <1>1 DEF SessionInv, Sends, Returns, Fails
<1>6. ASSUME NEW h \in db'.toFetch PROVE Held(h)'
    <2>1. Held(h) /\ mem.queue \in Seq(Hash)
        BY Zenon, <1>1, <1>2, Fields DEF SessionInv
    <2>2. CASE Sends(a)
        <3>1. PICK k \in adder[a].sel :
                 mem'.queue = Append(mem.queue, k) /\ adder'[a].sel = adder[a].sel \ {k}
            BY ZenonT(30), <2>2 DEF Sends
        <3>2. Elems(mem'.queue) = Elems(mem.queue) \cup {k}
            <4>1. k \in Hash
                BY Zenon, Fields
            <4>2. Elems(Append(mem.queue, k)) = Elems(mem.queue) \cup {k}
                BY SMTT(30), <2>1, <4>1, ElemsAppend
            <4> QED
                BY SMTT(30), <3>1, <4>2
        <3>3. ASSUME NEW b \in Calls, h \in adder[b].sel, h # k PROVE h \in adder'[b].sel
            BY Zenon, <1>1, <3>1, <3>3
        <3> QED
            BY ZenonT(30), <1>4, <2>1, <3>2, <3>3 DEF Held
    <2>3. CASE Returns(a) \/ Fails(a)
        <3>1. mem' = mem /\ \A b \in Calls : adder'[b].sel = adder[b].sel
            BY ZenonT(30), <1>1, <2>3 DEF Returns, Fails
        <3> QED
            BY Zenon, <1>4, <2>1, <3>1 DEF Held
    <2> QED
        BY Zenon, <1>1, <2>2, <2>3
<1> QED
    BY ZenonT(30), <1>1, <1>2, <1>3, <1>4, <1>5, <1>6 DEF SessionInv

\* Storing leafs touches no marker.
LEMMA SaveSession ==
    ASSUME TypeInv, SessionInv, NEW a \in Calls, SaveLeafs(a)
    PROVE  SessionInv'
<1>1. /\ mem' = mem /\ adder' = adder /\ worker' = worker
      /\ db'.code = db.code /\ db'.toFetch = db.toFetch
    BY Zenon, SaveFacts
<1>2. Fresh' = Fresh /\ \A h : Held(h)' = Held(h)
    BY <1>1 DEF Fresh, Held, Hashes
<1>3. \A w \in Worker : WorkerInv(w)' = WorkerInv(w)
    BY <1>1 DEF WorkerInv
<1> QED
    BY Zenon, <1>1, <1>2, <1>3 DEF SessionInv

\* A hash that leaves the queue is in a batch; a worker leaves when the queue is done.
LEMMA WorkSession ==
    ASSUME TypeInv, SessionInv, NEW w \in Worker, Work(w)
    PROVE  SessionInv'
<1>1. /\ db' = db /\ adder' = adder /\ mem'.outstanding = mem.outstanding
      /\ mem'.closed = mem.closed /\ mem'.ctx = mem.ctx
      /\ \A v \in Worker : v # w => worker'[v] = worker[v] /\ Hashes(v)' = Hashes(v)
    BY WorkFacts DEF Hashes
<1>2. Takes(w) \/ Drains(w) \/ GivesUp(w)
    BY Zenon, WorkFacts
<1>3. ASSUME NEW v \in Worker PROVE WorkerInv(v)'
    BY SMTT(30), <1>1, <1>2, <1>3 DEF SessionInv, WorkerInv, Takes, Drains, GivesUp
<1>4. Fresh => Fresh'
    BY SMTT(30), <1>1, <1>2 DEF Fresh, Takes, Drains, GivesUp
<1>5. ASSUME NEW h, Held(h) PROVE Held(h)'
    <2>1. CASE Takes(w)
        <3>1. /\ mem.queue \in Seq(Hash) /\ mem.queue # <<>> /\ mem'.queue = Tail(mem.queue)
              /\ worker[w].batch \in Seq(Hash) /\ Hashes(w) = Elems(worker[w].batch)
              /\ worker'[w].batch = Append(worker[w].batch, Head(mem.queue))
            BY Zenon, <2>1, Fields DEF Takes
        <3>2. Elems(mem.queue) = Elems(mem'.queue) \cup {Head(mem.queue)} /\ Head(mem.queue) \in Hash
            BY Zenon, <3>1, ElemsTail
        <3>3. Elems(worker'[w].batch) = Elems(worker[w].batch) \cup {Head(mem.queue)}
            <4>1. Elems(Append(worker[w].batch, Head(mem.queue)))
                  = Elems(worker[w].batch) \cup {Head(mem.queue)}
                BY <3>1, <3>2, ElemsAppend
            <4> QED
                BY SMTT(30), <3>1, <4>1
        <3>4. Hashes(w)' = Hashes(w) \cup {Head(mem.queue)}
            BY Zenon, <3>1, <3>3 DEF Hashes, Elems
        <3>5. \A v \in Worker : Hashes(v) \subseteq Hashes(v)'
            BY Zenon, <1>1, <3>4
        <3> QED
            BY ZenonT(30), <1>1, <1>5, <3>2, <3>4, <3>5 DEF Held
    <2>2. CASE Drains(w) \/ GivesUp(w)
        <3>1. mem' = mem /\ worker'[w].batch = worker[w].batch
            BY Zenon, <2>2 DEF Drains, GivesUp
        <3>2. \A v \in Worker : Hashes(v)' = Hashes(v)
            BY Zenon, <1>1, <3>1 DEF Hashes
        <3> QED
            BY Zenon, <1>1, <1>5, <3>1, <3>2 DEF Held
    <2> QED
        BY Zenon, <1>2, <2>1, <2>2
<1> QED
    BY Zenon, <1>1, <1>3, <1>4, <1>5 DEF SessionInv

\* A worker with a request is not there before Start has begun.
LEMMA InRequest ==
    ASSUME SessionInv, NEW w \in Worker, worker[w].pc \notin {"idle", "exit"}
    PROVE  adder[DB].pc # "idle"
BY Zenon DEF SessionInv, Fresh

\* An answer does not change what a worker holds.
LEMMA FulfillSession ==
    ASSUME TypeInv, SessionInv, NEW w \in Worker, FulfillCodeRequest(w)
    PROVE  SessionInv'
<1>1. /\ db' = db /\ adder' = adder
      /\ mem'.queue = mem.queue /\ mem'.closed = mem.closed /\ mem'.ctx = mem.ctx
      /\ \A v \in Worker : worker'[v].batch = worker[v].batch
      /\ \A v \in Worker : v # w => worker'[v] = worker[v]
      /\ worker[w].pc \in {"fetch", "fetch_last"} /\ worker[w].pc \notin {"idle", "exit"}
    BY FulfillFacts
<1>2. Fetches(w) \/ Abandons(w)
    BY Zenon, FulfillFacts
<1>3. adder[DB].pc # "idle"
    BY Zenon, <1>1, InRequest
<1>4. ASSUME NEW v \in Worker PROVE WorkerInv(v)'
    BY <1>1, <1>2, <1>4 DEF SessionInv, WorkerInv, Fetches, Abandons
<1>5. \A v \in Worker : Hashes(v)' = Hashes(v)
    BY Zenon, <1>1 DEF Hashes
<1>6. \A h : Held(h) => Held(h)'
    BY Zenon, <1>1, <1>5 DEF Held
<1> QED
    BY Zenon, <1>1, <1>3, <1>4, <1>6 DEF SessionInv

\* A worker lets go of its hashes with their markers.
LEMMA WriteSession ==
    ASSUME TypeInv, SessionInv, NEW w \in Worker, WriteCode(w)
    PROVE  SessionInv'
<1>1. /\ mem' = mem /\ adder' = adder /\ db'.toFetch = db.toFetch \ Hashes(w)
      /\ worker'[w].batch = <<>>
      /\ worker'[w].pc = IF worker[w].pc = "write" THEN "idle" ELSE "exit"
      /\ \A v \in Worker : v # w => worker'[v] = worker[v] /\ Hashes(v)' = Hashes(v)
      /\ worker[w].pc \in {"write", "write_last"} /\ worker[w].pc \notin {"idle", "exit"}
    BY WriteFacts DEF Hashes
<1>2. adder[DB].pc # "idle"
    BY Zenon, <1>1, InRequest
<1>3. ASSUME NEW v \in Worker PROVE WorkerInv(v)'
    BY SMTT(30), <1>1, <1>3 DEF SessionInv, WorkerInv
<1>4. ASSUME NEW h \in db'.toFetch PROVE Held(h)'
    <2>1. Held(h) /\ h \notin Hashes(w)
        BY Zenon, <1>1, <1>2 DEF SessionInv
    <2> QED
        BY Zenon, <1>1, <2>1 DEF Held
<1> QED
    BY Zenon, <1>1, <1>2, <1>3, <1>4 DEF SessionInv

\* The queue closes when every call has returned.
LEMMA CloseSession ==
    ASSUME Config, TypeInv, StoreInv, SessionInv, NotifyAccountTrieCompleted \/ Cancel
    PROVE  SessionInv'
<1>1. /\ phase = "syncing" /\ db' = db /\ adder' = adder /\ worker' = worker
      /\ mem'.outstanding = mem.outstanding /\ mem'.queue = mem.queue
      /\ mem.closed => mem'.closed
    BY Zenon, CloseFacts
<1>2. mem'.closed => adder[DB].pc = "returned" /\ \A a \in Adder : adder[a].n = Len(Adds[a])
    <2>1. CASE mem'.closed = mem.closed
        BY Zenon, <2>1 DEF SessionInv
    <2>2. CASE mem'.closed # mem.closed
        <3>1. adder[DB].pc = "returned" /\ \A a \in Adder : db.saved[a] = Len(Adds[a])
            BY Zenon, <2>2, CloseFacts
        <3>2. \A a \in Adder : adder[a].n = Len(Adds[a])
            BY <1>1, <3>1 DEF StoreInv, AdderInv, TypeInv, DBType, CallType, Calls, Config
        <3> QED
            BY Zenon, <3>1, <3>2
    <2> QED
        BY Zenon, <2>1, <2>2
<1>3. mem'.ctx = "live" => mem.ctx = "live"
    BY CloseFacts
<1>4. \A w \in Worker : WorkerInv(w)' /\ Hashes(w)' = Hashes(w)
    BY Zenon, <1>1, <1>3 DEF SessionInv, WorkerInv, Hashes
<1>5. (Fresh => Fresh') /\ \A h : Held(h) => Held(h)'
    BY Zenon, <1>1, <1>4 DEF Fresh, Held
<1> QED
    BY Zenon, <1>1, <1>2, <1>4, <1>5 DEF SessionInv

\* A new session is fresh.
LEMMA StartSession ==
    ASSUME Config, TypeInv, DoneInv, Start
    PROVE  SessionInv'
<1>1. /\ mem' = mem /\ worker' = worker /\ phase = "down" /\ DB \in Calls /\ Adder \subseteq Calls
      /\ db'.code = db.code /\ db'.toFetch = db.toFetch \ db.code
      /\ \A a \in Calls : adder'[a].pc = "idle" /\ adder'[a].sel = {}
    BY StartFacts DEF Calls
<1>2. /\ mem.outstanding = {} /\ mem.queue = <<>> /\ ~mem.closed
      /\ \A w \in Worker : worker[w].pc = "idle" /\ worker[w].batch = <<>>
    BY <1>1 DEF DoneInv, NewMem, IdleWorker
<1>3. Fresh'
    BY Zenon, <1>1, <1>2 DEF Fresh
<1>4. ASSUME NEW w \in Worker PROVE WorkerInv(w)'
    BY <1>1, <1>2 DEF WorkerInv
<1> QED
    BY Zenon, <1>1, <1>2, <1>3, <1>4 DEF SessionInv

\* When the last worker has left, the adders are done and nothing is held.
LEMMA AllFetched ==
    ASSUME Config, TypeInv, StoreInv, SessionInv, phase = "syncing", mem.ctx = "live",
           \A w \in Worker : worker[w].pc = "exit"
    PROVE  db.toFetch = {} /\ \A a \in Adder : Added(a, 1, Len(Adds[a])) \subseteq db.code
<1>1. /\ mem.closed /\ mem.queue = <<>> /\ \A w \in Worker : worker[w].batch = <<>>
      /\ adder[DB].pc = "returned" /\ \A a \in Adder : adder[a].n = Len(Adds[a])
    BY Zenon DEF Config, SessionInv, WorkerInv
<1>2. \A a \in Adder : Len(Adds[a]) \in Nat /\ adder[a].pc = "idle"
    BY <1>1 DEF Config, StoreInv, AdderInv
<1>3. \A a \in Calls : adder[a].sel = {}
    BY <1>1, <1>2 DEF SessionInv, Calls
<1>4. \A h : ~Held(h)
    <2>1. \A w \in Worker : Hashes(w) = {}
        BY <1>1 DEF Hashes
    <2> QED
        BY Zenon, <1>1, <1>3, <2>1, EmptyElems DEF Held
<1>5. db.toFetch = {}
    <2>1. adder[DB].pc # "idle"
        BY SMTT(30), <1>1
    <2> QED
        BY Zenon, <1>4, <2>1 DEF SessionInv
<1>6. Rest = {}
    <2>1. \A a \in Adder : (adder[a].n + 1)..Len(Adds[a]) = {}
        BY <1>1, <1>2
    <2> QED
        BY Zenon, <2>1 DEF Rest, Added
<1>7. ASSUME NEW a \in Adder PROVE Added(a, 1, Len(Adds[a])) \subseteq db.code
    BY Zenon, <1>1, <1>5, <1>6 DEF StoreInv, AdderInv, Known
<1> QED
    BY Zenon, <1>5, <1>7

\* Every step keeps the session in order, and success means that all is fetched.
LEMMA DoneNext == Config /\ TypeInv /\ StoreInv /\ DoneInv /\ [Next]_vars => DoneInv'
<1> SUFFICES ASSUME Config, TypeInv, StoreInv, DoneInv, [Next]_vars PROVE DoneInv'
    BY Zenon
<1>0. ASSUME phase' = "syncing", SessionInv' PROVE DoneInv'
    BY <1>0 DEF DoneInv
<1>1. ASSUME NEW a \in Calls, AdderStep(a) PROVE DoneInv'
    <2>1. phase = "syncing" /\ phase' = "syncing"
        BY Zenon, <1>1, SelectFacts, MarkFacts, QueueFacts, SaveFacts DEF AdderStep
    <2>2. SessionInv
        BY Zenon, <2>1 DEF DoneInv
    <2> QED
        BY Zenon, <1>0, <1>1, <2>1, <2>2, SelectSession, MarkSession, QueueSession, SaveSession
           DEF AdderStep
<1>2. ASSUME NEW w \in Worker, WorkerStep(w) PROVE DoneInv'
    <2>1. phase = "syncing" /\ phase' = "syncing"
        BY Zenon, <1>2, WorkFacts, FulfillFacts, WriteFacts DEF WorkerStep
    <2>2. SessionInv
        BY Zenon, <2>1 DEF DoneInv
    <2> QED
        BY Zenon, <1>0, <1>2, <2>1, <2>2, WorkSession, FulfillSession, WriteSession
           DEF WorkerStep
<1>3. CASE NotifyAccountTrieCompleted \/ Cancel
    <2>1. phase = "syncing" /\ phase' = "syncing"
        BY Zenon, <1>3, CloseFacts
    <2> QED
        BY Zenon, <1>0, <1>3, <2>1, CloseSession DEF DoneInv
<1>4. CASE Start
    BY Zenon, <1>0, <1>4, StartFacts, StartSession
<1>5. ASSUME Stop PROVE DoneInv'
    BY <1>5 DEF Stop, DoneInv
<1>6. CASE Crash
    BY Zenon, <1>5, <1>6 DEF Crash
<1>7. CASE SetError
    <2>1. CASE mem.ctx = "live" /\ phase' = "done" /\ UNCHANGED <<db, mem, adder, worker>>
        <3>1. db' = db /\ phase = "syncing" /\ \A w \in Worker : worker[w].pc = "exit"
            BY <1>7, <2>1 DEF SetError
        <3>2. SessionInv
            BY Zenon, <3>1 DEF DoneInv
        <3>3. db.toFetch = {} /\ \A a \in Adder : Added(a, 1, Len(Adds[a])) \subseteq db.code
            BY ZenonT(30), <2>1, <3>1, <3>2, AllFetched
        <3> QED
            BY <2>1, <3>1, <3>3 DEF DoneInv, DoneMeansFetched
    <2> QED
        BY Zenon, <1>5, <1>7, <2>1 DEF SetError
<1>8. CASE UNCHANGED vars
    BY <1>8 DEF vars, DoneInv, DoneMeansFetched, SessionInv, Fresh, Held, WorkerInv, Hashes
<1> QED
    BY Zenon, <1>1, <1>2, <1>3, <1>4, <1>6, <1>7, <1>8 DEF Next, Finish

-----------------------------------------------------------------------------
(* A request names a hash once.                                            *)

\* The queue is as it was, and nobody holds more.
LEMMA UniqueKeeps ==
    ASSUME UniqueInv, mem'.queue = mem.queue, mem'.outstanding = mem.outstanding,
           \A a \in Calls : adder'[a].sel \subseteq adder[a].sel,
           \A w \in Worker : GoodBatch(w)' /\ Holds(w)' \subseteq Holds(w)
    PROVE  UniqueInv'
<1>1. ASSUME NEW a \in Calls PROVE AdderAlone(a)'
    <2>1. AdderAlone(a)
        BY Zenon DEF UniqueInv
    <2> QED
        BY Zenon, <2>1 DEF AdderAlone, Apart
<1>2. ASSUME NEW w \in Worker PROVE WorkerAlone(w)'
    <2>1. WorkerAlone(w)
        BY Zenon DEF UniqueInv
    <2> QED
        BY Zenon, <2>1 DEF WorkerAlone, Apart
<1>3. Injective(mem'.queue) /\ Elems(mem'.queue) \subseteq mem'.outstanding
    BY Zenon DEF UniqueInv
<1> QED
    BY Zenon, <1>1, <1>2, <1>3 DEF UniqueInv

\* The workers are as they were.
LEMMA SameWorkers ==
    ASSUME UniqueInv, worker' = worker
    PROVE  \A w \in Worker : GoodBatch(w)' /\ Holds(w)' = Holds(w)
BY Zenon DEF UniqueInv, GoodBatch, Holds, Hashes

\* A goroutine selects only what nobody has outstanding.
LEMMA SelectUnique ==
    ASSUME TypeInv, UniqueInv, NEW a \in Calls, SelectHashes(a)
    PROVE  UniqueInv'
<1>1. /\ worker' = worker /\ mem'.queue = mem.queue
      /\ mem'.outstanding = mem.outstanding \cup Select(a) /\ adder'[a].sel = Select(a)
      /\ \A b \in Calls : b # a => adder'[b].sel = adder[b].sel
      /\ \A h \in Select(a) : h \notin mem.outstanding
    BY Zenon, SelectFacts DEF Select
<1>2. /\ Injective(mem.queue) /\ Elems(mem.queue) \subseteq mem.outstanding
      /\ \A b \in Calls : AdderAlone(b) /\ adder[b].sel \subseteq mem.outstanding
      /\ \A w \in Worker : /\ WorkerAlone(w) /\ Holds(w) \subseteq mem.outstanding
                           /\ GoodBatch(w)' /\ Holds(w)' = Holds(w)
    BY Zenon, <1>1, SameWorkers DEF UniqueInv, AdderAlone, WorkerAlone
<1>3. ASSUME NEW b \in Calls PROVE AdderAlone(b)'
    <2>1. CASE b = a
        <3>1. adder'[a].sel \subseteq mem'.outstanding /\ Apart(adder'[a].sel, Elems(mem'.queue))
            BY <1>1, <1>2 DEF Apart
        <3>2. ASSUME NEW c \in Calls, c # a PROVE Apart(adder'[a].sel, adder'[c].sel)
            BY <1>1, <1>2, <3>2 DEF Apart
        <3> QED
            BY ZenonT(30), <2>1, <3>1, <3>2 DEF AdderAlone
    <2>2. CASE b # a
        <3>1. ASSUME NEW c \in Calls, c # b PROVE Apart(adder'[b].sel, adder'[c].sel)
            <4>1. CASE c = a
                BY Zenon, <1>1, <1>2, <2>2, <4>1 DEF Apart
            <4>2. CASE c # a
                BY Zenon, <1>1, <1>2, <2>2, <3>1, <4>2 DEF AdderAlone
            <4> QED
                BY Zenon, <4>1, <4>2
        <3>2. adder'[b].sel \subseteq mem'.outstanding /\ Apart(adder'[b].sel, Elems(mem'.queue))
            BY ZenonT(30), <1>1, <1>2, <2>2 DEF AdderAlone
        <3> QED
            BY Zenon, <3>1, <3>2 DEF AdderAlone
    <2> QED
        BY Zenon, <2>1, <2>2
<1>4. ASSUME NEW w \in Worker PROVE WorkerAlone(w)'
    <2>1. ASSUME NEW b \in Calls PROVE Apart(Holds(w)', adder'[b].sel)
        <3>1. CASE b = a
            BY <1>1, <1>2, <3>1 DEF Apart
        <3>2. CASE b # a
            <4>1. Apart(Holds(w), adder[b].sel)
                BY Zenon, <1>2 DEF WorkerAlone
            <4>2. Holds(w)' = Holds(w) /\ adder'[b].sel = adder[b].sel
                BY Zenon, <1>1, <1>2, <3>2
            <4> QED
                BY Zenon, <4>1, <4>2
        <3> QED
            BY Zenon, <3>1, <3>2
    <2>2. \A v \in Worker : v # w => Apart(Holds(w)', Holds(v)')
        BY Zenon, <1>2 DEF WorkerAlone
    <2>3. Holds(w)' \subseteq mem'.outstanding /\ Apart(Holds(w)', Elems(mem'.queue))
        BY Zenon, <1>1, <1>2 DEF WorkerAlone
    <2> QED
        BY Zenon, <2>1, <2>2, <2>3 DEF WorkerAlone
<1>5. Injective(mem'.queue) /\ Elems(mem'.queue) \subseteq mem'.outstanding
    BY Zenon, <1>1, <1>2
<1> QED
    BY Zenon, <1>2, <1>3, <1>4, <1>5 DEF UniqueInv

\* A hash goes from its adder to the queue.
LEMMA SendUnique ==
    ASSUME TypeInv, UniqueInv, NEW a \in Calls, NEW k \in adder[a].sel, worker' = worker,
           mem'.outstanding = mem.outstanding, mem'.queue = Append(mem.queue, k),
           adder'[a].sel = adder[a].sel \ {k},
           \A b \in Calls : b # a => adder'[b].sel = adder[b].sel
    PROVE  UniqueInv'
<1>1. /\ Injective(mem.queue) /\ Elems(mem.queue) \subseteq mem.outstanding
      /\ \A b \in Calls : AdderAlone(b)
      /\ \A w \in Worker : WorkerAlone(w) /\ GoodBatch(w)' /\ Holds(w)' = Holds(w)
    BY Zenon, SameWorkers DEF UniqueInv
<1>2. k \in Hash /\ mem.queue \in Seq(Hash)
    BY Zenon, Fields
<1>3. k \in mem.outstanding /\ k \notin Elems(mem.queue)
    BY ZenonT(30), <1>1 DEF AdderAlone, Apart
<1>4. Injective(mem'.queue) /\ Elems(mem'.queue) = Elems(mem.queue) \cup {k}
    BY SMTT(30), <1>1, <1>2, <1>3, ElemsAppend
<1>5. \A b \in Calls : adder'[b].sel \subseteq adder[b].sel /\ k \notin adder'[b].sel
    BY Zenon, <1>1 DEF AdderAlone, Apart
<1>6. ASSUME NEW b \in Calls PROVE AdderAlone(b)'
    <2>1. adder'[b].sel \subseteq mem.outstanding /\ Apart(adder'[b].sel, Elems(mem'.queue))
        BY SMTT(30), <1>1, <1>4, <1>5 DEF AdderAlone, Apart
    <2>2. ASSUME NEW c \in Calls, c # b PROVE Apart(adder'[b].sel, adder'[c].sel)
        BY Zenon, <1>1, <1>5, <2>2 DEF AdderAlone, Apart
    <2> QED
        BY Zenon, <2>1, <2>2 DEF AdderAlone
<1>7. ASSUME NEW w \in Worker PROVE WorkerAlone(w)'
    <2>1. k \notin Holds(w)
        BY Zenon, <1>1 DEF WorkerAlone, Apart
    <2>2. Holds(w) \subseteq mem.outstanding /\ Apart(Holds(w), Elems(mem'.queue))
        BY SMTT(30), <1>1, <1>4, <2>1 DEF WorkerAlone, Apart
    <2>3. \A b \in Calls : Apart(Holds(w), adder'[b].sel)
        BY Zenon, <1>1, <1>5 DEF WorkerAlone, Apart
    <2> QED
        BY Zenon, <1>1, <2>2, <2>3 DEF WorkerAlone
<1>8. Elems(mem'.queue) \subseteq mem'.outstanding
    BY SMTT(30), <1>1, <1>3, <1>4
<1> QED
    BY ZenonT(30), <1>1, <1>4, <1>6, <1>7, <1>8 DEF UniqueInv

\* A hash goes from the queue to the batch of a worker.
LEMMA TakeUnique ==
    ASSUME TypeInv, UniqueInv, NEW w \in Worker, Work(w), Takes(w)
    PROVE  UniqueInv'
<1> DEFINE k == Head(mem.queue)
<1>1. /\ mem'.outstanding = mem.outstanding /\ adder' = adder
      /\ worker[w].pc = "idle" /\ worker'[w].pc \in {"idle", "fetch"}
      /\ \A v \in Worker : v # w => worker'[v] = worker[v]
      /\ mem.queue # <<>> /\ mem'.queue = Tail(mem.queue)
      /\ worker'[w].batch = Append(worker[w].batch, k)
    BY Zenon, WorkFacts DEF Takes
<1>2. /\ Injective(mem.queue) /\ Elems(mem.queue) \subseteq mem.outstanding
      /\ \A b \in Calls : AdderAlone(b)
      /\ \A v \in Worker : WorkerAlone(v) /\ GoodBatch(v)
    BY Zenon DEF UniqueInv
<1>3. /\ mem.queue \in Seq(Hash) /\ worker[w].batch \in Seq(Hash)
      /\ Hashes(w) = Elems(worker[w].batch)
    BY Zenon, Fields
<1>4. /\ k \in Hash /\ k \notin Elems(mem'.queue) /\ Injective(mem'.queue)
      /\ Elems(mem.queue) = Elems(mem'.queue) \cup {k}
    BY SMTT(30), <1>1, <1>2, <1>3, ElemsTail
<1>5. Holds(w) = Hashes(w)
    BY <1>1 DEF Holds
<1>6. \A v \in Worker : k \notin Holds(v)
    BY Zenon, <1>2, <1>4 DEF WorkerAlone, Apart
<1>7. \A b \in Calls : k \notin adder[b].sel
    BY Zenon, <1>2, <1>4 DEF AdderAlone, Apart
<1>8. /\ Injective(worker'[w].batch) /\ worker'[w].batch # <<>>
      /\ Elems(worker'[w].batch) = Elems(worker[w].batch) \cup {k}
    <2>1. Injective(worker[w].batch) /\ k \notin Elems(worker[w].batch)
        BY <1>2, <1>3, <1>5, <1>6 DEF GoodBatch
    <2>2. k \in Hash /\ worker[w].batch \in Seq(Hash)
        BY Zenon, <1>3, <1>4
    <2> HIDE DEF k
    <2>3. LET b == Append(worker[w].batch, k)
          IN  Injective(b) /\ b # <<>> /\ Elems(b) = Elems(worker[w].batch) \cup {k}
        BY <2>1, <2>2, ElemsAppend
    <2> QED
        BY Zenon, <1>1, <2>3
<1>9. Holds(w)' = Holds(w) \cup {k} /\ \A v \in Worker : v # w => Holds(v)' = Holds(v)
    <2>1. Hashes(w)' = Elems(worker'[w].batch)
        BY Zenon DEF Hashes, Elems
    <2>2. Holds(w)' = Hashes(w)'
        BY <1>1 DEF Holds
    <2>3. \A v \in Worker : v # w => Holds(v)' = Holds(v)
        BY Zenon, <1>1 DEF Holds, Hashes
    <2>4. Holds(w)' = Holds(w) \cup {k}
        BY Zenon, <1>3, <1>5, <1>8, <2>1, <2>2
    <2> QED
        BY Zenon, <2>3, <2>4
<1> HIDE DEF k
<1>10. ASSUME NEW b \in Calls PROVE AdderAlone(b)'
    BY Zenon, <1>1, <1>2, <1>4 DEF AdderAlone, Apart
<1>11. ASSUME NEW v \in Worker PROVE WorkerAlone(v)' /\ GoodBatch(v)'
    <2>1. CASE v = w
        <3>1. Holds(w)' \subseteq mem'.outstanding /\ Apart(Holds(w)', Elems(mem'.queue))
            BY SMTT(30), <1>1, <1>2, <1>4, <1>9 DEF WorkerAlone, Apart
        <3>2. \A b \in Calls : Apart(Holds(w)', adder'[b].sel)
            BY Zenon, <1>1, <1>2, <1>7, <1>9 DEF WorkerAlone, Apart
        <3>3. ASSUME NEW u \in Worker, u # w PROVE Apart(Holds(w)', Holds(u)')
            BY Zenon, <1>2, <1>6, <1>9, <3>3 DEF WorkerAlone, Apart
        <3> QED
            BY ZenonT(30), <1>8, <2>1, <3>1, <3>2, <3>3 DEF WorkerAlone, GoodBatch
    <2>2. CASE v # w
        <3>1. Holds(v)' \subseteq mem'.outstanding /\ Apart(Holds(v)', Elems(mem'.queue))
            BY <1>1, <1>2, <1>4, <1>9, <2>2 DEF WorkerAlone, Apart
        <3>2. \A b \in Calls : Apart(Holds(v)', adder'[b].sel)
            BY Zenon, <1>1, <1>2, <1>9, <2>2 DEF WorkerAlone
        <3>3. ASSUME NEW u \in Worker, u # v PROVE Apart(Holds(v)', Holds(u)')
            <4>1. Apart(Holds(v), Holds(u)) /\ k \notin Holds(v)
                BY Zenon, <1>2, <1>6, <3>3 DEF WorkerAlone
            <4>2. Holds(v)' = Holds(v) /\ Holds(u)' \subseteq Holds(u) \cup {k}
                BY Zenon, <1>9, <2>2
            <4> QED
                BY Zenon, <4>1, <4>2 DEF Apart
        <3>4. GoodBatch(v)'
            BY ZenonT(30), <1>1, <1>2, <2>2 DEF GoodBatch
        <3> QED
            BY Zenon, <3>1, <3>2, <3>3, <3>4 DEF WorkerAlone
    <2> QED
        BY Zenon, <2>1, <2>2
<1>12. Elems(mem'.queue) \subseteq mem'.outstanding
    BY <1>1, <1>2, <1>4
<1> QED
    BY Zenon, <1>4, <1>10, <1>11, <1>12 DEF UniqueInv

\* The hashes of a request are outstanding no more.
LEMMA FetchUnique ==
    ASSUME TypeInv, UniqueInv, NEW w \in Worker, FulfillCodeRequest(w), Fetches(w)
    PROVE  UniqueInv'
<1>1. /\ adder' = adder /\ mem'.queue = mem.queue
      /\ mem'.outstanding = mem.outstanding \ Hashes(w)
      /\ worker[w].pc \in {"fetch", "fetch_last"} /\ worker'[w].pc \in {"write", "write_last"}
      /\ worker'[w].batch = worker[w].batch
      /\ \A v \in Worker : v # w => worker'[v] = worker[v]
    BY FulfillFacts DEF Fetches
<1>2. /\ Injective(mem.queue) /\ Elems(mem.queue) \subseteq mem.outstanding
      /\ \A b \in Calls : AdderAlone(b)
      /\ \A v \in Worker : WorkerAlone(v) /\ GoodBatch(v)
    BY Zenon DEF UniqueInv
<1>3. Holds(w) = Hashes(w) /\ Holds(w)' = {}
    BY <1>1 DEF Holds
<1>4. \A v \in Worker : v # w => Holds(v)' = Holds(v)
    BY ZenonT(30), <1>1 DEF Holds, Hashes
<1>5. Elems(mem'.queue) \subseteq mem'.outstanding /\ Injective(mem'.queue)
    BY Zenon, <1>1, <1>2, <1>3 DEF WorkerAlone, Apart
<1>6. ASSUME NEW b \in Calls PROVE AdderAlone(b)'
    <2>1. adder'[b].sel \subseteq mem'.outstanding
        BY Zenon, <1>1, <1>2, <1>3 DEF AdderAlone, WorkerAlone, Apart
    <2> QED
        BY Zenon, <1>1, <1>2, <2>1 DEF AdderAlone
<1>7. ASSUME NEW v \in Worker PROVE WorkerAlone(v)'
    <2>1. CASE v = w
        BY Zenon, <1>3, <2>1 DEF WorkerAlone, Apart
    <2>2. CASE v # w
        <3>1. Holds(v)' \subseteq mem'.outstanding
            <4>1. Holds(v) \subseteq mem.outstanding /\ Apart(Holds(v), Holds(w))
                BY Zenon, <1>2, <2>2 DEF WorkerAlone
            <4>2. Holds(v)' = Holds(v)
                BY Zenon, <1>4, <2>2
            <4> QED
                BY Zenon, <1>1, <1>3, <4>1, <4>2 DEF Apart
        <3>2. ASSUME NEW u \in Worker, u # v PROVE Apart(Holds(v)', Holds(u)')
            <4>1. Apart(Holds(v), Holds(u)) /\ Holds(v)' = Holds(v)
                BY Zenon, <1>2, <1>4, <2>2, <3>2 DEF WorkerAlone
            <4>2. Holds(u)' \subseteq Holds(u)
                BY Zenon, <1>3, <1>4
            <4> QED
                BY Zenon, <4>1, <4>2 DEF Apart
        <3>3. /\ Apart(Holds(v)', Elems(mem'.queue))
              /\ \A b \in Calls : Apart(Holds(v)', adder'[b].sel)
            BY ZenonT(30), <1>1, <1>2, <1>4, <2>2 DEF WorkerAlone
        <3> QED
            BY Zenon, <3>1, <3>2, <3>3 DEF WorkerAlone
    <2> QED
        BY Zenon, <2>1, <2>2
<1>8. ASSUME NEW v \in Worker PROVE GoodBatch(v)'
    <2>1. GoodBatch(v)
        BY Zenon, <1>2
    <2> QED
        BY SMTT(30), <1>1, <2>1 DEF GoodBatch
<1> QED
    BY ZenonT(30), <1>5, <1>6, <1>7, <1>8 DEF UniqueInv

\* Every step keeps an outstanding hash in one place.
LEMMA UniqueNext == Config /\ TypeInv /\ UniqueInv /\ [Next]_vars => UniqueInv'
<1> SUFFICES ASSUME Config, TypeInv, UniqueInv, [Next]_vars PROVE UniqueInv'
    BY Zenon
<1>0. \A v \in Worker : GoodBatch(v)
    BY Zenon DEF UniqueInv
<1>1. ASSUME NEW a \in Calls, AddCodeToFetch(a) PROVE UniqueInv'
    <2>1. \A b \in Calls : adder'[b].sel \subseteq adder[b].sel
        BY Zenon, <1>1, MarkFacts
    <2> QED
        BY Zenon, <1>1, <2>1, MarkFacts, SameWorkers, UniqueKeeps
<1>2. ASSUME NEW a \in Calls, AddHashToQueue(a) PROVE UniqueInv'
    <2>1. CASE Sends(a)
        <3>1. PICK k \in adder[a].sel :
                 mem'.queue = Append(mem.queue, k) /\ adder'[a].sel = adder[a].sel \ {k}
            BY Zenon, <2>1 DEF Sends
        <3>2. /\ worker' = worker /\ mem'.outstanding = mem.outstanding
              /\ \A b \in Calls : b # a => adder'[b].sel = adder[b].sel
            BY Zenon, <1>2, QueueFacts
        <3> QED
            BY Zenon, <3>1, <3>2, SendUnique
    <2>2. CASE Returns(a) \/ Fails(a)
        <3>1. mem' = mem /\ worker' = worker /\ \A b \in Calls : adder'[b].sel \subseteq adder[b].sel
            BY <1>2, <2>2, QueueFacts DEF Returns, Fails
        <3> QED
            BY Zenon, <3>1, SameWorkers, UniqueKeeps
    <2> QED
        BY Zenon, <1>2, <2>1, <2>2, QueueFacts
<1>3. ASSUME NEW a \in Calls, SaveLeafs(a) PROVE UniqueInv'
    BY Zenon, <1>3, SaveFacts, SameWorkers, UniqueKeeps
<1>4. ASSUME NEW w \in Worker, Work(w) PROVE UniqueInv'
    <2>1. CASE Drains(w) \/ GivesUp(w)
        <3>1. /\ mem' = mem /\ adder' = adder /\ worker[w].pc = "idle"
              /\ worker'[w].batch = worker[w].batch
              /\ \A v \in Worker : v # w => worker'[v] = worker[v]
              /\ worker'[w].pc \notin {"write", "write_last"}
              /\ worker'[w].pc \in {"fetch", "fetch_last"} => worker'[w].batch # <<>>
            BY SMTT(30), <1>4, <2>1, WorkFacts DEF Drains, GivesUp
        <3>2. ASSUME NEW v \in Worker PROVE GoodBatch(v)' /\ Holds(v)' \subseteq Holds(v)
            BY <1>0, <3>1 DEF GoodBatch, Holds, Hashes
        <3> QED
            BY Zenon, <3>1, <3>2, UniqueKeeps
    <2> QED
        BY Zenon, <1>4, <2>1, TakeUnique, WorkFacts
<1>5. ASSUME NEW w \in Worker, FulfillCodeRequest(w) PROVE UniqueInv'
    <2>1. CASE Abandons(w)
        <3>1. /\ mem'.queue = mem.queue /\ mem'.outstanding = mem.outstanding /\ adder' = adder
              /\ worker[w].pc \in {"fetch", "fetch_last"} /\ worker'[w].pc = "exit"
              /\ worker'[w].batch = worker[w].batch
              /\ \A v \in Worker : v # w => worker'[v] = worker[v]
            BY Zenon, <1>5, <2>1, FulfillFacts DEF Abandons
        <3>2. ASSUME NEW v \in Worker PROVE GoodBatch(v)' /\ Holds(v)' \subseteq Holds(v)
            BY <1>0, <3>1 DEF GoodBatch, Holds, Hashes
        <3> QED
            BY Zenon, <3>1, <3>2, UniqueKeeps
    <2> QED
        BY Zenon, <1>5, <2>1, FetchUnique, FulfillFacts
<1>6. ASSUME NEW w \in Worker, WriteCode(w) PROVE UniqueInv'
    <2>1. /\ mem' = mem /\ adder' = adder /\ worker'[w].batch = <<>>
          /\ worker'[w].pc \in {"idle", "exit"}
          /\ \A v \in Worker : v # w => worker'[v] = worker[v]
        BY <1>6, WriteFacts
    <2>2. ASSUME NEW v \in Worker PROVE GoodBatch(v)' /\ Holds(v)' \subseteq Holds(v)
        BY <1>0, <2>1, EmptyElems DEF GoodBatch, Holds, Hashes
    <2> QED
        BY Zenon, <2>1, <2>2, UniqueKeeps
<1>7. CASE Start
    <2>1. /\ mem' = mem /\ worker' = worker
          /\ \A b \in Calls : adder'[b].sel \subseteq adder[b].sel
        BY Zenon, <1>7, StartFacts
    <2> QED
        BY Zenon, <2>1, SameWorkers, UniqueKeeps
<1>8. CASE NotifyAccountTrieCompleted \/ Cancel
    BY Zenon, <1>8, CloseFacts, SameWorkers, UniqueKeeps
<1>9. ASSUME Stop PROVE UniqueInv'
    <2>1. /\ mem'.queue = <<>> /\ \A a \in Calls : adder'[a].sel = {}
          /\ \A w \in Worker : worker'[w].batch = <<>> /\ worker'[w].pc = "idle"
        BY <1>9 DEF Stop, NewMem, NoCall, IdleWorker
    <2>2. \A w \in Worker : Holds(w)' = {} /\ GoodBatch(w)'
        BY <2>1, EmptyElems DEF Holds, Hashes, GoodBatch
    <2>3. \A w \in Worker : WorkerAlone(w)'
        BY Zenon, <2>2 DEF WorkerAlone, Apart
    <2>4. \A a \in Calls : AdderAlone(a)'
        BY Zenon, <2>1 DEF AdderAlone, Apart
    <2>5. Injective(mem'.queue) /\ Elems(mem'.queue) \subseteq mem'.outstanding
        BY Zenon, <2>1, EmptyElems
    <2> QED
        BY Zenon, <2>2, <2>3, <2>4, <2>5 DEF UniqueInv
<1>10. ASSUME mem' = mem, adder' = adder, worker' = worker PROVE UniqueInv'
    BY Zenon, <1>10, SameWorkers, UniqueKeeps
<1>11. CASE Crash
    BY Zenon, <1>9, <1>11 DEF Crash
<1>12. CASE SetError
    BY Zenon, <1>9, <1>10, <1>12 DEF SetError
<1>13. CASE UNCHANGED vars
    BY Zenon, <1>10, <1>13 DEF vars
<1> QED
    BY Zenon, <1>1, <1>2, <1>3, <1>4, <1>5, <1>6, <1>7, <1>8, <1>11, <1>12, <1>13, SelectUnique
       DEF Next, AdderStep, WorkerStep, Finish

-----------------------------------------------------------------------------
\* The invariant holds at first.
LEMMA CodeInit == Config /\ Init => CodeInv
<1> SUFFICES ASSUME Config, Init PROVE CodeInv
    BY Zenon
<1>1. /\ db.code = {} /\ db.toFetch = {} /\ \A a \in Adder : db.saved[a] = 0
      /\ mem = NewMem /\ mem.queue = <<>> /\ phase = "down"
      /\ \A a \in Calls : adder[a].sel = {}
      /\ worker = [w \in Worker |-> IdleWorker]
      /\ \A w \in Worker : worker[w].batch = <<>> /\ worker[w].pc = "idle"
    BY DEF Init, NewMem, NoCall, IdleWorker
<1>2. TypeInv
    BY DEF Init, TypeInv, DBType, MemType, CallType, WorkerType, NewMem, NoCall, IdleWorker
<1>3. StoreInv
    <2>1. \A a \in Adder : 1..db.saved[a] = {} /\ db.saved[a] <= Len(Adds[a])
        BY <1>1 DEF Config
    <2>2. CodeNotLost
        BY Zenon, <2>1 DEF CodeNotLost, Added
    <2> QED
        BY <1>1, <2>1, <2>2 DEF StoreInv
<1>4. DoneInv
    BY <1>1 DEF DoneInv
<1>5. UniqueInv
    <2>1. \A w \in Worker : Holds(w) = {} /\ GoodBatch(w)
        BY <1>1, EmptyElems DEF Holds, Hashes, GoodBatch
    <2>2. \A w \in Worker : WorkerAlone(w)
        BY Zenon, <2>1 DEF WorkerAlone, Apart
    <2>3. \A a \in Calls : AdderAlone(a)
        BY Zenon, <1>1 DEF AdderAlone, Apart
    <2> QED
        BY Zenon, <1>1, <2>1, <2>2, <2>3, EmptyElems DEF UniqueInv
<1> QED
    BY Zenon, <1>2, <1>3, <1>4, <1>5 DEF CodeInv

\* Every step keeps the invariant.
LEMMA CodeNext == Config /\ CodeInv /\ [Next]_vars => CodeInv'
BY Zenon, TypeNext, StoreNext, DoneNext, UniqueNext DEF CodeInv

\* The invariant implies the three properties.
LEMMA InvIsSafe == Config /\ CodeInv => Safety
<1> SUFFICES ASSUME Config, CodeInv PROVE Safety
    BY Zenon
<1>1. CodeNotLost
    BY Zenon, StoreEnds DEF CodeInv
<1>2. DoneMeansFetched
    BY Zenon DEF CodeInv, DoneInv, DoneMeansFetched
<1>3. ASSUME NEW w \in Worker
      PROVE  /\ worker[w].pc \in {"fetch", "fetch_last"} => worker[w].batch # <<>>
             /\ Cardinality(Hashes(w)) = Len(worker[w].batch)
    <2>1. GoodBatch(w) /\ worker[w].batch \in Seq(Hash) /\ Hashes(w) = Elems(worker[w].batch)
        BY Zenon, Fields DEF CodeInv, UniqueInv
    <2>2. Cardinality(Elems(worker[w].batch)) = Len(worker[w].batch)
        BY Zenon, <2>1, ElemsCount DEF GoodBatch
    <2> QED
        BY Zenon, <2>1, <2>2 DEF GoodBatch
<1> QED
    BY Zenon, <1>1, <1>2, <1>3 DEF Safety, NoDuplicateRequest

\* In every session and after every crash or cancellation the code of an account on
\* disk is stored, marked, or wanted by an account still to come; a request names
\* each of its hashes once; and a sync that succeeds has fetched them all.
THEOREM CodeIsSafe == ASSUME Config PROVE Spec => []Safety
<1>1. Init => CodeInv
    BY Zenon, CodeInit
<1>2. CodeInv /\ [Next]_vars => CodeInv'
    BY Zenon, CodeNext
<1>3. CodeInv => Safety
    BY Zenon, InvIsSafe
<1> QED
    BY <1>1, <1>2, <1>3, PTL DEF Spec
=============================================================================
