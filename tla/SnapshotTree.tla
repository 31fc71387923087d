---------------------------- MODULE SnapshotTree ----------------------------
(***************************************************************************)
(* The snapshot of the state (core/state/snapshot): a disk layer, diff     *)
(* layers on top of it, one per block, and the goroutine that generates    *)
(* the disk layer from the trie while blocks are flattened into it.        *)
(*                                                                         *)
(* A key is a number: 10 * a is account a, and the keys between that and   *)
(* the next account are its slots, which is the order of the database.     *)
(* The value 0 is "absent".  The root of a state is the state itself.      *)
(***************************************************************************)
EXTENDS Integers, FiniteSetsExt, TLC

CONSTANTS
    Block, Genesis, Parent,
    Key,          \* the keys any state uses
    State,        \* State[b][k]: the value of k after block b
    Recreated,    \* Recreated[b]: accounts destructed and created again in b
    MaxCrashes

VARIABLES
    disk,      \* durable: data, block (None while it is not whole), marker, wiping
    accepted,  \* durable: the last accepted block
    cache,     \* values of the disk layer in memory, Unset when not there
    mem,       \* the tree: the disk layer's fields, the diff layers and the stale layers
    gen,       \* the generator goroutine
    op,        \* the acceptor's flattenSnapshot
    crashes

vars == <<disk, accepted, cache, mem, gen, op, crashes>>

None == "none"
Unset == -1
Stale == -2                            \* ErrSnapshotStale
NotCovered == -3                       \* ErrNotCoveredYet
Blocked == -4                          \* the reader waits for a lock
Empty == -1                            \* the marker of a generation that has not begun
Done == Max(Key) + 1                   \* nil: everything is covered
Covered(k, marker) == k <= marker

Account(k) == k - (k % 10)

RECURSIVE Ancestors(_)
Ancestors(b) == {b} \cup (IF b = Genesis THEN {} ELSE Ancestors(Parent[b]))

-----------------------------------------------------------------------------
(* What block b changes *)

DestructSet(b) ==
    {a \in Key : a = Account(a) /\ State[Parent[b]][a] # 0 /\ State[b][a] = 0} \cup Recreated[b]

\* accountData and storageData: of a destructed account what the new one has, of the
\* others what differs.
DataKeys(b) ==
    {k \in Key : IF Account(k) \in DestructSet(b) THEN State[b][k] # 0
                 ELSE State[b][k] # State[Parent[b]][k]}

-----------------------------------------------------------------------------
(* Reading *)

\* The disk layer of block b: cache before disk.
DiskRead(b, k) ==
    CASE b \in mem.stale -> Stale
      [] b = mem.base /\ ~Covered(k, mem.marker) -> NotCovered
      [] b = mem.base /\ cache[k] # Unset -> cache[k]
      [] OTHER -> disk.data[k]

\* The diff layers that are locked while one is flattened.
Locked(b) == op.pc \in {"stale", "partial"} /\ op.b = b

RECURSIVE Walk(_, _)
Walk(b, k) ==
    CASE Locked(b) -> Blocked
      [] k \in DataKeys(b) -> State[b][k]
      [] Account(k) \in DestructSet(b) -> 0
      [] mem.diff[b].parent = "diff" -> Walk(Parent[b], k)
      [] OTHER -> DiskRead(Parent[b], k)

\* The blocks whose keys are in the bloom filter of b.
Diffed(b) == Ancestors(b) \ Ancestors(mem.diff[b].origin)

BloomHit(b, k) == \E d \in Diffed(b) : k \in DataKeys(d) \/ Account(k) \in DestructSet(d)

\* AccountRLP, Storage: on a miss the origin is asked; a filter may also err.
Reads(b, k) == (IF BloomHit(b, k) THEN {} ELSE {DiskRead(mem.diff[b].origin, k)}) \cup {Walk(b, k)}

\* A read of the disk layer fills the cache.
ReadDisk(k) ==
    /\ DiskRead(mem.base, k) \notin {Stale, NotCovered} /\ cache[k] = Unset
    /\ cache' = [cache EXCEPT ![k] = disk.data[k]]
    /\ UNCHANGED <<disk, accepted, mem, gen, op, crashes>>

-----------------------------------------------------------------------------
(* The tree, under its lock *)

LockFree == op.pc \in {"idle", "aborted"}

\* A layer whose parent is the disk layer starts its filter there, another at its
\* parent's origin.
NewDiffLayer(b) ==
    IF Parent[b] = mem.base THEN [parent |-> "disk", origin |-> mem.base]
    ELSE [parent |-> "diff", origin |-> mem.diff[Parent[b]].origin]

\* The engine verifies a block that extends the last accepted one.
Update(b) ==
    /\ LockFree /\ b \notin Ancestors(accepted) \cup mem.layers /\ accepted \in Ancestors(b)
    /\ Parent[b] \in mem.layers \cup {mem.base}
    /\ mem' = [mem EXCEPT !.layers = @ \cup {b}, !.diff = (b :> NewDiffLayer(b)) @@ @]
    /\ UNCHANGED <<disk, accepted, cache, gen, op, crashes>>

\* The engine accepts a block when it has rejected the losers of the decision before.
Accept(b) ==
    /\ b \in mem.layers /\ Parent[b] = accepted
    /\ \A l \in mem.layers : l \in Ancestors(accepted) \/ accepted \in Ancestors(l)
    /\ accepted' = b
    /\ UNCHANGED <<disk, cache, mem, gen, op, crashes>>

\* Reject: the layers of blocks that lost.
Discard(b) ==
    /\ LockFree /\ b \in mem.layers
    /\ b \notin Ancestors(accepted) /\ accepted \notin Ancestors(b)
    /\ mem' = [mem EXCEPT !.layers = @ \ {b}]
    /\ UNCHANGED <<disk, accepted, cache, gen, op, crashes>>

-----------------------------------------------------------------------------
(* The generator *)

NoGen == [pc |-> "off", pos |-> Empty, batch |-> {}]

\* (A variant that asks a generator that has already answered.)
ShouldAbortAny == mem.canGen

ShouldAbort == mem.canGen /\ ~mem.stopped
Asked == op.pc = "aborting"

\* The wiper is done, or the generator is told to stop before it is.
Wipe ==
    /\ gen.pc = "wipe"
    /\ disk' = [disk EXCEPT !.data = [k \in Key |-> 0]]
    /\ mem' = [mem EXCEPT !.wiping = FALSE]
    /\ gen' = [gen EXCEPT !.pc = "iter"]
    /\ UNCHANGED <<accepted, cache, op, crashes>>

\* The generator takes the abort where it waits; its progress stays at the marker.
TakeAbort ==
    /\ gen.pc \in {"wipe", "wait"} /\ Asked
    /\ gen' = NoGen /\ mem' = [mem EXCEPT !.stopped = TRUE]
    /\ op' = [op EXCEPT !.pc = "aborted"]
    /\ UNCHANGED <<disk, accepted, cache, crashes>>

\* (A variant that advances the marker without writing the batch.)
FlushMarkerOnly(d, batch, pos) == [d EXCEPT !.marker = pos, !.wiping = FALSE]

\* checkAndFlush writes the batch and the marker together.
Flush(d, batch, pos) ==
    [d EXCEPT !.data = [k \in Key |-> IF k \in batch THEN State[mem.base][k] ELSE d.data[k]],
              !.marker = pos, !.wiping = FALSE]

\* One key of the trie, and the check for an abort or a full batch after it.  A resumed
\* account is checked before its first key.
Generate(pos) ==
    /\ gen.pc = "iter"
    /\ \/ /\ pos > gen.pos /\ State[mem.base][pos] # 0
          /\ \A k \in Key : gen.pos < k /\ k < pos => State[mem.base][k] = 0
       \/ pos = gen.pos /\ pos # Empty /\ gen.batch = {} /\ State[mem.base][Account(pos)] # 0
    /\ LET batch == gen.batch \cup ({pos} \ {gen.pos})
       IN  \/ /\ ~Asked \* the batch is not full
              /\ gen' = [gen EXCEPT !.pos = pos, !.batch = batch]
              /\ UNCHANGED <<disk, mem, op>>
           \/ /\ disk' = Flush(disk, batch, pos)
              /\ IF Asked THEN /\ gen' = NoGen /\ op' = [op EXCEPT !.pc = "aborted"]
                               /\ mem' = [mem EXCEPT !.marker = pos, !.stopped = TRUE]
                 ELSE /\ gen' = [gen EXCEPT !.pos = pos, !.batch = {}] /\ UNCHANGED op
                      /\ mem' = [mem EXCEPT !.marker = pos]
    /\ UNCHANGED <<accepted, cache, crashes>>

Generated ==
    /\ gen.pc = "iter" /\ \A k \in Key : k > gen.pos => State[mem.base][k] = 0
    /\ disk' = Flush(disk, gen.batch, Done)
    /\ mem' = [mem EXCEPT !.marker = Done, !.stopped = TRUE]
    /\ gen' = [NoGen EXCEPT !.pc = IF Asked THEN "wait" ELSE "off"]
    /\ UNCHANGED <<accepted, cache, op, crashes>>

\* The trie is missing or cannot be read on.
GenerateFails ==
    /\ gen.pc = "iter"
    /\ gen' = [NoGen EXCEPT !.pc = "wait"]
    /\ UNCHANGED <<disk, accepted, cache, mem, op, crashes>>

-----------------------------------------------------------------------------
(* flattenSnapshot *)

\* AbortGeneration asks the disk layer of an arbitrary layer; a stale one has stopped.
AbortGeneration(b) ==
    /\ op.pc = "idle" /\ b \in mem.layers \cap Ancestors(accepted) /\ Parent[b] = mem.base
    /\ \E l \in mem.layers \cup {mem.base} :
          LET dl == IF l = mem.base THEN l ELSE mem.diff[l].origin
          IN  op' = [pc |-> IF dl = mem.base /\ ShouldAbort THEN "aborting" ELSE "aborted", b |-> b]
    /\ UNCHANGED <<disk, accepted, cache, mem, gen, crashes>>

\* diffToDisk: the base becomes stale and its root is taken off the disk with the first batch.
MarkStale ==
    /\ op.pc = "aborted"
    /\ mem' = [mem EXCEPT !.stale = @ \cup {mem.base}]
    /\ op' = [op EXCEPT !.pc = "stale"]
    /\ UNCHANGED <<disk, accepted, cache, gen, crashes>>

Destroyed(b) == {k \in Key : Account(k) \in DestructSet(b) /\ Covered(Account(k), mem.marker)}
Written(b) == {k \in DataKeys(b) : Covered(k, mem.marker)}

Destroy(data) == [k \in Key |-> IF k \in Destroyed(op.b) THEN 0 ELSE data[k]]

\* A destroyed account is cached as absent, the slots found on disk are dropped.
DestroyCached ==
    [k \in Key |-> CASE k \notin Destroyed(op.b) -> cache[k]
                     [] k = Account(k) -> 0
                     [] disk.data[k] # 0 -> Unset
                     [] OTHER -> cache[k]]

\* A batch that has grown too large is written before the rest.
WritePartial ==
    /\ op.pc = "stale" /\ Destroyed(op.b) # {}
    /\ disk' = [disk EXCEPT !.block = None, !.data = Destroy(@)]
    /\ cache' = DestroyCached
    /\ op' = [op EXCEPT !.pc = "partial"]
    /\ UNCHANGED <<accepted, mem, gen, crashes>>

\* The new disk layer; generation goes on in it unless the old one was very young.
NewBase(skip) ==
    LET resumes == mem.marker # Done /\ mem.canGen
    IN  [mem EXCEPT !.base = op.b, !.canGen = resumes, !.stopped = resumes /\ skip]

DiffToDisk(skip) ==
    /\ op.pc \in {"stale", "partial"}
    /\ disk' = [data |-> [k \in Key |-> IF k \in Written(op.b) THEN State[op.b][k] ELSE Destroy(disk.data)[k]],
                block |-> op.b, marker |-> mem.marker, wiping |-> mem.wiping]
    /\ cache' = [k \in Key |-> IF k \in Written(op.b) THEN State[op.b][k] ELSE DestroyCached[k]]
    /\ mem' = NewBase(skip)
    /\ gen' = IF mem'.canGen /\ ~skip
              THEN [pc |-> IF mem.wiping THEN "wipe" ELSE "iter", pos |-> mem.marker, batch |-> {}]
              ELSE NoGen
    /\ op' = [op EXCEPT !.pc = "written"]
    /\ UNCHANGED <<accepted, crashes>>

\* The parent pointers of the layers in the tree, then their filters.
Rewire ==
    /\ op.pc = "written"
    /\ mem' = [mem EXCEPT
          !.layers = @ \ {op.b},
          !.diff = [d \in DOMAIN @ |-> IF d \in mem.layers /\ Parent[d] = op.b
                                       THEN [@[d] EXCEPT !.parent = "disk"] ELSE @[d]]]
    /\ op' = [op EXCEPT !.pc = "rewired"]
    /\ UNCHANGED <<disk, accepted, cache, gen, crashes>>

Rebloomed == {d \in mem.layers : op.b \in Ancestors(d)}

Rebloom ==
    /\ op.pc = "rewired"
    /\ mem' = [mem EXCEPT !.diff = [d \in DOMAIN @ |->
                  IF d \in Rebloomed THEN [@[d] EXCEPT !.origin = op.b] ELSE @[d]]]
    /\ op' = [pc |-> "idle", b |-> None]
    /\ UNCHANGED <<disk, accepted, cache, gen, crashes>>

-----------------------------------------------------------------------------
(* Start *)

\* loadSnapshot takes what is on disk if it is of the last accepted block; otherwise
\* Rebuild wipes it and generates it anew.
Load(d) ==
    LET ok == d.block = accepted
        m == IF ok THEN d.marker ELSE Empty
        w == IF ok THEN d.marker # Done /\ d.wiping ELSE TRUE
    IN  /\ disk' = IF ok THEN d ELSE [d EXCEPT !.block = accepted, !.marker = Empty, !.wiping = TRUE]
        /\ mem' = [base |-> accepted, marker |-> m, canGen |-> m # Done, stopped |-> FALSE,
                   wiping |-> w, stale |-> {}, layers |-> {}, diff |-> << >>]
        /\ gen' = IF m = Done THEN NoGen
                  ELSE [pc |-> IF w THEN "wipe" ELSE "iter", pos |-> m, batch |-> {}]
        /\ cache' = [k \in Key |-> Unset]

Restart ==
    /\ crashes < MaxCrashes /\ crashes' = crashes + 1
    /\ Load(disk)
    /\ op' = [pc |-> "idle", b |-> None]
    /\ UNCHANGED accepted

Init ==
    /\ accepted = Genesis /\ crashes = 0 /\ op = [pc |-> "idle", b |-> None]
    /\ disk = [data |-> [k \in Key |-> 0], block |-> Genesis, marker |-> Empty, wiping |-> TRUE]
    /\ mem = [base |-> Genesis, marker |-> Empty, canGen |-> TRUE, stopped |-> FALSE,
              wiping |-> TRUE, stale |-> {}, layers |-> {}, diff |-> << >>]
    /\ gen = [pc |-> "wipe", pos |-> Empty, batch |-> {}]
    /\ cache = [k \in Key |-> Unset]

GeneratorStep == Wipe \/ TakeAbort \/ Generated \/ \E k \in Key : Generate(k)
FlattenStep ==
    \/ MarkStale \/ WritePartial \/ Rewire \/ Rebloom
    \/ \E skip \in BOOLEAN : DiffToDisk(skip)

Next ==
    \/ \E b \in Block : Update(b) \/ Accept(b) \/ Discard(b) \/ AbortGeneration(b)
    \/ \E k \in Key : ReadDisk(k)
    \/ GeneratorStep \/ GenerateFails \/ FlattenStep \/ Restart

Spec == Init /\ [][Next]_vars

-----------------------------------------------------------------------------
\* What the disk claims is right: the keys up to the durable marker have the values of
\* the block recorded with them, and a finished generation has left nothing else.
DiskRight ==
    disk.block # None => \A k \in Key : Covered(k, disk.marker) => disk.data[k] = State[disk.block][k]

\* A read through any layer that was ever handed out gives the value after its block or
\* an error, while layers below it are flattened, reparented and generated.
ReadsRight ==
    /\ \A b \in DOMAIN mem.diff : \A k \in Key :
          Reads(b, k) \subseteq {State[b][k]} \cup {Stale, NotCovered, Blocked}
    /\ \A k \in Key : DiskRead(mem.base, k) \in {State[mem.base][k], Stale, NotCovered}

\* A layer of the tree that leads to the disk layer is readable when nothing is going on:
\* only the layers of blocks about to be rejected are stale.
LayersUsable ==
    op.pc = "idle" => \A b \in mem.layers : \A k \in Key :
        accepted \in Ancestors(b) \/ b \in Ancestors(accepted) => Stale \notin Reads(b, k)

\* "Abort snapshot generation before pruning anything from trie database"
\* (blockchain.go:533): the generator is not running when the acceptor goes on.
AbortStops == op.pc = "aborted" => gen.pc = "off"

\* A block that is accepted can be flattened: its layer is there, on the disk layer.
FlattenPossible ==
    op.pc = "aborted" => op.b \in mem.layers /\ mem.diff[op.b].parent = "disk" /\ mem.base \notin mem.stale

Safety == DiskRight /\ ReadsRight /\ LayersUsable /\ AbortStops /\ FlattenPossible

\* The acceptor's flattening ends: the generator answers an abort wherever it is.
Owed == op.pc # "idle"
FlattenEnds == []<>~Owed
=============================================================================
