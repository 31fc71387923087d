---------------------------- MODULE SyncHandlers ----------------------------
(***************************************************************************)
(* What a node answers to the requests of a syncing peer, and how the peer *)
(* checks it (sync/handlers/, the parse functions of sync/client/client.go *)
(* and the loop of sync/client/leaf_syncer.go). The leaves of a trie are   *)
(* read from the flat snapshot where it still agrees with the trie, as far *)
(* as range proofs of the segments show, and from the trie elsewhere, in   *)
(* the time the request leaves. Blocks are sent with their parents, code   *)
(* by hash.                                                                *)
(*                                                                         *)
(* Keys are numbers, 0 standing for the empty start and for no end; the    *)
(* largest possible key is not a leaf. A leaf of the trie has value "t". A *)
(* proof is the pair of keys it proves, of the requested trie.             *)
(***************************************************************************)
EXTENDS Integers, Sequences, FiniteSets, SequencesExt

CONSTANTS
  Key,            \* the keys a leaf may have
  Ends,           \* last keys of a task, 0 for none
  Limit,          \* leaves per request
  SegmentLen,
  Times,          \* leaves that can be read before a request expires
  Height,         \* the requested block, 0 being the genesis block
  Missing,        \* heights the node does not have
  BlockSize,      \* [0 .. Height -> size]
  MessageSize,    \* targetMessageByteSize
  MaxParents,
  Codes, Held, MaxCodes    \* code hashes, those the node has, and the limit of a request

VARIABLES
  trie,     \* the keys of the requested trie
  task,     \* [pc, start, end]
  got,      \* the leaves the task received
  sent,     \* the last answer of the node, [keys, vals, proof]
  blocks,   \* the last blocks sent, [hash, parents, time, heights]
  code      \* the last code sent, [asked, hashes]

vars == <<trie, task, got, sent, blocks, code>>

None == [from |-> -1, to |-> -1]

Nothing == [keys |-> <<>>, vals |-> <<>>, proof |-> None]

NoBlocks == [hash |-> 0, parents |-> 0, time |-> 0, heights |-> <<>>]

Init ==
  /\ trie = {} /\ got = <<>>
  /\ task = [pc |-> "idle", start |-> 0, end |-> 0]
  /\ sent = Nothing
  /\ blocks = NoBlocks
  /\ code = [asked |-> <<>>, hashes |-> <<>>]

-----------------------------------------------------------------------------
(* Tries, snapshots and range proofs *)

Sorted(S) == SetToSortSeq(S, <)

UpTo(s, n) == SubSeq(s, 1, IF n < Len(s) THEN n ELSE Len(s))

\* trie.VerifyRangeProof: the leaves are the leaves of the trie from the start to the
\* last of them, all of them if there is no proof.
RangeHolds(keys, vals, start, proof) ==
  /\ \A i \in 1 .. Len(vals) : vals[i] = "t"
  /\ IF proof = None THEN keys = Sorted(trie)
     ELSE IF keys = <<>> THEN proof.from = start /\ \A k \in trie : k < start
     ELSE /\ proof = [from |-> start, to |-> Last(keys)]
          /\ keys = Sorted({k \in trie : start <= k /\ k <= Last(keys)})

More(keys) == \E k \in trie : keys # <<>> /\ k > Last(keys)

-----------------------------------------------------------------------------
(* leafs_request.go: a response under construction is [keys, vals, time], with the
   number of leaves that can still be read *)

GenerateRangeProof(start, keys) ==
  [from |-> start, to |-> IF keys = <<>> THEN start ELSE Last(keys)]

NextKey(r, start) == IF r.keys = <<>> THEN start ELSE Last(r.keys) + 1

Read(r, keys, rest) ==
  [r |-> [keys |-> r.keys \o keys, vals |-> r.vals \o [i \in 1 .. Len(keys) |-> "t"],
          time |-> r.time - Len(keys)],
   more |-> Len(keys) < Len(rest)]

ReadSome(r, rest, end) ==
  Read(r, UpTo(SelectSeq(rest, LAMBDA k : end = 0 \/ k <= end),
               Min({r.time, Limit - Len(r.keys)})), rest)

\* The leaves of the trie after the response, to the end, to the limit, or until the
\* request expires.
FillFromTrie(r, start, end) ==
  ReadSome(r, Sorted({k \in trie : k >= NextKey(r, start)}), end)

\* A snapshot: [Key -> "t" (as in the trie), "s" (changed since) or "" (not there)].
Snapshots == {s \in [Key -> {"t", "s", ""}] : \A k \in Key : s[k] = "t" => k \in trie}

ReadLeafsFromSnapshot(snap, start, time) ==
  LET keys == UpTo(UpTo(Sorted({k \in Key : snap[k] # "" /\ k >= start}), Limit), time)
  IN  [keys |-> keys, vals |-> [i \in 1 .. Len(keys) |-> snap[keys[i]]]]

IsRangeValid(keys, vals, r, start, hasGap) ==
  LET from == IF hasGap THEN keys[1] ELSE NextKey(r, start)
  IN  RangeHolds(keys, vals, from, GenerateRangeProof(from, keys))

\* (A variant that keeps the key read twice.)
KeepLast(r) == r

DropLast(r) == [r EXCEPT !.keys = Front(@), !.vals = Front(@)]

\* The leaves of one valid segment, as far as the limit allows.
AddSegment(leaves, i, r) ==
  LET n == Min({SegmentLen, Len(leaves.keys) - i + 1, Limit - Len(r.keys)})
  IN  [r EXCEPT !.keys = @ \o SubSeq(leaves.keys, i, i + n - 1),
                !.vals = @ \o SubSeq(leaves.vals, i, i + n - 1)]

\* The same after the trie filled the gap before it, to its first key included.
AddAfterGap(leaves, i, filled) ==
  IF Len(filled.keys) >= Limit \/ filled.time = 0 THEN [r |-> filled, over |-> TRUE]
  ELSE [r |-> AddSegment(leaves, i, DropLast(filled)), over |-> FALSE]

SegmentValid(leaves, i, r, start, hasGap) ==
  LET last == Min({i + SegmentLen - 1, Len(leaves.keys)})
  IN  IsRangeValid(SubSeq(leaves.keys, i, last), SubSeq(leaves.vals, i, last), r, start, hasGap)

\* The segments of the snapshot's leaves from place i on.
RECURSIVE Segments(_, _, _, _, _)
Segments(leaves, i, r, start, hasGap) ==
  IF i > Len(leaves.keys) THEN r
  ELSE IF ~ SegmentValid(leaves, i, r, start, hasGap)
  THEN Segments(leaves, i + SegmentLen, r, start, TRUE)
  ELSE LET next == IF hasGap THEN AddAfterGap(leaves, i, FillFromTrie(r, start, leaves.keys[i]).r)
                   ELSE [r |-> AddSegment(leaves, i, r), over |-> FALSE]
       IN  IF next.over \/ Len(next.r.keys) >= Limit THEN next.r
           ELSE Segments(leaves, i + SegmentLen, next.r, start, FALSE)

Answer(r, proof) == [keys |-> r.keys, vals |-> r.vals, proof |-> proof]

\* The answer, with the leaves of the trie if there was room for them; it has no
\* proof when it is the whole trie.
FillRest(filled, rest, start) ==
  IF Len(filled.keys) >= Limit THEN Answer(filled, GenerateRangeProof(start, filled.keys))
  ELSE Answer(rest.r, IF start = 0 /\ ~ rest.more THEN None
                      ELSE GenerateRangeProof(start, rest.r.keys))

Finish(filled, start) == FillRest(filled, FillFromTrie(filled, start, 0), start)

\* fillFromSnapshot: all the leaves if their range is valid, or by segments.
FillFromSnapshot(leaves, empty, start) ==
  IF ~ IsRangeValid(leaves.keys, leaves.vals, empty, start, FALSE)
  THEN Finish(Segments(leaves, 1, empty, start, FALSE), start)
  ELSE IF More(leaves.keys)
  THEN Finish([empty EXCEPT !.keys = leaves.keys, !.vals = leaves.vals], start)
  ELSE Answer(leaves, IF start = 0 THEN None ELSE GenerateRangeProof(start, leaves.keys))

\* handleRequest, with a snapshot or without.
HandleRequest(snap, useSnap, start, time, snapTime) ==
  LET empty == [keys |-> <<>>, vals |-> <<>>, time |-> time]
  IN  IF useSnap THEN FillFromSnapshot(ReadLeafsFromSnapshot(snap, start, snapTime), empty, start)
      ELSE Finish(empty, start)

\* OnLeafsRequest: no answer to a request that expired before a leaf was read.
Dropped(answer, time) == answer.keys = <<>> /\ time = 0

-----------------------------------------------------------------------------
(* The peer *)

\* parseLeafsResponse
Accepts(r, start) ==
  /\ Len(r.keys) <= Limit
  /\ r.keys # <<>> \/ r.proof # None
  /\ RangeHolds(r.keys, r.vals, start, r.proof)

\* What an unreliable node may send instead.
Garbled(r) ==
  {r} \cup
  {[r EXCEPT !.proof = None]} \cup
  {[r EXCEPT !.keys = RemoveAt(@, i), !.vals = RemoveAt(@, i)] : i \in 1 .. Len(r.keys)} \cup
  {[r EXCEPT !.vals[i] = "s"] : i \in 1 .. Len(r.keys)}

Begin(t, end) ==
  /\ task.pc = "idle" /\ t # {} /\ blocks = NoBlocks /\ code.asked = <<>>
  /\ trie' = t
  /\ task' = [pc |-> "sync", start |-> 0, end |-> end]
  /\ UNCHANGED <<got, sent, blocks, code>>

\* A request of syncTask, and what the node asked makes of it in the time it has.
Request(snap, useSnap, time, snapTime) ==
  /\ task.pc = "sync" /\ snapTime <= time
  /\ sent' = HandleRequest(snap, useSnap, task.start, time, snapTime)
  /\ ~ Dropped(sent', time)
  /\ task' = [task EXCEPT !.pc = "parse"]
  /\ UNCHANGED <<trie, got, blocks, code>>

\* An answer that fails the checks is asked for again.
SyncTask(r) ==
  /\ task.pc = "parse"
  /\ sent' = Nothing
  /\ LET here == SelectSeq(r.keys, LAMBDA k : task.end = 0 \/ k <= task.end)
         over == here # r.keys \/ ~ More(r.keys)
         goOn == [task EXCEPT !.pc = "sync", !.start = Last(here) + 1]
     IN  IF ~ Accepts(r, task.start)
         THEN task' = [task EXCEPT !.pc = "sync"] /\ UNCHANGED got
         ELSE /\ got' = got \o here
              /\ task' = IF over THEN [task EXCEPT !.pc = "done"]
                         ELSE IF here = <<>> THEN [task EXCEPT !.pc = "failed"] ELSE goOn
  /\ UNCHANGED <<trie, blocks, code>>

Fits(heights, size, h) == size + BlockSize[h] <= MessageSize \/ heights = <<>>

\* OnBlockRequest: the block and its parents, down to the genesis block.
RECURSIVE Ancestors(_, _, _, _)
Ancestors(h, n, heights, size) ==
  IF n = 0 \/ h < 0 \/ h \in Missing \/ (h >= 0 /\ ~ Fits(heights, size, h)) THEN heights
  ELSE Ancestors(h - 1, n - 1, Append(heights, h), size + BlockSize[h])

OnBlockRequest(h, parents, time) ==
  LET n == IF parents > MaxParents THEN MaxParents ELSE parents
  IN  blocks' = [hash |-> h, parents |-> parents, time |-> time,
                 heights |-> Ancestors(h, IF time < n THEN time ELSE n, <<>>, 0)]

\* OnCodeRequest: all of the code asked for, or nothing.
OnCodeRequest(hashes) ==
  code' = [asked |-> hashes,
           hashes |-> IF Len(hashes) > MaxCodes \/ ~ IsInjective(hashes)
                        \/ ~ ToSet(hashes) \subseteq Held
                      THEN <<>> ELSE hashes]

\* parseBlocks: at least one block, not too many, each the parent of the one before.
AcceptsBlocks(b) ==
  /\ b.heights # <<>> /\ Len(b.heights) <= b.parents
  /\ \A i \in 1 .. Len(b.heights) : b.heights[i] = b.hash - (i - 1)

\* parseCode: a piece of code for each hash, with that hash.
AcceptsCode(c) == Len(c.hashes) = Len(c.asked) /\ \A i \in 1 .. Len(c.asked) : c.hashes[i] = c.asked[i]

Blocks ==
  /\ task.pc = "idle"
  /\ \E h \in 0 .. Height, parents \in 0 .. MaxParents + 1, time \in Times :
       OnBlockRequest(h, parents, time)
  /\ UNCHANGED <<trie, task, got, sent, code>>

CodeOf ==
  /\ task.pc = "idle"
  /\ \E hashes \in UNION {[1 .. n -> Codes] : n \in 1 .. MaxCodes + 1} : OnCodeRequest(hashes)
  /\ UNCHANGED <<trie, task, got, sent, blocks>>

OnLeafsRequest ==
  \E snap \in Snapshots, useSnap \in BOOLEAN, time, snapTime \in Times :
    Request(snap, useSnap, time, snapTime)

Next ==
  \/ \E t \in SUBSET Key, end \in Ends : Begin(t, end)
  \/ OnLeafsRequest
  \/ \E r \in Garbled(sent) : SyncTask(r)
  \/ Blocks \/ CodeOf

Spec == Init /\ [][Next]_vars

-----------------------------------------------------------------------------
(* Properties *)

Wanted == Sorted({k \in trie : task.end = 0 \/ k <= task.end})

\* Whatever the snapshot has become since the requested root, and wherever the time
\* runs out, the answer is one the peer accepts, and it has a leaf if there is one:
\* the peer goes on with every answer.
AnswersVerify ==
  task.pc = "parse" =>
    /\ Accepts(sent, task.start)
    /\ (\E k \in trie : k >= task.start) => sent.keys # <<>>

\* The peer ends with the leaves of the trie up to its task's end, each once and
\* in order, and never has others.
GotTheTrie ==
  /\ IsPrefix(got, Wanted)
  /\ task.pc = "done" => got = Wanted
  /\ task.pc # "failed"

\* The blocks sent are ones the peer accepts. The block asked for is among them,
\* however large it is, unless the node does not have it or has no time; more than
\* one are no larger than a message.
BlocksLinked ==
  /\ blocks.heights # <<>> => AcceptsBlocks(blocks)
  /\ blocks.parents > 0 /\ blocks.time > 0 /\ blocks.hash \notin Missing => blocks.heights # <<>>
  /\ Len(blocks.heights) > 1 =>
       FoldSeq(LAMBDA h, size : size + BlockSize[h], 0, blocks.heights) <= MessageSize

\* The code sent is what the peer asked for.
CodeInOrder == code.hashes # <<>> => AcceptsCode(code)

Safety == AnswersVerify /\ GotTheTrie /\ BlocksLinked /\ CodeInOrder

=============================================================================
