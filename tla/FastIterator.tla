---------------------------- MODULE FastIterator ----------------------------
(***************************************************************************)
(* The iterators over a stack of snapshot layers (core/state/snapshot:     *)
(* iterator_fast.go, iterator_binary.go, iterator.go).                     *)
(*                                                                         *)
(* A stack is a sequence of layers, the top one first; a layer maps the    *)
(* keys it knows to values, 0 for a deleted one.                           *)
(***************************************************************************)
EXTENDS Integers, SequencesExt, FiniteSetsExt

CONSTANTS
    Stacks,    \* the stacks to iterate: [layers, cut], cut the layer that destructs the account
    Seeks      \* first keys to start from

VARIABLES
    stack, seek,
    its,       \* the sub-iterators: [pos, rest, pr], pos the current key
    initiated, out, pc

vars == <<stack, seek, its, initiated, out, pc>>

Sorted(S) == SetToSortSeq(S, <)

\* AccountIterator, StorageIterator of one layer: the sorted keys from seek on.
Layer(keys, from, depth) ==
    [pos |-> -1, rest |-> Sorted({k \in keys : k >= from}), pr |-> depth]

\* A storage iterator stops at the layer that destructs the account.
Depth(s) == IF s.cut = 0 THEN Len(s.layers) ELSE s.cut

Moved(it) == [it EXCEPT !.pos = Head(it.rest), !.rest = Tail(it.rest)]

-----------------------------------------------------------------------------
(* init: every iterator on its first key, no key under two of them *)

Swap(s, i, j) == [s EXCEPT ![i] = s[j], ![j] = s[i]]
DropLastInto(s, i) == SubSeq([s EXCEPT ![i] = Last(s)], 1, Len(s) - 1)

RECURSIVE Position(_, _)
Position(s, i) ==
    IF i > Len(s) THEN s
    ELSE IF s[i].rest = <<>> THEN Position(DropLastInto(s, i), i)
    ELSE LET t == [s EXCEPT ![i] = Moved(@)]
             clash == {j \in 1..(i - 1) : t[j].pos = t[i].pos}
         IN  IF clash = {} THEN Position(t, i + 1)
             ELSE LET j == CHOOSE j \in clash : TRUE
                  IN  IF t[j].pr < t[i].pr THEN Position(t, i) ELSE Position(Swap(t, i, j), i)

Cmp(a, b) == a.pos < b.pos \/ (a.pos = b.pos /\ a.pr < b.pr)

NewFastIterator(s, from) ==
    SortSeq(Position([d \in 1..Depth(s) |-> Layer(DOMAIN s.layers[d], from, d)], 1), Cmp)

-----------------------------------------------------------------------------
(* next: the iterator at idx moves on and is put back where it belongs *)

Move(s, i, j) ==
    [n \in DOMAIN s |-> IF n = j THEN s[i] ELSE IF i <= n /\ n < j THEN s[n + 1] ELSE s[n]]

\* sort.Search: the first place after which the moved iterator is in order.
Place(s, i) ==
    Min({n \in i..Len(s) :
            \/ n = Len(s)
            \/ s[i].pos < s[n + 1].pos
            \/ s[i].pos = s[n + 1].pos /\ s[i].pr < s[n + 1].pr})

\* (A variant that leaves two iterators on the same key.)
NoClash(s, i) == {}

\* The place of another iterator on the same key, which has to move on too.
Clash(s, i) == {n \in (i + 1)..Len(s) : s[n].pos = s[i].pos}

RECURSIVE NextAt(_, _)
NextAt(s, i) ==
    IF s[i].rest = <<>> THEN RemoveAt(s, i)
    ELSE LET t == [s EXCEPT ![i] = Moved(@)]
             c == Clash(t, i)
             u == Move(t, i, Place(t, i))
         IN  IF c = {} THEN u ELSE NextAt(u, Min(c))

-----------------------------------------------------------------------------
Value(s, it) == s.layers[it.pr][it.pos]

\* binaryIterator: two streams of keys merged, on a tie the upper one moves.
RECURSIVE Merge(_, _)
Merge(a, b) ==
    CASE a = <<>> -> b
      [] b = <<>> -> a
      [] Head(a) < Head(b) -> <<Head(a)>> \o Merge(Tail(a), b)
      [] Head(a) = Head(b) -> Merge(Tail(a), b)
      [] OTHER -> <<Head(b)>> \o Merge(a, Tail(b))

RECURSIVE BinaryKeys(_, _)
BinaryKeys(s, d) ==
    IF d = Depth(s) THEN Sorted(DOMAIN s.layers[d])
    ELSE Merge(Sorted(DOMAIN s.layers[d]), BinaryKeys(s, d + 1))

-----------------------------------------------------------------------------
Init ==
    /\ stack = <<>> /\ seek = 0
    /\ its = <<>> /\ initiated = FALSE /\ out = <<>> /\ pc = "new"

Open(s, from) ==
    /\ pc = "new"
    /\ stack' = s /\ seek' = from /\ its' = NewFastIterator(s, from)
    /\ pc' = "iterate" /\ UNCHANGED <<initiated, out>>

\* Next: the first call does not move; a deleted key is passed over.
Next1 ==
    /\ pc = "iterate" /\ its # <<>>
    /\ initiated' = TRUE
    /\ its' = IF initiated THEN NextAt(its, 1) ELSE its
    /\ out' = IF its' # <<>> /\ Value(stack, its'[1]) # 0
              THEN Append(out, <<its'[1].pos, Value(stack, its'[1])>>) ELSE out
    /\ UNCHANGED <<stack, seek, pc>>

Exhausted ==
    /\ pc = "iterate" /\ its = <<>> /\ pc' = "done"
    /\ UNCHANGED <<stack, seek, its, initiated, out>>

Next == (\E s \in Stacks, from \in Seeks : Open(s, from)) \/ Next1 \/ Exhausted

Spec == Init /\ [][Next]_vars

-----------------------------------------------------------------------------
\* What the stack holds: of every key the value in the uppermost layer that knows it.
Known == UNION {DOMAIN stack.layers[d] : d \in 1..Depth(stack)}
Top(k) == LET d == Min({e \in 1..Depth(stack) : k \in DOMAIN stack.layers[e]}) IN stack.layers[d][k]
Live == Sorted({k \in Known : k >= seek /\ Top(k) # 0})

\* The fast iterator returns the live keys in order, each once, with the uppermost value.
FastRight == pc = "done" => out = [i \in DOMAIN Live |-> <<Live[i], Top(Live[i])>>]

\* The binary one, which the tests compare it with, visits the same keys.
BinaryRight ==
    pc = "done" => SelectSeq(BinaryKeys(stack, 1), LAMBDA k : k >= seek /\ Top(k) # 0) = Live

\* Between two calls the iterators are in order and no two are on one key.
Ordered ==
    \A i, j \in DOMAIN its : i < j => its[i].pos < its[j].pos

Safety == FastRight /\ BinaryRight /\ Ordered
=============================================================================
