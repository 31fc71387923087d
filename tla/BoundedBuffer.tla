----------------------------- MODULE BoundedBuffer -----------------------------
(***************************************************************************)
(* core/bounded_buffer.go: a ring of size slots whose callback (for the    *)
(* trie writer, Dereference) runs on each item it overwrites.  It          *)
(* implements a sliding window, for every size and every set of items.     *)
(***************************************************************************)
EXTENDS Integers, SequenceTheorems, TLAPS

CONSTANTS Item, Zero, size  \* Zero: the value of a slot never written

\* config.Validate refuses a pruning node with an empty state history.
ASSUME Config == size \in Nat \ {0} /\ Zero \notin Item

VARIABLES
    lastPos, cycled, buffer,  \* the struct
    released,                 \* what the last insertion gave to the callback
    callbackFails             \* the callback's answer to the next insertion

vars == <<lastPos, cycled, buffer, released, callbackFails>>

Slot == 0..(size - 1)

NewBoundedBuffer ==
    /\ lastPos = -1 /\ cycled = FALSE
    /\ buffer = [p \in Slot |-> Zero]
    /\ released = <<>>
    /\ callbackFails \in BOOLEAN

nextPos == IF lastPos + 1 = size THEN 0 ELSE lastPos + 1

\* Mutant: takes the ring for full one slot too early.
InsertCyclesEarly(h) ==
    /\ cycled' = (cycled \/ lastPos + 2 = size)
    /\ IF cycled' /\ callbackFails
       THEN UNCHANGED <<buffer, lastPos, released>>
       ELSE /\ released' = <<>>
            /\ buffer' = [buffer EXCEPT ![nextPos] = h]
            /\ lastPos' = nextPos
    /\ callbackFails' \in BOOLEAN

\* Mutant: advances before the callback can fail.
InsertAdvancesFirst(h) ==
    /\ cycled' = (cycled \/ lastPos + 1 = size)
    /\ lastPos' = nextPos
    /\ IF cycled' /\ callbackFails
       THEN UNCHANGED <<buffer, released>>
       ELSE /\ released' = IF cycled' THEN <<buffer[nextPos]>> ELSE <<>>
            /\ buffer' = [buffer EXCEPT ![nextPos] = h]
    /\ callbackFails' \in BOOLEAN

\* Insert.  The ring is marked as cycled before the callback can fail.
Insert(h) ==
    /\ cycled' = (cycled \/ lastPos + 1 = size)
    /\ IF cycled' /\ callbackFails
       THEN UNCHANGED <<buffer, lastPos, released>>
       ELSE /\ released' = IF cycled' THEN <<buffer[nextPos]>> ELSE <<>>
            /\ buffer' = [buffer EXCEPT ![nextPos] = h]
            /\ lastPos' = nextPos
    /\ callbackFails' \in BOOLEAN

Next == \E h \in Item : Insert(h)

Spec == NewBoundedBuffer /\ [][Next]_vars

-----------------------------------------------------------------------------
\* The type of every variable.
TypeOK ==
    /\ lastPos \in -1..(size - 1) /\ cycled \in BOOLEAN
    /\ buffer \in [Slot -> Item \cup {Zero}]
    /\ released \in Seq(Item)
    /\ callbackFails \in BOOLEAN

\* The slot of the i-th oldest item once the ring is full.
OldestSlot(i) == IF lastPos + i < size THEN lastPos + i ELSE lastPos + i - size

\* The items held, oldest first.
Window ==
    IF cycled THEN [i \in 1..size |-> buffer[OldestSlot(i)]]
              ELSE [i \in 1..(lastPos + 1) |-> buffer[i - 1]]

Promise == INSTANCE SlidingWindow WITH window <- Window

\* The ring is a sliding window over the insertions: the callback gets the
\* item inserted size insertions ago, also after a callback that failed at
\* the very moment the ring wraps around.
ImplementsWindow == Promise!WindowSpec

\* The callback never sees a slot that was not written ("to ensure we don't
\* call it with unset values"), and Last never returns one.
NoUnsetValue ==
    /\ \A i \in DOMAIN Window : Window[i] \in Item
    /\ lastPos # -1 => buffer[lastPos] = Window[Len(Window)]

-----------------------------------------------------------------------------
(* Proofs.                                                                 *)

\* Every slot up to lastPos is written, and every slot once the ring cycled.
RingInv ==
    /\ TypeOK
    /\ cycled => lastPos # -1
    /\ \A p \in Slot : (cycled \/ p <= lastPos) => buffer[p] \in Item

\* The items held: a sequence of at most size items.
WindowType ==
    /\ Window \in Seq(Item)
    /\ Len(Window) = IF cycled THEN size ELSE lastPos + 1

\* The window the ring stands for is a sequence of values.
LEMMA WindowIsSeq == RingInv => WindowType
<1> SUFFICES ASSUME RingInv PROVE WindowType
    BY Zenon
<1>1. size \in Nat \ {0} /\ lastPos \in -1..(size - 1)
    BY Zenon, Config DEF RingInv, TypeOK
<1>2. CASE cycled
    <2>1. \A i \in 1..size : OldestSlot(i) \in Slot
        BY <1>1, <1>2 DEF OldestSlot, Slot, RingInv
    <2>2. \A i \in 1..size : buffer[OldestSlot(i)] \in Item
        BY Zenon, <1>2, <2>1 DEF RingInv
    <2> QED
        BY <1>1, <1>2, <2>2 DEF Window, WindowType
<1>3. CASE ~cycled
    <2>1. \A i \in 1..(lastPos + 1) : buffer[i - 1] \in Item
        BY <1>1, <1>3 DEF RingInv, Slot
    <2> QED
        BY <1>1, <1>3, <2>1 DEF Window, WindowType
<1> QED
    BY Zenon, <1>2, <1>3

\* The ring's invariant.
LEMMA RingInit == NewBoundedBuffer => RingInv
BY Config DEF NewBoundedBuffer, RingInv, TypeOK, Slot

\* Every step keeps the invariant of the ring.
LEMMA RingNext == RingInv /\ [Next]_vars => RingInv'
<1> SUFFICES ASSUME RingInv, [Next]_vars PROVE RingInv'
    BY Zenon
<1>1. size \in Nat \ {0}
    BY Zenon, Config
<1>2. ASSUME NEW h \in Item, Insert(h) PROVE RingInv'
    <2>1. nextPos \in Slot /\ cycled' \in BOOLEAN
        BY <1>1, <1>2 DEF nextPos, Slot, RingInv, TypeOK, Insert
    <2>2. CASE cycled' /\ callbackFails
        BY <1>1, <1>2, <2>1, <2>2 DEF Insert, RingInv, TypeOK, Slot
    <2>3. CASE ~(cycled' /\ callbackFails)
        <3>1. /\ buffer' = [buffer EXCEPT ![nextPos] = h] /\ lastPos' = nextPos
              /\ released' = IF cycled' THEN <<buffer[nextPos]>> ELSE <<>>
              /\ cycled' = (cycled \/ lastPos + 1 = size) /\ callbackFails' \in BOOLEAN
            BY Zenon, <1>2, <2>3 DEF Insert
        <3>2. cycled' => buffer[nextPos] \in Item
            BY <1>1, <2>1, <3>1 DEF RingInv, TypeOK, Slot, nextPos
        <3>3. released' \in Seq(Item)
            BY <3>1, <3>2
        <3>4. ASSUME NEW p \in Slot, cycled' \/ p <= nextPos PROVE buffer'[p] \in Item
            <4>1. CASE p = nextPos
                BY Zenon, <3>1, <4>1, <2>1 DEF RingInv, TypeOK
            <4>2. CASE p # nextPos
                <5>1. cycled \/ p <= lastPos
                    BY <1>1, <3>1, <3>4, <4>2 DEF RingInv, TypeOK, Slot, nextPos
                <5> QED
                    BY Zenon, <3>1, <4>2, <5>1 DEF RingInv, TypeOK
            <4> QED
                BY Zenon, <4>1, <4>2
        <3>5. lastPos' \in -1..(size - 1) /\ lastPos' # -1
            BY <1>1, <2>1, <3>1 DEF Slot
        <3>6. buffer' \in [Slot -> Item \cup {Zero}]
            BY Zenon, <2>1, <3>1 DEF RingInv, TypeOK
        <3> QED
            BY Zenon, <2>1, <3>1, <3>3, <3>4, <3>5, <3>6 DEF RingInv, TypeOK
    <2> QED
        BY Zenon, <2>2, <2>3
<1>3. CASE UNCHANGED vars
    BY Zenon, <1>3 DEF vars, RingInv, TypeOK
<1> QED
    BY Zenon, <1>2, <1>3 DEF Next

\* One insertion pushes one item into the window, or fails and leaves it.
LEMMA InsertPushes ==
    ASSUME RingInv, NEW h \in Item, Insert(h), RingInv'
    PROVE  Promise!Push(h) \/ UNCHANGED <<Window, released>>
<1>1. /\ size \in Nat \ {0} /\ lastPos \in -1..(size - 1)
      /\ cycled \in BOOLEAN /\ cycled' \in BOOLEAN
    BY Zenon, Config DEF RingInv, TypeOK
<1>2. Window \in Seq(Item) /\ Len(Window) = IF cycled THEN size ELSE lastPos + 1
    BY Zenon, WindowIsSeq DEF WindowType
<1>6. Window' \in Seq(Item) /\ Len(Window') = IF cycled' THEN size ELSE lastPos' + 1
    <2>1. WindowType'
        BY WindowIsSeq, PTL
    <2> QED
        BY Zenon, <2>1 DEF WindowType
<1>3. CASE cycled' /\ callbackFails
    <2>1. UNCHANGED <<buffer, lastPos, released>> /\ cycled' = (cycled \/ lastPos + 1 = size)
        BY Zenon, <1>3 DEF Insert
    <2>2. CASE cycled
        BY Zenon, <1>3, <2>1, <2>2 DEF Window, OldestSlot
    <2>3. CASE ~cycled
        <3>1. lastPos + 1 = size
            BY Zenon, <1>3, <2>1, <2>3
        <3>2. \A i \in 1..size : OldestSlot(i)' = i - 1
            BY <1>1, <2>1, <3>1 DEF OldestSlot
        <3>3. Window' = [i \in 1..size |-> buffer[i - 1]]
            BY Zenon, <1>3, <2>1, <3>2 DEF Window
        <3> QED
            BY Zenon, <2>1, <2>3, <3>1, <3>3 DEF Window
    <2> QED
        BY Zenon, <2>2, <2>3
<1>4. CASE ~(cycled' /\ callbackFails)
    <2>1. /\ buffer' = [buffer EXCEPT ![nextPos] = h] /\ lastPos' = nextPos
          /\ released' = IF cycled' THEN <<buffer[nextPos]>> ELSE <<>>
          /\ cycled' = (cycled \/ lastPos + 1 = size)
        BY Zenon, <1>4 DEF Insert
    <2>2. buffer \in [Slot -> Item \cup {Zero}] /\ nextPos \in Slot
        BY <1>1 DEF RingInv, TypeOK, nextPos, Slot
    <2>3. CASE ~cycled'
        <3>1. ~cycled /\ nextPos = lastPos + 1 /\ Len(Window) < size
            <4>1. ~cycled /\ lastPos + 1 # size
                BY <1>1, <2>1, <2>3, Zenon
            <4> QED
                BY <1>1, <1>2, <4>1 DEF nextPos
        <3>2. Window' = Append(Window, h)
            BY <1>1, <1>2, <2>1, <2>2, <2>3, <3>1 DEF Window, Slot
        <3> QED
            BY Zenon, <2>1, <2>3, <3>1, <3>2 DEF Promise!Push
    <2>4. CASE cycled'
        <3>1. Len(Window) = size /\ \A i \in 1..size : Window[i] = buffer[OldestSlot(i)]
            <4>1. CASE cycled
                BY Zenon, <1>1, <1>2, <4>1 DEF Window
            <4>2. CASE ~cycled
                BY <1>1, <1>2, <2>1, <2>4, <4>2 DEF Window, OldestSlot
            <4> QED
                BY Zenon, <4>1, <4>2
        <3>2. OldestSlot(1) = nextPos
            BY <1>1 DEF OldestSlot, nextPos
        <3>3. Head(Window) = buffer[nextPos]
            BY <1>1, <1>2, <3>1, <3>2
        <3>4. ASSUME NEW i \in 1..size
              PROVE  buffer'[OldestSlot(i)'] = IF i = size THEN h ELSE Window[i + 1]
            <4>1. CASE i = size
                BY <1>1, <2>1, <2>2, <4>1 DEF OldestSlot, nextPos, Slot
            <4>2. CASE i # size
                <5>1. /\ OldestSlot(i)' = OldestSlot(i + 1) /\ OldestSlot(i + 1) # nextPos
                      /\ OldestSlot(i + 1) \in Slot /\ i + 1 \in 1..size
                    BY <1>1, <2>1, <4>2 DEF OldestSlot, nextPos, Slot
                <5> QED
                    BY Zenon, <2>1, <2>2, <3>1, <4>2, <5>1
            <4> QED
                BY Zenon, <4>1, <4>2
        <3>5. Window' \in Seq(Item) /\ Len(Window') = size
            BY Zenon, <1>6, <2>4
        <3>6. \A i \in 1..size : Window'[i] = IF i = size THEN h ELSE Window[i + 1]
            BY Zenon, <2>4, <3>4 DEF Window
        <3>7. /\ Tail(Window) \in Seq(Item) /\ Len(Tail(Window)) = size - 1
              /\ \A i \in 1..(size - 1) : Tail(Window)[i] = Window[i + 1]
            BY <1>1, <1>2, <3>1, HeadTailProperties
        <3>8. Window' = Append(Tail(Window), h)
            <4> DEFINE pushed == Append(Tail(Window), h)
            <4>1. /\ pushed \in Seq(Item) /\ Len(pushed) = size /\ pushed[size] = h
                  /\ \A i \in 1..(size - 1) : pushed[i] = Window[i + 1]
                BY <1>1, <3>7, AppendProperties
            <4> HIDE DEF pushed
            <4>2. \A i \in 1..size : Window'[i] = pushed[i]
                BY <1>1, <3>6, <4>1
            <4>3. Window' = pushed
                BY Zenon, <3>5, <4>1, <4>2, SeqEqual
            <4> QED
                BY Zenon, <4>3 DEF pushed
        <3> QED
            BY <1>1, <2>1, <2>4, <3>1, <3>3, <3>8 DEF Promise!Push
    <2> QED
        BY Zenon, <2>3, <2>4
<1> QED
    BY Zenon, <1>3, <1>4

\* The ring buffer implements the sliding window: what the trie writer hands
\* to Dereference is the root accepted size blocks ago (core/state_manager.go).
THEOREM RingImplementsWindow == Spec => ImplementsWindow
<1>1. NewBoundedBuffer => Promise!WindowInit
    BY DEF NewBoundedBuffer, Promise!WindowInit, Window
<1>2. RingInv /\ RingInv' /\ [Next]_vars
         => [Promise!WindowNext]_<<Window, released>>
    <2>1. ASSUME RingInv, RingInv', NEW h \in Item, Insert(h)
          PROVE  [Promise!WindowNext]_<<Window, released>>
        BY Zenon, <2>1, InsertPushes DEF Promise!WindowNext
    <2>2. UNCHANGED vars => UNCHANGED <<Window, released>>
        BY DEF vars, Window, OldestSlot
    <2> QED
        BY Zenon, <2>1, <2>2 DEF Next
<1> QED
    BY <1>1, <1>2, RingInit, RingNext, PTL
       DEF Spec, ImplementsWindow, Promise!WindowSpec

\* No slot is read before it is written.
THEOREM NoUnsetValueRead == Spec => []NoUnsetValue
<1>1. RingInv => NoUnsetValue
    <2> SUFFICES ASSUME RingInv PROVE NoUnsetValue
        BY Zenon
    <2>1. Window \in Seq(Item) /\ Len(Window) = IF cycled THEN size ELSE lastPos + 1
        BY Zenon, WindowIsSeq DEF WindowType
    <2>2. size \in Nat \ {0} /\ lastPos \in -1..(size - 1)
        BY Zenon, Config DEF RingInv, TypeOK
    <2>3. \A i \in DOMAIN Window : Window[i] \in Item
        BY <2>1
    <2>4. lastPos # -1 => buffer[lastPos] = Window[Len(Window)]
        BY <2>1, <2>2 DEF Window, OldestSlot
    <2> QED
        BY Zenon, <2>3, <2>4 DEF NoUnsetValue
<1> QED
    BY <1>1, RingInit, RingNext, PTL DEF Spec
=============================================================================
