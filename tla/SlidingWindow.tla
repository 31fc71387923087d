----------------------------- MODULE SlidingWindow -----------------------------
(***************************************************************************)
(* What core/bounded_buffer.go promises its caller: the last size items    *)
(* inserted, oldest first, each item handed to the callback when it leaves *)
(* and never before.  An insertion whose callback fails changes nothing.   *)
(***************************************************************************)
EXTENDS Integers, Sequences

CONSTANTS Item, size

VARIABLES window, released  \* released: the item the last insertion let go

WindowInit == window = <<>> /\ released = <<>>

Push(h) ==
    IF Len(window) < size
    THEN window' = Append(window, h) /\ released' = <<>>
    ELSE window' = Append(Tail(window), h) /\ released' = <<Head(window)>>

WindowNext == \E h \in Item : Push(h)

WindowSpec == WindowInit /\ [][WindowNext]_<<window, released>>
=============================================================================
