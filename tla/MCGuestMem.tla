------------------------------ MODULE MCGuestMem ------------------------------
(***************************************************************************)
(* Instances of GuestMem for TLC: an address space of eleven pages, the    *)
(* upper five above TASK_UNMAPPED_BASE.                                    *)
(***************************************************************************)
EXTENDS GuestMem

Seg(a, b) == [start |-> a, end |-> b]
Img(t, l, h, s) == [type |-> t, lo |-> l, hi |-> h, segs |-> s]

\* Text and data with and without a gap, images at 0 and above, and a
\* PT_LOAD entry with no memory.
MCImages ==
  {Img(t, 0, 2, <<Seg(0, 1), Seg(1, 2)>>) : t \in {"exec", "dyn"}} \cup
  {Img(t, 1, 4, <<Seg(1, 2), Seg(2, 2), Seg(3, 4)>>) : t \in {"exec", "dyn"}}

MCLengths == {1, 2}

\* Below the heap and, for the smaller images, beyond it.
MCBreaks == {0, 5}

\* Guests that do not call mmap, or brk.
NoLengths == {}
NoBreaks == {}

=============================================================================
