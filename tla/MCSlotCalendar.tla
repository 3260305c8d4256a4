--------------------------- MODULE MCSlotCalendar ---------------------------
(***************************************************************************)
(* Time ranges of one and of two units that overlap, touch and contain     *)
(* each other.                                                             *)
(***************************************************************************)
EXTENDS SlotCalendar

R(a, b) == [from |-> a, to |-> b]
ThreeRanges == {R(0, 1), R(0, 2), R(1, 2)}
=============================================================================
