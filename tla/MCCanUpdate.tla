---------------------------- MODULE MCCanUpdate ----------------------------
(* A small instance of CanUpdate for TLC: an image of one and a half pages *)
(* and one of two.                                                         *)
EXTENDS CanUpdate

MCFiles == {"old", "new"}
MCSize == [f \in MCFiles |-> IF f = "old" THEN 3 ELSE 4]

Bound(starts, others, garbled, cycles) ==
    [starts |-> starts, others |-> others, garbled |-> garbled, cycles |-> cycles]

MCBounds == {Bound(2, 0, 1, 0), Bound(1, 1, 2, 0), Bound(2, 0, 0, 1), Bound(1, 1, 0, 1)}
=============================================================================
