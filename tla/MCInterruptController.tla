----------------------- MODULE MCInterruptController -----------------------
(***************************************************************************)
(* The controller on ten register values: none and all of the bits, the    *)
(* values of test/interrupt.cc, each real source alone, and reserved bits  *)
(* without any source.                                                     *)
(***************************************************************************)
EXTENDS InterruptController

MCRegValues ==
  { {}, 0..7, {0}, {1}, {2}, {3}, {4}, {0, 1, 2, 3}, {1, 3, 5, 7}, {6} }
=============================================================================
