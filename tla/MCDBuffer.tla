----------------------------- MODULE MCDBuffer -----------------------------
(***************************************************************************)
(* Three buffers of at most two bytes over one block more than there are   *)
(* buffers, so that a leak does not look like an exhausted heap.           *)
(***************************************************************************)
EXTENDS DBuffer

CONSTANTS o1, o2, o3, b1, b2, b3, b4

MCObjs == {o1, o2, o3}
MCBlocks == {b1, b2, b3, b4}
MCBytes == {0, 1}
=============================================================================
