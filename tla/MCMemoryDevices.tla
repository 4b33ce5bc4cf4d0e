-------------------------- MODULE MCMemoryDevices --------------------------
(***************************************************************************)
(* Banks of two bytes.  The values of SVBK select banks 1 (twice, once     *)
(* with a bit that selects nothing), 2 and 7; physical addresses reach the *)
(* first and last byte and one of a bank SVBK does not select.  Of the     *)
(* video RAM there are two variables; VBK is written with the bits that    *)
(* select nothing set and unset.  Nothing tells blocks from one another,   *)
(* or devices.                                                             *)
(***************************************************************************)
EXTENDS MemoryDevices, TLC

CONSTANTS d1, d2, b1, b2, b3

MCSVBKValues == {{}, {0}, {3, 6}, {1}, {0, 1, 2}}
MCPhysAddrs == {0, 8, 15}
MCBytes == {0, 1}
MCBlank == {[p \in 0..(MAX_SIZE - 1) |-> 0]}

MCDevices == {d1, d2}
MCBlocks == {b1, b2, b3}
MCVBKValues == {{}, {0}, 0..7, 1..7}
Interchangeable == Permutations(MCDevices) \cup Permutations(MCBlocks)
=============================================================================
