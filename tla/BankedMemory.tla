---------------------------- MODULE BankedMemory ----------------------------
(***************************************************************************)
(* What a banked memory promises a program: separate banks, a window that  *)
(* always shows bank 0 and a window that shows the selected bank, which is *)
(* another one.  A write in a window changes the byte that the window      *)
(* shows; selecting a bank changes no byte.                                *)
(***************************************************************************)
EXTENDS Integers

CONSTANTS
  Banks,     \* the bank numbers
  Offsets,   \* the places of a bank
  Bytes      \* the values of a byte

VARIABLES
  bank,       \* the bytes of every bank
  selected,   \* the bank in the switchable window
  fixed,      \* what the program reads in the fixed window
  window      \* what the program reads in the switchable window

vars == <<bank, selected, fixed, window>>

Init ==
  /\ bank \in [Banks -> [Offsets -> Bytes]]
  /\ selected \in Banks \ {0}

Write(b, o, v) ==
  /\ bank' = [bank EXCEPT ![b][o] = v]
  /\ UNCHANGED selected

WriteFixed(o, v) == Write(0, o, v)

WriteWindow(o, v) == Write(selected, o, v)

Select(b) == selected' = b /\ UNCHANGED bank

(* A program may also reach every bank past the windows. *)
Operation ==
  \/ \E o \in Offsets, v \in Bytes : WriteFixed(o, v) \/ WriteWindow(o, v)
  \/ \E b \in Banks, o \in Offsets, v \in Bytes : Write(b, o, v)
  \/ \E b \in Banks \ {0} : Select(b)

(* The windows show the banks, before the first operation and after each.  *)
Shown == fixed = bank[0] /\ window = bank[selected]

Next == Operation /\ Shown'

Spec == Init /\ Shown /\ [][Next]_vars
=============================================================================
