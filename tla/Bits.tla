------------------------------- MODULE Bits -------------------------------
(***************************************************************************)
(* Registers and machine words as sets of bit positions, and the bit       *)
(* operators of include/common/GB_macro.h over them: a word is the set of  *)
(* its bits that are 1, so the C++ bitwise `or', `and', `and not' are      *)
(* \cup, \cap and \.  BitMacro.tla checks that the integer arithmetic of   *)
(* the header computes these sets.                                         *)
(***************************************************************************)
EXTENDS Integers

Reg8 == SUBSET (0..7)    \* the values of a byte_t, bit by bit

(* The bits from lsbi up to msbi. *)
bit_mask(msbi, lsbi) == lsbi..msbi

(* Bits lsbi..msbi of a word, shifted down to position 0. *)
bit_slice(msbi, lsbi, bitset) ==
  {b - lsbi : b \in bitset \cap bit_mask(msbi, lsbi)}

(* Bits lsbi..msbi of dst replaced by the low bits of val. *)
bit_slice_inject(msbi, lsbi, dst, val) ==
  ({b + lsbi : b \in val} \cap bit_mask(msbi, lsbi)) \cup (dst \ bit_mask(msbi, lsbi))

bit_n(n, bitset) == n \in bitset

bit_n_set(n, bitset) == bitset \cup {n}

bit_n_reset(n, bitset) == bitset \ {n}

(* The least position of a bit that is 1.  For the word 0 the key of the   *)
(* cycle table is 0, whose entry is 0.                                     *)
bit_lsb(bitset) ==
  IF bitset = {} THEN 0 ELSE CHOOSE b \in bitset : \A c \in bitset : b <= c
===========================================================================
