------------------------------ MODULE BitMacro ------------------------------
(***************************************************************************)
(* The bit operators of include/common/GB_macro.h as the header computes   *)
(* them, with the shifts, masks and products of unsigned integers, beside  *)
(* the sets of Bits.tla that the other modules use in their place.  The    *)
(* register `word' takes every value that a program can compose with them. *)
(* The header's words have 32 bits; here they have Width.  bit_lsb has 16  *)
(* bits, here as there.                                                    *)
(***************************************************************************)
EXTENDS Integers, Sequences

CONSTANT Width    \* the bits of a word

ASSUME WidthAssumption == Width \in Nat \ {0}

VARIABLE word    \* a register

B == INSTANCE Bits

(* Powers of two, and the integers between 0 and 2^n by their digits: as   *)
(* functions, which proofs can take apart.                                 *)
Pow2[n \in Nat] == IF n = 0 THEN 1 ELSE 2 * Pow2[n - 1]

Digit(i, w) == (w \div Pow2[i]) % 2

Number(n, digits) ==
  LET sum[k \in 0..n] == IF k = 0 THEN 0 ELSE sum[k - 1] + Pow2[k - 1] * digits[k - 1]
  IN  sum[n]

Positions == 0..(Width - 1)
Words == 0..(Pow2[Width] - 1)

(* The set of bits an integer of n bits stands for. *)
BitsOf(n, w) == {i \in 0..(n - 1) : Digit(i, w) = 1}

(* C++ shifts, complement, `and' and `or' of unsigned words; the last two  *)
(* for n bits.                                                             *)
shl(w, n) == (w * Pow2[n]) % Pow2[Width]
shr(w, n) == w \div Pow2[n]
complement(w) == Pow2[Width] - 1 - w
And(n, v, w) == Number(n, [i \in 0..(n - 1) |-> Digit(i, v) * Digit(i, w)])
Or(n, v, w) ==
  Number(n, [i \in 0..(n - 1) |-> 1 - (1 - Digit(i, v)) * (1 - Digit(i, w))])

v & w == And(Width, v, w)
v | w == Or(Width, v, w)

-----------------------------------------------------------------------------

bit_mask(msbi, lsbi) ==
  LET masksize == (msbi - lsbi) + 1
  IN  shl(shr(Pow2[Width] - 1, Width - masksize), lsbi)

(* Mutant: the slice stays where it was. *)
bit_slice_unshifted(msbi, lsbi, bitset) == bit_mask(msbi, lsbi) & bitset

bit_slice(msbi, lsbi, bitset) == shr(bit_mask(msbi, lsbi) & bitset, lsbi)

(* Mutant: bits of the value beyond the slice are injected too. *)
bit_slice_inject_unmasked(msbi, lsbi, dst, val) ==
  shl(val, lsbi) | (dst & complement(bit_mask(msbi, lsbi)))

bit_slice_inject(msbi, lsbi, dst, val) ==
  LET bitmask == bit_mask(msbi, lsbi)
  IN  (shl(val, lsbi) & bitmask) | (dst & complement(bitmask))

bit_n(n, bitset) == bitset & shl(1, n) # 0

(* Mutant: the bit is added, a carry and all. *)
bit_n_set_added(n, bitset) == bitset + shl(1, n)

bit_n_set(n, bitset) == bitset | shl(1, n)

bit_n_reset(n, bitset) == bitset & complement(shl(1, n))

(* bits_set(i, j, ...): of a list of positions. *)
bits_set(idxs) ==
  LET or[k \in 0..Len(idxs)] == IF k = 0 THEN 0 ELSE shl(1, idxs[k]) | or[k - 1]
  IN  or[Len(idxs)]

MAGICK_CYCLE_NUM == 19832    \* 0x4D78

LSB_CYCLE_TABLE == <<0, 1, 2, 5, 3, 9, 6, 11, 15, 4, 8, 10, 14, 7, 13, 12>>

(* The least bit, as a word of 16 bits: bitset & -bitset. *)
LSB_MASK(bitset) == And(16, bitset, (Pow2[16] - bitset) % Pow2[16])

(* Mutant: the key begins one bit lower. *)
LSB_CYCLE_KEY_low(bitset) == ((LSB_MASK(bitset) * MAGICK_CYCLE_NUM) \div Pow2[14]) % 16

(* Four bits of the product, from bit 15 up: 0x8000 * 0x4D78 fits an int.  *)
LSB_CYCLE_KEY(bitset) == ((LSB_MASK(bitset) * MAGICK_CYCLE_NUM) \div Pow2[15]) % 16

bit_lsb(bitset) == LSB_CYCLE_TABLE[LSB_CYCLE_KEY(bitset) + 1]

-----------------------------------------------------------------------------

Init == word = 0

Next ==
  \/ \E n \in Positions : word' = bit_n_set(n, word)
  \/ \E n \in Positions : word' = bit_n_reset(n, word)
  \/ \E l \in Positions : \E m \in l..(Width - 1) :
       \/ word' = bit_slice(m, l, word)
       \/ \E val \in Words : word' = bit_slice_inject(m, l, word, val)

Spec == Init /\ [][Next]_word

-----------------------------------------------------------------------------
(* Properties. *)

(* Masks and reads: what the header's shifts leave of a word, a slice that *)
(* ends at the topmost bit included, is what the sets say.                 *)
ReadsMatch ==
  LET bits == BitsOf(Width, word)
  IN  \A l \in Positions :
        /\ bit_n(l, word) <=> B!bit_n(l, bits)
        /\ \A m \in l..(Width - 1) :
             /\ BitsOf(Width, bit_mask(m, l)) = B!bit_mask(m, l)
             /\ BitsOf(Width, bits_set(<<m, l>>)) = {m, l}
             /\ BitsOf(Width, bit_slice(m, l, word)) = B!bit_slice(m, l, bits)

(* Writes: setting, resetting and injecting change the bits they name, no  *)
(* others, and drop what does not fit.                                     *)
WritesMatch ==
  LET bits == BitsOf(Width, word)
  IN  \A l \in Positions :
        /\ BitsOf(Width, bit_n_set(l, word)) = B!bit_n_set(l, bits)
        /\ BitsOf(Width, bit_n_reset(l, word)) = B!bit_n_reset(l, bits)
        /\ \A m \in l..(Width - 1), val \in Words :
             BitsOf(Width, bit_slice_inject(m, l, word, val)) =
               B!bit_slice_inject(m, l, bits, BitsOf(Width, val))

(* Every function of the header on the bits of a word is the one on sets   *)
(* of positions that the other modules use, and gives a word again.        *)
OperatorsMatch == word \in Words /\ ReadsMatch /\ WritesMatch

(* The product with the cycle number and the table find the position of    *)
(* the least bit of every one of the 2^16 words but 0 that agree with      *)
(* `word' in the bits they share: the key of each power of two leads to    *)
(* its own entry.  A longer word loses its high bits when it is passed.    *)
LsbMatches ==
  \A high \in 0..(Pow2[16] \div Pow2[Width]) :
    LET w == (high * Pow2[Width] + word) % Pow2[16]
    IN  w # 0 => bit_lsb(w) = B!bit_lsb(BitsOf(16, w))

=============================================================================
