------------------------ MODULE InterruptController ------------------------
(***************************************************************************)
(* The interrupt controller of include/device/GB_interrupt.h: the IE and   *)
(* IF registers as stored, reserved bits included, the IME flag, and the   *)
(* public operations devices and the CPU call on them in any order.        *)
(***************************************************************************)
EXTENDS Bits

CONSTANT RegValues   \* the bytes given to the constructor and the setters

ASSUME RegValuesAssumption == RegValues \subseteq Reg8

VARIABLES
  reg_IE,    \* Registers::IE, interrupt enable
  reg_IF,    \* Registers::IF, interrupt request
  reg_IME    \* Registers::IME, interrupt main enable

vars == <<reg_IE, reg_IF, reg_IME>>

VBLANK_INT == 0
LCDSTAT_INT == 1
TIMOVER_INT == 2
SERIO_INT == 3
JOYPAD_INT == 4
NO_INTERRUPT == 5    \* the first reserved bit, and the answer "nothing to handle"

InterruptIdx == VBLANK_INT..NO_INTERRUPT

(* Mutant: the reserved range is one bit too wide for the register. *)
REG_RESERVED_BITS_wide == bit_mask(8, 5)

REG_RESERVED_BITS == bit_mask(7, 5)

(* Registers() and InterruptController(regs): the values are stored as     *)
(* they are given, so reserved bits may start out 0.                       *)
Init ==
  /\ reg_IE \in RegValues
  /\ reg_IF \in RegValues
  /\ reg_IME \in BOOLEAN

-----------------------------------------------------------------------------
(* Queries. *)

get_IE_reg == reg_IE \cup REG_RESERVED_BITS

get_IF_reg == reg_IF \cup REG_RESERVED_BITS

get_IME_reg == reg_IME

(* Mutant: the reserved bits are not added to the search. *)
get_highest_unreserved == bit_lsb(reg_IF \cap reg_IE)

(* The reserved bits stand in for "nothing": the least of them is          *)
(* NO_INTERRUPT.                                                           *)
get_highest_priority_interrupt ==
  bit_lsb((reg_IF \cap reg_IE) \cup REG_RESERVED_BITS)

-----------------------------------------------------------------------------
(* Operations. *)

request_interrupt(i) ==
  /\ reg_IF' = bit_n_set(i, reg_IF)
  /\ UNCHANGED <<reg_IE, reg_IME>>

(* Mutant: the word without the bit is computed and not stored. *)
reset_interrupt_unstored(i) == i \in 0..7 /\ UNCHANGED vars

reset_interrupt(i) ==
  /\ reg_IF' = bit_n_reset(i, reg_IF)
  /\ UNCHANGED <<reg_IE, reg_IME>>

set_IE_reg(value) ==
  /\ reg_IE' = value \cup REG_RESERVED_BITS
  /\ UNCHANGED <<reg_IF, reg_IME>>

set_IF_reg(value) ==
  /\ reg_IF' = value \cup REG_RESERVED_BITS
  /\ UNCHANGED <<reg_IE, reg_IME>>

set_IME_reg(value) ==
  /\ reg_IME' = value
  /\ UNCHANGED <<reg_IE, reg_IF>>

Next ==
  \/ \E i \in InterruptIdx : request_interrupt(i) \/ reset_interrupt(i)
  \/ \E v \in RegValues : set_IE_reg(v) \/ set_IF_reg(v)
  \/ \E b \in BOOLEAN : set_IME_reg(b)

Spec == Init /\ [][Next]_vars

-----------------------------------------------------------------------------
(* Properties. *)

(* Both registers hold a byte, whatever is written and requested. *)
TypeOK ==
  /\ reg_IE \in Reg8
  /\ reg_IF \in Reg8
  /\ reg_IME \in BOOLEAN

(* What a program can read of the controller, and the interrupt it is told *)
(* to handle, are those of a plain latch of the five real sources: however *)
(* the registers were constructed and written, and even when the index     *)
(* NO_INTERRUPT itself is requested or reset, reserved bits are never seen *)
(* as an interrupt, and "nothing to handle" is said exactly when nothing   *)
(* is both requested and enabled.                                          *)
Latch == INSTANCE InterruptLatch WITH
  requested <- get_IF_reg \ REG_RESERVED_BITS,
  enabled <- get_IE_reg \ REG_RESERVED_BITS,
  master <- get_IME_reg,
  winner <- get_highest_priority_interrupt

ImplementsLatch == Latch!Spec
=============================================================================
