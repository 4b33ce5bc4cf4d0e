------------------------------- MODULE JoyPad -------------------------------
(***************************************************************************)
(* The joypad of include/device/GB_joypad.h, linked to the interrupt       *)
(* controller it raises JOYPAD_INT in.  The host presses and releases      *)
(* keys, the emulation loop calls step(), the program writes and reads P1. *)
(* A pad built without a controller (the nullptr default) may be used the  *)
(* same way as long as step() never sees a new key; it is not modelled.    *)
(***************************************************************************)
EXTENDS Bits

CONSTANTS
  Keys,        \* the keys the host uses, of the eight of KeyIdx
  P1Values,    \* the bytes the program writes to P1
  RegValues    \* the register values of the interrupt controller

KeyIdx == 0..7    \* A, B, SC, ST (action keys), then RT, LF, UP, DW (directions)

P14 == 4
P15 == 5

ASSUME KeysAssumption == Keys \subseteq KeyIdx
ASSUME P1ValuesAssumption == P1Values \subseteq Reg8
ASSUME PadRegValuesAssumption == RegValues \subseteq Reg8

VARIABLES
  pressed_key_set,          \* __pressed_key_set
  previous_step_key_set,    \* __previous_step_key_set
  p14, p15,                 \* __p14, __p15
  reg_IE, reg_IF, reg_IME   \* the controller at the end of __interrupt_link

IC == INSTANCE InterruptController

icvars == <<reg_IE, reg_IF, reg_IME>>
keyvars == <<pressed_key_set, previous_step_key_set>>
padvars == <<pressed_key_set, previous_step_key_set, p14, p15>>

Init ==
  /\ pressed_key_set = {}
  /\ previous_step_key_set = {}
  /\ p14 = TRUE
  /\ p15 = FALSE

-----------------------------------------------------------------------------

press_key(key_idx) ==
  /\ pressed_key_set' = bit_n_set(key_idx, pressed_key_set)
  /\ UNCHANGED <<previous_step_key_set, p14, p15, icvars>>

unpress_key(key_idx) ==
  /\ pressed_key_set' = bit_n_reset(key_idx, pressed_key_set)
  /\ UNCHANGED <<previous_step_key_set, p14, p15, icvars>>

raise_interrupt == IC!request_interrupt(IC!JOYPAD_INT)

newly_pressed == pressed_key_set \ previous_step_key_set

(* Mutant: the keys of this step are not kept for the next one. *)
step_forgets ==
  /\ \/ newly_pressed # {} /\ raise_interrupt
     \/ newly_pressed = {} /\ UNCHANGED icvars
  /\ UNCHANGED padvars

(* Mutant: the mask of the unpressed keys is kept instead of the keys. *)
step_keeps_mask ==
  /\ \/ newly_pressed # {} /\ raise_interrupt
     \/ newly_pressed = {} /\ UNCHANGED icvars
  /\ previous_step_key_set' = KeyIdx \ pressed_key_set
  /\ UNCHANGED <<pressed_key_set, p14, p15>>

(* Mutant: a release raises the interrupt too. *)
step_both_edges ==
  /\ \/ pressed_key_set # previous_step_key_set /\ raise_interrupt
     \/ pressed_key_set = previous_step_key_set /\ UNCHANGED icvars
  /\ previous_step_key_set' = pressed_key_set
  /\ UNCHANGED <<pressed_key_set, p14, p15>>

(* Mutant: only the first key of an empty pad raises. *)
step_first_key_only ==
  /\ \/ previous_step_key_set = {} /\ newly_pressed # {} /\ raise_interrupt
     \/ previous_step_key_set # {} /\ UNCHANGED icvars
     \/ newly_pressed = {} /\ UNCHANGED icvars
  /\ previous_step_key_set' = pressed_key_set
  /\ UNCHANGED <<pressed_key_set, p14, p15>>

step ==
  /\ \/ newly_pressed # {} /\ raise_interrupt
     \/ newly_pressed = {} /\ UNCHANGED icvars
  /\ previous_step_key_set' = pressed_key_set
  /\ UNCHANGED <<pressed_key_set, p14, p15>>

set_P1_reg(value) ==
  /\ p14' = bit_n(P14, value)
  /\ p15' = bit_n(P15, value)
  /\ UNCHANGED <<keyvars, icvars>>

-----------------------------------------------------------------------------
(* Reading P1: a window of four lines over a 32-bit field that holds the   *)
(* action keys at 4..7 and the directions at 8..11, 0 for a pressed key.   *)

(* Mutant: the complement is not cut to the width of a register. *)
P1_RESERVED_BITS_uncast == 6..31

P1_RESERVED_BITS == {6, 7}

Bit(b, n) == IF b THEN {n} ELSE {}

search_field == (0..31) \ {k + 4 : k \in pressed_key_set}

(* Mutant: the window starts one line too high. *)
search_window_shifted == ((IF p15 THEN 2 ELSE 0) + (IF p14 THEN 1 ELSE 0)) * 4 + 1

search_window_lsb == ((IF p15 THEN 2 ELSE 0) + (IF p14 THEN 1 ELSE 0)) * 4

(* Mutant: the selection bits read as 0. *)
get_P1_without_selection ==
  bit_slice(search_window_lsb + 3, search_window_lsb, search_field)
    \cup P1_RESERVED_BITS

get_P1_reg ==
  bit_slice(search_window_lsb + 3, search_window_lsb, search_field)
    \cup P1_RESERVED_BITS \cup Bit(p14, P14) \cup Bit(p15, P15)

-----------------------------------------------------------------------------

PadTypeOK ==
  /\ pressed_key_set \in SUBSET Keys
  /\ previous_step_key_set \in SUBSET Keys
  /\ p14 \in BOOLEAN
  /\ p15 \in BOOLEAN
=============================================================================
