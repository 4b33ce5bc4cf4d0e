------------------------------- MODULE WRAM -------------------------------
(***************************************************************************)
(* The work RAM of include/device/GB_wram.h: eight banks in one flat       *)
(* memory, the SVBK register that selects the bank at WRAMX, and the       *)
(* address calculation between them.  Inner addresses are the absolute     *)
(* ones of GB_vaddr.h, 0xC000 to 0xDFFF, counted here in banks: a bank is  *)
(* BANK_SIZE bytes (4096 in the code) and WRAM0 begins at the 12th.        *)
(***************************************************************************)
EXTENDS Bits

CONSTANTS
  BANK_SIZE,     \* the bytes of a bank
  SVBKValues,    \* the bytes the program writes to SVBK
  Bytes,         \* the values of a byte of memory
  PhysAddrs,     \* the physical addresses the program uses
  Blank          \* the memories operator new[] may hand out

BANKS == 8
MAX_SIZE == BANKS * BANK_SIZE

ASSUME BankSizeAssumption == BANK_SIZE \in Nat \ {0}
ASSUME SVBKAssumption == SVBKValues \subseteq Reg8
ASSUME PhysAddrsAssumption == PhysAddrs \subseteq 0..(MAX_SIZE - 1)
ASSUME BlankAssumption == Blank \subseteq [0..(MAX_SIZE - 1) -> Bytes]

VARIABLES
  memory,    \* __memory
  SVBK       \* __regs.SVBK

vars == <<memory, SVBK>>

WRAM0_BASE_VADDR == 12 * BANK_SIZE
WRAMX_BASE_VADDR == 13 * BANK_SIZE
WRAMX_LAST_VADDR == 14 * BANK_SIZE - 1

InnerAddrs == WRAM0_BASE_VADDR..WRAMX_LAST_VADDR

(* The integer a word of up to four bits stands for. *)
Value4(w) ==
  (IF 0 \in w THEN 1 ELSE 0) + (IF 1 \in w THEN 2 ELSE 0)
    + (IF 2 \in w THEN 4 ELSE 0) + (IF 3 \in w THEN 8 ELSE 0)

Init ==
  /\ memory \in Blank
  /\ SVBK = {}

-----------------------------------------------------------------------------

(* Mutant: one bit too many selects the bank. *)
get_bank_idx_bits_wide == Value4(bit_slice(3, 0, SVBK))

get_bank_idx_bits == Value4(bit_slice(2, 0, SVBK))

(* Mutant: bank 0 can be selected at WRAMX. *)
get_current_bank_idx_raw == get_bank_idx_bits

get_current_bank_idx == IF get_bank_idx_bits = 0 THEN 1 ELSE get_bank_idx_bits

(* Mutant: the first address of WRAMX counts as WRAM0. *)
bank_idx_off_by_one(inner_vaddr) ==
  IF inner_vaddr > WRAMX_BASE_VADDR THEN get_current_bank_idx ELSE 0

bank_idx(inner_vaddr) ==
  IF inner_vaddr >= WRAMX_BASE_VADDR THEN get_current_bank_idx ELSE 0

calc_phys_addr(inner_vaddr) ==
  bank_idx(inner_vaddr) * BANK_SIZE + (inner_vaddr % BANK_SIZE)

RESERVED_BITS == {6}

get_SVBK_reg == SVBK \cup RESERVED_BITS

(* All the bits are kept, those that select nothing included. *)
set_SVBK_reg(value) ==
  /\ SVBK' = value
  /\ UNCHANGED memory

read_phys_addr(phys_addr) == memory[phys_addr]

write_phys_addr(phys_addr, byte) ==
  /\ memory' = [memory EXCEPT ![phys_addr] = byte]
  /\ UNCHANGED SVBK

read_inner_vaddr(inner_vaddr) == read_phys_addr(calc_phys_addr(inner_vaddr))

(* Mutant: a write goes to bank 1, whichever is selected.                  *)
write_inner_vaddr_flat(inner_vaddr, byte) ==
  write_phys_addr(inner_vaddr - WRAM0_BASE_VADDR, byte)

write_inner_vaddr(inner_vaddr, byte) == write_phys_addr(calc_phys_addr(inner_vaddr), byte)

Next ==
  \/ \E v \in SVBKValues : set_SVBK_reg(v)
  \/ \E a \in InnerAddrs, v \in Bytes : write_inner_vaddr(a, v)
  \/ \E p \in PhysAddrs, v \in Bytes : write_phys_addr(p, v)

Spec == Init /\ [][Next]_vars

-----------------------------------------------------------------------------
(* Properties. *)

(* Types, and that every inner address leads into the memory whatever      *)
(* bits the program has put into SVBK: dbuffer_t does not check an index.  *)
TypeOK ==
  /\ memory \in [0..(MAX_SIZE - 1) -> Bytes]
  /\ SVBK \in Reg8
  /\ \A a \in InnerAddrs : calc_phys_addr(a) \in DOMAIN memory

(* The bank that a value of SVBK stands for: its three low bits count, and *)
(* 0 stands for bank 1.                                                    *)
BankFor(value) ==
  LET low == value \cap {0, 1, 2} IN IF low = {} THEN 1 ELSE Value4(low)

Offsets == 0..(BANK_SIZE - 1)

Banked == INSTANCE BankedMemory WITH
  Banks <- 0..(BANKS - 1),
  bank <- [b \in 0..(BANKS - 1) |-> [o \in Offsets |-> memory[b * BANK_SIZE + o]]],
  selected <- BankFor(SVBK),
  fixed <- [o \in Offsets |-> read_inner_vaddr(WRAM0_BASE_VADDR + o)],
  window <- [o \in Offsets |-> read_inner_vaddr(WRAMX_BASE_VADDR + o)]

(* Each operation of the device does what its caller is promised: a write  *)
(* through an inner address changes the one byte that its window shows     *)
(* there, one through a physical address the one byte of its bank, and a   *)
(* write of SVBK selects the bank that its value stands for.               *)
OperationsAgree ==
  /\ \A v \in SVBKValues : set_SVBK_reg(v) => Banked!Select(BankFor(v))
  /\ \A o \in Offsets, v \in Bytes :
       /\ write_inner_vaddr(WRAM0_BASE_VADDR + o, v) => Banked!WriteFixed(o, v)
       /\ write_inner_vaddr(WRAMX_BASE_VADDR + o, v) => Banked!WriteWindow(o, v)
  /\ \A b \in 0..(BANKS - 1), o \in Offsets, v \in Bytes :
       write_phys_addr(b * BANK_SIZE + o, v) => Banked!Write(b, o, v)

(* Seen through its windows the flat memory is eight separate banks: for   *)
(* every value of SVBK, its unused bits included, WRAM0 shows bank 0 and   *)
(* WRAMX the bank that SVBK stands for, never bank 0; and every operation  *)
(* is the one on banks that it is meant to be.                             *)
ImplementsBanked == Banked!Spec /\ [][OperationsAgree]_vars
=============================================================================
