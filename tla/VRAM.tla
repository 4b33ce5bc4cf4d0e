-------------------------------- MODULE VRAM --------------------------------
(***************************************************************************)
(* The video RAM of include/device/GB_vram.h: a dbuffer_t of two banks and *)
(* the VBK register, with the constructors and assignments the compiler    *)
(* generates for the pair (`= default': the buffer first, then the         *)
(* register).  The buffers are those of DBuffer.  A program accesses the   *)
(* memory of a device that has some, and never copies a torn one.          *)
(* Inner addresses, 0x8000 to 0x9FFF, are counted in banks: the code's     *)
(* VRAM_BANK_SIZE is 8192 and the area begins at the 4th bank.             *)
(***************************************************************************)
EXTENDS Bits, Sequences

CONSTANTS
  Devices,     \* the program's VRAM variables
  Blocks,      \* the blocks operator new[] hands out
  Bytes,       \* the values of a byte
  VBKValues,   \* the bytes the program writes to VBK
  VRAM_BANK_SIZE,    \* the bytes of a bank
  Null,        \* nullptr
  Absent, Hollow,    \* the states of a device that has no memory
  AllocMayFail    \* whether operator new[] may throw bad_alloc

VRAM_MAX_SIZE == 2 * VRAM_BANK_SIZE

VARIABLES
  alive, data, len, allocated, heap,    \* __memory of the devices, see DBuffer
  VBK                                   \* __regs.VBK of each device

M == INSTANCE DBuffer WITH Objs <- Devices, MaxLen <- VRAM_MAX_SIZE

memory_vars == <<alive, data, len, allocated, heap>>
vars == <<memory_vars, VBK>>

InnerAddrs == 4 * VRAM_BANK_SIZE .. 5 * VRAM_BANK_SIZE - 1

Init == M!Init /\ VBK = [d \in Devices |-> {}]

-----------------------------------------------------------------------------

RESERVED_BITS == bit_mask(7, 1)

get_VBK_reg(d) == VBK[d] \cup RESERVED_BITS

set_VBK_reg(d, value) ==
  /\ d \in alive
  /\ VBK' = [VBK EXCEPT ![d] = IF bit_n(0, value) THEN {0} ELSE {}]
  /\ UNCHANGED memory_vars

calc_phys_addr(d, inner_vaddr) ==
  (IF bit_n(0, VBK[d]) THEN VRAM_BANK_SIZE ELSE 0) + (inner_vaddr % VRAM_BANK_SIZE)

HasMemory(d) == M!BytesOf(d) # <<>>

read_phys_addr(d, phys_addr) == M!BytesOf(d)[phys_addr + 1]

write_phys_addr(d, phys_addr, value) ==
  /\ HasMemory(d)
  /\ M!Write(d, phys_addr + 1, value)
  /\ UNCHANGED VBK

read_inner_vaddr(d, inner_vaddr) == read_phys_addr(d, calc_phys_addr(d, inner_vaddr))

write_inner_vaddr(d, inner_vaddr, value) ==
  write_phys_addr(d, calc_phys_addr(d, inner_vaddr), value)

(* VRAM() *)
Construct(d) ==
  /\ M!ConstructSized(d, VRAM_MAX_SIZE)
  /\ VBK' = [VBK EXCEPT ![d] = {}]

(* The register of s goes to d; s keeps it. *)
CopyRegisters(d, s) == VBK' = [VBK EXCEPT ![d] = VBK[s]]

CopyConstruct(d, s) == M!CopyConstruct(d, s) /\ CopyRegisters(d, s)

MoveConstruct(d, s) == M!MoveConstruct(d, s) /\ CopyRegisters(d, s)

(* Mutant: the assignment forgets the register. *)
CopyAssign_memory_only(d, s) == M!CopyAssign(d, s) /\ UNCHANGED VBK

CopyAssign(d, s) == M!CopyAssign(d, s) /\ CopyRegisters(d, s)

(* The buffer throws and the register is not reached. *)
FailedCopyAssign(d, s) == M!FailedCopyAssign(d, s) /\ UNCHANGED VBK

MoveAssign(d, s) == M!MoveAssign(d, s) /\ CopyRegisters(d, s)

Destroy(d) == M!Destroy(d) /\ VBK' = [VBK EXCEPT ![d] = {}]

Next ==
  \E d \in Devices :
    \/ Construct(d)
    \/ Destroy(d)
    \/ \E v \in VBKValues : set_VBK_reg(d, v)
    \/ \E a \in InnerAddrs, v \in Bytes : write_inner_vaddr(d, a, v)
    \/ \E p \in 0..(VRAM_MAX_SIZE - 1), v \in Bytes : write_phys_addr(d, p, v)
    \/ \E s \in Devices :
         \/ CopyConstruct(d, s)
         \/ MoveConstruct(d, s)
         \/ CopyAssign(d, s)
         \/ FailedCopyAssign(d, s)
         \/ MoveAssign(d, s)

Spec == Init /\ [][Next]_vars

-----------------------------------------------------------------------------
(* Properties. *)

(* Types; a register reads all its unused bits as 1; and a device that has *)
(* memory has the whole of it, so that every inner address leads into it:  *)
(* dbuffer_t does not check an index.                                      *)
TypeOK ==
  /\ M!TypeOK
  /\ VBK \in [Devices -> {{}, {0}}]
  /\ \A d \in Devices :
       /\ get_VBK_reg(d) \in {0..7, 1..7}
       /\ HasMemory(d) => \A a \in InnerAddrs : calc_phys_addr(d, a) + 1 \in DOMAIN M!BytesOf(d)

(* Devices are independent: a copy has the bytes, the selection and the    *)
(* window of its source and shares none of them, a move leaves its source  *)
(* hollow, and only a move or an assignment that throws makes a device     *)
(* hollow.                                                                 *)
Offsets == 0..(VRAM_BANK_SIZE - 1)

Device(d) ==
  [bank |-> [b \in {0, 1} |-> [o \in Offsets |-> read_phys_addr(d, b * VRAM_BANK_SIZE + o)]],
   selected |-> IF VBK[d] = {} THEN 0 ELSE 1,
   window |-> [o \in Offsets |-> read_inner_vaddr(d, 4 * VRAM_BANK_SIZE + o)]]

Independent == INSTANCE BankedDevices WITH
  Banks <- {0, 1},
  dev <- [d \in Devices |->
            IF d \notin alive THEN Absent ELSE IF HasMemory(d) THEN Device(d) ELSE Hollow]

ImplementsDevices == Independent!Spec
=============================================================================
