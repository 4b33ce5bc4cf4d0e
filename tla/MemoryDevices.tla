--------------------------- MODULE MemoryDevices ---------------------------
(***************************************************************************)
(* The memories of the two banked devices.  No code of the library lets    *)
(* one reach the other, so a behaviour is a program that uses one of them. *)
(***************************************************************************)
EXTENDS WRAM

CONSTANTS
  Devices, Blocks, VBKValues, VRAM_BANK_SIZE, Null, Absent, Hollow, AllocMayFail

ASSUME VBKValuesAssumption == VBKValues \subseteq Reg8
ASSUME VRAMBankSizeAssumption == VRAM_BANK_SIZE \in Nat \ {0}
ASSUME NullAssumption == Null \notin Blocks
ASSUME FailAssumption == AllocMayFail \in BOOLEAN

(* Neither a variable that is not constructed nor a device without memory  *)
(* is a memory.                                                            *)
ASSUME StatesAssumption ==
  /\ Absent # Hollow
  /\ LET Bank == [0..(VRAM_BANK_SIZE - 1) -> Bytes]
     IN  {Absent, Hollow} \cap [bank : [{0, 1} -> Bank], selected : {0, 1}, window : Bank] = {}

VARIABLES
  device,                                   \* the device that the program uses
  alive, data, len, allocated, heap, VBK    \* of the VRAM

V == INSTANCE VRAM

vramvars == <<alive, data, len, allocated, heap, VBK>>

UsesWRAM == device = "WRAM" /\ Next /\ UNCHANGED vramvars

UsesVRAM == device = "VRAM" /\ V!Next /\ UNCHANGED vars

devicevars == <<device, vars, vramvars>>

DevicesInit == device \in {"WRAM", "VRAM"} /\ Init /\ V!Init

DevicesNext == (UsesWRAM \/ UsesVRAM) /\ UNCHANGED device

DevicesSpec == DevicesInit /\ [][DevicesNext]_devicevars

(* VRAM variables are independent devices through every copy, move and     *)
(* assignment, one that runs out of memory included; and every inner       *)
(* address of a device that has memory leads into it.                      *)
ImplementsDevices == V!ImplementsDevices /\ []V!TypeOK
=============================================================================
