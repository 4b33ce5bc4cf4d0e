-------------------------- MODULE InterruptService --------------------------
(***************************************************************************)
(* How the devices and the CPU use the interrupt controller together: the  *)
(* joypad and other devices raise requests at any time; the CPU asks for   *)
(* the winner, acknowledges it, masks interrupts, runs the handler and     *)
(* unmasks, each a call of its own with device activity in between.  With  *)
(* interrupts masked the running program may change IE, and may clear      *)
(* requests by reading IF and writing back what it read without some bits, *)
(* two bus accesses that a request can fall between.                       *)
(* The CPU, the program and the other devices are external code: the notes *)
(* and tests of GB_interrupt.h say how they use the controller.            *)
(***************************************************************************)
EXTENDS JoyPad

CONSTANTS
  OtherDevices,   \* the interrupts other devices raise
  MaxPresses      \* bound on the key presses that are explored

ASSUME OtherDevicesAssumption == OtherDevices \subseteq 0..3
ASSUME MaxPressesAssumption == MaxPresses \in Nat

VARIABLES
  cpu,        \* "run", "dispatch" (polled), "mask" (acknowledged), "handler"
  irq,        \* the interrupt the CPU polled and dispatches
  copy,       \* {f} while the program holds f read from IF, else {}
  presses,    \* history: UNPRESSED -> PRESSED changes of any key so far
  handled     \* history: joypad interrupts acknowledged so far

cpuvars == <<cpu, irq, copy>>
histvars == <<presses, handled>>
vars == <<padvars, icvars, cpuvars, histvars>>

(* The entries of INTERRUPTS_ADDR: the interrupts with a handler. *)
Handlers == IC!VBLANK_INT..IC!JOYPAD_INT

ServiceInit ==
  /\ Init
  /\ reg_IE \in RegValues /\ reg_IF = {} /\ reg_IME \in BOOLEAN
  /\ cpu = "run"
  /\ irq = IC!NO_INTERRUPT
  /\ copy = {}
  /\ presses = 0
  /\ handled = 0

-----------------------------------------------------------------------------
(* The host, the emulation loop and the other devices. *)

Press(k) ==
  /\ k \notin pressed_key_set => presses < MaxPresses
  /\ press_key(k)
  /\ presses' = IF k \in pressed_key_set THEN presses ELSE presses + 1
  /\ UNCHANGED <<cpuvars, handled>>

Release(k) == unpress_key(k) /\ UNCHANGED <<cpuvars, histvars>>

Sample == step /\ UNCHANGED <<cpuvars, histvars>>

DeviceRaises(i) ==
  /\ IC!request_interrupt(i)
  /\ UNCHANGED <<padvars, cpuvars, histvars>>

-----------------------------------------------------------------------------
(* The CPU. *)

Poll ==
  /\ cpu = "run" /\ IC!get_IME_reg
  /\ IC!get_highest_priority_interrupt # IC!NO_INTERRUPT
  /\ irq' = IC!get_highest_priority_interrupt
  /\ cpu' = "dispatch"
  /\ UNCHANGED <<padvars, icvars, copy, histvars>>

Accept ==
  /\ cpu = "dispatch"
  /\ IC!reset_interrupt(irq)
  /\ cpu' = "mask"
  /\ handled' = IF irq = IC!JOYPAD_INT THEN handled + 1 ELSE handled
  /\ UNCHANGED <<padvars, irq, copy, presses>>

Mask ==
  /\ cpu = "mask"
  /\ IC!set_IME_reg(FALSE)
  /\ cpu' = "handler"
  /\ UNCHANGED <<padvars, irq, copy, histvars>>

Return ==
  /\ cpu = "handler" /\ copy = {}
  /\ IC!set_IME_reg(TRUE)
  /\ cpu' = "run"
  /\ irq' = IC!NO_INTERRUPT
  /\ UNCHANGED <<padvars, copy, histvars>>

-----------------------------------------------------------------------------
(* The program, in the handler or with interrupts disabled. *)

Masked == cpu \in {"run", "handler"} /\ ~IC!get_IME_reg

SwitchInterrupts(b) ==
  /\ cpu = "run" /\ copy = {}
  /\ IC!set_IME_reg(b)
  /\ UNCHANGED <<padvars, cpuvars, histvars>>

WriteIE(v) ==
  /\ Masked
  /\ IC!set_IE_reg(v)
  /\ UNCHANGED <<padvars, cpuvars, histvars>>

ReadIF ==
  /\ Masked /\ copy = {}
  /\ copy' = {IC!get_IF_reg}
  /\ UNCHANGED <<padvars, icvars, cpu, irq, histvars>>

WriteIFBack(bits) ==
  /\ Masked
  /\ \E f \in copy : IC!set_IF_reg(f \ bits)
  /\ copy' = {}
  /\ UNCHANGED <<padvars, cpu, irq, histvars>>

Execute == Poll \/ Accept \/ Mask

WriteBack == \E bits \in {{}, {IC!JOYPAD_INT}} : WriteIFBack(bits)

Next ==
  \/ \E k \in Keys : Press(k) \/ Release(k)
  \/ Sample
  \/ \E i \in OtherDevices : DeviceRaises(i)
  \/ Execute
  \/ Return
  \/ \E b \in BOOLEAN : SwitchInterrupts(b)
  \/ \E v \in RegValues : WriteIE(v)
  \/ ReadIF
  \/ WriteBack

(* The CPU keeps executing: what it has begun to dispatch it finishes, a   *)
(* copy of IF is written back, and a handler ends however often it goes    *)
(* through IF first.  Nothing is promised of the host, the devices or EI.  *)
Spec ==
  /\ ServiceInit
  /\ [][Next]_vars
  /\ WF_vars(Execute)
  /\ WF_vars(WriteBack)
  /\ SF_vars(Return)

-----------------------------------------------------------------------------
(* Properties. *)

TypeOK ==
  /\ PadTypeOK
  /\ IC!TypeOK
  /\ cpu \in {"run", "dispatch", "mask", "handler"}
  /\ irq \in Handlers \cup {IC!NO_INTERRUPT}
  /\ copy = {} \/ \E f \in Reg8 : copy = {f}
  /\ presses \in Nat
  /\ handled \in Nat

(* However samples, other requests, stale write-backs of IF and changes of *)
(* IE interleave, the joypad handler runs at most once for every key that  *)
(* went from unpressed to pressed.                                         *)
NoExtraService == handled <= presses

(* The interrupt the CPU polled is still requested and enabled when it is  *)
(* acknowledged, whatever the devices did in between, and it is one that   *)
(* has a handler address: the CPU never indexes INTERRUPTS_ADDR with       *)
(* NO_INTERRUPT, though the reserved bit 5 may be set in both registers.   *)
PolledStillPending ==
  cpu = "dispatch" => /\ irq \in reg_IF \cap reg_IE
                      /\ irq \in Handlers

(* No interrupt stays the winner for ever: it is acknowledged, cleared,    *)
(* disabled or overtaken, unless the program turns interrupts off.         *)
WinnerIsServed ==
  \A i \in Handlers :
    IC!get_highest_priority_interrupt = i
      ~> \/ IC!get_highest_priority_interrupt # i
         \/ cpu = "run" /\ ~IC!get_IME_reg
=============================================================================
