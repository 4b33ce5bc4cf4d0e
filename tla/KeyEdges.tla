------------------------------ MODULE KeyEdges ------------------------------
(***************************************************************************)
(* The interrupt service, with the presses that the joypad has yet to see: *)
(* what step() makes of the keys between two samples, while the CPU polls, *)
(* acknowledges and runs handlers and the program writes IE and IF.        *)
(***************************************************************************)
EXTENDS InterruptService

VARIABLE fresh    \* history: keys that went UNPRESSED -> PRESSED since the last step

edgevars == <<vars, fresh>>

EdgesInit == ServiceInit /\ fresh = {}

FreshPress(k) == Press(k) /\ fresh' = fresh \cup ({k} \ pressed_key_set)

SampleFresh == Sample /\ fresh' = {}

Others ==
  \/ \E k \in Keys : Release(k)
  \/ \E i \in OtherDevices : DeviceRaises(i)
  \/ Execute
  \/ Return
  \/ \E b \in BOOLEAN : SwitchInterrupts(b)
  \/ \E v \in RegValues : WriteIE(v)
  \/ ReadIF
  \/ WriteBack

EdgesNext ==
  \/ \E k \in Keys : FreshPress(k)
  \/ SampleFresh
  \/ Others /\ UNCHANGED fresh

(* The CPU keeps executing, and the emulation loop goes on calling step(). *)
EdgesSpec ==
  /\ EdgesInit
  /\ [][EdgesNext]_edgevars
  /\ WF_vars(Execute)
  /\ WF_vars(WriteBack)
  /\ SF_vars(Return)
  /\ WF_edgevars(SampleFresh)

-----------------------------------------------------------------------------
(* Properties. *)

(* A key held through any number of samples, or released, never raises the *)
(* interrupt again, and neither does a program that writes IF back:        *)
(* JOYPAD_INT is requested only if some key really went from unpressed to  *)
(* pressed since the sample before.                                        *)
NoSpuriousRequest ==
  [][IC!JOYPAD_INT \in reg_IF' \ reg_IF => fresh # {}]_edgevars

(* Every key that is down and was up at the last sample gets an interrupt  *)
(* requested, or is let go before the loop samples it.                     *)
HeldPressIsRequested ==
  \A k \in Keys :
    k \in pressed_key_set \ previous_step_key_set
      ~> IC!JOYPAD_INT \in reg_IF \/ k \notin pressed_key_set

(* "Joypad must raise the interrupt when a key makes UNPRESSED->PRESSED    *)
(* state change": if some key did since the last step(), the interrupt is  *)
(* requested after this one.  step() compares two samples, so a key that   *)
(* was released again, or released and pressed again, raises nothing.      *)
EveryPressIsRequested ==
  [][fresh # {} /\ fresh' = {} => IC!JOYPAD_INT \in reg_IF']_edgevars
=============================================================================
