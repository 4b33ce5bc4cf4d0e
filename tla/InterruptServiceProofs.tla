----------------------- MODULE InterruptServiceProofs -----------------------
(***************************************************************************)
(* Joypad, controller and CPU together: the joypad handler runs at most    *)
(* once for each press, the CPU acknowledges what it polled, and nothing   *)
(* but a key that was pressed since the last sample requests the joypad    *)
(* interrupt, for every set of keys, register values and other devices and *)
(* every bound.                                                            *)
(***************************************************************************)
EXTENDS KeyEdges, TLAPS

(* The joypad handlers still to come from what has happened already: one   *)
(* for a pending request, one for the keys the next step() will see.       *)
Due == (IF 4 \in reg_IF THEN 1 ELSE 0) + (IF newly_pressed # {} THEN 1 ELSE 0)

(* Every handler that ran or is due has a press of its own.                *)
Account == handled + Due <= presses

(* While the program holds a copy of IF no joypad request can be taken     *)
(* away behind its back, so writing the copy back makes up no request.     *)
CopyIsCurrent ==
  copy # {} => /\ ~reg_IME
               /\ cpu \in {"run", "handler"}
               /\ \A f \in copy : 4 \in f => 4 \in reg_IF

(* What is proved of the controller alone. *)
Controller == INSTANCE InterruptControllerProofs

IInv == TypeOK /\ Account /\ CopyIsCurrent /\ PolledStillPending

-----------------------------------------------------------------------------

(* The controller's registers stay bytes under each of its operations.     *)
LEMMA ControllerTypes ==
  ASSUME IC!TypeOK
  PROVE  /\ \A i \in 0..7 : IC!request_interrupt(i) => IC!TypeOK'
         /\ \A i : IC!reset_interrupt(i) => IC!TypeOK'
         /\ \A v \in Reg8 : IC!set_IE_reg(v) \/ IC!set_IF_reg(v) => IC!TypeOK'
         /\ \A b \in BOOLEAN : IC!set_IME_reg(b) => IC!TypeOK'
         /\ UNCHANGED icvars => IC!TypeOK'
         /\ IC!get_IF_reg \in Reg8
<1> USE DEF IC!TypeOK, IC!Reg8, Reg8
<1>1. ASSUME NEW i \in 0..7, IC!request_interrupt(i) PROVE IC!TypeOK'
  BY <1>1 DEF IC!request_interrupt, IC!bit_n_set
<1>2. ASSUME NEW i, IC!reset_interrupt(i) PROVE IC!TypeOK'
  BY <1>2 DEF IC!reset_interrupt, IC!bit_n_reset
<1>3. ASSUME NEW v \in Reg8, IC!set_IE_reg(v) \/ IC!set_IF_reg(v) PROVE IC!TypeOK'
  <2>1. v \cup IC!REG_RESERVED_BITS \in SUBSET (0..7)
    BY DEF IC!REG_RESERVED_BITS, IC!bit_mask
  <2> QED BY <1>3, <2>1 DEF IC!set_IE_reg, IC!set_IF_reg
<1>4. ASSUME NEW b \in BOOLEAN, IC!set_IME_reg(b) PROVE IC!TypeOK'
  BY <1>4 DEF IC!set_IME_reg
<1>5. UNCHANGED icvars => IC!TypeOK'
  BY DEF icvars
<1>6. IC!get_IF_reg \in Reg8
  BY DEF IC!get_IF_reg, IC!REG_RESERVED_BITS, IC!bit_mask
<1> QED BY <1>1, <1>2, <1>3, <1>4, <1>5, <1>6

(* The keys the pad knows are keys of the host after each operation of the *)
(* host and of the loop; step() keeps the registers behind the pad.        *)
LEMMA PadTypes ==
  ASSUME PadTypeOK, IC!TypeOK
  PROVE  /\ \A k \in Keys : press_key(k) \/ unpress_key(k) => PadTypeOK' /\ IC!TypeOK'
         /\ step => PadTypeOK' /\ IC!TypeOK'
         /\ UNCHANGED padvars => PadTypeOK'
<1> USE ControllerTypes DEF PadTypeOK
<1>1. ASSUME NEW k \in Keys, press_key(k) \/ unpress_key(k) PROVE PadTypeOK' /\ IC!TypeOK'
  BY <1>1 DEF press_key, unpress_key, bit_n_set, bit_n_reset, icvars
<1>2. ASSUME step PROVE PadTypeOK' /\ IC!TypeOK'
  BY <1>2 DEF step, raise_interrupt, IC!JOYPAD_INT
<1>3. UNCHANGED padvars => PadTypeOK'
  BY DEF padvars
<1> QED BY <1>1, <1>2, <1>3
(* What the CPU polls, when it is told to handle anything at all, is a     *)
(* real interrupt that is requested and enabled.                           *)
LEMMA HighestIsPending ==
  ASSUME TypeOK, IC!get_highest_priority_interrupt # IC!NO_INTERRUPT
  PROVE  /\ IC!get_highest_priority_interrupt \in reg_IF \cap reg_IE
         /\ IC!get_highest_priority_interrupt \in Handlers
<1> DEFINE W == (reg_IF \cap reg_IE) \cup IC!REG_RESERVED_BITS
<1>1. W \subseteq 0..7 /\ W # {} /\ 5 \in W /\ \A c \in W : c \in 5..7 \/ c \in reg_IF \cap reg_IE
  BY DEF TypeOK, IC!TypeOK, IC!Reg8, IC!REG_RESERVED_BITS, IC!bit_mask
<1>2. bit_lsb(W) \in W /\ bit_lsb(W) <= 5
  BY <1>1, Controller!LeastBit DEF Controller!bit_lsb, bit_lsb
<1>3. bit_lsb(W) = IC!get_highest_priority_interrupt
  BY DEF IC!get_highest_priority_interrupt, IC!bit_lsb, bit_lsb
<1>4. bit_lsb(W) # 5
  BY <1>3 DEF IC!NO_INTERRUPT
<1>5. bit_lsb(W) \in 0..4 /\ bit_lsb(W) \in reg_IF \cap reg_IE
  BY <1>1, <1>2, <1>4
<1> QED BY <1>3, <1>5 DEF Handlers, IC!VBLANK_INT, IC!JOYPAD_INT

LEMMA InvInit == ServiceInit => IInv
<1> SUFFICES ASSUME ServiceInit PROVE IInv
  OBVIOUS
<1> USE DEF ServiceInit, Init
<1>1. TypeOK
  BY PadRegValuesAssumption DEF TypeOK, PadTypeOK, IC!TypeOK, IC!Reg8, Reg8, IC!NO_INTERRUPT
<1>2. Account
  BY DEF Account, Due, newly_pressed
<1> QED BY <1>1, <1>2 DEF IInv, CopyIsCurrent, PolledStillPending

(* No step breaks a type: whatever bits a program writes and the devices   *)
(* request, the registers and the copy of IF stay bytes.                   *)
LEMMA TypeStep == TypeOK /\ [Next]_vars => TypeOK'
<1> SUFFICES ASSUME TypeOK, [Next]_vars PROVE TypeOK'
  OBVIOUS
<1>0. PadTypeOK /\ IC!TypeOK
  BY DEF TypeOK
<1> USE <1>0 DEF cpuvars, histvars
<1>1. ASSUME NEW k \in Keys, Press(k) \/ Release(k) PROVE TypeOK'
  BY <1>1, PadTypes DEF Press, Release, TypeOK
<1>2. ASSUME Sample PROVE TypeOK'
  BY <1>2, PadTypes DEF Sample, TypeOK
<1>3. ASSUME NEW i \in OtherDevices, DeviceRaises(i) PROVE TypeOK'
  <2>1. i \in 0..7
    BY OtherDevicesAssumption
  <2> QED BY <1>3, <2>1, PadTypes, ControllerTypes DEF DeviceRaises, TypeOK
<1>4. ASSUME Poll PROVE TypeOK'
  BY <1>4, HighestIsPending, PadTypes, ControllerTypes DEF Poll, TypeOK
<1>5. ASSUME Accept PROVE TypeOK'
  BY <1>5, PadTypes, ControllerTypes DEF Accept, TypeOK
<1>6. ASSUME Mask \/ Return PROVE TypeOK'
  BY <1>6, PadTypes, ControllerTypes DEF Mask, Return, TypeOK
<1>7. ASSUME NEW b \in BOOLEAN, SwitchInterrupts(b) PROVE TypeOK'
  BY <1>7, PadTypes, ControllerTypes DEF SwitchInterrupts, TypeOK
<1>8. ASSUME NEW v \in RegValues, WriteIE(v) PROVE TypeOK'
  <2>1. v \in Reg8
    BY PadRegValuesAssumption
  <2> QED BY <1>8, <2>1, PadTypes, ControllerTypes DEF WriteIE, TypeOK
<1>9. ASSUME ReadIF PROVE TypeOK'
  BY <1>9, PadTypes, ControllerTypes DEF ReadIF, TypeOK
<1>10. ASSUME NEW bits, WriteIFBack(bits) PROVE TypeOK'
  <2>1. PICK f \in copy : IC!set_IF_reg(f \ bits)
    BY <1>10 DEF WriteIFBack
  <2>2. f \in Reg8
    BY DEF TypeOK
  <2>3. f \ bits \in Reg8
    BY <2>2 DEF Reg8
  <2> QED BY <1>10, <2>1, <2>3, PadTypes, ControllerTypes DEF WriteIFBack, TypeOK
<1>11. CASE UNCHANGED vars
  BY <1>11, PadTypes, ControllerTypes DEF vars, TypeOK
<1> QED
  BY <1>1, <1>2, <1>3, <1>4, <1>5, <1>6, <1>7, <1>8, <1>9, <1>10, <1>11
     DEF Next, Execute, WriteBack

-----------------------------------------------------------------------------

(* An account of h handlers run, p presses and d due handlers still holds  *)
(* with no more due, or with one more due and one more press.              *)
LEMMA DueArithmetic ==
  ASSUME NEW h \in Nat, NEW p \in Nat, NEW d \in 0..2, NEW e \in 0..2, h + d <= p
  PROVE  /\ e <= d => h + e <= p
         /\ e <= d + 1 => h + e <= p + 1
OBVIOUS

(* A step that takes the same presses and handlers and leaves no more due  *)
(* keeps the account.                                                      *)
LEMMA AccountKept ==
  ASSUME TypeOK, TypeOK', Account,
         UNCHANGED histvars,
         4 \in reg_IF' => 4 \in reg_IF,
         newly_pressed' # {} => newly_pressed # {}
  PROVE  Account'
<1>1. Due' <= Due /\ Due \in 0..2 /\ Due' \in 0..2
  BY DEF Due
<1>2. presses \in Nat /\ handled \in Nat /\ presses' = presses /\ handled' = handled
  BY DEF TypeOK, histvars
<1>3. handled + Due' <= presses
  BY <1>1, <1>2, DueArithmetic DEF Account
<1> QED BY <1>2, <1>3 DEF Account

(* Every handler that ran or is due keeps a press of its own.              *)
LEMMA AccountStep == IInv /\ TypeOK' /\ [Next]_vars => Account'
<1> SUFFICES ASSUME IInv, TypeOK', [Next]_vars PROVE Account'
  OBVIOUS
<1> USE DEF IInv, cpuvars, histvars, padvars, icvars
<1>1. ASSUME NEW k \in Keys, Press(k) PROVE Account'
  <2>1. CASE k \in pressed_key_set
    BY <1>1, <2>1, AccountKept DEF Press, press_key, bit_n_set, newly_pressed
  <2>2. CASE k \notin pressed_key_set
    <3>1. presses' = presses + 1 /\ handled' = handled
      BY <1>1, <2>2 DEF Press
    <3>2. Due' <= Due + 1 /\ Due \in 0..2 /\ Due' \in 0..2
      BY <1>1 DEF Press, press_key, Due
    <3>3. presses \in Nat /\ handled \in Nat
      BY DEF TypeOK
    <3>4. handled + Due' <= presses + 1
      BY <3>2, <3>3, DueArithmetic DEF Account
    <3> QED BY <3>1, <3>4 DEF Account
  <2> QED BY <2>1, <2>2
<1>2. ASSUME NEW k \in Keys, Release(k) PROVE Account'
  BY <1>2, AccountKept DEF Release, unpress_key, bit_n_reset, newly_pressed
<1>3. ASSUME Sample PROVE Account'
  <2>1. newly_pressed' = {}
    BY <1>3 DEF Sample, step, newly_pressed
  <2>2. CASE newly_pressed = {}
    BY <1>3, <2>1, <2>2, AccountKept DEF Sample, step
  <2>3. CASE newly_pressed # {}
    <3>1. Due' <= Due /\ Due \in 0..2 /\ Due' \in 0..2
      BY <2>1, <2>3 DEF Due
    <3>2. presses \in Nat /\ handled \in Nat /\ presses' = presses /\ handled' = handled
      BY <1>3 DEF Sample, TypeOK
    <3>3. handled + Due' <= presses
      BY <3>1, <3>2, DueArithmetic DEF Account
    <3> QED BY <3>2, <3>3 DEF Account
  <2> QED BY <2>2, <2>3
<1>4. ASSUME NEW i \in OtherDevices, DeviceRaises(i) PROVE Account'
  <2>1. 4 \in reg_IF' => 4 \in reg_IF
    BY <1>4, OtherDevicesAssumption DEF DeviceRaises, IC!request_interrupt, IC!bit_n_set
  <2> QED BY <1>4, <2>1, AccountKept DEF DeviceRaises, newly_pressed
<1>5. ASSUME Poll PROVE Account'
  BY <1>5, AccountKept DEF Poll, newly_pressed
<1>6. ASSUME Accept PROVE Account'
  <2>1. newly_pressed' = newly_pressed /\ presses' = presses
    BY <1>6 DEF Accept, newly_pressed
  <2>2. CASE irq = 4
    <3>1. 4 \in reg_IF /\ 4 \notin reg_IF'
      BY <1>6, <2>2 DEF Accept, PolledStillPending, IC!reset_interrupt, IC!bit_n_reset
    <3>2. Due' = Due - 1 /\ Due \in 0..2
      BY <2>1, <3>1 DEF Due
    <3>3. handled' = handled + 1
      BY <1>6, <2>2 DEF Accept, IC!JOYPAD_INT
    <3> QED BY <2>1, <3>2, <3>3 DEF Account, TypeOK
  <2>3. CASE irq # 4
    <3>1. handled' = handled
      BY <1>6, <2>3 DEF Accept, IC!JOYPAD_INT
    <3>2. 4 \in reg_IF' => 4 \in reg_IF
      BY <1>6 DEF Accept, IC!reset_interrupt, IC!bit_n_reset
    <3> QED BY <2>1, <3>1, <3>2, AccountKept
  <2> QED BY <2>2, <2>3
<1>7. ASSUME Mask PROVE Account'
  BY <1>7, AccountKept DEF Mask, IC!set_IME_reg, newly_pressed
<1>8. ASSUME Return PROVE Account'
  BY <1>8, AccountKept DEF Return, IC!set_IME_reg, newly_pressed
<1>9. ASSUME NEW b \in BOOLEAN, SwitchInterrupts(b) PROVE Account'
  BY <1>9, AccountKept DEF SwitchInterrupts, IC!set_IME_reg, newly_pressed
<1>10. ASSUME NEW v \in RegValues, WriteIE(v) PROVE Account'
  BY <1>10, AccountKept DEF WriteIE, IC!set_IE_reg, newly_pressed
<1>11. ASSUME ReadIF PROVE Account'
  BY <1>11, AccountKept DEF ReadIF, newly_pressed
<1>12. ASSUME NEW bits, WriteIFBack(bits) PROVE Account'
  <2>1. PICK f \in copy : IC!set_IF_reg(f \ bits)
    BY <1>12 DEF WriteIFBack
  <2>2. 4 \in reg_IF' => 4 \in reg_IF
    BY <2>1 DEF CopyIsCurrent, IC!set_IF_reg, IC!REG_RESERVED_BITS, IC!bit_mask
  <2> QED BY <1>12, <2>2, AccountKept DEF WriteIFBack, newly_pressed
<1>13. CASE UNCHANGED vars
  BY <1>13, AccountKept DEF vars, newly_pressed
<1> QED
  BY <1>1, <1>2, <1>3, <1>4, <1>5, <1>6, <1>7, <1>8, <1>9, <1>10, <1>11, <1>12, <1>13
     DEF Next, Execute, WriteBack

(* While the program holds a copy of IF, requests only come.               *)
LEMMA CopyStep == IInv /\ TypeOK' /\ [Next]_vars => CopyIsCurrent'
<1> SUFFICES ASSUME IInv, TypeOK', [Next]_vars PROVE CopyIsCurrent'
  OBVIOUS
<1> USE DEF IInv, CopyIsCurrent, cpuvars, histvars, padvars, icvars
<1>1. ASSUME NEW k \in Keys, Press(k) \/ Release(k) PROVE CopyIsCurrent'
  BY <1>1 DEF Press, press_key, Release, unpress_key
<1>2. ASSUME Sample PROVE CopyIsCurrent'
  BY <1>2 DEF Sample, step, raise_interrupt, IC!request_interrupt, IC!bit_n_set
<1>3. ASSUME NEW i \in OtherDevices, DeviceRaises(i) PROVE CopyIsCurrent'
  BY <1>3 DEF DeviceRaises, IC!request_interrupt, IC!bit_n_set
<1>4. ASSUME Poll \/ Accept \/ Mask PROVE CopyIsCurrent'
  BY <1>4 DEF Poll, Accept, Mask, IC!get_IME_reg
<1>5. ASSUME Return PROVE CopyIsCurrent'
  BY <1>5 DEF Return
<1>6. ASSUME NEW b \in BOOLEAN, SwitchInterrupts(b) PROVE CopyIsCurrent'
  BY <1>6 DEF SwitchInterrupts
<1>7. ASSUME NEW v \in RegValues, WriteIE(v) PROVE CopyIsCurrent'
  BY <1>7 DEF WriteIE, IC!set_IE_reg
<1>8. ASSUME ReadIF PROVE CopyIsCurrent'
  BY <1>8 DEF ReadIF, Masked, IC!get_IME_reg, IC!get_IF_reg, IC!REG_RESERVED_BITS, IC!bit_mask
<1>9. ASSUME NEW bits, WriteIFBack(bits) PROVE CopyIsCurrent'
  BY <1>9 DEF WriteIFBack
<1>10. CASE UNCHANGED vars
  BY <1>10 DEF vars
<1> QED
  BY <1>1, <1>2, <1>3, <1>4, <1>5, <1>6, <1>7, <1>8, <1>9, <1>10 DEF Next, Execute, WriteBack

(* Between the poll and the acknowledge nothing takes the request away.    *)
LEMMA PolledStep == IInv /\ TypeOK' /\ [Next]_vars => PolledStillPending'
<1> SUFFICES ASSUME IInv, TypeOK', [Next]_vars PROVE PolledStillPending'
  OBVIOUS
<1> USE DEF IInv, PolledStillPending, Handlers, cpuvars, histvars, padvars, icvars
<1>1. ASSUME NEW k \in Keys, Press(k) \/ Release(k) PROVE PolledStillPending'
  BY <1>1 DEF Press, press_key, Release, unpress_key
<1>2. ASSUME Sample PROVE PolledStillPending'
  BY <1>2 DEF Sample, step, raise_interrupt, IC!request_interrupt, IC!bit_n_set
<1>3. ASSUME NEW i \in OtherDevices, DeviceRaises(i) PROVE PolledStillPending'
  BY <1>3 DEF DeviceRaises, IC!request_interrupt, IC!bit_n_set
<1>4. ASSUME Poll PROVE PolledStillPending'
  BY <1>4, HighestIsPending DEF Poll
<1>5. ASSUME Accept \/ Mask \/ Return PROVE PolledStillPending'
  BY <1>5 DEF Accept, Mask, Return
<1>6. ASSUME NEW b \in BOOLEAN, SwitchInterrupts(b) PROVE PolledStillPending'
  BY <1>6 DEF SwitchInterrupts
<1>7. ASSUME NEW v \in RegValues, WriteIE(v) PROVE PolledStillPending'
  BY <1>7 DEF WriteIE, Masked
<1>8. ASSUME ReadIF PROVE PolledStillPending'
  BY <1>8 DEF ReadIF
<1>9. ASSUME NEW bits, WriteIFBack(bits) PROVE PolledStillPending'
  BY <1>9 DEF WriteIFBack, Masked
<1>10. CASE UNCHANGED vars
  BY <1>10 DEF vars
<1> QED
  BY <1>1, <1>2, <1>3, <1>4, <1>5, <1>6, <1>7, <1>8, <1>9, <1>10 DEF Next, Execute, WriteBack

LEMMA AccountBounds == IInv => NoExtraService
<1> SUFFICES ASSUME IInv PROVE NoExtraService
  OBVIOUS
<1>1. Due \in 0..2
  BY DEF Due
<1> QED BY <1>1 DEF IInv, Account, TypeOK, NoExtraService

LEMMA InvCorrect == ServiceInit /\ [][Next]_vars => []IInv
<1>1. IInv /\ [Next]_vars => IInv'
  BY TypeStep, AccountStep, CopyStep, PolledStep DEF IInv
<1> QED BY InvInit, <1>1, PTL

-----------------------------------------------------------------------------

(* Registers, CPU state and counters keep their types.                     *)
THEOREM TypeCorrect == Spec => []TypeOK
<1>1. IInv => TypeOK
  BY DEF IInv
<1> QED BY <1>1, InvCorrect, PTL DEF Spec

(* The joypad handler never runs more often than keys were pressed.        *)
THEOREM NoExtraServiceCorrect == Spec => []NoExtraService
  BY AccountBounds, InvCorrect, PTL DEF Spec

(* The interrupt the CPU polled is requested and enabled, and has a        *)
(* handler address, when it is acknowledged.                               *)
THEOREM PolledCorrect == Spec => []PolledStillPending
<1>1. IInv => PolledStillPending
  BY DEF IInv
<1> QED BY <1>1, InvCorrect, PTL DEF Spec

-----------------------------------------------------------------------------
(* The same system with the presses the joypad has yet to see.             *)

(* What the next step() will take for newly pressed was pressed since the  *)
(* last one.                                                               *)
NewAreFresh == newly_pressed \subseteq fresh

(* Every step of the system with its history is a step of the system.      *)
LEMMA EdgesAreService == EdgesSpec => ServiceInit /\ [][Next]_vars
<1>1. EdgesInit => ServiceInit
  BY DEF EdgesInit
<1>2. [EdgesNext]_edgevars => [Next]_vars
  BY DEF EdgesNext, edgevars, FreshPress, SampleFresh, Others, Next
<1> QED BY <1>1, <1>2, PTL DEF EdgesSpec

LEMMA FreshStep ==
  ASSUME NewAreFresh, [EdgesNext]_edgevars
  PROVE  NewAreFresh'
<1> USE DEF NewAreFresh, newly_pressed, cpuvars, histvars, padvars, icvars
<1>1. ASSUME NEW k \in Keys, FreshPress(k) PROVE NewAreFresh'
  BY <1>1 DEF FreshPress, Press, press_key, bit_n_set
<1>2. ASSUME SampleFresh PROVE NewAreFresh'
  BY <1>2 DEF SampleFresh, Sample, step
<1>3. ASSUME NEW k \in Keys, Release(k), UNCHANGED fresh PROVE NewAreFresh'
  BY <1>3 DEF Release, unpress_key, bit_n_reset
<1>4. ASSUME UNCHANGED <<pressed_key_set, previous_step_key_set, fresh>> PROVE NewAreFresh'
  BY <1>4
<1>5. ASSUME Others, UNCHANGED fresh, ~ \E k \in Keys : Release(k)
      PROVE  UNCHANGED <<pressed_key_set, previous_step_key_set, fresh>>
  BY <1>5 DEF Others, Execute, WriteBack, DeviceRaises, Poll, Accept, Mask, Return,
              SwitchInterrupts, WriteIE, ReadIF, WriteIFBack
<1>6. CASE UNCHANGED edgevars
  BY <1>6, <1>4 DEF edgevars, vars
<1> QED BY <1>1, <1>2, <1>3, <1>4, <1>5, <1>6 DEF EdgesNext

(* Of all steps only a sample of newly pressed keys can request the joypad *)
(* interrupt: the other devices have interrupts of their own, and the copy *)
(* of IF that the program writes back has no request that IF has not.      *)
LEMMA OnlySampleRequests ==
  ASSUME IInv, NewAreFresh, EdgesNext, 4 \in reg_IF' \ reg_IF
  PROVE  fresh # {}
<1> USE DEF IInv, cpuvars, histvars, padvars, icvars
<1>1. ASSUME NEW k \in Keys, FreshPress(k) PROVE FALSE
  BY <1>1 DEF FreshPress, Press, press_key
<1>2. ASSUME SampleFresh PROVE fresh # {}
  <2>1. newly_pressed # {}
    BY <1>2 DEF SampleFresh, Sample, step
  <2> QED BY <2>1 DEF NewAreFresh
<1>3. ASSUME NEW i \in OtherDevices, DeviceRaises(i) PROVE FALSE
  BY <1>3, OtherDevicesAssumption DEF DeviceRaises, IC!request_interrupt, IC!bit_n_set
<1>4. ASSUME Execute PROVE FALSE
  BY <1>4 DEF Execute, Poll, Accept, Mask, IC!reset_interrupt, IC!bit_n_reset, IC!set_IME_reg
<1>5. ASSUME Return \/ \E b \in BOOLEAN : SwitchInterrupts(b) PROVE FALSE
  BY <1>5 DEF Return, SwitchInterrupts, IC!set_IME_reg
<1>6. ASSUME ReadIF \/ \E v \in RegValues : WriteIE(v) PROVE FALSE
  BY <1>6 DEF ReadIF, WriteIE, IC!set_IE_reg
<1>7. ASSUME NEW bits, WriteIFBack(bits) PROVE FALSE
  BY <1>7 DEF WriteIFBack, CopyIsCurrent, IC!set_IF_reg, IC!REG_RESERVED_BITS, IC!bit_mask
<1>8. ASSUME NEW k \in Keys, Release(k) PROVE FALSE
  BY <1>8 DEF Release, unpress_key
<1> QED BY <1>1, <1>2, <1>3, <1>4, <1>5, <1>6, <1>7, <1>8 DEF EdgesNext, Others, WriteBack

(* The system with its history keeps what the system without it promises:  *)
(* types, at most one joypad handler for a press, and that what is polled  *)
(* is still pending.                                                       *)
THEOREM EdgesServiceCorrect ==
  EdgesSpec => [](TypeOK /\ NoExtraService /\ PolledStillPending)
<1>1. EdgesSpec => []IInv
  BY InvCorrect, EdgesAreService, PTL
<1>2. IInv => TypeOK /\ NoExtraService /\ PolledStillPending
  BY AccountBounds DEF IInv
<1> QED BY <1>1, <1>2, PTL

(* A key that is held or released, other devices and a program that writes *)
(* IF back never request the joypad interrupt.                             *)
THEOREM NoSpuriousRequestCorrect == EdgesSpec => NoSpuriousRequest
<1>1. EdgesSpec => []IInv
  BY InvCorrect, EdgesAreService, PTL
<1>2. EdgesInit => NewAreFresh
  BY DEF EdgesInit, ServiceInit, Init, NewAreFresh, newly_pressed
<1>3. NewAreFresh /\ [EdgesNext]_edgevars => NewAreFresh'
  BY FreshStep
<1>4. IInv /\ NewAreFresh /\ [EdgesNext]_edgevars
        => [IC!JOYPAD_INT \in reg_IF' \ reg_IF => fresh # {}]_edgevars
  BY OnlySampleRequests DEF IC!JOYPAD_INT
<1> QED BY <1>1, <1>2, <1>3, <1>4, PTL DEF EdgesSpec, NoSpuriousRequest
=============================================================================
