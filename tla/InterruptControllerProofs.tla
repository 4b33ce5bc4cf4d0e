--------------------- MODULE InterruptControllerProofs ---------------------
(***************************************************************************)
(* The interrupt controller keeps its types and implements the latch, for  *)
(* every choice of register values.                                        *)
(***************************************************************************)
EXTENDS InterruptController, WellFoundedInduction, TLAPS

(* A word that is not 0 has a least set bit, for < is well-founded on the  *)
(* naturals.                                                               *)
LEMMA LeastBitExists ==
  ASSUME NEW S, S \subseteq 0..7, S # {}
  PROVE  \E b \in S : \A c \in S : b <= c
<1>1. S \subseteq Nat
  OBVIOUS
<1>2. \E b \in S : \A c \in S : ~ (<<c, b>> \in OpToRel(<, Nat))
  BY <1>1, NatLessThanWellFounded, WFMin
<1> QED BY <1>1, <1>2 DEF OpToRel

(* bit_lsb() returns a set bit, and no set bit lies below it: what the     *)
(* priority of the interrupts rests on.                                    *)
THEOREM LeastBit ==
  ASSUME NEW S, S \subseteq 0..7, S # {}
  PROVE  /\ bit_lsb(S) \in S
         /\ \A c \in S : bit_lsb(S) <= c
BY LeastBitExists DEF bit_lsb

(* There is only one such bit. *)
LEMMA LeastBitUnique ==
  ASSUME NEW S, S \subseteq 0..7,
         NEW b \in S, \A c \in S : b <= c
  PROVE  bit_lsb(S) = b
<1>1. bit_lsb(S) \in S /\ \A c \in S : bit_lsb(S) <= c
  BY LeastBit
<1>2. bit_lsb(S) <= b /\ b <= bit_lsb(S)
  BY <1>1
<1>3. bit_lsb(S) \in 0..7 /\ b \in 0..7
  BY <1>1
<1> QED BY <1>2, <1>3

-----------------------------------------------------------------------------

(* The registers hold bytes in every reachable state: no request, reset or *)
(* write sets a bit outside the register, the first reserved bit included. *)
THEOREM TypeCorrect == Spec => []TypeOK
<1>1. Init => TypeOK
  BY RegValuesAssumption DEF Init, TypeOK
<1>2. TypeOK /\ [Next]_vars => TypeOK'
  <2> SUFFICES ASSUME TypeOK, [Next]_vars PROVE TypeOK'
    OBVIOUS
  <2> USE DEF TypeOK
  <2>1. ASSUME NEW i \in InterruptIdx, request_interrupt(i) PROVE TypeOK'
    BY <2>1 DEF request_interrupt, bit_n_set, InterruptIdx, VBLANK_INT, NO_INTERRUPT, Reg8
  <2>2. ASSUME NEW i \in InterruptIdx, reset_interrupt(i) PROVE TypeOK'
    BY <2>2 DEF reset_interrupt, bit_n_reset, Reg8
  <2>3. ASSUME NEW v \in RegValues, set_IE_reg(v) PROVE TypeOK'
    BY <2>3, RegValuesAssumption DEF set_IE_reg, REG_RESERVED_BITS, bit_mask, Reg8
  <2>4. ASSUME NEW v \in RegValues, set_IF_reg(v) PROVE TypeOK'
    BY <2>4, RegValuesAssumption DEF set_IF_reg, REG_RESERVED_BITS, bit_mask, Reg8
  <2>5. ASSUME NEW b \in BOOLEAN, set_IME_reg(b) PROVE TypeOK'
    BY <2>5 DEF set_IME_reg
  <2>6. CASE UNCHANGED vars
    BY <2>6 DEF vars
  <2> QED BY <2>1, <2>2, <2>3, <2>4, <2>5, <2>6 DEF Next
<1> QED BY <1>1, <1>2, PTL DEF Spec

-----------------------------------------------------------------------------

(* The search of get_highest_priority_interrupt() answers what the latch   *)
(* promises: adding the reserved bits to the word never hides a real       *)
(* interrupt, and makes the answer NO_INTERRUPT when there is none.        *)
LEMMA SearchFindsWinner ==
  ASSUME NEW e, e \subseteq 0..7,
         NEW f, f \subseteq 0..7
  PROVE  bit_lsb((f \cap e) \cup REG_RESERVED_BITS) =
           Latch!Winner((f \cup REG_RESERVED_BITS) \ REG_RESERVED_BITS,
                        (e \cup REG_RESERVED_BITS) \ REG_RESERVED_BITS)
<1> DEFINE S == ((f \cup REG_RESERVED_BITS) \ REG_RESERVED_BITS)
                  \cap ((e \cup REG_RESERVED_BITS) \ REG_RESERVED_BITS)
           W == (f \cap e) \cup REG_RESERVED_BITS
<1>1. S = (f \cap e) \ 5..7 /\ W = S \cup 5..7 /\ S \subseteq 0..4 /\ W \subseteq 0..7
  BY DEF REG_RESERVED_BITS, bit_mask
<1>2. CASE S = {}
  <2>1. W = 5..7
    BY <1>1, <1>2
  <2>2. bit_lsb(W) = 5
    BY <2>1, LeastBitUnique
  <2> QED BY <2>2, <1>2 DEF Latch!Winner, Latch!None
<1>3. CASE S # {}
  <2>1. bit_lsb(S) \in S /\ \A c \in S : bit_lsb(S) <= c
    BY <1>1, <1>3, LeastBit
  <2>2. bit_lsb(W) = bit_lsb(S)
    <3>1. bit_lsb(S) \in W /\ \A c \in W : bit_lsb(S) <= c
      BY <1>1, <2>1
    <3> QED BY <3>1, <1>1, LeastBitUnique
  <2>3. bit_lsb(S) = CHOOSE s \in S : \A t \in S : s <= t
    BY <1>3 DEF bit_lsb
  <2> QED BY <2>2, <2>3, <1>3 DEF Latch!Winner
<1> QED BY <1>2, <1>3

LEMMA WinnerIsSearch ==
  TypeOK => get_highest_priority_interrupt =
              Latch!Winner(get_IF_reg \ REG_RESERVED_BITS, get_IE_reg \ REG_RESERVED_BITS)
BY SearchFindsWinner
   DEF TypeOK, Reg8, get_highest_priority_interrupt, get_IF_reg, get_IE_reg

(* Every behaviour of the controller is one of the plain latch. *)
THEOREM LatchImplemented == Spec => ImplementsLatch
<1> DEFINE requests == get_IF_reg \ REG_RESERVED_BITS
           enables == get_IE_reg \ REG_RESERVED_BITS
<1>1. TypeOK => requests \subseteq 0..4 /\ enables \subseteq 0..4
  BY DEF TypeOK, Reg8, get_IF_reg, get_IE_reg, REG_RESERVED_BITS, bit_mask
<1>2. Init => Latch!Init
  <2> SUFFICES ASSUME Init PROVE Latch!Init
    OBVIOUS
  <2>1. TypeOK
    BY RegValuesAssumption DEF Init, TypeOK
  <2>2. requests \in SUBSET Latch!Sources /\ enables \in SUBSET Latch!Sources
    BY <1>1, <2>1 DEF Latch!Sources
  <2>3. get_IME_reg \in BOOLEAN
    BY DEF Init, get_IME_reg
  <2> QED BY <2>1, <2>2, <2>3, WinnerIsSearch DEF Latch!Init
<1>3. TypeOK /\ TypeOK' /\ [Next]_vars => [Latch!Next]_(Latch!vars)
  <2> SUFFICES ASSUME TypeOK, TypeOK', [Next]_vars
               PROVE  [Latch!Next]_(Latch!vars)
    OBVIOUS
  <2>1. get_highest_priority_interrupt' = Latch!Winner(requests', enables')
    BY WinnerIsSearch, SearchFindsWinner
       DEF TypeOK, Reg8, get_highest_priority_interrupt, get_IF_reg, get_IE_reg
  <2>2. CASE UNCHANGED vars
    BY <2>2 DEF vars, Latch!vars, get_IF_reg, get_IE_reg, get_IME_reg,
                get_highest_priority_interrupt
  <2>3. ASSUME NEW i \in InterruptIdx, request_interrupt(i) PROVE Latch!Operation \/ UNCHANGED Latch!vars
    <3>1. CASE i \in 0..4
      <4>1. requests' = requests \cup {i}
        BY <2>3, <3>1 DEF request_interrupt, bit_n_set, get_IF_reg, REG_RESERVED_BITS, bit_mask
      <4> QED BY <4>1, <2>3, <3>1
              DEF request_interrupt, get_IE_reg, get_IME_reg, Latch!Operation, Latch!Raise, Latch!Sources
    <3>2. CASE i = 5
      <4>1. requests' = requests
        BY <2>3, <3>2 DEF request_interrupt, bit_n_set, get_IF_reg, REG_RESERVED_BITS, bit_mask
      <4>2. enables' = enables /\ get_IME_reg' = get_IME_reg
        BY <2>3 DEF request_interrupt, get_IE_reg, get_IME_reg
      <4> QED BY <4>1, <4>2, <2>1, WinnerIsSearch DEF Latch!vars
    <3> QED BY <3>1, <3>2 DEF InterruptIdx, VBLANK_INT, NO_INTERRUPT
  <2>4. ASSUME NEW i \in InterruptIdx, reset_interrupt(i) PROVE Latch!Operation \/ UNCHANGED Latch!vars
    <3>1. CASE i \in 0..4
      <4>1. requests' = requests \ {i}
        BY <2>4, <3>1 DEF reset_interrupt, bit_n_reset, get_IF_reg, REG_RESERVED_BITS, bit_mask
      <4> QED BY <4>1, <2>4, <3>1
              DEF reset_interrupt, get_IE_reg, get_IME_reg, Latch!Operation, Latch!Cancel, Latch!Sources
    <3>2. CASE i = 5
      <4>1. requests' = requests
        BY <2>4, <3>2 DEF reset_interrupt, bit_n_reset, get_IF_reg, REG_RESERVED_BITS, bit_mask
      <4>2. enables' = enables /\ get_IME_reg' = get_IME_reg
        BY <2>4 DEF reset_interrupt, get_IE_reg, get_IME_reg
      <4> QED BY <4>1, <4>2, <2>1, WinnerIsSearch DEF Latch!vars
    <3> QED BY <3>1, <3>2 DEF InterruptIdx, VBLANK_INT, NO_INTERRUPT
  <2>5. ASSUME NEW v \in RegValues, set_IE_reg(v) PROVE Latch!Operation
    <3>1. enables' \in SUBSET Latch!Sources
      BY <1>1, TypeOK' DEF TypeOK, Reg8, get_IE_reg, REG_RESERVED_BITS, bit_mask, Latch!Sources
    <3> QED BY <3>1, <2>5
            DEF set_IE_reg, get_IF_reg, get_IME_reg, Latch!Operation, Latch!WriteEnables
  <2>6. ASSUME NEW v \in RegValues, set_IF_reg(v) PROVE Latch!Operation
    <3>1. requests' \in SUBSET Latch!Sources
      BY <1>1, TypeOK' DEF TypeOK, Reg8, get_IF_reg, REG_RESERVED_BITS, bit_mask, Latch!Sources
    <3> QED BY <3>1, <2>6
            DEF set_IF_reg, get_IE_reg, get_IME_reg, Latch!Operation, Latch!WriteRequests
  <2>7. ASSUME NEW b \in BOOLEAN, set_IME_reg(b) PROVE Latch!Operation
    BY <2>7 DEF set_IME_reg, get_IE_reg, get_IF_reg, get_IME_reg, Latch!Operation, Latch!WriteMaster
  <2>8. Next => Latch!Operation \/ UNCHANGED Latch!vars
    BY <2>3, <2>4, <2>5, <2>6, <2>7 DEF Next
  <2> QED BY <2>1, <2>2, <2>8 DEF Latch!Next
<1> QED BY <1>2, <1>3, TypeCorrect, PTL DEF Spec, ImplementsLatch, Latch!Spec
=============================================================================
