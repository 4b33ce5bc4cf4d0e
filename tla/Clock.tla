------------------------------- MODULE Clock -------------------------------
(***************************************************************************)
(* The cycle clocks of include/common/GB_clock.h in the loop they are made *)
(* for: every device has a counter_t; the loop gives all of them the       *)
(* cycles that passed, and a device whose counter is ready runs an Action, *)
(* which pays its price and calls back.  The counter holds debt: 0 when    *)
(* the device is ready, negative while it works off what it has paid.      *)
(* Cycles given to a device that owes nothing are lost.                    *)
(* The loop is external code; the counters start without credit.  A        *)
(* counter is an int64_t; debt and cycles stay far from its limits here.   *)
(***************************************************************************)
EXTENDS Integers

CONSTANTS
  Devices,     \* the devices that are synchronised
  Prices,      \* the prices of actions, in cycles
  Steps,       \* the cycles one round of the loop may give
  InitVals,    \* the values counters are created with
  MaxDebt,     \* a price no action and no initial debt exceeds
  MaxTime      \* bound on the cycles that are explored

ASSUME PricesAssumption == Prices \subseteq Nat \ {0}
ASSUME StepsAssumption == Steps \subseteq Nat \ {0}
ASSUME InitValsAssumption == \A v \in InitVals : v \in Int /\ v <= 0
ASSUME MaxDebtAssumption ==
  /\ MaxDebt \in Nat
  /\ \A p \in Prices : p <= MaxDebt
  /\ \A v \in InitVals : - v <= MaxDebt
ASSUME MaxTimeAssumption == MaxTime \in Nat

VARIABLES
  counter,    \* __counter of each device
  given,      \* history: cycles given to every device since the start
  paid,       \* history: cycles each device has paid since the start
  owed,       \* history: the price of each device's last action
  since       \* history: cycles given since that action

vars == <<counter, given, paid, owed, since>>

(* is_ready() *)
is_ready(d) == counter[d] >= 0

Lesser(a, b) == IF a <= b THEN a ELSE b

(* Mutant: credit is kept. *)
stepped_banked(c, ccls) == c + ccls

(* devsync::step() *)
stepped(c, ccls) == Lesser(c + ccls, 0)

ClockInit ==
  /\ counter \in [Devices -> InitVals]
  /\ given = 0
  /\ paid = [d \in Devices |-> 0]
  /\ owed = [d \in Devices |-> - counter[d]]
  /\ since = [d \in Devices |-> 0]

(* A round of the loop: step(ccls) on every counter. *)
Step(ccls) ==
  /\ given + ccls <= MaxTime
  /\ counter' = [d \in Devices |-> stepped(counter[d], ccls)]
  /\ given' = given + ccls
  /\ since' = [d \in Devices |-> since[d] + ccls]
  /\ UNCHANGED <<paid, owed>>

(* Mutant: the action is called and not paid for. *)
Act_unpaid(d, price) ==
  /\ is_ready(d)
  /\ paid' = [paid EXCEPT ![d] = @ + price]
  /\ owed' = [owed EXCEPT ![d] = price]
  /\ since' = [since EXCEPT ![d] = 0]
  /\ UNCHANGED <<counter, given>>

(* Mutant: the action runs whether the device is ready or not. *)
Act_unready(d, price) ==
  /\ counter' = [counter EXCEPT ![d] = @ - price]
  /\ paid' = [paid EXCEPT ![d] = @ + price]
  /\ owed' = [owed EXCEPT ![d] = price]
  /\ since' = [since EXCEPT ![d] = 0]
  /\ UNCHANGED given

(* The loop finds a device ready and runs an Action: pay(price), then the  *)
(* callback.                                                               *)
Act(d, price) ==
  /\ is_ready(d)
  /\ counter' = [counter EXCEPT ![d] = @ - price]
  /\ paid' = [paid EXCEPT ![d] = @ + price]
  /\ owed' = [owed EXCEPT ![d] = price]
  /\ since' = [since EXCEPT ![d] = 0]
  /\ UNCHANGED given

ClockNext ==
  \/ \E ccls \in Steps : Step(ccls)
  \/ \E d \in Devices, price \in Prices : Act(d, price)

ClockSpec == ClockInit /\ [][ClockNext]_vars

-----------------------------------------------------------------------------
(* Properties. *)

TypeOK ==
  /\ counter \in [Devices -> (-MaxDebt)..0]
  /\ given \in 0..MaxTime
  /\ paid \in [Devices -> Nat]
  /\ owed \in [Devices -> Nat]
  /\ since \in [Devices -> Nat]

(* However irregular the rounds of the loop and however long a device was  *)
(* idle before, no device has ever done more work than the cycles that     *)
(* passed, but for the one action it is still working off.                 *)
NeverAhead == \A d \in Devices : paid[d] <= given + MaxDebt

(* A device is ready again exactly when the price of its last action has   *)
(* passed since that action: nothing it did or did not do before makes it  *)
(* sooner or later.                                                        *)
ReadyWhenPaidOff == \A d \in Devices : is_ready(d) <=> since[d] >= owed[d]
=============================================================================
