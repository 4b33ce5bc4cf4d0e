--------------------------- MODULE InterruptLatch ---------------------------
(***************************************************************************)
(* What an interrupt controller promises its devices and its CPU, without  *)
(* registers or reserved bits: a set of requested sources, a set of        *)
(* enabled ones, a master enable, and the winner the CPU is told of, which *)
(* after every operation is the requested and enabled source of highest    *)
(* priority (the least number), or None.                                   *)
(***************************************************************************)
EXTENDS Integers

VARIABLES requested, enabled, master, winner

vars == <<requested, enabled, master, winner>>

Sources == 0..4
None == 5

Winner(req, ena) ==
  IF req \cap ena = {}
    THEN None
    ELSE CHOOSE s \in req \cap ena : \A t \in req \cap ena : s <= t

Init ==
  /\ requested \in SUBSET Sources
  /\ enabled \in SUBSET Sources
  /\ master \in BOOLEAN
  /\ winner = Winner(requested, enabled)

Raise(s) == requested' = requested \cup {s} /\ UNCHANGED <<enabled, master>>

Cancel(s) == requested' = requested \ {s} /\ UNCHANGED <<enabled, master>>

WriteRequests(S) == requested' = S /\ UNCHANGED <<enabled, master>>

WriteEnables(S) == enabled' = S /\ UNCHANGED <<requested, master>>

WriteMaster(b) == master' = b /\ UNCHANGED <<requested, enabled>>

Operation ==
  \/ \E s \in Sources : Raise(s) \/ Cancel(s)
  \/ \E S \in SUBSET Sources : WriteRequests(S) \/ WriteEnables(S)
  \/ \E b \in BOOLEAN : WriteMaster(b)

Next == Operation /\ winner' = Winner(requested', enabled')

Spec == Init /\ [][Next]_vars
=============================================================================
