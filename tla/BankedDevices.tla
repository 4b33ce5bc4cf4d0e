--------------------------- MODULE BankedDevices ---------------------------
(***************************************************************************)
(* What a program expects of memory devices that it creates, copies, moves *)
(* and destroys: each is a banked memory of its own with a window on the   *)
(* selected bank.  A device that was moved from, or whose assignment ran   *)
(* out of memory, is hollow: it has no memory until it is assigned again.  *)
(***************************************************************************)
EXTENDS Integers

CONSTANTS
  Devices,     \* the program's device variables
  Banks,       \* the bank numbers, 0 is selected at first
  Offsets,     \* the places of a bank
  Bytes,       \* the values of a byte
  Absent,      \* a variable that is not constructed
  Hollow,      \* a device without memory
  AllocMayFail    \* whether memory can run out

VARIABLE dev    \* the devices

(* A device with banks b, of which number k is selected and shown. *)
Showing(b, k) == [bank |-> b, selected |-> k, window |-> b[k]]

Whole(d) == dev[d] \notin {Absent, Hollow}

Init == dev = [d \in Devices |-> Absent]

(* A new device has any bytes. *)
Construct(d) ==
  /\ dev[d] = Absent
  /\ \E b \in [Banks -> [Offsets -> Bytes]] : dev' = [dev EXCEPT ![d] = Showing(b, 0)]

Copy(d, s) == dev[s] # Absent /\ dev' = [dev EXCEPT ![d] = dev[s]]

Move(d, s) ==
  /\ d # s /\ dev[s] # Absent
  /\ dev' = [dev EXCEPT ![d] = dev[s], ![s] = Hollow]

FailedCopyAssign(d, s) ==
  /\ AllocMayFail
  /\ d # s /\ dev[d] # Absent /\ dev[s] # Absent
  /\ dev' = [dev EXCEPT ![d] = Hollow]

Destroy(d) == dev[d] # Absent /\ dev' = [dev EXCEPT ![d] = Absent]

Select(d, k) == Whole(d) /\ dev' = [dev EXCEPT ![d] = Showing(dev[d].bank, k)]

Write(d, k, o, v) ==
  /\ Whole(d)
  /\ dev' = [dev EXCEPT ![d] = Showing([dev[d].bank EXCEPT ![k][o] = v], dev[d].selected)]

Next ==
  \E d \in Devices :
    \/ Construct(d)
    \/ Destroy(d)
    \/ \E s \in Devices : Copy(d, s) \/ Move(d, s) \/ FailedCopyAssign(d, s)
    \/ \E k \in Banks : Select(d, k) \/ \E o \in Offsets, v \in Bytes : Write(d, k, o, v)

Spec == Init /\ [][Next]_dev
=============================================================================
