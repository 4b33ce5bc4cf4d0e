------------------------------ MODULE KeyScan ------------------------------
(***************************************************************************)
(* A program that reads the keys the way the P1 register wants it: write   *)
(* P1 to select a row of the key matrix, read P1, then the other row, in   *)
(* either order.  Between any two of these accesses the host may change    *)
(* the keys, the emulation loop may call step(), and the joypad interrupt  *)
(* may run a handler that uses P1 itself: it saves the register, selects   *)
(* what it likes, and writes the saved value back.                         *)
(* The program and the handler are external code: the tests and the notes  *)
(* of GB_joypad.h and GB_interrupt.h say how they use the two devices.     *)
(***************************************************************************)
EXTENDS JoyPad

Rows == {"action", "direction"}
None == "none"

VARIABLES
  rows,       \* the rows the scan has yet to read; {} between scans
  sel,        \* the row the program has selected and will read next, or None
  seen,       \* the keys the scan has found pressed so far
  saved,      \* {p} while a handler runs that found p in P1, else {}
  wasDown,    \* history: keys down at some time since the scan began
  wasUp       \* history: keys up at some time since the scan began

scanvars == <<rows, sel, seen>>
histvars == <<wasDown, wasUp>>
vars == <<padvars, icvars, scanvars, saved, histvars>>

RowKeys(r) == IF r = "action" THEN 0..3 ELSE 4..7

(* The P1 bits a program writes for a row: the line of that row is low.    *)
Selection(r) == IF r = "action" THEN {P14} ELSE {P15}

Line(k) == k % 4

(* The keys of row r that the byte p read from P1 shows as pressed. *)
Decode(r, p) == {k \in RowKeys(r) : Line(k) \notin p}

ScanInit ==
  /\ Init
  /\ reg_IE \in RegValues /\ reg_IF = {} /\ reg_IME \in BOOLEAN
  /\ rows = {}
  /\ sel = None
  /\ seen = {}
  /\ saved = {}
  /\ wasDown = {}
  /\ wasUp = Keys

-----------------------------------------------------------------------------
(* The host and the emulation loop. *)

Press(k) ==
  /\ press_key(k)
  /\ wasDown' = wasDown \cup {k}
  /\ UNCHANGED <<scanvars, saved, wasUp>>

Release(k) ==
  /\ unpress_key(k)
  /\ wasUp' = wasUp \cup {k}
  /\ UNCHANGED <<scanvars, saved, wasDown>>

Sample == step /\ UNCHANGED <<scanvars, saved, histvars>>

-----------------------------------------------------------------------------
(* The scanning program; it does not run while a handler does. *)

BeginScan ==
  /\ saved = {} /\ rows = {}
  /\ rows' = Rows
  /\ seen' = {}
  /\ wasDown' = pressed_key_set
  /\ wasUp' = Keys \ pressed_key_set
  /\ UNCHANGED <<padvars, icvars, sel, saved>>

SelectRow(r) ==
  /\ saved = {} /\ sel = None /\ r \in rows
  /\ \E v \in P1Values :
       /\ v \cap {P14, P15} = Selection(r)
       /\ set_P1_reg(v)
  /\ sel' = r
  /\ UNCHANGED <<rows, seen, saved, histvars>>

ReadRow ==
  /\ saved = {} /\ sel # None
  /\ seen' = seen \cup Decode(sel, get_P1_reg)
  /\ rows' = rows \ {sel}
  /\ sel' = None
  /\ UNCHANGED <<padvars, icvars, saved, histvars>>

-----------------------------------------------------------------------------
(* The handler of the joypad interrupt.  The CPU acknowledges and masks as *)
(* it enters and unmasks as it returns (one step each; InterruptService    *)
(* takes them apart).                                                      *)

EnterHandler ==
  /\ saved = {}
  /\ reg_IME /\ IC!get_highest_priority_interrupt = IC!JOYPAD_INT
  /\ reg_IF' = bit_n_reset(IC!JOYPAD_INT, reg_IF)
  /\ reg_IME' = FALSE
  /\ saved' = {get_P1_reg}
  /\ UNCHANGED <<padvars, reg_IE, scanvars, histvars>>

HandlerSelects(v) ==
  /\ saved # {}
  /\ set_P1_reg(v)
  /\ UNCHANGED <<scanvars, saved, histvars>>

LeaveHandler ==
  /\ \E p \in saved :
       /\ p14' = bit_n(P14, p)
       /\ p15' = bit_n(P15, p)
  /\ reg_IME' = TRUE
  /\ saved' = {}
  /\ UNCHANGED <<keyvars, reg_IE, reg_IF, scanvars, histvars>>

Next ==
  \/ \E k \in Keys : Press(k) \/ Release(k)
  \/ Sample
  \/ BeginScan
  \/ \E r \in Rows : SelectRow(r)
  \/ ReadRow
  \/ EnterHandler
  \/ \E v \in P1Values : HandlerSelects(v)
  \/ LeaveHandler

Spec == ScanInit /\ [][Next]_vars

-----------------------------------------------------------------------------
(* Properties. *)

TypeOK ==
  /\ PadTypeOK
  /\ IC!TypeOK
  /\ rows \in SUBSET Rows
  /\ sel \in rows \cup {None}
  /\ seen \in SUBSET KeyIdx
  /\ saved = {} \/ \E p \in Reg8 : saved = {p}
  /\ wasDown \in SUBSET Keys
  /\ wasUp \in SUBSET Keys

(* A finished scan tells the truth of every key at some time during the    *)
(* scan: a key it found was down, a key it did not find was up.  No press  *)
(* held through the scan is missed and no key is made up, in whatever      *)
(* order the rows are read and whatever happens between select and read,   *)
(* a handler that borrows P1 included.                                     *)
ScanConsistent ==
  rows = {} => /\ seen \subseteq wasDown
               /\ Keys \ seen \subseteq wasUp

(* The table in the notes of get_P1_reg(): P15 = 0 and P14 = 1 shows the   *)
(* action keys, P15 = 1 and P14 = 0 the arrow keys, a pressed key as 0;    *)
(* with both or neither selected all four lines read 1.                    *)
LinesFollowTable ==
  \A n \in 0..3 :
    n \notin get_P1_reg <=>
      \E k \in pressed_key_set :
        /\ Line(k) = n
        /\ \/ p14 /\ ~p15 /\ k \in RowKeys("action")
           \/ p15 /\ ~p14 /\ k \in RowKeys("direction")
=============================================================================
