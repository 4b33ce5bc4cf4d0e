--------------------------- MODULE KeyScanProofs ---------------------------
(***************************************************************************)
(* A scan of the keys through P1 tells the truth of every key, for every   *)
(* set of keys and every value the program and the handler write.          *)
(***************************************************************************)
EXTENDS KeyScan, TLAPS

(* The keys of row r found so far were down, those not found were up; a    *)
(* row that is not read yet has no keys found.                             *)
RowTrue(r) ==
  IF r \in rows
    THEN seen \cap RowKeys(r) = {}
    ELSE seen \cap RowKeys(r) \subseteq wasDown /\ (Keys \cap RowKeys(r)) \ seen \subseteq wasUp

(* The history holds what is the case now.                                 *)
HistoryCurrent == pressed_key_set \subseteq wasDown /\ Keys \ pressed_key_set \subseteq wasUp

(* P1 selects the row the program is about to read, or the handler will    *)
(* write that selection back.                                              *)
Selects(p, r) == (4 \in p <=> r = "action") /\ (5 \in p <=> r = "direction")

RowSelected ==
  sel # None =>
    /\ saved = {} => (p14 <=> sel = "action") /\ (p15 <=> sel = "direction")
    /\ \A p \in saved : Selects(p, sel)

IInv == TypeOK /\ HistoryCurrent /\ RowSelected /\ \A r \in Rows : RowTrue(r)

-----------------------------------------------------------------------------
(* Reading P1. *)

LEMMA WindowCases ==
  ASSUME PadTypeOK
  PROVE  /\ p14 /\ ~p15 => search_window_lsb = 4
         /\ p15 /\ ~p14 => search_window_lsb = 8
         /\ p14 /\ p15 => search_window_lsb = 12
         /\ ~p14 /\ ~p15 => search_window_lsb = 0
         /\ search_window_lsb \in {0, 4, 8, 12}
BY DEF PadTypeOK, search_window_lsb

(* Line n is the bit of the search field n places into the window.         *)
LEMMA P1Lines ==
  ASSUME PadTypeOK, NEW n \in 0..3
  PROVE  n \in get_P1_reg <=> search_window_lsb + n \in search_field
<1> DEFINE w == search_window_lsb
<1>1. w \in {0, 4, 8, 12}
  BY WindowCases
<1>2. n \in get_P1_reg <=> n \in bit_slice(w + 3, w, search_field)
  BY DEF get_P1_reg, P1_RESERVED_BITS, Bit, P14, P15
<1>3. ASSUME n \in bit_slice(w + 3, w, search_field) PROVE w + n \in search_field
  <2>1. PICK b \in search_field \cap w..(w + 3) : n = b - w
    BY <1>3 DEF bit_slice, bit_mask
  <2>2. b = w + n
    BY <1>1, <2>1
  <2> QED BY <2>1, <2>2
<1>4. ASSUME w + n \in search_field PROVE n \in bit_slice(w + 3, w, search_field)
  <2>1. w + n \in w..(w + 3) /\ n = (w + n) - w
    BY <1>1
  <2> QED BY <1>4, <2>1 DEF bit_slice, bit_mask
<1> QED BY <1>2, <1>3, <1>4

(* P1 reads as a byte, and its selection bits read as they were written.   *)
LEMMA P1Bits ==
  ASSUME PadTypeOK
  PROVE  /\ get_P1_reg \in Reg8
         /\ 4 \in get_P1_reg <=> p14
         /\ 5 \in get_P1_reg <=> p15
<1>1. bit_slice(search_window_lsb + 3, search_window_lsb, search_field) \subseteq 0..3
  <2> SUFFICES ASSUME NEW b \in search_window_lsb..(search_window_lsb + 3)
               PROVE  b - search_window_lsb \in 0..3
    BY DEF bit_slice, bit_mask
  <2>1. search_window_lsb \in {0, 4, 8, 12}
    BY WindowCases
  <2> QED BY <2>1
<1>2. Bit(p14, P14) \subseteq {4} /\ Bit(p15, P15) \subseteq {5}
  BY DEF Bit, P14, P15
<1>3. get_P1_reg \in Reg8
  BY <1>1, <1>2 DEF get_P1_reg, P1_RESERVED_BITS, Reg8
<1>4. 4 \in get_P1_reg <=> p14
  BY <1>1, <1>2 DEF get_P1_reg, P1_RESERVED_BITS, Bit, P14
<1>5. 5 \in get_P1_reg <=> p15
  BY <1>1, <1>2 DEF get_P1_reg, P1_RESERVED_BITS, Bit, P15
<1> QED BY <1>3, <1>4, <1>5

(* With only the action row selected, line n is low exactly when key n is  *)
(* pressed; with only the direction row, when key n + 4 is; otherwise no   *)
(* line is low.                                                            *)
THEOREM P1Table ==
  ASSUME PadTypeOK, NEW n \in 0..3
  PROVE  /\ p14 /\ ~p15 => (n \notin get_P1_reg <=> n \in pressed_key_set)
         /\ p15 /\ ~p14 => (n \notin get_P1_reg <=> n + 4 \in pressed_key_set)
         /\ (p14 <=> p15) => n \in get_P1_reg
<1>1. \A k \in pressed_key_set : k \in 0..7
  BY KeysAssumption DEF PadTypeOK, KeyIdx
<1>2. search_window_lsb \in {0, 4, 8, 12}
  BY WindowCases
<1>3. search_window_lsb + n \notin search_field
        <=> \E k \in pressed_key_set : k + 4 = search_window_lsb + n
  BY <1>1, <1>2 DEF search_field
<1>4. CASE p14 /\ ~p15
  <2>1. search_window_lsb = 4
    BY <1>4, WindowCases
  <2>2. (\E k \in pressed_key_set : k + 4 = 4 + n) <=> n \in pressed_key_set
    BY <1>1
  <2> QED BY <1>3, <1>4, <2>1, <2>2, P1Lines
<1>5. CASE p15 /\ ~p14
  <2>1. search_window_lsb = 8
    BY <1>5, WindowCases
  <2>2. (\E k \in pressed_key_set : k + 4 = 8 + n) <=> n + 4 \in pressed_key_set
    BY <1>1
  <2> QED BY <1>3, <1>5, <2>1, <2>2, P1Lines
<1>6. CASE p14 <=> p15
  <2>1. search_window_lsb \in {0, 12}
    BY <1>6, WindowCases DEF PadTypeOK
  <2>2. ~ \E k \in pressed_key_set : k + 4 = search_window_lsb + n
    BY <1>1, <2>1
  <2> QED BY <1>3, <1>6, <2>2, P1Lines
<1> QED BY <1>4, <1>5, <1>6 DEF PadTypeOK

-----------------------------------------------------------------------------
(* The scan. *)

(* The keys the pad knows are keys of the host, its selection lines are    *)
(* lines, and the registers behind it are bytes, after each operation.     *)
LEMMA PadTypes ==
  ASSUME PadTypeOK, IC!TypeOK
  PROVE  /\ \A k \in Keys : press_key(k) \/ unpress_key(k) => PadTypeOK' /\ IC!TypeOK'
         /\ step => PadTypeOK' /\ IC!TypeOK'
         /\ \A v : set_P1_reg(v) => PadTypeOK' /\ IC!TypeOK'
         /\ UNCHANGED padvars => PadTypeOK'
         /\ UNCHANGED icvars => IC!TypeOK'
<1>0. UNCHANGED icvars => IC!TypeOK'
  BY DEF icvars, IC!TypeOK
<1> USE <1>0 DEF PadTypeOK
<1>1. ASSUME NEW k \in Keys, press_key(k) \/ unpress_key(k) PROVE PadTypeOK' /\ IC!TypeOK'
  BY <1>1 DEF press_key, unpress_key, bit_n_set, bit_n_reset
<1>2. ASSUME step PROVE PadTypeOK' /\ IC!TypeOK'
  <2>1. IC!request_interrupt(4) => IC!TypeOK'
    BY DEF IC!request_interrupt, IC!bit_n_set, IC!TypeOK, IC!Reg8
  <2>2. IC!request_interrupt(4) \/ UNCHANGED icvars
    BY <1>2 DEF step, raise_interrupt, IC!JOYPAD_INT
  <2>3. PadTypeOK'
    BY <1>2 DEF step
  <2> QED BY <2>1, <2>2, <2>3
<1>3. ASSUME NEW v, set_P1_reg(v) PROVE PadTypeOK' /\ IC!TypeOK'
  BY <1>3 DEF set_P1_reg, bit_n, keyvars
<1>4. UNCHANGED padvars => PadTypeOK'
  BY DEF padvars
<1> QED BY <1>0, <1>1, <1>2, <1>3, <1>4

LEMMA RowKeysFacts ==
  /\ RowKeys("action") = 0..3
  /\ RowKeys("direction") = 4..7
BY DEF RowKeys

(* A read of P1 with the row selected finds the pressed keys of that row,  *)
(* no more and no less.                                                    *)
LEMMA DecodeIsRow ==
  ASSUME PadTypeOK, NEW r \in Rows,
         p14 <=> r = "action", p15 <=> r = "direction"
  PROVE  Decode(r, get_P1_reg) = pressed_key_set \cap RowKeys(r)
<1>1. CASE r = "action"
  <2>1. \A k \in 0..3 : Line(k) = k
    BY DEF Line
  <2>2. \A k \in 0..3 : Line(k) \notin get_P1_reg <=> k \in pressed_key_set
    BY <1>1, <2>1, P1Table
  <2> QED BY <1>1, <2>2, RowKeysFacts DEF Decode
<1>2. CASE r = "direction"
  <2>1. \A k \in 4..7 : Line(k) \in 0..3 /\ Line(k) + 4 = k
    BY DEF Line
  <2>2. \A k \in 4..7 : Line(k) \notin get_P1_reg <=> k \in pressed_key_set
    <3> TAKE k \in 4..7
    <3> QED BY <1>2, <2>1, P1Table
  <2> QED BY <1>2, <2>2, RowKeysFacts DEF Decode
<1> QED BY <1>1, <1>2 DEF Rows

LEMMA InvInit == ScanInit => IInv
<1> SUFFICES ASSUME ScanInit PROVE IInv
  OBVIOUS
<1> USE DEF ScanInit, Init
<1>1. TypeOK
  BY PadRegValuesAssumption DEF TypeOK, PadTypeOK, IC!TypeOK, IC!Reg8, Reg8
<1> QED BY <1>1 DEF IInv, HistoryCurrent, RowSelected, RowTrue

LEMMA TypeStep == TypeOK /\ [Next]_vars => TypeOK'
<1> SUFFICES ASSUME TypeOK, [Next]_vars PROVE TypeOK'
  OBVIOUS
<1>0. PadTypeOK /\ IC!TypeOK
  BY DEF TypeOK
<1> USE <1>0 DEF scanvars, histvars
<1>1. ASSUME NEW k \in Keys, Press(k) \/ Release(k) PROVE TypeOK'
  BY <1>1, PadTypes DEF Press, Release, TypeOK
<1>2. ASSUME Sample PROVE TypeOK'
  BY <1>2, PadTypes DEF Sample, TypeOK
<1>3. ASSUME BeginScan PROVE TypeOK'
  <2>1. wasDown' \in SUBSET Keys /\ wasUp' \in SUBSET Keys
    BY <1>3 DEF BeginScan, PadTypeOK
  <2> QED BY <1>3, <2>1, PadTypes DEF BeginScan, TypeOK
<1>4. ASSUME NEW r \in Rows, SelectRow(r) PROVE TypeOK'
  BY <1>4, PadTypes DEF SelectRow, TypeOK
<1>5. ASSUME ReadRow PROVE TypeOK'
  <2>1. Decode(sel, get_P1_reg) \subseteq KeyIdx
    BY RowKeysFacts DEF Decode, RowKeys, KeyIdx
  <2>2. PadTypeOK' /\ IC!TypeOK'
    BY <1>5, PadTypes DEF ReadRow
  <2>3. seen' \in SUBSET KeyIdx /\ rows' \in SUBSET Rows /\ sel' = None
    BY <1>5, <2>1 DEF ReadRow, TypeOK
  <2> QED BY <1>5, <2>2, <2>3 DEF ReadRow, TypeOK
<1>6. ASSUME EnterHandler PROVE TypeOK'
  <2>1. PadTypeOK'
    BY <1>6, PadTypes DEF EnterHandler
  <2>2. IC!TypeOK'
    BY <1>6 DEF EnterHandler, IC!TypeOK, IC!Reg8, bit_n_reset
  <2>3. \E p \in Reg8 : saved' = {p}
    BY <1>6, P1Bits DEF EnterHandler
  <2> QED BY <1>6, <2>1, <2>2, <2>3 DEF EnterHandler, TypeOK
<1>7. ASSUME NEW v \in P1Values, HandlerSelects(v) PROVE TypeOK'
  BY <1>7, PadTypes DEF HandlerSelects, TypeOK
<1>8. ASSUME LeaveHandler PROVE TypeOK'
  <2>1. PadTypeOK'
    BY <1>8 DEF LeaveHandler, PadTypeOK, bit_n, keyvars
  <2>2. IC!TypeOK'
    BY <1>8 DEF LeaveHandler, IC!TypeOK
  <2> QED BY <1>8, <2>1, <2>2 DEF LeaveHandler, TypeOK
<1>9. CASE UNCHANGED vars
  BY <1>9, PadTypes DEF vars, TypeOK
<1> QED BY <1>1, <1>2, <1>3, <1>4, <1>5, <1>6, <1>7, <1>8, <1>9 DEF Next

-----------------------------------------------------------------------------

LEMMA HistoryStep == IInv /\ [Next]_vars => HistoryCurrent'
<1> SUFFICES ASSUME IInv, [Next]_vars PROVE HistoryCurrent'
  OBVIOUS
<1> USE DEF IInv, HistoryCurrent, scanvars, histvars, padvars, keyvars
<1>1. ASSUME NEW k \in Keys, Press(k) PROVE HistoryCurrent'
  BY <1>1 DEF Press, press_key, bit_n_set
<1>2. ASSUME NEW k \in Keys, Release(k) PROVE HistoryCurrent'
  BY <1>2 DEF Release, unpress_key, bit_n_reset
<1>3. ASSUME Sample PROVE HistoryCurrent'
  BY <1>3 DEF Sample, step
<1>4. ASSUME BeginScan PROVE HistoryCurrent'
  BY <1>4 DEF BeginScan
<1>5. ASSUME NEW r \in Rows, SelectRow(r) PROVE HistoryCurrent'
  BY <1>5 DEF SelectRow, set_P1_reg
<1>6. ASSUME ReadRow \/ EnterHandler \/ LeaveHandler PROVE HistoryCurrent'
  BY <1>6 DEF ReadRow, EnterHandler, LeaveHandler
<1>7. ASSUME NEW v \in P1Values, HandlerSelects(v) PROVE HistoryCurrent'
  BY <1>7 DEF HandlerSelects, set_P1_reg
<1>8. CASE UNCHANGED vars
  BY <1>8 DEF vars
<1> QED BY <1>1, <1>2, <1>3, <1>4, <1>5, <1>6, <1>7, <1>8 DEF Next

(* A handler that runs between select and read puts the selection back.    *)
LEMMA SelectedStep == IInv /\ [Next]_vars => RowSelected'
<1> SUFFICES ASSUME IInv, [Next]_vars PROVE RowSelected'
  OBVIOUS
<1> USE DEF RowSelected, scanvars, histvars, padvars, keyvars
<1>0. RowSelected /\ PadTypeOK
  BY DEF IInv, TypeOK
<1>1. ASSUME NEW k \in Keys, Press(k) \/ Release(k) PROVE RowSelected'
  BY <1>0, <1>1 DEF Press, press_key, Release, unpress_key
<1>2. ASSUME Sample PROVE RowSelected'
  BY <1>0, <1>2 DEF Sample, step
<1>3. ASSUME BeginScan PROVE RowSelected'
  BY <1>0, <1>3 DEF BeginScan
<1>4. ASSUME NEW r \in Rows, SelectRow(r) PROVE RowSelected'
  <2>1. PICK v \in P1Values : v \cap {4, 5} = Selection(r) /\ set_P1_reg(v)
    BY <1>4 DEF SelectRow, P14, P15
  <2>2. (4 \in v <=> r = "action") /\ (5 \in v <=> r = "direction")
    BY <2>1 DEF Selection, Rows, P14, P15
  <2>3. (p14' <=> r = "action") /\ (p15' <=> r = "direction")
    BY <2>1, <2>2 DEF set_P1_reg, bit_n, P14, P15
  <2>4. sel' = r /\ saved' = {}
    BY <1>4 DEF SelectRow
  <2> QED BY <2>3, <2>4
<1>5. ASSUME ReadRow PROVE RowSelected'
  BY <1>5 DEF ReadRow
<1>6. ASSUME EnterHandler PROVE RowSelected'
  <2>1. sel' = sel /\ saved = {} /\ saved' = {get_P1_reg}
    BY <1>6 DEF EnterHandler
  <2> QED BY <1>0, <2>1, P1Bits DEF Selects
<1>7. ASSUME NEW v \in P1Values, HandlerSelects(v) PROVE RowSelected'
  BY <1>0, <1>7 DEF HandlerSelects, Selects
<1>8. ASSUME LeaveHandler PROVE RowSelected'
  <2>1. PICK p \in saved : p14' = bit_n(P14, p) /\ p15' = bit_n(P15, p)
    BY <1>8 DEF LeaveHandler
  <2>2. (p14' <=> 4 \in p) /\ (p15' <=> 5 \in p)
    BY <2>1 DEF bit_n, P14, P15
  <2>3. sel' = sel /\ saved' = {}
    BY <1>8 DEF LeaveHandler
  <2> QED BY <1>0, <2>1, <2>2, <2>3 DEF Selects
<1>9. CASE UNCHANGED vars
  BY <1>0, <1>9 DEF vars, Selects
<1> QED BY <1>1, <1>2, <1>3, <1>4, <1>5, <1>6, <1>7, <1>8, <1>9 DEF Next

(* Each row stays true: the history only grows, and a read finds exactly   *)
(* the keys of its row that are down at that moment.                       *)
LEMMA RowTrueStep == IInv /\ [Next]_vars => \A r \in Rows : RowTrue(r)'
<1> SUFFICES ASSUME IInv, [Next]_vars, NEW r \in Rows PROVE RowTrue(r)'
  OBVIOUS
<1> USE DEF RowTrue, scanvars, histvars, padvars, keyvars
<1>0. RowTrue(r)
  BY DEF IInv
<1>1. ASSUME NEW k \in Keys, Press(k) \/ Release(k) PROVE RowTrue(r)'
  BY <1>0, <1>1 DEF Press, Release
<1>2. ASSUME Sample PROVE RowTrue(r)'
  BY <1>0, <1>2 DEF Sample
<1>3. ASSUME BeginScan PROVE RowTrue(r)'
  BY <1>3 DEF BeginScan
<1>4. ASSUME NEW q \in Rows, SelectRow(q) PROVE RowTrue(r)'
  BY <1>0, <1>4 DEF SelectRow
<1>5. ASSUME ReadRow PROVE RowTrue(r)'
  <2>1. sel \in Rows /\ saved = {} /\ seen' = seen \cup Decode(sel, get_P1_reg) /\ rows' = rows \ {sel}
    BY <1>5 DEF ReadRow, IInv, TypeOK
  <2>2. sel \in rows
    BY <1>5 DEF ReadRow, IInv, TypeOK
  <2>3. Decode(sel, get_P1_reg) = pressed_key_set \cap RowKeys(sel)
    BY <1>5, <2>1, DecodeIsRow DEF ReadRow, IInv, TypeOK, RowSelected
  <2>4. wasDown' = wasDown /\ wasUp' = wasUp
    BY <1>5 DEF ReadRow
  <2>5. CASE r = sel
    BY <1>0, <2>1, <2>2, <2>3, <2>4, <2>5 DEF IInv, HistoryCurrent
  <2>6. CASE r # sel
    <3>1. RowKeys(r) \cap RowKeys(sel) = {}
      BY <2>1, <2>6, RowKeysFacts DEF Rows
    <3>2. seen' \cap RowKeys(r) = seen \cap RowKeys(r)
      BY <2>1, <2>3, <3>1
    <3>3. (r \in rows' <=> r \in rows) /\ (Keys \cap RowKeys(r)) \ seen' = (Keys \cap RowKeys(r)) \ seen
      BY <2>1, <2>6, <3>2
    <3> QED BY <1>0, <2>4, <3>2, <3>3
  <2> QED BY <2>5, <2>6
<1>6. ASSUME EnterHandler \/ LeaveHandler PROVE RowTrue(r)'
  BY <1>0, <1>6 DEF EnterHandler, LeaveHandler
<1>7. ASSUME NEW v \in P1Values, HandlerSelects(v) PROVE RowTrue(r)'
  BY <1>0, <1>7 DEF HandlerSelects
<1>8. CASE UNCHANGED vars
  BY <1>0, <1>8 DEF vars
<1> QED BY <1>1, <1>2, <1>3, <1>4, <1>5, <1>6, <1>7, <1>8 DEF Next

LEMMA InvCorrect == Spec => []IInv
<1>1. IInv /\ [Next]_vars => IInv'
  <2> SUFFICES ASSUME IInv, [Next]_vars PROVE IInv'
    OBVIOUS
  <2>1. TypeOK'
    BY TypeStep DEF IInv
  <2>2. HistoryCurrent' /\ RowSelected' /\ \A r \in Rows : RowTrue(r)'
    BY HistoryStep, SelectedStep, RowTrueStep
  <2> QED BY <2>1, <2>2 DEF IInv
<1> QED BY InvInit, <1>1, PTL DEF Spec

-----------------------------------------------------------------------------

(* The scanning program, its handler and the two devices keep their types. *)
THEOREM TypeCorrect == Spec => []TypeOK
<1>1. IInv => TypeOK
  BY DEF IInv
<1> QED BY <1>1, InvCorrect, PTL

(* A finished scan reports every key as it was at some time during the     *)
(* scan, in either order of the rows, with handlers in between.            *)
THEOREM ScanCorrect == Spec => []ScanConsistent
<1>1. IInv => ScanConsistent
  <2> SUFFICES ASSUME IInv, rows = {}
               PROVE  seen \subseteq wasDown /\ Keys \ seen \subseteq wasUp
    BY DEF ScanConsistent
  <2>1. RowTrue("action") /\ RowTrue("direction")
    BY DEF IInv, Rows
  <2>2. seen \subseteq 0..7 /\ Keys \subseteq 0..7
    BY KeysAssumption DEF IInv, TypeOK, KeyIdx
  <2>3. \A k \in 0..7 : k \in RowKeys("action") \/ k \in RowKeys("direction")
    BY RowKeysFacts
  <2> QED BY <2>1, <2>2, <2>3 DEF RowTrue
<1> QED BY <1>1, InvCorrect, PTL

(* P1 reads as the table in the notes of get_P1_reg() says, for all keys   *)
(* that may be down and every selection.                                   *)
THEOREM TableCorrect == Spec => []LinesFollowTable
<1>1. TypeOK => LinesFollowTable
  <2> SUFFICES ASSUME TypeOK, NEW n \in 0..3
               PROVE  n \notin get_P1_reg <=>
                        \E k \in pressed_key_set :
                          /\ Line(k) = n
                          /\ \/ p14 /\ ~p15 /\ k \in RowKeys("action")
                             \/ p15 /\ ~p14 /\ k \in RowKeys("direction")
    BY DEF LinesFollowTable
  <2>1. \A k \in 0..3 : Line(k) = n <=> k = n
    BY DEF Line
  <2>2. \A k \in 4..7 : Line(k) = n <=> k = n + 4
    BY DEF Line
  <2>3. n \in 0..3 /\ n + 4 \in 4..7
    OBVIOUS
  <2> QED BY <2>1, <2>2, <2>3, P1Table, RowKeysFacts DEF TypeOK, PadTypeOK
<1> QED BY <1>1, TypeCorrect, PTL
=============================================================================
