------------------------ MODULE MemoryDevicesProofs ------------------------
(***************************************************************************)
(* The work RAM is eight separate banks behind two windows, for banks of   *)
(* any size, any bytes and any values of SVBK; and the variables that hold *)
(* a video RAM are independent memories of two banks each, whatever is     *)
(* copied, moved, assigned and destroyed and whenever memory runs out, for *)
(* any number of them, any size of a bank and any bytes.                   *)
(***************************************************************************)
EXTENDS MemoryDevices, Sequences, TLAPS

(* The place of offset o of bank b in the flat memory. *)
Phys(b, o) == b * BANK_SIZE + o

-----------------------------------------------------------------------------
(* Addresses. *)

LEMMA PhysInMemory ==
  ASSUME NEW b \in 0..7, NEW o \in Offsets
  PROVE  Phys(b, o) \in 0..(MAX_SIZE - 1)
<1>1. BANK_SIZE \in Nat \ {0}
  BY BankSizeAssumption
<1>2. b = 0 \/ b = 1 \/ b = 2 \/ b = 3 \/ b = 4 \/ b = 5 \/ b = 6 \/ b = 7
  OBVIOUS
<1> QED
  BY <1>1, <1>2 DEF Phys, Offsets, MAX_SIZE, BANKS

(* No two banks share a byte. *)
LEMMA PhysUnique ==
  ASSUME NEW b \in 0..7, NEW c \in 0..7, NEW o \in Offsets, NEW p \in Offsets,
         Phys(b, o) = Phys(c, p)
  PROVE  b = c /\ o = p
<1>1. BANK_SIZE \in Nat \ {0}
  BY BankSizeAssumption
<1>2. \A n \in Nat \ {0} : n * BANK_SIZE >= BANK_SIZE
  BY <1>1
<1>3. b * BANK_SIZE + o = c * BANK_SIZE + p
  BY DEF Phys
<1>4. o \in 0..(BANK_SIZE - 1) /\ p \in 0..(BANK_SIZE - 1)
  BY DEF Offsets
<1>5. ~(b < c)
  <2>1. SUFFICES ASSUME b < c PROVE FALSE
    OBVIOUS
  <2>2. (c - b) * BANK_SIZE >= BANK_SIZE
    BY <1>2, <2>1
  <2>3. (c - b) * BANK_SIZE = o - p
    BY <1>1, <1>3, <1>4
  <2> QED
    BY <1>1, <1>4, <2>2, <2>3
<1>6. ~(c < b)
  <2>1. SUFFICES ASSUME c < b PROVE FALSE
    OBVIOUS
  <2>2. (b - c) * BANK_SIZE >= BANK_SIZE
    BY <1>2, <2>1
  <2>3. (b - c) * BANK_SIZE = p - o
    BY <1>1, <1>3, <1>4
  <2> QED
    BY <1>1, <1>4, <2>2, <2>3
<1>7. b = c
  BY <1>5, <1>6
<1> QED
  BY <1>1, <1>3, <1>4, <1>7

(* Every byte of the memory belongs to a bank. *)
LEMMA PhysExists ==
  ASSUME NEW p \in 0..(MAX_SIZE - 1)
  PROVE  \E b \in 0..7, o \in Offsets : p = Phys(b, o)
<1>1. BANK_SIZE \in Nat \ {0} /\ p \in Nat /\ p < 8 * BANK_SIZE
  BY BankSizeAssumption DEF MAX_SIZE, BANKS
<1>2. ASSUME NEW b \in 0..7, b * BANK_SIZE <= p, p < b * BANK_SIZE + BANK_SIZE
      PROVE  \E c \in 0..7, o \in Offsets : p = Phys(c, o)
  <2>1. p - b * BANK_SIZE \in Offsets
    BY <1>1, <1>2 DEF Offsets
  <2>2. p = Phys(b, p - b * BANK_SIZE)
    BY <1>1 DEF Phys
  <2> QED
    BY <2>1, <2>2
<1>3. \E b \in 0..7 : b * BANK_SIZE <= p /\ p < b * BANK_SIZE + BANK_SIZE
  <2>0. CASE p < BANK_SIZE
    <3> WITNESS 0 \in 0..7
    <3> QED BY <1>1, <2>0
  <2>1. CASE BANK_SIZE <= p /\ p < 2 * BANK_SIZE
    <3> WITNESS 1 \in 0..7
    <3> QED BY <1>1, <2>1
  <2>2. CASE 2 * BANK_SIZE <= p /\ p < 3 * BANK_SIZE
    <3> WITNESS 2 \in 0..7
    <3> QED BY <1>1, <2>2
  <2>3. CASE 3 * BANK_SIZE <= p /\ p < 4 * BANK_SIZE
    <3> WITNESS 3 \in 0..7
    <3> QED BY <1>1, <2>3
  <2>4. CASE 4 * BANK_SIZE <= p /\ p < 5 * BANK_SIZE
    <3> WITNESS 4 \in 0..7
    <3> QED BY <1>1, <2>4
  <2>5. CASE 5 * BANK_SIZE <= p /\ p < 6 * BANK_SIZE
    <3> WITNESS 5 \in 0..7
    <3> QED BY <1>1, <2>5
  <2>6. CASE 6 * BANK_SIZE <= p /\ p < 7 * BANK_SIZE
    <3> WITNESS 6 \in 0..7
    <3> QED BY <1>1, <2>6
  <2>7. CASE 7 * BANK_SIZE <= p
    <3> WITNESS 7 \in 0..7
    <3> QED BY <1>1, <2>7
  <2> QED
    BY <1>1, <2>0, <2>1, <2>2, <2>3, <2>4, <2>5, <2>6, <2>7
<1> QED
  BY <1>2, <1>3

(* The offset of an address of the k-th bank of the address space, for     *)
(* banks of n bytes.                                                       *)
LEMMA OffsetOfBank ==
  ASSUME NEW n \in Nat \ {0}, NEW k \in Nat, NEW o \in 0..(n - 1)
  PROVE  (k * n + o) % n = o
<1> DEFINE x == k * n + o
           q == x \div n
           r == x % n
<1>1. x \in Nat
  OBVIOUS
<1>2. q \in Int /\ r \in 0..(n - 1) /\ x = n * q + r
  <2> HIDE DEF x
  <2> QED BY <1>1
<1>3. \A m \in Nat \ {0} : m * n >= n
  OBVIOUS
<1>4. n * q + r = k * n + o
  BY <1>2
<1> HIDE DEF x, q, r
<1>5. (q - k) * n = o - r /\ (k - q) * n = r - o
  BY <1>2, <1>4
<1>6. ~(q > k)
  <2>1. SUFFICES ASSUME q > k PROVE FALSE
    OBVIOUS
  <2>2. q - k \in Nat \ {0}
    BY <2>1, <1>2
  <2>3. (q - k) * n >= n
    BY <2>2, <1>3
  <2> QED
    BY <2>3, <1>2, <1>5
<1>7. ~(q < k)
  <2>1. SUFFICES ASSUME q < k PROVE FALSE
    OBVIOUS
  <2>2. k - q \in Nat \ {0}
    BY <2>1, <1>2
  <2>3. (k - q) * n >= n
    BY <2>2, <1>3
  <2> QED
    BY <2>3, <1>2, <1>5
<1>8. q = k
  BY <1>2, <1>6, <1>7
<1>9. r = o
  BY <1>2, <1>4, <1>8
<1> QED
  BY <1>9 DEF r, x

LEMMA OffsetOfAddress ==
  ASSUME NEW k \in Nat, NEW o \in Offsets
  PROVE  (k * BANK_SIZE + o) % BANK_SIZE = o
  BY OffsetOfBank, BankSizeAssumption DEF Offsets

-----------------------------------------------------------------------------
(* The windows. *)

(* A register stands for a bank that is not bank 0. *)
LEMMA BankForType ==
  ASSUME NEW value
  PROVE  BankFor(value) \in 1..7
<1> DEFINE low == value \cap {0, 1, 2}
<1>1. CASE low = {}
  BY <1>1 DEF BankFor
<1>2. CASE low # {}
  <2>1. 3 \notin low /\ (0 \in low \/ 1 \in low \/ 2 \in low)
    BY <1>2
  <2>2. Value4(low) \in 1..7
    <3> HIDE DEF low
    <3> QED BY <2>1 DEF Value4
  <2> QED
    BY <1>2, <2>2 DEF BankFor
<1> QED
  BY <1>1, <1>2

(* The code finds the bank that the register stands for. *)
LEMMA CurrentBank ==
  get_current_bank_idx = BankFor(SVBK) /\ BankFor(SVBK) \in 1..7
<1> DEFINE low == SVBK \cap {0, 1, 2}
<1>1. BankFor(SVBK) \in 1..7
  BY BankForType
<1>2. bit_slice(2, 0, SVBK) = low
  <2>1. 0..2 = {0, 1, 2} /\ \A b \in low : b - 0 = b
    OBVIOUS
  <2> QED
    BY <2>1 DEF bit_slice, bit_mask
<1>3. get_bank_idx_bits = Value4(low)
  BY <1>2 DEF get_bank_idx_bits
<1>4. CASE low = {}
  <2>1. Value4(low) = 0
    BY <1>4 DEF Value4
  <2> QED
    BY <1>1, <1>3, <1>4, <2>1 DEF get_current_bank_idx, BankFor
<1>5. CASE low # {}
  <2>1. BankFor(SVBK) = Value4(low)
    BY <1>5 DEF BankFor
  <2> HIDE DEF low
  <2> QED
    BY <1>1, <1>3, <2>1 DEF get_current_bank_idx
<1> QED
  BY <1>4, <1>5

(* WRAM0 shows bank 0 and WRAMX the selected one. *)
LEMMA FixedAddress ==
  ASSUME NEW o \in Offsets
  PROVE  calc_phys_addr(WRAM0_BASE_VADDR + o) = Phys(0, o)
<1>1. BANK_SIZE \in Nat \ {0} /\ o \in 0..(BANK_SIZE - 1)
  BY BankSizeAssumption DEF Offsets
<1>2. bank_idx(12 * BANK_SIZE + o) = 0
  BY <1>1 DEF bank_idx, WRAMX_BASE_VADDR
<1>3. (12 * BANK_SIZE + o) % BANK_SIZE = o
  BY OffsetOfAddress
<1> QED
  BY <1>2, <1>3 DEF calc_phys_addr, WRAM0_BASE_VADDR, Phys

LEMMA WindowAddress ==
  ASSUME NEW o \in Offsets
  PROVE  calc_phys_addr(WRAMX_BASE_VADDR + o) = Phys(get_current_bank_idx, o)
<1>1. BANK_SIZE \in Nat \ {0} /\ o \in 0..(BANK_SIZE - 1)
  BY BankSizeAssumption DEF Offsets
<1>2. bank_idx(13 * BANK_SIZE + o) = get_current_bank_idx
  BY <1>1 DEF bank_idx, WRAMX_BASE_VADDR
<1>3. (13 * BANK_SIZE + o) % BANK_SIZE = o
  BY OffsetOfAddress
<1> QED
  BY <1>2, <1>3 DEF calc_phys_addr, WRAMX_BASE_VADDR, Phys

LEMMA InnerAddrSplit ==
  ASSUME NEW a \in InnerAddrs
  PROVE  \E o \in Offsets : a = WRAM0_BASE_VADDR + o \/ a = WRAMX_BASE_VADDR + o
<1>1. BANK_SIZE \in Nat \ {0}
  BY BankSizeAssumption
<1>2. a \in Nat /\ 12 * BANK_SIZE <= a /\ a < 14 * BANK_SIZE
  BY <1>1 DEF InnerAddrs, WRAM0_BASE_VADDR, WRAMX_LAST_VADDR
<1>3. CASE a < 13 * BANK_SIZE
  <2>1. a - 12 * BANK_SIZE \in Offsets /\ a = 12 * BANK_SIZE + (a - 12 * BANK_SIZE)
    BY <1>1, <1>2, <1>3 DEF Offsets
  <2> QED
    BY <2>1 DEF WRAM0_BASE_VADDR
<1>4. CASE a >= 13 * BANK_SIZE
  <2>1. a - 13 * BANK_SIZE \in Offsets /\ a = 13 * BANK_SIZE + (a - 13 * BANK_SIZE)
    BY <1>1, <1>2, <1>4 DEF Offsets
  <2> QED
    BY <2>1 DEF WRAMX_BASE_VADDR
<1> QED
  BY <1>1, <1>2, <1>3, <1>4

(* No inner address leads out of the memory, whatever SVBK holds. *)
LEMMA InnerInMemory ==
  ASSUME NEW a \in InnerAddrs
  PROVE  calc_phys_addr(a) \in 0..(MAX_SIZE - 1)
<1>1. PICK o \in Offsets : a = WRAM0_BASE_VADDR + o \/ a = WRAMX_BASE_VADDR + o
  BY InnerAddrSplit
<1>2. get_current_bank_idx \in 0..7 /\ 0 \in 0..7
  BY CurrentBank
<1>3. Phys(0, o) \in 0..(MAX_SIZE - 1) /\ Phys(get_current_bank_idx, o) \in 0..(MAX_SIZE - 1)
  BY <1>2, PhysInMemory
<1> QED
  BY <1>1, <1>3, FixedAddress, WindowAddress

-----------------------------------------------------------------------------

Typed == memory \in [0..(MAX_SIZE - 1) -> Bytes] /\ SVBK \in Reg8

LEMMA TypedInit == Init => Typed
<1> SUFFICES ASSUME Init PROVE Typed
  OBVIOUS
<1>1. memory \in [0..(MAX_SIZE - 1) -> Bytes]
  BY BlankAssumption DEF Init
<1>2. {} \in Reg8
  BY DEF Reg8
<1> QED
  BY <1>1, <1>2 DEF Typed, Init

LEMMA TypedStep == Typed /\ [Next]_vars => Typed'
<1> SUFFICES ASSUME Typed, [Next]_vars PROVE Typed'
  OBVIOUS
<1>1. ASSUME NEW p \in 0..(MAX_SIZE - 1), NEW v \in Bytes, write_phys_addr(p, v)
      PROVE  Typed'
  BY <1>1 DEF write_phys_addr, Typed
<1>2. ASSUME NEW v \in SVBKValues, set_SVBK_reg(v) PROVE Typed'
  BY <1>2, SVBKAssumption DEF set_SVBK_reg, Typed
<1>3. ASSUME NEW a \in InnerAddrs, NEW v \in Bytes, write_inner_vaddr(a, v) PROVE Typed'
  BY <1>1, <1>3, InnerInMemory DEF write_inner_vaddr
<1>4. ASSUME NEW p \in PhysAddrs, NEW v \in Bytes, write_phys_addr(p, v) PROVE Typed'
  BY <1>1, <1>4, PhysAddrsAssumption
<1>5. ASSUME UNCHANGED vars PROVE Typed'
  BY <1>5 DEF vars, Typed
<1> QED
  BY <1>2, <1>3, <1>4, <1>5 DEF Next

LEMMA TypedCorrect == Spec => []Typed
<1>1. Init => Typed
  BY TypedInit
<1>2. Typed /\ [Next]_vars => Typed'
  BY TypedStep
<1> QED
  BY <1>1, <1>2, PTL DEF Spec

(* Memory and register keep their types, and every inner address always    *)
(* leads into the memory.                                                  *)
THEOREM TypeCorrect == Spec => []TypeOK
<1>1. ASSUME Typed PROVE TypeOK
  <2>1. DOMAIN memory = 0..(MAX_SIZE - 1)
    BY <1>1 DEF Typed
  <2>2. \A a \in InnerAddrs : calc_phys_addr(a) \in DOMAIN memory
    BY <2>1, InnerInMemory
  <2> QED
    BY <1>1, <2>2 DEF TypeOK, Typed
<1>2. Typed => TypeOK
  BY <1>1
<1> QED
  BY <1>2, TypedCorrect, PTL

-----------------------------------------------------------------------------
(* The refinement.  The banks and windows the abstract memory is given.    *)

BankView == [b \in 0..(BANKS - 1) |-> [o \in Offsets |-> memory[b * BANK_SIZE + o]]]
FixedView == [o \in Offsets |-> read_inner_vaddr(WRAM0_BASE_VADDR + o)]
WindowView == [o \in Offsets |-> read_inner_vaddr(WRAMX_BASE_VADDR + o)]

LEMMA BankViewFacts ==
  /\ 0..(BANKS - 1) = 0..7
  /\ BankView = [b \in 0..7 |-> [o \in Offsets |-> memory[Phys(b, o)]]]
<1>1. BANKS - 1 = 7
  BY DEF BANKS
<1> QED
  BY <1>1 DEF BankView, Phys

LEMMA ViewsShow == Banked!Shown
<1>1. ASSUME NEW o \in Offsets
      PROVE  read_inner_vaddr(WRAM0_BASE_VADDR + o) = memory[Phys(0, o)]
  BY FixedAddress DEF read_inner_vaddr, read_phys_addr
<1>2. ASSUME NEW o \in Offsets
      PROVE  read_inner_vaddr(WRAMX_BASE_VADDR + o) = memory[Phys(get_current_bank_idx, o)]
  BY WindowAddress DEF read_inner_vaddr, read_phys_addr
<1>3. get_current_bank_idx \in 0..7 /\ 0 \in 0..7
  BY CurrentBank
<1>4. /\ BankView[0] = [o \in Offsets |-> memory[Phys(0, o)]]
      /\ BankView[get_current_bank_idx] = [o \in Offsets |-> memory[Phys(get_current_bank_idx, o)]]
  BY <1>3, BankViewFacts
<1>5. FixedView = BankView[0] /\ WindowView = BankView[get_current_bank_idx]
  BY <1>1, <1>2, <1>4 DEF FixedView, WindowView
<1> QED
  BY <1>5, CurrentBank DEF Banked!Shown, FixedView, WindowView, BankView

LEMMA ViewInit == Typed => Banked!Init
<1> SUFFICES ASSUME Typed PROVE Banked!Init
  OBVIOUS
<1>1. ASSUME NEW b \in 0..7, NEW o \in Offsets PROVE memory[Phys(b, o)] \in Bytes
  BY PhysInMemory DEF Typed
<1>2. BankView \in [0..7 -> [Offsets -> Bytes]]
  BY <1>1, BankViewFacts
<1>3. BankFor(SVBK) \in (0..7) \ {0}
  BY CurrentBank
<1> QED
  BY <1>2, <1>3, BankViewFacts DEF Banked!Init, BankView

(* A write at a physical address is a write of one byte of one bank.       *)
LEMMA WriteView ==
  ASSUME Typed, NEW b \in 0..7, NEW o \in Offsets, NEW v,
         write_phys_addr(Phys(b, o), v)
  PROVE  Banked!Write(b, o, v)
<1>1. memory' = [memory EXCEPT ![Phys(b, o)] = v] /\ SVBK' = SVBK
  BY DEF write_phys_addr
<1>2. ASSUME NEW c \in 0..7, NEW p \in Offsets
      PROVE  memory'[Phys(c, p)] = IF c = b /\ p = o THEN v ELSE memory[Phys(c, p)]
  <2>1. Phys(c, p) \in DOMAIN memory
    BY PhysInMemory DEF Typed
  <2>2. Phys(c, p) = Phys(b, o) <=> c = b /\ p = o
    BY PhysUnique
  <2> QED
    BY <1>1, <2>1, <2>2
<1> DEFINE Row(c) == [p \in Offsets |-> memory[Phys(c, p)]]
           RowAfter(c) == [p \in Offsets |-> memory'[Phys(c, p)]]
<1>3. ASSUME NEW c \in 0..7
      PROVE  RowAfter(c) = IF c = b THEN [Row(c) EXCEPT ![o] = v] ELSE Row(c)
  BY <1>2
<1>4. BankView = [c \in 0..7 |-> Row(c)]
  BY BankViewFacts
<1>5. BankView' = [c \in 0..7 |-> RowAfter(c)]
  <2>1. 0..(BANKS - 1) = 0..7
    BY BankViewFacts
  <2> QED
    BY <2>1 DEF BankView, Phys
<1>6. BankView' = [BankView EXCEPT ![b] = [BankView[b] EXCEPT ![o] = v]]
  <2>1. BankView[b] = Row(b)
    BY <1>4
  <2> HIDE DEF Row, RowAfter
  <2> QED
    BY <1>3, <1>4, <1>5, <2>1
<1>7. BankFor(SVBK)' = BankFor(SVBK)
  BY <1>1 DEF BankFor
<1> QED
  BY <1>6, <1>7 DEF Banked!Write, BankView

(* Through an inner address it is a write of the byte that its window      *)
(* shows.                                                                  *)
LEMMA InnerWriteView ==
  ASSUME Typed, NEW o \in Offsets, NEW v
  PROVE  /\ write_inner_vaddr(WRAM0_BASE_VADDR + o, v) => Banked!WriteFixed(o, v)
         /\ write_inner_vaddr(WRAMX_BASE_VADDR + o, v) => Banked!WriteWindow(o, v)
<1>1. get_current_bank_idx = BankFor(SVBK) /\ BankFor(SVBK) \in 0..7 /\ 0 \in 0..7
  BY CurrentBank
<1>2. ASSUME write_inner_vaddr(WRAM0_BASE_VADDR + o, v) PROVE Banked!WriteFixed(o, v)
  <2>1. write_phys_addr(Phys(0, o), v)
    BY <1>2, FixedAddress DEF write_inner_vaddr
  <2> QED
    BY <1>1, <2>1, WriteView DEF Banked!WriteFixed
<1>3. ASSUME write_inner_vaddr(WRAMX_BASE_VADDR + o, v) PROVE Banked!WriteWindow(o, v)
  <2>1. write_phys_addr(Phys(BankFor(SVBK), o), v)
    BY <1>1, <1>3, WindowAddress DEF write_inner_vaddr
  <2> QED
    BY <1>1, <2>1, WriteView DEF Banked!WriteWindow
<1> QED
  BY <1>2, <1>3

LEMMA SelectView ==
  ASSUME NEW v, set_SVBK_reg(v)
  PROVE  Banked!Select(BankFor(v)) /\ BankFor(v) \in (0..7) \ {0}
<1>1. memory' = memory /\ SVBK' = v
  BY DEF set_SVBK_reg
<1>2. BankFor(SVBK)' = BankFor(v)
  BY <1>1 DEF BankFor
<1>3. BankFor(v) \in 1..7
  BY BankForType
<1> QED
  BY <1>1, <1>2, <1>3 DEF Banked!Select

(* Every operation is the one on banks that it is meant to be. *)
LEMMA EachOperation == Typed => OperationsAgree
<1> SUFFICES ASSUME Typed PROVE OperationsAgree
  OBVIOUS
<1>1. ASSUME NEW v \in SVBKValues, set_SVBK_reg(v) PROVE Banked!Select(BankFor(v))
  BY <1>1, SelectView
<1>2. ASSUME NEW o \in Offsets, NEW v \in Bytes
      PROVE  /\ write_inner_vaddr(WRAM0_BASE_VADDR + o, v) => Banked!WriteFixed(o, v)
             /\ write_inner_vaddr(WRAMX_BASE_VADDR + o, v) => Banked!WriteWindow(o, v)
  BY InnerWriteView
<1>3. ASSUME NEW b \in 0..(BANKS - 1), NEW o \in Offsets, NEW v \in Bytes,
             write_phys_addr(b * BANK_SIZE + o, v)
      PROVE  Banked!Write(b, o, v)
  <2>1. b \in 0..7 /\ write_phys_addr(Phys(b, o), v)
    BY <1>3, BankViewFacts DEF Phys
  <2> QED
    BY <2>1, WriteView
<1> QED
  BY <1>1, <1>2, <1>3 DEF OperationsAgree

LEMMA StepView == Typed /\ [Next]_vars => [Banked!Next]_(Banked!vars)
<1> SUFFICES ASSUME Typed, [Next]_vars PROVE [Banked!Next]_(Banked!vars)
  OBVIOUS
<1>1. Banked!Shown'
  BY ViewsShow, PTL
<1>2. ASSUME NEW a \in InnerAddrs, NEW v \in Bytes, write_inner_vaddr(a, v)
      PROVE  Banked!Operation
  <2>1. PICK o \in Offsets : a = WRAM0_BASE_VADDR + o \/ a = WRAMX_BASE_VADDR + o
    BY InnerAddrSplit
  <2>2. Banked!WriteFixed(o, v) \/ Banked!WriteWindow(o, v)
    BY <1>2, <2>1, InnerWriteView
  <2> QED
    BY <2>2 DEF Banked!Operation
<1>3. ASSUME NEW p \in PhysAddrs, NEW v \in Bytes, write_phys_addr(p, v)
      PROVE  Banked!Operation
  <2>1. PICK b \in 0..7, o \in Offsets : p = Phys(b, o)
    BY PhysExists, PhysAddrsAssumption
  <2>2. Banked!Write(b, o, v) /\ b \in 0..(BANKS - 1)
    BY <1>3, <2>1, WriteView, BankViewFacts
  <2> QED
    BY <2>2 DEF Banked!Operation
<1>4. ASSUME NEW v \in SVBKValues, set_SVBK_reg(v) PROVE Banked!Operation
  <2>1. Banked!Select(BankFor(v)) /\ BankFor(v) \in (0..(BANKS - 1)) \ {0}
    BY <1>4, SelectView, BankViewFacts
  <2> QED
    BY <2>1 DEF Banked!Operation
<1>5. ASSUME Next PROVE Banked!Operation
  BY <1>2, <1>3, <1>4, <1>5 DEF Next
<1>6. ASSUME UNCHANGED vars PROVE UNCHANGED Banked!vars
  BY <1>6 DEF vars, Banked!vars, get_current_bank_idx, get_bank_idx_bits, read_inner_vaddr,
              read_phys_addr, calc_phys_addr, bank_idx, BankFor
<1> QED
  BY <1>1, <1>5, <1>6 DEF Banked!Next

(* The work RAM implements separate banks, for any bank size: SVBK selects *)
(* the bank it stands for, never bank 0, and no address calculation ever   *)
(* lets a write go anywhere but to the byte its window shows.              *)
THEOREM BankedImplemented == Spec => ImplementsBanked
<1>1. Init => Banked!Init /\ Banked!Shown
  BY TypedInit, ViewInit, ViewsShow
<1>2. Typed /\ [Next]_vars => [Banked!Next]_(Banked!vars)
  BY StepView
<1>3. Typed /\ [Next]_vars => [OperationsAgree]_vars
  BY EachOperation
<1> QED
  BY <1>1, <1>2, <1>3, TypedCorrect, PTL DEF Spec, ImplementsBanked, Banked!Spec

-----------------------------------------------------------------------------
(* The video RAM.  Its memories are buffers: what is proved of buffers     *)
(* holds of them.                                                          *)

VRAM_MAX_SIZE == 2 * VRAM_BANK_SIZE

D == INSTANCE DBufferProofs WITH Objs <- Devices, MaxLen <- VRAM_MAX_SIZE

(* A memory has all of its bytes or none, and a register one bit.          *)
WholeOrNone ==
  \A d \in Devices : D!ValView[d] = <<>> \/ D!ValView[d] \in [1..VRAM_MAX_SIZE -> Bytes]

VInv ==
  /\ D!IInv
  /\ VBK \in [Devices -> {{}, {0}}]
  /\ WholeOrNone

LEMMA BufferAssumptions == D!MaxLenAssumption /\ D!NullAssumption /\ D!FailAssumption
<1>1. VRAM_MAX_SIZE \in Nat
  BY VRAMBankSizeAssumption DEF VRAM_MAX_SIZE
<1> QED
  BY <1>1, NullAssumption, FailAssumption
     DEF D!MaxLenAssumption, D!NullAssumption, D!FailAssumption

LEMMA Sizes ==
  /\ VRAM_BANK_SIZE \in Nat \ {0}
  /\ VRAM_MAX_SIZE = 2 * VRAM_BANK_SIZE /\ VRAM_MAX_SIZE \in Nat \ {0}
  /\ V!VRAM_MAX_SIZE = VRAM_MAX_SIZE
  BY VRAMBankSizeAssumption DEF VRAM_MAX_SIZE, V!VRAM_MAX_SIZE

(* The buffers of the devices are those that the lemmas speak of.          *)
LEMMA SameBytes == \A d : V!M!BytesOf(d) = D!BytesOf(d)
  BY DEF V!M!BytesOf, D!BytesOf

LEMMA SameTypes == V!M!TypeOK <=> D!TypeOK
  BY Sizes DEF V!M!TypeOK, D!TypeOK, V!M!Contents, D!Contents

LEMMA SameInit == V!M!Init <=> D!Init
  BY DEF V!M!Init, D!Init

LEMMA SameConstructors ==
  /\ \A d, n : V!M!ConstructSized(d, n) <=> D!ConstructSized(d, n)
  /\ \A d, s : V!M!CopyConstruct(d, s) <=> D!CopyConstruct(d, s)
  /\ \A d, s : V!M!MoveConstruct(d, s) <=> D!MoveConstruct(d, s)
<1> USE DEF V!M!Allocate, D!Allocate, V!M!store, D!store
<1>1. \A d, n : V!M!ConstructSized(d, n) <=> D!ConstructSized(d, n)
  BY DEF V!M!ConstructSized, D!ConstructSized
<1>2. \A d, s : V!M!CopyConstruct(d, s) <=> D!CopyConstruct(d, s)
  BY SameBytes DEF V!M!CopyConstruct, D!CopyConstruct, V!M!Usable, D!Usable, V!M!IsTorn, D!IsTorn
<1>3. \A d, s : V!M!MoveConstruct(d, s) <=> D!MoveConstruct(d, s)
  BY DEF V!M!MoveConstruct, D!MoveConstruct
<1> QED
  BY <1>1, <1>2, <1>3

LEMMA SameAssignments ==
  /\ \A d, s : V!M!CopyAssign(d, s) <=> D!CopyAssign(d, s)
  /\ \A d, s : V!M!FailedCopyAssign(d, s) <=> D!FailedCopyAssign(d, s)
  /\ \A d, s : V!M!MoveAssign(d, s) <=> D!MoveAssign(d, s)
<1> USE DEF V!M!store, D!store, V!M!Usable, D!Usable, V!M!IsTorn, D!IsTorn, V!M!BlockOf, D!BlockOf
<1>1. \A d, s : V!M!CopyAssign(d, s) <=> D!CopyAssign(d, s)
  BY SameBytes DEF V!M!CopyAssign, D!CopyAssign, V!M!Allocate, D!Allocate
<1>2. \A d, s : V!M!FailedCopyAssign(d, s) <=> D!FailedCopyAssign(d, s)
  BY DEF V!M!FailedCopyAssign, D!FailedCopyAssign, V!M!Release, D!Release
<1>3. \A d, s : V!M!MoveAssign(d, s) <=> D!MoveAssign(d, s)
  BY DEF V!M!MoveAssign, D!MoveAssign
<1> QED
  BY <1>1, <1>2, <1>3

LEMMA SameRest ==
  /\ \A d : V!M!Destroy(d) <=> D!Destroy(d)
  /\ \A d, i, v : V!M!Write(d, i, v) <=> D!Write(d, i, v)
<1>1. \A d : V!M!Destroy(d) <=> D!Destroy(d)
  BY DEF V!M!Destroy, D!Destroy, V!M!Release, D!Release, V!M!BlockOf, D!BlockOf
<1>2. \A d, i, v : V!M!Write(d, i, v) <=> D!Write(d, i, v)
  BY DEF V!M!Write, D!Write, V!M!Usable, D!Usable, V!M!IsTorn, D!IsTorn
<1> QED
  BY <1>1, <1>2

-----------------------------------------------------------------------------
(* Addresses of the video RAM.                                             *)

(* Number of the bank that VBK selects. *)
SelectedBank(r) == IF r = {} THEN 0 ELSE 1

(* The place in the bytes of a memory, which count from 1, of offset o of  *)
(* bank b.                                                                 *)
Place(b, o) == b * VRAM_BANK_SIZE + o + 1

LEMMA PlaceFacts ==
  ASSUME NEW b \in {0, 1}, NEW o \in V!Offsets
  PROVE  /\ Place(b, o) \in 1..VRAM_MAX_SIZE
         /\ \A c \in {0, 1}, p \in V!Offsets : Place(b, o) = Place(c, p) => b = c /\ o = p
  BY Sizes DEF Place, V!Offsets

LEMMA PlaceExists ==
  ASSUME NEW p \in 0..(VRAM_MAX_SIZE - 1)
  PROVE  \E b \in {0, 1}, o \in V!Offsets : p + 1 = Place(b, o)
<1>1. CASE p < VRAM_BANK_SIZE
  <2>1. p \in V!Offsets /\ p + 1 = Place(0, p)
    BY <1>1, Sizes DEF Place, V!Offsets
  <2> QED
    BY <2>1
<1>2. CASE p >= VRAM_BANK_SIZE
  <2>1. p - VRAM_BANK_SIZE \in V!Offsets /\ p + 1 = Place(1, p - VRAM_BANK_SIZE)
    BY <1>2, Sizes DEF Place, V!Offsets
  <2> QED
    BY <2>1
<1> QED
  BY <1>1, <1>2, Sizes

(* An offset in the window is that offset of the selected bank. *)
LEMMA VRAMWindow ==
  ASSUME NEW d \in Devices, VBK[d] \in {{}, {0}}, NEW o \in V!Offsets
  PROVE  V!calc_phys_addr(d, 4 * VRAM_BANK_SIZE + o) + 1 = Place(SelectedBank(VBK[d]), o)
<1>1. VRAM_BANK_SIZE \in Nat \ {0} /\ o \in 0..(VRAM_BANK_SIZE - 1)
  BY Sizes DEF V!Offsets
<1>2. (4 * VRAM_BANK_SIZE + o) % VRAM_BANK_SIZE = o
  BY <1>1, OffsetOfBank
<1>3. V!bit_n(0, VBK[d]) <=> VBK[d] = {0}
  BY DEF V!bit_n
<1>4. CASE VBK[d] = {}
  <2>1. V!calc_phys_addr(d, 4 * VRAM_BANK_SIZE + o) = 0 + o
    BY <1>2, <1>3, <1>4 DEF V!calc_phys_addr
  <2> QED
    BY <1>1, <1>4, <2>1 DEF Place, SelectedBank
<1>5. CASE VBK[d] = {0}
  <2>1. V!calc_phys_addr(d, 4 * VRAM_BANK_SIZE + o) = VRAM_BANK_SIZE + o
    BY <1>2, <1>3, <1>5 DEF V!calc_phys_addr
  <2> QED
    BY <1>1, <1>5, <2>1 DEF Place, SelectedBank
<1> QED
  BY <1>4, <1>5

LEMMA VRAMAddress ==
  ASSUME NEW d \in Devices, NEW a \in V!InnerAddrs
  PROVE  V!calc_phys_addr(d, a) \in 0..(VRAM_MAX_SIZE - 1)
<1>1. VRAM_BANK_SIZE \in Nat \ {0} /\ a \in Nat
  BY Sizes DEF V!InnerAddrs
<1>2. a % VRAM_BANK_SIZE \in 0..(VRAM_BANK_SIZE - 1)
  BY <1>1
<1> QED
  BY <1>1, <1>2, Sizes DEF V!calc_phys_addr

-----------------------------------------------------------------------------
(* A step of the video RAM is a step of the buffers.                       *)

LEMMA IsBufferStep == [V!Next]_(V!vars) => [D!Next]_(D!vars)
<1> SUFFICES ASSUME [V!Next]_(V!vars) PROVE [D!Next]_(D!vars)
  OBVIOUS
<1> USE SameConstructors, SameAssignments, SameRest, Sizes
<1>1. CASE UNCHANGED V!vars
  BY <1>1 DEF V!vars, V!memory_vars, D!vars
<1>2. CASE V!Next
  <2>1. PICK d \in Devices :
          \/ V!Construct(d)
          \/ V!Destroy(d)
          \/ \E v \in VBKValues : V!set_VBK_reg(d, v)
          \/ \E a \in V!InnerAddrs, v \in Bytes : V!write_inner_vaddr(d, a, v)
          \/ \E p \in 0..(V!VRAM_MAX_SIZE - 1), v \in Bytes : V!write_phys_addr(d, p, v)
          \/ \E s \in Devices :
               \/ V!CopyConstruct(d, s)
               \/ V!MoveConstruct(d, s)
               \/ V!CopyAssign(d, s)
               \/ V!FailedCopyAssign(d, s)
               \/ V!MoveAssign(d, s)
    BY <1>2 DEF V!Next
  <2>2. ASSUME V!Construct(d) PROVE D!Next
    <3>1. D!ConstructSized(d, VRAM_MAX_SIZE) /\ VRAM_MAX_SIZE \in 0..VRAM_MAX_SIZE
      BY <2>2 DEF V!Construct
    <3> QED
      BY <3>1 DEF D!Next
  <2>3. ASSUME V!Destroy(d) PROVE D!Next
    BY <2>3 DEF V!Destroy, D!Next
  <2>4. ASSUME NEW v, V!set_VBK_reg(d, v) PROVE UNCHANGED D!vars
    BY <2>4 DEF V!set_VBK_reg, V!memory_vars, D!vars
  <2>5. ASSUME NEW p \in 0..(VRAM_MAX_SIZE - 1), NEW v \in Bytes, V!write_phys_addr(d, p, v)
        PROVE  D!Next
    <3>1. D!Write(d, p + 1, v) /\ p + 1 \in 1..VRAM_MAX_SIZE
      BY <2>5 DEF V!write_phys_addr
    <3> QED
      BY <3>1 DEF D!Next
  <2>6. ASSUME NEW a \in V!InnerAddrs, NEW v \in Bytes, V!write_inner_vaddr(d, a, v)
        PROVE  D!Next
    BY <2>5, <2>6, VRAMAddress DEF V!write_inner_vaddr
  <2>7. ASSUME NEW s \in Devices,
               \/ V!CopyConstruct(d, s)
               \/ V!MoveConstruct(d, s)
               \/ V!CopyAssign(d, s)
               \/ V!FailedCopyAssign(d, s)
               \/ V!MoveAssign(d, s)
        PROVE  D!Next
    <3>1. \/ D!CopyConstruct(d, s)
          \/ D!MoveConstruct(d, s)
          \/ D!CopyAssign(d, s)
          \/ D!FailedCopyAssign(d, s)
          \/ D!MoveAssign(d, s)
      BY <2>7 DEF V!CopyConstruct, V!MoveConstruct, V!CopyAssign, V!FailedCopyAssign,
                  V!MoveAssign
    <3> QED
      BY <3>1 DEF D!Next
  <2> QED
    BY <2>1, <2>2, <2>3, <2>4, <2>5, <2>6, <2>7
<1> QED
  BY <1>1, <1>2

-----------------------------------------------------------------------------
(* What a step does to the bytes of the devices.                           *)

LEMMA ViewOfBytes ==
  ASSUME NEW d \in Devices
  PROVE  D!ValView[d] = D!BytesOf(d) /\ (V!HasMemory(d) <=> D!ValView[d] # <<>>)
  BY SameBytes DEF D!ValView, V!HasMemory

LEMMA ConstructBytes ==
  ASSUME VInv, NEW d \in Devices, V!Construct(d)
  PROVE  /\ d \notin alive /\ alive' = alive \cup {d}
         /\ VBK' = [VBK EXCEPT ![d] = {}]
         /\ \E c \in [1..VRAM_MAX_SIZE -> Bytes] : D!ValView' = [D!ValView EXCEPT ![d] = c]
<1>1. D!ConstructSized(d, VRAM_MAX_SIZE) /\ VBK' = [VBK EXCEPT ![d] = {}]
  BY SameConstructors, Sizes DEF V!Construct
<1>2. PICK c \in [1..VRAM_MAX_SIZE -> Bytes] : D!Allocate(d, {}, c)
  BY <1>1, Sizes DEF D!ConstructSized
<1>3. c \in D!Contents /\ Len(c) = VRAM_MAX_SIZE
  <2>1. VRAM_MAX_SIZE \in 0..VRAM_MAX_SIZE
    BY Sizes
  <2> QED
    BY <2>1, BufferAssumptions, D!ContentMade
<1>4. D!Values!Construct(d, c)
  BY <1>1, <1>2, <1>3, BufferAssumptions, D!NewWithBlockView DEF VInv, D!ConstructSized
<1> QED
  BY <1>1, <1>4 DEF D!Values!Construct, D!ValView

(* A copy has the bytes of its source and its register. *)
LEMMA CopyBytes ==
  ASSUME VInv, NEW d \in Devices, NEW s \in Devices, V!CopyConstruct(d, s) \/ V!CopyAssign(d, s)
  PROVE  /\ s \in alive /\ alive' = alive \cup {d}
         /\ VBK' = [VBK EXCEPT ![d] = VBK[s]]
         /\ D!ValView' = [D!ValView EXCEPT ![d] = D!ValView[s]]
<1>1. VBK' = [VBK EXCEPT ![d] = VBK[s]]
  BY DEF V!CopyConstruct, V!CopyAssign, V!CopyRegisters
<1>2. CASE D!CopyConstruct(d, s)
  <2>1. D!Values!CopyConstruct(d, s)
    BY <1>2, BufferAssumptions, D!CopyConstructView DEF VInv
  <2> QED
    BY <1>1, <2>1 DEF D!Values!CopyConstruct, D!Values!Construct, D!Values!usable, D!ValView
<1>3. CASE D!CopyAssign(d, s)
  <2>1. d \in alive /\ D!Usable(s) /\ s \in alive /\ alive' = alive
    BY <1>3 DEF D!CopyAssign, D!Usable
  <2>2. CASE d = s /\ UNCHANGED <<data, len, D!store>>
    <3>1. D!ValView' = D!ValView
      BY <2>2 DEF D!ValView, D!BytesOf, D!store
    <3>2. D!ValView = [D!ValView EXCEPT ![d] = D!ValView[d]]
      BY DEF D!ValView
    <3> QED
      BY <1>1, <2>1, <2>2, <3>1, <3>2
  <2>3. CASE /\ len' = [len EXCEPT ![d] = len[s]]
             /\ D!Allocate(d, D!BlockOf(d), D!BytesOf(s))
    <3>1. D!BytesOf(s) \in D!Contents /\ Len(D!BytesOf(s)) = len[s]
      BY <2>1, BufferAssumptions, D!BytesFit DEF VInv
    <3>2. D!ValView' = [D!ValView EXCEPT ![d] = D!BytesOf(s)]
      BY <2>3, <3>1, BufferAssumptions, D!AllocateView DEF VInv
    <3> QED
      BY <1>1, <2>1, <3>2, ViewOfBytes
  <2> QED
    BY <1>3, <2>2, <2>3 DEF D!CopyAssign
<1> QED
  BY <1>2, <1>3, SameConstructors, SameAssignments DEF V!CopyConstruct, V!CopyAssign

(* An assignment that throws leaves no bytes. *)
LEMMA FailedCopyBytes ==
  ASSUME VInv, NEW d \in Devices, NEW s \in Devices, V!FailedCopyAssign(d, s)
  PROVE  /\ AllocMayFail /\ d # s /\ d \in alive /\ s \in alive /\ alive' = alive
         /\ VBK' = VBK
         /\ D!ValView' = [D!ValView EXCEPT ![d] = <<>>]
<1>1. D!FailedCopyAssign(d, s) /\ VBK' = VBK
  BY SameAssignments DEF V!FailedCopyAssign
<1>2. D!Values!FailedCopyAssign(d, s)
  BY <1>1, BufferAssumptions, D!FailedCopyAssignView DEF VInv
<1> QED
  BY <1>1, <1>2 DEF D!Values!FailedCopyAssign, D!Values!usable, D!ValView

(* What moves are the bytes; the register is copied. *)
LEMMA MoveBytes ==
  ASSUME VInv, NEW d \in Devices, NEW s \in Devices, d # s,
         V!MoveConstruct(d, s) \/ V!MoveAssign(d, s)
  PROVE  /\ s \in alive /\ alive' = alive \cup {d}
         /\ VBK' = [VBK EXCEPT ![d] = VBK[s]]
         /\ D!ValView' = [D!ValView EXCEPT ![d] = D!ValView[s], ![s] = <<>>]
<1>1. VBK' = [VBK EXCEPT ![d] = VBK[s]]
  BY DEF V!MoveConstruct, V!MoveAssign, V!CopyRegisters
<1>2. CASE D!MoveConstruct(d, s)
  <2>1. D!Values!MoveConstruct(d, s)
    BY <1>2, BufferAssumptions, D!MoveConstructView DEF VInv
  <2> QED
    BY <1>1, <2>1 DEF D!Values!MoveConstruct, D!Values!Move, D!ValView
<1>3. CASE D!MoveAssign(d, s)
  <2>1. d \in alive /\ s \in alive /\ alive' = alive
    BY <1>3 DEF D!MoveAssign
  <2>2. D!Values!Move(d, s)
    <3>1. alive' = alive \cup {d}
      BY <2>1
    <3> QED
      BY <1>3, <2>1, <3>1, BufferAssumptions, D!MovedView DEF VInv, D!MoveAssign
  <2> QED
    BY <1>1, <2>1, <2>2 DEF D!Values!Move, D!ValView
<1> QED
  BY <1>2, <1>3, SameConstructors, SameAssignments DEF V!MoveConstruct, V!MoveAssign

LEMMA DestroyBytes ==
  ASSUME VInv, NEW d \in Devices, V!Destroy(d)
  PROVE  /\ d \in alive /\ alive' = alive \ {d}
         /\ VBK' = [VBK EXCEPT ![d] = {}]
         /\ D!ValView' = [D!ValView EXCEPT ![d] = <<>>]
<1>1. D!Destroy(d) /\ VBK' = [VBK EXCEPT ![d] = {}]
  BY SameRest DEF V!Destroy
<1>2. D!Values!Destroy(d)
  BY <1>1, BufferAssumptions, D!DestroyView DEF VInv
<1> QED
  BY <1>1, <1>2 DEF D!Values!Destroy, D!ValView

LEMMA WriteBytes ==
  ASSUME VInv, NEW d \in Devices, NEW p \in 0..(VRAM_MAX_SIZE - 1), NEW v \in Bytes,
         V!write_phys_addr(d, p, v)
  PROVE  /\ d \in alive /\ alive' = alive /\ VBK' = VBK
         /\ D!ValView[d] # <<>>
         /\ D!ValView' = [D!ValView EXCEPT ![d] = [D!ValView[d] EXCEPT ![p + 1] = v]]
<1>1. D!Write(d, p + 1, v) /\ VBK' = VBK /\ V!HasMemory(d)
  BY SameRest DEF V!write_phys_addr
<1>2. p + 1 \in 1..VRAM_MAX_SIZE
  BY Sizes
<1>3. D!Values!Write(d, p + 1, v)
  BY <1>1, <1>2, BufferAssumptions, D!WriteByteView DEF VInv
<1>4. D!ValView' = [D!ValView EXCEPT ![d] = [D!ValView[d] EXCEPT ![p + 1] = v]]
  BY <1>3 DEF D!Values!Write, D!ValView
<1> QED
  BY <1>1, <1>4, ViewOfBytes DEF D!Write, D!Usable

LEMMA SelfMove ==
  ASSUME NEW d \in Devices, V!MoveConstruct(d, d) \/ V!MoveAssign(d, d)
  PROVE  UNCHANGED V!memory_vars
  BY DEF V!MoveConstruct, V!MoveAssign, V!M!MoveConstruct, V!M!MoveAssign, V!M!store,
         V!memory_vars

-----------------------------------------------------------------------------
(* The invariant of the video RAM.                                         *)

LEMMA VInvInit == V!Init => VInv
<1> SUFFICES ASSUME V!Init PROVE VInv
  OBVIOUS
<1>1. D!Init /\ VBK = [d \in Devices |-> {}]
  BY SameInit DEF V!Init
<1>2. D!IInv
  BY <1>1, BufferAssumptions, D!InvInit
<1>3. \A d \in Devices : D!ValView[d] = <<>>
  BY <1>1 DEF D!Init, D!ValView, D!BytesOf
<1> QED
  BY <1>1, <1>2, <1>3 DEF VInv, WholeOrNone

(* Bytes c are put in place of those of one device. *)
LEMMA WholeKept ==
  ASSUME WholeOrNone, NEW d \in Devices, NEW c,
         c = <<>> \/ c \in [1..VRAM_MAX_SIZE -> Bytes],
         D!ValView' = [D!ValView EXCEPT ![d] = c]
  PROVE  WholeOrNone'
<1>1. \A e \in Devices : D!ValView'[e] = IF e = d THEN c ELSE D!ValView[e]
  BY DEF D!ValView
<1> QED
  BY <1>1 DEF WholeOrNone

LEMMA WholeStep == VInv /\ [V!Next]_(V!vars) => WholeOrNone'
<1> SUFFICES ASSUME VInv, [V!Next]_(V!vars) PROVE WholeOrNone'
  OBVIOUS
<1> USE DEF VInv
<1>1. ASSUME UNCHANGED V!memory_vars PROVE WholeOrNone'
  <2>1. D!ValView' = D!ValView
    BY <1>1 DEF V!memory_vars, D!ValView, D!BytesOf
  <2> QED
    BY <2>1 DEF WholeOrNone
<1>2. ASSUME NEW d \in Devices, V!Construct(d) PROVE WholeOrNone'
  BY <1>2, ConstructBytes, WholeKept
<1>3. ASSUME NEW d \in Devices, V!Destroy(d) PROVE WholeOrNone'
  BY <1>3, DestroyBytes, WholeKept
<1>4. ASSUME NEW d \in Devices, NEW v, V!set_VBK_reg(d, v) PROVE WholeOrNone'
  BY <1>4, <1>1 DEF V!set_VBK_reg
<1>5. ASSUME NEW d \in Devices, NEW p \in 0..(VRAM_MAX_SIZE - 1), NEW v \in Bytes,
             V!write_phys_addr(d, p, v)
      PROVE  WholeOrNone'
  <2>1. D!ValView[d] \in [1..VRAM_MAX_SIZE -> Bytes]
    BY <1>5, WriteBytes DEF WholeOrNone
  <2>2. [D!ValView[d] EXCEPT ![p + 1] = v] \in [1..VRAM_MAX_SIZE -> Bytes]
    BY <2>1
  <2>3. D!ValView' = [D!ValView EXCEPT ![d] = [D!ValView[d] EXCEPT ![p + 1] = v]]
    BY <1>5, WriteBytes
  <2> HIDE DEF VInv
  <2> QED
    BY <2>2, <2>3, WholeKept DEF VInv
<1>6. ASSUME NEW d \in Devices, NEW a \in V!InnerAddrs, NEW v \in Bytes,
             V!write_inner_vaddr(d, a, v)
      PROVE  WholeOrNone'
  BY <1>5, <1>6, VRAMAddress DEF V!write_inner_vaddr
<1>7. ASSUME NEW d \in Devices, NEW s \in Devices, V!CopyConstruct(d, s) \/ V!CopyAssign(d, s)
      PROVE  WholeOrNone'
  <2>1. D!ValView[s] = <<>> \/ D!ValView[s] \in [1..VRAM_MAX_SIZE -> Bytes]
    BY DEF WholeOrNone
  <2> QED
    BY <1>7, <2>1, CopyBytes, WholeKept
<1>8. ASSUME NEW d \in Devices, NEW s \in Devices, V!FailedCopyAssign(d, s)
      PROVE  WholeOrNone'
  BY <1>8, FailedCopyBytes, WholeKept
<1>9. ASSUME NEW d \in Devices, NEW s \in Devices, V!MoveConstruct(d, s) \/ V!MoveAssign(d, s)
      PROVE  WholeOrNone'
  <2>1. CASE d = s
    BY <1>9, <2>1, <1>1, SelfMove
  <2>2. CASE d # s
    <3>1. D!ValView' = [D!ValView EXCEPT ![d] = D!ValView[s], ![s] = <<>>]
      BY <1>9, <2>2, MoveBytes
    <3>2. \A e \in Devices : D!ValView'[e] = IF e = s THEN <<>>
                                             ELSE IF e = d THEN D!ValView[s] ELSE D!ValView[e]
      BY <3>1 DEF D!ValView
    <3> QED
      BY <3>2 DEF WholeOrNone
  <2> QED
    BY <2>1, <2>2
<1> QED
  BY <1>1, <1>2, <1>3, <1>4, <1>5, <1>6, <1>7, <1>8, <1>9, Sizes DEF V!Next, V!vars

LEMMA RegisterStep == VInv /\ [V!Next]_(V!vars) => (VBK \in [Devices -> {{}, {0}}])'
<1> SUFFICES ASSUME VInv, [V!Next]_(V!vars) PROVE VBK' \in [Devices -> {{}, {0}}]
  OBVIOUS
<1>1. VBK \in [Devices -> {{}, {0}}]
  BY DEF VInv
<1>2. ASSUME NEW d \in Devices,
             V!Construct(d) \/ V!Destroy(d) \/ \E v \in VBKValues : V!set_VBK_reg(d, v)
      PROVE  VBK' \in [Devices -> {{}, {0}}]
  BY <1>1, <1>2 DEF V!Construct, V!Destroy, V!set_VBK_reg
<1>3. ASSUME NEW d \in Devices, NEW p, NEW v, V!write_phys_addr(d, p, v)
      PROVE  VBK' \in [Devices -> {{}, {0}}]
  BY <1>1, <1>3 DEF V!write_phys_addr
<1>4. ASSUME NEW d \in Devices, NEW s \in Devices,
             \/ V!CopyConstruct(d, s) \/ V!MoveConstruct(d, s)
             \/ V!CopyAssign(d, s) \/ V!MoveAssign(d, s)
      PROVE  VBK' \in [Devices -> {{}, {0}}]
  <2>1. V!CopyRegisters(d, s)
    BY <1>4 DEF V!CopyConstruct, V!MoveConstruct, V!CopyAssign, V!MoveAssign
  <2> QED
    BY <1>1, <2>1 DEF V!CopyRegisters
<1>5. ASSUME NEW d \in Devices, NEW s \in Devices, V!FailedCopyAssign(d, s)
      PROVE  VBK' \in [Devices -> {{}, {0}}]
  BY <1>1, <1>5 DEF V!FailedCopyAssign
<1>6. ASSUME UNCHANGED V!vars PROVE VBK' \in [Devices -> {{}, {0}}]
  BY <1>1, <1>6 DEF V!vars
<1> QED
  BY <1>2, <1>3, <1>4, <1>5, <1>6 DEF V!Next, V!write_inner_vaddr

LEMMA VInvStep == VInv /\ [V!Next]_(V!vars) => VInv'
<1>1. D!IInv /\ [D!Next]_(D!vars) => D!IInv'
  BY BufferAssumptions, D!InvStep
<1> QED
  BY <1>1, IsBufferStep, WholeStep, RegisterStep DEF VInv

LEMMA VInvCorrect == V!Spec => []VInv
<1>1. V!Init => VInv
  BY VInvInit
<1>2. VInv /\ [V!Next]_(V!vars) => VInv'
  BY VInvStep
<1> QED
  BY <1>1, <1>2, PTL DEF V!Spec

LEMMA VRAMTypes == VInv => V!TypeOK
<1> SUFFICES ASSUME VInv PROVE V!TypeOK
  OBVIOUS
<1>1. V!M!TypeOK
  BY SameTypes DEF VInv, D!IInv
<1>2. VBK \in [Devices -> {{}, {0}}]
  BY DEF VInv
<1>3. ASSUME NEW d \in Devices PROVE V!get_VBK_reg(d) \in {0..7, 1..7}
  <2>1. V!get_VBK_reg(d) = VBK[d] \cup 1..7
    BY DEF V!get_VBK_reg, V!RESERVED_BITS, V!bit_mask
  <2>2. VBK[d] = {} \/ VBK[d] = {0}
    BY <1>2
  <2>3. {} \cup 1..7 = 1..7 /\ {0} \cup 1..7 = 0..7
    OBVIOUS
  <2> QED
    BY <2>1, <2>2, <2>3
<1>4. ASSUME NEW d \in Devices, V!HasMemory(d), NEW a \in V!InnerAddrs
      PROVE  V!calc_phys_addr(d, a) + 1 \in DOMAIN V!M!BytesOf(d)
  <2>1. D!ValView[d] \in [1..VRAM_MAX_SIZE -> Bytes]
    BY <1>4, ViewOfBytes DEF VInv, WholeOrNone
  <2>2. DOMAIN V!M!BytesOf(d) = 1..VRAM_MAX_SIZE
    BY <2>1, ViewOfBytes, SameBytes
  <2>3. V!calc_phys_addr(d, a) + 1 \in 1..VRAM_MAX_SIZE
    BY VRAMAddress, Sizes
  <2> QED
    BY <2>2, <2>3
<1> QED
  BY <1>1, <1>2, <1>3, <1>4 DEF V!TypeOK

-----------------------------------------------------------------------------
(* The refinement.  A device is what its bytes and its register make it.   *)

BanksOf(c) == [b \in {0, 1} |-> [o \in V!Offsets |-> c[Place(b, o)]]]

Image(c, r) == V!Independent!Showing(BanksOf(c), SelectedBank(r))

(* What a program sees of a variable, constructed or not, with bytes c and *)
(* register r.                                                             *)
StateOf(live, c, r) == IF ~ live THEN Absent ELSE IF c # <<>> THEN Image(c, r) ELSE Hollow

DevView == [d \in Devices |->
  IF d \notin alive THEN Absent ELSE IF V!HasMemory(d) THEN V!Device(d) ELSE Hollow]

LEMMA DeviceImage ==
  ASSUME VInv, NEW d \in Devices
  PROVE  V!Device(d) = Image(D!ValView[d], VBK[d])
<1> DEFINE c == D!ValView[d]
           k == SelectedBank(VBK[d])
<1>1. VBK[d] \in {{}, {0}} /\ k \in {0, 1}
  BY DEF VInv, SelectedBank
<1>2. ASSUME NEW b \in {0, 1}, NEW o \in V!Offsets
      PROVE  V!read_phys_addr(d, b * VRAM_BANK_SIZE + o) = c[Place(b, o)]
  BY ViewOfBytes, SameBytes DEF V!read_phys_addr, Place
<1>3. ASSUME NEW o \in V!Offsets
      PROVE  V!read_inner_vaddr(d, 4 * VRAM_BANK_SIZE + o) = c[Place(k, o)]
  BY <1>1, ViewOfBytes, SameBytes, VRAMWindow DEF V!read_inner_vaddr, V!read_phys_addr
<1> HIDE DEF c
<1>4. [b \in {0, 1} |-> [o \in V!Offsets |-> V!read_phys_addr(d, b * VRAM_BANK_SIZE + o)]]
        = BanksOf(c)
  BY <1>2 DEF BanksOf
<1>5. BanksOf(c)[k] = [o \in V!Offsets |-> c[Place(k, o)]]
  BY <1>1 DEF BanksOf
<1>6. [o \in V!Offsets |-> V!read_inner_vaddr(d, 4 * VRAM_BANK_SIZE + o)] = BanksOf(c)[k]
  BY <1>3, <1>5
<1>7. k = IF VBK[d] = {} THEN 0 ELSE 1
  BY DEF SelectedBank
<1> HIDE DEF k
<1> QED
  BY <1>4, <1>6, <1>7 DEF V!Device, Image, V!Independent!Showing, c, k

LEMMA DevIs ==
  VInv => DevView = [d \in Devices |-> StateOf(d \in alive, D!ValView[d], VBK[d])]
<1> SUFFICES ASSUME VInv
             PROVE  DevView = [d \in Devices |-> StateOf(d \in alive, D!ValView[d], VBK[d])]
  OBVIOUS
<1>1. ASSUME NEW d \in Devices
      PROVE  (IF d \notin alive THEN Absent ELSE IF V!HasMemory(d) THEN V!Device(d) ELSE Hollow)
               = StateOf(d \in alive, D!ValView[d], VBK[d])
  BY DeviceImage, ViewOfBytes DEF StateOf
<1> QED
  BY <1>1 DEF DevView

(* The two ways to name a device, before and after a step. *)
LEMMA DevStates ==
  ASSUME VInv, VInv'
  PROVE  /\ \A d \in Devices : DevView[d] = StateOf(d \in alive, D!ValView[d], VBK[d])
         /\ \A d \in Devices : DevView'[d] = StateOf(d \in alive', D!ValView'[d], VBK'[d])
<1>1. VInv' => (DevView = [d \in Devices |-> StateOf(d \in alive, D!ValView[d], VBK[d])])'
  BY DevIs, PTL
<1>2. DevView' = [d \in Devices |-> StateOf(d \in alive', D!ValView'[d], VBK'[d])]
  BY <1>1
<1> QED
  BY <1>2, DevIs

(* Memories are told from variables without one. *)
LEMMA StatesDiffer ==
  ASSUME NEW c \in [1..VRAM_MAX_SIZE -> Bytes], NEW r
  PROVE  /\ BanksOf(c) \in [{0, 1} -> [V!Offsets -> Bytes]]
         /\ Image(c, r) \notin {Absent, Hollow}
         /\ Absent # Hollow
<1>1. BanksOf(c) \in [{0, 1} -> [V!Offsets -> Bytes]]
  BY PlaceFacts DEF BanksOf
<1>2. SelectedBank(r) \in {0, 1}
  BY DEF SelectedBank
<1>3. Image(c, r) \in [bank : [{0, 1} -> [V!Offsets -> Bytes]], selected : {0, 1},
                       window : [V!Offsets -> Bytes]]
  BY <1>1, <1>2 DEF Image, V!Independent!Showing
<1> QED
  BY <1>1, <1>3, StatesAssumption DEF V!Offsets

LEMMA StateFacts ==
  ASSUME VInv, NEW d \in Devices
  PROVE  /\ DevView[d] = Absent <=> d \notin alive
         /\ DevView[d] \notin {Absent, Hollow} <=> d \in alive /\ D!ValView[d] # <<>>
<1>1. D!ValView[d] # <<>> => D!ValView[d] \in [1..VRAM_MAX_SIZE -> Bytes]
  BY DEF VInv, WholeOrNone
<1>2. DevView[d] = StateOf(d \in alive, D!ValView[d], VBK[d])
  BY DevIs
<1> QED
  BY <1>1, <1>2, StatesDiffer, StatesAssumption DEF StateOf

LEMMA BytesNotEmpty ==
  ASSUME NEW c \in [1..VRAM_MAX_SIZE -> Bytes]
  PROVE  c # <<>>
<1>1. 1 \in DOMAIN c
  BY Sizes
<1>2. DOMAIN <<>> = {}
  OBVIOUS
<1> QED
  BY <1>1, <1>2

(* A step that changes variable d alone, to e. *)
LEMMA OneDeviceChanges ==
  ASSUME VInv, VInv', NEW d \in Devices, NEW c, NEW r, NEW e,
         alive' = alive \cup {d},
         VBK' = [VBK EXCEPT ![d] = r],
         D!ValView' = [D!ValView EXCEPT ![d] = c],
         StateOf(TRUE, c, r) = e
  PROVE  DevView' = [DevView EXCEPT ![d] = e]
<1>1. ASSUME NEW p \in Devices
      PROVE  DevView'[p] = IF p = d THEN e ELSE DevView[p]
  <2>1. VBK'[p] = IF p = d THEN r ELSE VBK[p]
    BY DEF VInv
  <2>2. D!ValView'[p] = IF p = d THEN c ELSE D!ValView[p]
    BY DEF D!ValView
  <2>3. p \in alive' <=> p \in alive \/ p = d
    OBVIOUS
  <2>4. CASE p = d
    <3>1. DevView'[p] = StateOf(p \in alive', D!ValView'[p], VBK'[p])
      BY DevStates
    <3>2. (p \in alive') = TRUE
      BY <2>3, <2>4
    <3> QED
      BY <2>1, <2>2, <2>4, <3>1, <3>2
  <2>5. CASE p # d
    <3>1. (p \in alive') = (p \in alive)
      BY <2>3, <2>5
    <3> QED
      BY <2>1, <2>2, <2>5, <3>1, DevStates
  <2> QED
    BY <2>4, <2>5
<1>2. DevView' = [p \in Devices |-> DevView'[p]] /\ DevView = [p \in Devices |-> DevView[p]]
  BY DEF DevView
<1> QED
  BY <1>1, <1>2

LEMMA ConstructView ==
  ASSUME VInv, VInv', NEW d \in Devices, V!Construct(d)
  PROVE  V!Independent!Construct(d)
<1>1. PICK c \in [1..VRAM_MAX_SIZE -> Bytes] : D!ValView' = [D!ValView EXCEPT ![d] = c]
  BY ConstructBytes
<1>2. d \notin alive /\ alive' = alive \cup {d} /\ VBK' = [VBK EXCEPT ![d] = {}]
  BY ConstructBytes
<1>3. c # <<>>
  BY BytesNotEmpty
<1>4. StateOf(TRUE, c, {}) = V!Independent!Showing(BanksOf(c), 0)
  BY <1>3 DEF StateOf, Image, SelectedBank
<1>5. DevView' = [DevView EXCEPT ![d] = V!Independent!Showing(BanksOf(c), 0)]
  BY <1>1, <1>2, <1>4, OneDeviceChanges
<1>6. BanksOf(c) \in [{0, 1} -> [V!Offsets -> Bytes]] /\ DevView[d] = Absent
  BY <1>2, StatesDiffer, StateFacts
<1> QED
  BY <1>5, <1>6 DEF V!Independent!Construct, DevView

LEMMA CopyView ==
  ASSUME VInv, VInv', NEW d \in Devices, NEW s \in Devices,
         V!CopyConstruct(d, s) \/ V!CopyAssign(d, s)
  PROVE  V!Independent!Copy(d, s)
<1>1. /\ s \in alive /\ alive' = alive \cup {d}
      /\ VBK' = [VBK EXCEPT ![d] = VBK[s]]
      /\ D!ValView' = [D!ValView EXCEPT ![d] = D!ValView[s]]
  BY CopyBytes
<1>2. DevView[s] = StateOf(TRUE, D!ValView[s], VBK[s])
  <2>1. (s \in alive) = TRUE
    BY <1>1
  <2> QED
    BY <2>1, DevStates
<1>3. DevView' = [DevView EXCEPT ![d] = DevView[s]]
  BY <1>1, <1>2, OneDeviceChanges
<1>4. DevView[s] # Absent
  BY <1>1, StateFacts
<1> QED
  BY <1>3, <1>4 DEF V!Independent!Copy, DevView

LEMMA FailedCopyView ==
  ASSUME VInv, VInv', NEW d \in Devices, NEW s \in Devices, V!FailedCopyAssign(d, s)
  PROVE  V!Independent!FailedCopyAssign(d, s)
<1>1. /\ AllocMayFail /\ d # s /\ d \in alive /\ s \in alive /\ alive' = alive
      /\ VBK' = VBK
      /\ D!ValView' = [D!ValView EXCEPT ![d] = <<>>]
  BY FailedCopyBytes
<1>2. /\ alive' = alive \cup {d}
      /\ VBK' = [VBK EXCEPT ![d] = VBK[d]]
      /\ D!ValView' = [D!ValView EXCEPT ![d] = <<>>]
  BY <1>1 DEF VInv
<1>3. StateOf(TRUE, <<>>, VBK[d]) = Hollow
  BY DEF StateOf
<1>4. DevView' = [DevView EXCEPT ![d] = Hollow]
  BY <1>2, <1>3, OneDeviceChanges
<1>5. DevView[d] # Absent /\ DevView[s] # Absent
  BY <1>1, StateFacts
<1> QED
  BY <1>1, <1>4, <1>5 DEF V!Independent!FailedCopyAssign, DevView

LEMMA MovedDeviceView ==
  ASSUME VInv, VInv', NEW d \in Devices, NEW s \in Devices, d # s,
         V!MoveConstruct(d, s) \/ V!MoveAssign(d, s)
  PROVE  V!Independent!Move(d, s)
<1>1. /\ s \in alive /\ alive' = alive \cup {d}
      /\ VBK' = [VBK EXCEPT ![d] = VBK[s]]
      /\ D!ValView' = [D!ValView EXCEPT ![d] = D!ValView[s], ![s] = <<>>]
  BY MoveBytes
<1>2. ASSUME NEW p \in Devices
      PROVE  DevView'[p] = IF p = s THEN Hollow ELSE IF p = d THEN DevView[s] ELSE DevView[p]
  <2>1. VBK'[p] = IF p = d THEN VBK[s] ELSE VBK[p]
    BY <1>1 DEF VInv
  <2>2. D!ValView'[p] = IF p = s THEN <<>> ELSE IF p = d THEN D!ValView[s] ELSE D!ValView[p]
    BY <1>1 DEF D!ValView
  <2>3. p \in alive' <=> p \in alive \/ p = d
    BY <1>1
  <2>4. DevView'[p] = StateOf(p \in alive', D!ValView'[p], VBK'[p])
    BY DevStates
  <2>5. CASE p = s
    BY <1>1, <2>2, <2>3, <2>4, <2>5 DEF StateOf
  <2>6. CASE p = d
    <3>1. DevView[s] = StateOf(s \in alive, D!ValView[s], VBK[s])
      BY DevStates
    <3>2. (p \in alive') = TRUE /\ (s \in alive) = TRUE
      BY <1>1, <2>3, <2>6
    <3> QED
      BY <2>1, <2>2, <2>4, <2>6, <3>1, <3>2
  <2>7. CASE p # s /\ p # d
    <3>1. (p \in alive') = (p \in alive)
      BY <2>3, <2>7
    <3> QED
      BY <2>1, <2>2, <2>4, <2>7, <3>1, DevStates
  <2> QED
    BY <2>5, <2>6, <2>7
<1>3. DevView' = [p \in Devices |-> DevView'[p]] /\ DevView = [p \in Devices |-> DevView[p]]
  BY DEF DevView
<1>4. DevView' = [DevView EXCEPT ![d] = DevView[s], ![s] = Hollow]
  BY <1>2, <1>3
<1>5. DevView[s] # Absent
  BY <1>1, StateFacts
<1> QED
  BY <1>4, <1>5 DEF V!Independent!Move, DevView

LEMMA DestroyedView ==
  ASSUME VInv, VInv', NEW d \in Devices, V!Destroy(d)
  PROVE  V!Independent!Destroy(d)
<1>1. /\ d \in alive /\ alive' = alive \ {d}
      /\ VBK' = [VBK EXCEPT ![d] = {}]
      /\ D!ValView' = [D!ValView EXCEPT ![d] = <<>>]
  BY DestroyBytes
<1>2. ASSUME NEW p \in Devices
      PROVE  DevView'[p] = IF p = d THEN Absent ELSE DevView[p]
  <2>1. VBK'[p] = IF p = d THEN {} ELSE VBK[p]
    BY <1>1 DEF VInv
  <2>2. D!ValView'[p] = IF p = d THEN <<>> ELSE D!ValView[p]
    BY <1>1 DEF D!ValView
  <2>3. DevView'[p] = StateOf(p \in alive', D!ValView'[p], VBK'[p])
    BY DevStates
  <2>4. CASE p = d
    BY <1>1, <2>3, <2>4 DEF StateOf
  <2>5. CASE p # d
    <3>1. (p \in alive') = (p \in alive)
      BY <1>1, <2>5
    <3> QED
      BY <2>1, <2>2, <2>3, <2>5, <3>1, DevStates
  <2> QED
    BY <2>4, <2>5
<1>3. DevView' = [p \in Devices |-> DevView'[p]] /\ DevView = [p \in Devices |-> DevView[p]]
  BY DEF DevView
<1>4. DevView' = [DevView EXCEPT ![d] = Absent]
  BY <1>2, <1>3
<1>5. DevView[d] # Absent
  BY <1>1, StateFacts
<1> QED
  BY <1>4, <1>5 DEF V!Independent!Destroy, DevView

(* Selecting a bank: of a hollow device nobody sees it. *)
LEMMA SelectedView ==
  ASSUME VInv, VInv', NEW d \in Devices, NEW v, V!set_VBK_reg(d, v)
  PROVE  (\E k \in {0, 1} : V!Independent!Select(d, k)) \/ UNCHANGED DevView
<1> DEFINE r == IF V!bit_n(0, v) THEN {0} ELSE {}
           c == D!ValView[d]
<1>1. d \in alive /\ VBK' = [VBK EXCEPT ![d] = r] /\ UNCHANGED V!memory_vars
  BY DEF V!set_VBK_reg
<1> HIDE DEF r
<1>2. alive' = alive \cup {d} /\ D!ValView' = D!ValView
  BY <1>1 DEF V!memory_vars, D!ValView, D!BytesOf
<1>3. D!ValView' = [D!ValView EXCEPT ![d] = c]
  BY <1>2 DEF D!ValView
<1>4. DevView' = [DevView EXCEPT ![d] = StateOf(TRUE, c, r)]
  <2>1. VBK' = [VBK EXCEPT ![d] = r] /\ alive' = alive \cup {d}
    BY <1>1, <1>2
  <2> HIDE DEF c
  <2> QED
    BY <2>1, <1>3, OneDeviceChanges
<1>5. DevView[d] = StateOf(TRUE, c, VBK[d])
  <2>1. (d \in alive) = TRUE
    BY <1>1
  <2> QED
    BY <2>1, DevStates
<1> HIDE DEF c
<1>6. CASE c = <<>>
  <2>1. StateOf(TRUE, c, r) = DevView[d]
    BY <1>5, <1>6 DEF StateOf
  <2>2. DevView' = DevView
    BY <1>4, <2>1 DEF DevView
  <2> QED
    BY <2>2
<1>7. CASE c # <<>>
  <2>1. /\ StateOf(TRUE, c, r) = V!Independent!Showing(BanksOf(c), SelectedBank(r))
        /\ DevView[d] = V!Independent!Showing(BanksOf(c), SelectedBank(VBK[d]))
    BY <1>5, <1>7 DEF StateOf, Image
  <2>2. DevView[d].bank = BanksOf(c)
    BY <2>1 DEF V!Independent!Showing
  <2>3. DevView[d] \notin {Absent, Hollow}
    BY <1>1, <1>7, StateFacts DEF c
  <2>4. DevView' = [DevView EXCEPT ![d] = V!Independent!Showing(DevView[d].bank, SelectedBank(r))]
    BY <1>4, <2>1, <2>2
  <2>5. V!Independent!Select(d, SelectedBank(r))
    BY <2>3, <2>4 DEF V!Independent!Select, V!Independent!Whole, DevView
  <2>6. SelectedBank(r) \in {0, 1}
    BY DEF SelectedBank
  <2> QED
    BY <2>5, <2>6
<1> QED
  BY <1>6, <1>7

LEMMA WrittenView ==
  ASSUME VInv, VInv', NEW d \in Devices, NEW p \in 0..(VRAM_MAX_SIZE - 1), NEW v \in Bytes,
         V!write_phys_addr(d, p, v)
  PROVE  \E k \in {0, 1}, o \in V!Offsets : V!Independent!Write(d, k, o, v)
<1> DEFINE c == D!ValView[d]
           new == [c EXCEPT ![p + 1] = v]
<1>1. d \in alive /\ alive' = alive /\ VBK' = VBK /\ c # <<>>
  BY WriteBytes
<1>2. D!ValView' = [D!ValView EXCEPT ![d] = new]
  BY WriteBytes
<1>3. c \in [1..VRAM_MAX_SIZE -> Bytes]
  BY <1>1 DEF VInv, WholeOrNone
<1>4. PICK k \in {0, 1}, o \in V!Offsets : p + 1 = Place(k, o)
  BY PlaceExists
<1>5. new \in [1..VRAM_MAX_SIZE -> Bytes] /\ new # <<>>
  <2>1. new \in [1..VRAM_MAX_SIZE -> Bytes]
    BY <1>3
  <2> QED
    BY <2>1, BytesNotEmpty
<1>6. BanksOf(new) = [BanksOf(c) EXCEPT ![k][o] = v]
  <2>1. ASSUME NEW b \in {0, 1}, NEW q \in V!Offsets
        PROVE  new[Place(b, q)] = IF b = k /\ q = o THEN v ELSE c[Place(b, q)]
    BY <1>3, <1>4, PlaceFacts
  <2> DEFINE Row(b) == [q \in V!Offsets |-> c[Place(b, q)]]
             RowAfter(b) == [q \in V!Offsets |-> new[Place(b, q)]]
  <2>2. ASSUME NEW b \in {0, 1}
        PROVE  RowAfter(b) = IF b = k THEN [Row(b) EXCEPT ![o] = v] ELSE Row(b)
    BY <2>1
  <2>3. /\ BanksOf(c) = [b \in {0, 1} |-> Row(b)]
        /\ BanksOf(new) = [b \in {0, 1} |-> RowAfter(b)]
    BY DEF BanksOf
  <2> HIDE DEF new, c, Row, RowAfter
  <2>4. BanksOf(c)[k] = Row(k)
    BY <2>3
  <2>5. BanksOf(new) = [BanksOf(c) EXCEPT ![k] = [BanksOf(c)[k] EXCEPT ![o] = v]]
    BY <2>2, <2>3, <2>4
  <2> QED
    BY <2>5
<1> HIDE DEF new, c
<1>7. VBK' = [VBK EXCEPT ![d] = VBK[d]] /\ alive' = alive \cup {d}
  BY <1>1 DEF VInv
<1>8. StateOf(TRUE, new, VBK[d])
        = V!Independent!Showing([BanksOf(c) EXCEPT ![k][o] = v], SelectedBank(VBK[d]))
  BY <1>5, <1>6 DEF StateOf, Image
<1>9. DevView[d] = V!Independent!Showing(BanksOf(c), SelectedBank(VBK[d]))
  <2>1. (d \in alive) = TRUE
    BY <1>1
  <2>2. DevView[d] = StateOf(TRUE, c, VBK[d])
    BY <2>1, DevStates DEF c
  <2> QED
    BY <1>1, <2>2 DEF StateOf, Image
<1>10. DevView[d].bank = BanksOf(c) /\ DevView[d].selected = SelectedBank(VBK[d])
  BY <1>9 DEF V!Independent!Showing
<1>11. DevView' = [DevView EXCEPT ![d] =
         V!Independent!Showing([DevView[d].bank EXCEPT ![k][o] = v], DevView[d].selected)]
  BY <1>2, <1>7, <1>8, <1>10, OneDeviceChanges
<1>12. DevView[d] \notin {Absent, Hollow}
  BY <1>1, StateFacts DEF c
<1>13. V!Independent!Write(d, k, o, v)
  BY <1>11, <1>12 DEF V!Independent!Write, V!Independent!Whole, DevView
<1> QED
  BY <1>13

LEMMA DevInit == V!Init => V!Independent!Init
<1> SUFFICES ASSUME V!Init PROVE V!Independent!Init
  OBVIOUS
<1>1. alive = {}
  BY DEF V!Init, V!M!Init
<1>2. DevView = [d \in Devices |-> Absent]
  BY <1>1 DEF DevView
<1> QED
  BY <1>2 DEF V!Independent!Init, DevView

(* Every operation on video RAMs is one on independent devices, or nothing *)
(* that a program sees.                                                    *)
LEMMA DevStep == VInv /\ VInv' /\ [V!Next]_(V!vars) => [V!Independent!Next]_DevView
<1> SUFFICES ASSUME VInv, VInv', [V!Next]_(V!vars)
             PROVE  V!Independent!Next \/ UNCHANGED DevView
  OBVIOUS
<1>1. ASSUME UNCHANGED V!vars PROVE UNCHANGED DevView
  <2>1. alive' = alive /\ VBK' = VBK /\ D!ValView' = D!ValView
    BY <1>1 DEF V!vars, V!memory_vars, D!ValView, D!BytesOf
  <2>2. \A d \in Devices : DevView'[d] = DevView[d]
    BY <2>1, DevStates
  <2>3. /\ DevView' = [d \in Devices |-> DevView'[d]]
        /\ DevView = [d \in Devices |-> DevView[d]]
    BY DEF DevView
  <2> QED
    BY <2>2, <2>3
<1>2. ASSUME NEW d \in Devices, V!Construct(d) PROVE V!Independent!Next
  <2>1. V!Independent!Construct(d)
    BY <1>2, ConstructView
  <2> QED
    BY <2>1 DEF V!Independent!Next
<1>3. ASSUME NEW d \in Devices, V!Destroy(d) PROVE V!Independent!Next
  <2>1. V!Independent!Destroy(d)
    BY <1>3, DestroyedView
  <2> QED
    BY <2>1 DEF V!Independent!Next
<1>4. ASSUME NEW d \in Devices, NEW v, V!set_VBK_reg(d, v)
      PROVE  V!Independent!Next \/ UNCHANGED DevView
  <2>1. (\E k \in {0, 1} : V!Independent!Select(d, k)) \/ UNCHANGED DevView
    BY <1>4, SelectedView
  <2> QED
    BY <2>1 DEF V!Independent!Next
<1>5. ASSUME NEW d \in Devices, NEW p \in 0..(VRAM_MAX_SIZE - 1), NEW v \in Bytes,
             V!write_phys_addr(d, p, v)
      PROVE  V!Independent!Next
  <2>1. PICK k \in {0, 1}, o \in V!Offsets : V!Independent!Write(d, k, o, v)
    BY <1>5, WrittenView
  <2> QED
    BY <2>1 DEF V!Independent!Next
<1>6. ASSUME NEW d \in Devices, NEW a \in V!InnerAddrs, NEW v \in Bytes,
             V!write_inner_vaddr(d, a, v)
      PROVE  V!Independent!Next
  BY <1>5, <1>6, VRAMAddress DEF V!write_inner_vaddr
<1>7. ASSUME NEW d \in Devices, NEW s \in Devices, V!CopyConstruct(d, s) \/ V!CopyAssign(d, s)
      PROVE  V!Independent!Next
  <2>1. V!Independent!Copy(d, s)
    BY <1>7, CopyView
  <2> QED
    BY <2>1 DEF V!Independent!Next
<1>8. ASSUME NEW d \in Devices, NEW s \in Devices, V!FailedCopyAssign(d, s)
      PROVE  V!Independent!Next
  <2>1. V!Independent!FailedCopyAssign(d, s)
    BY <1>8, FailedCopyView
  <2> QED
    BY <2>1 DEF V!Independent!Next
<1>9. ASSUME NEW d \in Devices, NEW s \in Devices, V!MoveConstruct(d, s) \/ V!MoveAssign(d, s)
      PROVE  V!Independent!Next \/ UNCHANGED DevView
  <2>1. CASE d # s
    <3>1. V!Independent!Move(d, s)
      BY <1>9, <2>1, MovedDeviceView
    <3> QED
      BY <3>1 DEF V!Independent!Next
  <2>2. CASE d = s
    <3>1. V!CopyRegisters(d, d)
      BY <1>9, <2>2 DEF V!MoveConstruct, V!MoveAssign
    <3>2. VBK' = VBK
      BY <3>1 DEF V!CopyRegisters, VInv
    <3> QED
      BY <1>1, <1>9, <2>2, <3>2, SelfMove DEF V!vars
  <2> QED
    BY <2>1, <2>2
<1> QED
  BY <1>1, <1>2, <1>3, <1>4, <1>5, <1>6, <1>7, <1>8, <1>9, Sizes DEF V!Next

(* The variables of a program are independent devices, and an inner        *)
(* address always leads into the memory of a device that has one.          *)
THEOREM DevicesImplemented == V!Spec => ImplementsDevices
<1>1. V!Init => V!Independent!Init
  BY DevInit
<1>2. VInv /\ VInv' /\ [V!Next]_(V!vars) => [V!Independent!Next]_DevView
  BY DevStep
<1>3. VInv => V!TypeOK
  BY VRAMTypes
<1>4. V!Spec => V!Independent!Spec
  BY <1>1, <1>2, VInvCorrect, PTL DEF V!Spec, V!Independent!Spec, DevView
<1>5. V!Spec => []V!TypeOK
  BY <1>3, VInvCorrect, PTL
<1> QED
  BY <1>4, <1>5 DEF ImplementsDevices, V!ImplementsDevices

-----------------------------------------------------------------------------
(* A program that uses one of the two devices uses it as it would alone.   *)

LEMMA EachAlone == DevicesSpec => Spec /\ V!Spec
<1>1. DevicesInit => Init /\ V!Init
  BY DEF DevicesInit
<1>2. [DevicesNext]_devicevars => [Next]_vars /\ [V!Next]_(V!vars)
  <2>1. UNCHANGED devicevars => UNCHANGED vars /\ UNCHANGED V!vars
    BY DEF devicevars, vramvars, vars, V!vars, V!memory_vars
  <2>2. UNCHANGED vramvars => UNCHANGED V!vars
    BY DEF vramvars, V!vars, V!memory_vars
  <2> QED
    BY <2>1, <2>2 DEF DevicesNext, UsesWRAM, UsesVRAM
<1> QED
  BY <1>1, <1>2, PTL DEF DevicesSpec, Spec, V!Spec

(* Both devices keep what they promise in a program that may use either:   *)
(* every inner address leads into the work RAM, which is eight banks, and  *)
(* video RAMs are independent.                                             *)
THEOREM BothDevicesCorrect ==
  DevicesSpec => []TypeOK /\ ImplementsBanked /\ ImplementsDevices
  BY EachAlone, TypeCorrect, BankedImplemented, DevicesImplemented
=============================================================================
