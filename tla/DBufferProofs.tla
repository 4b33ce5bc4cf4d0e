--------------------------- MODULE DBufferProofs ---------------------------
(***************************************************************************)
(* Ownership of blocks by buffers, for any variables, heap, bytes and      *)
(* lengths, with operator new[] failing or not.                            *)
(***************************************************************************)
EXTENDS DBuffer, TLAPS

(* Over all variables, constructed or not: a variable that is not has no   *)
(* block and no length, blocks have one owner, what is allocated is owned  *)
(* and a block is as long as its owner says.                               *)
DeadIsEmpty == \A o \in Objs \ alive : data[o] = Null /\ len[o] = 0

Exclusive == \A o, p \in Objs : data[o] = data[p] /\ data[o] # Null => o = p

Owned == allocated = {data[o] : o \in Objs} \ {Null}

Fits == \A o \in Objs : data[o] # Null => len[o] = Len(heap[data[o]])

Ownership == Exclusive /\ Owned /\ Fits

IInv == TypeOK /\ DeadIsEmpty /\ Ownership

-----------------------------------------------------------------------------
(* Bytes. *)

LEMMA ContentLength ==
  ASSUME NEW n \in Nat, NEW c \in [1..n -> Bytes]
  PROVE  c \in Seq(Bytes) /\ Len(c) = n
<1>1. c \in Seq(Bytes)
  OBVIOUS
<1>2. DOMAIN c = 1..n /\ DOMAIN c = 1..Len(c) /\ Len(c) \in Nat
  BY <1>1
<1> QED
  BY <1>1, <1>2

LEMMA ContentFacts ==
  ASSUME NEW c \in Contents
  PROVE  /\ c \in Seq(Bytes) /\ Len(c) \in 0..MaxLen
         /\ c \in [1..Len(c) -> Bytes]
         /\ SubSeq(c, 1, Len(c)) = c
<1>1. PICK n \in 0..MaxLen : c \in [1..n -> Bytes]
  BY DEF Contents
<1>2. n \in Nat
  BY <1>1, MaxLenAssumption
<1>3. c \in Seq(Bytes) /\ Len(c) = n
  BY <1>1, <1>2, ContentLength
<1>4. SubSeq(c, 1, Len(c)) = c
  BY <1>3
<1> QED
  BY <1>1, <1>3, <1>4

LEMMA ContentMade ==
  ASSUME NEW n \in 0..MaxLen, NEW c \in [1..n -> Bytes]
  PROVE  c \in Contents /\ Len(c) = n
<1>1. n \in Nat
  BY MaxLenAssumption
<1> QED
  BY <1>1, ContentLength DEF Contents

LEMMA EmptyContent == <<>> \in Contents /\ Len(<<>>) = 0
<1>1. <<>> \in [1..0 -> Bytes]
  OBVIOUS
<1>2. 0 \in 0..MaxLen
  BY MaxLenAssumption
<1> QED
  BY <1>1, <1>2, ContentMade

(* The bytes of a usable buffer are as many as it says. *)
LEMMA BytesFit ==
  ASSUME IInv, NEW s \in Objs, Usable(s)
  PROVE  BytesOf(s) \in Contents /\ Len(BytesOf(s)) = len[s]
<1>1. CASE data[s] = Null
  <2>1. BytesOf(s) = <<>> /\ len[s] = 0
    BY <1>1 DEF BytesOf, Usable, IsTorn
  <2> QED
    BY <2>1, EmptyContent
<1>2. CASE data[s] # Null
  <2>1. data[s] \in Blocks
    BY <1>2 DEF IInv, TypeOK
  <2>2. heap[data[s]] \in Contents
    BY <2>1 DEF IInv, TypeOK
  <2>3. len[s] = Len(heap[data[s]])
    BY <1>2 DEF IInv, Ownership, Fits
  <2>4. BytesOf(s) = heap[data[s]]
    BY <1>2, <2>2, <2>3, ContentFacts DEF BytesOf
  <2> QED
    BY <2>2, <2>3, <2>4
<1> QED
  BY <1>1, <1>2

-----------------------------------------------------------------------------
(* The three ways the memory changes. *)

Memory == 
  /\ data \in [Objs -> Blocks \cup {Null}]
  /\ len \in [Objs -> 0..MaxLen]
  /\ allocated \in SUBSET Blocks
  /\ heap \in [Blocks -> Contents]

LEMMA AllocateKeeps ==
  ASSUME Memory, Ownership, NEW o \in Objs, NEW c \in Contents,
         Allocate(o, BlockOf(o), c), len' = [len EXCEPT ![o] = Len(c)]
  PROVE  Memory' /\ Ownership'
<1>1. PICK b \in Blocks \ (allocated \ BlockOf(o)) :
        /\ allocated' = (allocated \ BlockOf(o)) \cup {b}
        /\ heap' = [d \in Blocks |-> IF d = b THEN c ELSE IF d \in BlockOf(o) THEN <<>> ELSE heap[d]]
        /\ data' = [data EXCEPT ![o] = b]
  BY DEF Allocate
<1>2. b # Null
  BY NullAssumption
<1>3. Len(c) \in 0..MaxLen
  BY ContentFacts
<1>4. data'[o] = b /\ len'[o] = Len(c) /\ heap'[b] = c
  BY <1>1 DEF Memory
<1>5. ASSUME NEW p \in Objs, p # o PROVE data'[p] = data[p] /\ len'[p] = len[p]
  BY <1>1, <1>5 DEF Memory
<1>6. ASSUME NEW p \in Objs, p # o, data[p] # Null
      PROVE  data[p] \in allocated \ BlockOf(o) /\ data[p] # b
  BY <1>1, <1>6 DEF Ownership, Exclusive, Owned, BlockOf
<1>7. Memory'
  <2>1. heap' \in [Blocks -> Contents]
    BY <1>1, EmptyContent DEF Memory
  <2>2. data' \in [Objs -> Blocks \cup {Null}]
    BY <1>1 DEF Memory
  <2>3. len' \in [Objs -> 0..MaxLen]
    BY <1>3 DEF Memory
  <2>4. allocated' \in SUBSET Blocks
    BY <1>1 DEF Memory
  <2> QED
    BY <2>1, <2>2, <2>3, <2>4 DEF Memory
<1>8. Exclusive'
  BY <1>4, <1>5, <1>6 DEF Exclusive, Ownership
<1>9. Owned'
  <2>1. ASSUME NEW d \in allocated' PROVE d \in {data'[p] : p \in Objs} \ {Null}
    <3>1. CASE d = b
      BY <3>1, <1>2, <1>4
    <3>2. CASE d # b
      <4>1. d \in allocated /\ d \notin BlockOf(o)
        BY <1>1, <3>2
      <4>2. PICK p \in Objs : d = data[p] /\ d # Null
        BY <4>1 DEF Ownership, Owned
      <4>3. p # o
        BY <4>1, <4>2 DEF BlockOf
      <4> QED
        BY <4>2, <4>3, <1>5
    <3> QED
      BY <3>1, <3>2
  <2>2. ASSUME NEW p \in Objs, data'[p] # Null PROVE data'[p] \in allocated'
    BY <2>2, <1>1, <1>4, <1>5, <1>6
  <2> QED
    BY <2>1, <2>2 DEF Owned
<1>10. Fits'
  <2>1. ASSUME NEW p \in Objs, data'[p] # Null PROVE len'[p] = Len(heap'[data'[p]])
    <3>1. CASE p = o
      BY <3>1, <1>4
    <3>2. CASE p # o
      <4>1. data'[p] = data[p] /\ len'[p] = len[p] /\ data[p] # Null
        BY <2>1, <3>2, <1>5
      <4>2. data[p] \in allocated \ BlockOf(o) /\ data[p] # b
        BY <3>2, <4>1, <1>6
      <4>3. heap'[data[p]] = heap[data[p]]
        BY <4>2, <1>1 DEF Memory
      <4> QED
        BY <4>1, <4>3 DEF Ownership, Fits
    <3> QED
      BY <3>1, <3>2
  <2> QED
    BY <2>1 DEF Fits
<1> QED
  BY <1>7, <1>8, <1>9, <1>10 DEF Ownership

(* A buffer gives up its block; its length may become anything.            *)
LEMMA ReleaseKeeps ==
  ASSUME Memory, Ownership, NEW o \in Objs, Release(o, Null),
         len' \in [Objs -> 0..MaxLen],
         \A p \in Objs : p # o => len'[p] = len[p]
  PROVE  Memory' /\ Ownership'
<1>1. /\ allocated' = allocated \ BlockOf(o)
      /\ heap' = [b \in Blocks |-> IF b \in BlockOf(o) THEN <<>> ELSE heap[b]]
      /\ data' = [data EXCEPT ![o] = Null]
  BY DEF Release
<1>2. data'[o] = Null
  BY <1>1 DEF Memory
<1>3. ASSUME NEW p \in Objs, p # o PROVE data'[p] = data[p]
  BY <1>1, <1>3 DEF Memory
<1>4. ASSUME NEW p \in Objs, p # o, data[p] # Null PROVE data[p] \in allocated \ BlockOf(o)
  BY <1>4 DEF Ownership, Exclusive, Owned, BlockOf
<1>5. Memory'
  <2>1. heap' \in [Blocks -> Contents]
    BY <1>1, EmptyContent DEF Memory
  <2>2. data' \in [Objs -> Blocks \cup {Null}]
    BY <1>1 DEF Memory
  <2>3. allocated' \in SUBSET Blocks
    BY <1>1 DEF Memory
  <2> QED
    BY <2>1, <2>2, <2>3 DEF Memory
<1>6. Exclusive'
  BY <1>2, <1>3 DEF Exclusive, Ownership
<1>7. Owned'
  <2>1. ASSUME NEW d \in allocated' PROVE d \in {data'[p] : p \in Objs} \ {Null}
    <3>1. d \in allocated /\ d \notin BlockOf(o)
      BY <1>1
    <3>2. PICK p \in Objs : d = data[p] /\ d # Null
      BY <3>1 DEF Ownership, Owned
    <3>3. p # o
      BY <3>1, <3>2 DEF BlockOf
    <3> QED
      BY <3>2, <3>3, <1>3
  <2>2. ASSUME NEW p \in Objs, data'[p] # Null PROVE data'[p] \in allocated'
    BY <2>2, <1>1, <1>2, <1>3, <1>4
  <2> QED
    BY <2>1, <2>2 DEF Owned
<1>8. Fits'
  <2>1. ASSUME NEW p \in Objs, data'[p] # Null PROVE len'[p] = Len(heap'[data'[p]])
    <3>1. p # o /\ data'[p] = data[p] /\ data[p] # Null /\ len'[p] = len[p]
      BY <2>1, <1>2, <1>3
    <3>2. data[p] \in allocated \ BlockOf(o)
      BY <3>1, <1>4
    <3>3. heap'[data[p]] = heap[data[p]]
      BY <3>2, <1>1 DEF Memory
    <3> QED
      BY <3>1, <3>3 DEF Ownership, Fits
  <2> QED
    BY <2>1 DEF Fits
<1> QED
  BY <1>5, <1>6, <1>7, <1>8 DEF Ownership

(* Buffer o gives up its block and takes that of s.                        *)
LEMMA MoveKeeps ==
  ASSUME Memory, Ownership, NEW o \in Objs, NEW s \in Objs, o # s,
         allocated' = allocated \ BlockOf(o),
         heap' = [b \in Blocks |-> IF b \in BlockOf(o) THEN <<>> ELSE heap[b]],
         data' = [data EXCEPT ![o] = data[s], ![s] = Null],
         len' = [len EXCEPT ![o] = len[s], ![s] = 0]
  PROVE  Memory' /\ Ownership'
<1>1. data'[o] = data[s] /\ data'[s] = Null /\ len'[o] = len[s]
  BY DEF Memory
<1>2. ASSUME NEW p \in Objs, p # o, p # s PROVE data'[p] = data[p] /\ len'[p] = len[p]
  BY <1>2 DEF Memory
<1>3. ASSUME NEW p \in Objs, p # o, data[p] # Null PROVE data[p] \in allocated \ BlockOf(o)
  BY <1>3 DEF Ownership, Exclusive, Owned, BlockOf
<1>4. Memory'
  <2>1. heap' \in [Blocks -> Contents]
    BY EmptyContent DEF Memory
  <2>2. data' \in [Objs -> Blocks \cup {Null}]
    BY DEF Memory
  <2>3. len' \in [Objs -> 0..MaxLen]
    BY MaxLenAssumption DEF Memory
  <2>4. allocated' \in SUBSET Blocks
    BY DEF Memory
  <2> QED
    BY <2>1, <2>2, <2>3, <2>4 DEF Memory
<1>5. Exclusive'
  <2>1. \A p, q \in Objs : data[p] = data[q] /\ data[p] # Null => p = q
    BY DEF Ownership, Exclusive
  <2>2. ASSUME NEW p \in Objs, NEW q \in Objs, data'[p] = data'[q], data'[p] # Null
        PROVE  p = q
    <3>1. p # s /\ q # s
      BY <2>2, <1>1
    <3>2. ~(p = o /\ q # o)
      <4>1. SUFFICES ASSUME p = o, q # o PROVE FALSE
        OBVIOUS
      <4>2. data'[p] = data[s]
        BY <4>1, <1>1
      <4>3. data'[q] = data[q]
        BY <4>1, <3>1, <1>2
      <4>4. data[q] = data[s] /\ data[q] # Null
        BY <4>2, <4>3, <2>2
      <4> QED
        BY <4>4, <2>1, <3>1
    <3>3. ~(q = o /\ p # o)
      <4>1. SUFFICES ASSUME q = o, p # o PROVE FALSE
        OBVIOUS
      <4>2. data'[q] = data[s]
        BY <4>1, <1>1
      <4>3. data'[p] = data[p]
        BY <4>1, <3>1, <1>2
      <4>4. data[p] = data[s] /\ data[p] # Null
        BY <4>2, <4>3, <2>2
      <4> QED
        BY <4>4, <2>1, <3>1
    <3>4. CASE p # o /\ q # o
      BY <3>1, <3>4, <2>1, <2>2, <1>2
    <3> QED
      BY <3>2, <3>3, <3>4
  <2> QED
    BY <2>2 DEF Exclusive
<1>6. Owned'
  <2>1. ASSUME NEW d \in allocated' PROVE d \in {data'[p] : p \in Objs} \ {Null}
    <3>1. d \in allocated /\ d \notin BlockOf(o)
      OBVIOUS
    <3>2. PICK p \in Objs : d = data[p] /\ d # Null
      BY <3>1 DEF Ownership, Owned
    <3>3. p # o
      BY <3>1, <3>2 DEF BlockOf
    <3>4. CASE p = s
      BY <3>2, <3>4, <1>1
    <3>5. CASE p # s
      BY <3>2, <3>3, <3>5, <1>2
    <3> QED
      BY <3>4, <3>5
  <2>2. ASSUME NEW p \in Objs, data'[p] # Null PROVE data'[p] \in allocated'
    BY <2>2, <1>1, <1>2, <1>3
  <2> QED
    BY <2>1, <2>2 DEF Owned
<1>7. Fits'
  <2>1. ASSUME NEW q \in Objs, q # o, data[q] # Null
        PROVE  len[q] = Len(heap'[data[q]])
    <3>1. data[q] \in allocated \ BlockOf(o)
      BY <2>1, <1>3
    <3>2. heap'[data[q]] = heap[data[q]]
      BY <3>1 DEF Memory
    <3> QED
      BY <2>1, <3>2 DEF Ownership, Fits
  <2>2. ASSUME NEW p \in Objs, data'[p] # Null PROVE len'[p] = Len(heap'[data'[p]])
    <3>1. CASE p = o
      BY <3>1, <2>1, <2>2, <1>1
    <3>2. CASE p # o
      BY <3>2, <2>1, <2>2, <1>1, <1>2
    <3> QED
      BY <3>1, <3>2
  <2> QED
    BY <2>2 DEF Fits
<1> QED
  BY <1>4, <1>5, <1>6, <1>7 DEF Ownership

(* One byte of a block changes.                                            *)
LEMMA WriteKeeps ==
  ASSUME Memory, Ownership, NEW o \in Objs, data[o] # Null,
         NEW i \in 1..len[o], NEW v \in Bytes,
         heap' = [heap EXCEPT ![data[o]][i] = v],
         UNCHANGED <<data, len, allocated>>
  PROVE  Memory' /\ Ownership'
<1>1. data[o] \in Blocks
  BY DEF Memory
<1> DEFINE old == heap[data[o]]
           new == [old EXCEPT ![i] = v]
<1>2. old \in Contents /\ len[o] = Len(old)
  BY <1>1 DEF Memory, Ownership, Fits
<1>3. Len(old) \in 0..MaxLen /\ old \in [1..Len(old) -> Bytes]
  BY <1>2, ContentFacts
<1>4. new \in [1..Len(old) -> Bytes]
  BY <1>3
<1>5. new \in Contents /\ Len(new) = Len(old)
  BY <1>3, <1>4, ContentMade
<1>6. heap' = [heap EXCEPT ![data[o]] = new]
  BY <1>1 DEF Memory
<1> HIDE DEF old, new
<1>7. Memory'
  BY <1>5, <1>6 DEF Memory
<1>8. ASSUME NEW p \in Objs, data[p] # Null PROVE len[p] = Len(heap'[data[p]])
  <2>1. data[p] \in Blocks
    BY <1>8 DEF Memory
  <2>2. CASE data[p] = data[o]
    <3>1. p = o
      BY <1>8, <2>2 DEF Ownership, Exclusive
    <3>2. heap'[data[p]] = new
      BY <1>6, <2>2, <1>1 DEF Memory
    <3> QED
      BY <3>1, <3>2, <1>2, <1>5
  <2>3. CASE data[p] # data[o]
    <3>1. heap'[data[p]] = heap[data[p]]
      BY <1>6, <2>1, <2>3 DEF Memory
    <3> QED
      BY <3>1, <1>8 DEF Ownership, Fits
  <2> QED
    BY <2>2, <2>3
<1>9. Ownership'
  BY <1>8 DEF Ownership, Exclusive, Owned, Fits
<1> QED
  BY <1>7, <1>9

-----------------------------------------------------------------------------
(* The operations. *)

LEMMA InvInit == Init => IInv
<1> SUFFICES ASSUME Init PROVE IInv
  OBVIOUS
<1>1. TypeOK
  BY EmptyContent, MaxLenAssumption DEF Init, TypeOK
<1>2. DeadIsEmpty
  BY DEF Init, DeadIsEmpty
<1>3. Ownership
  BY DEF Init, Ownership, Exclusive, Owned, Fits
<1> QED
  BY <1>1, <1>2, <1>3 DEF IInv

LEMMA InvParts ==
  /\ IInv <=> alive \in SUBSET Objs /\ Memory /\ DeadIsEmpty /\ Ownership
  /\ IInv' <=> (alive \in SUBSET Objs)' /\ Memory' /\ DeadIsEmpty' /\ Ownership'
  BY DEF IInv, TypeOK, Memory

(* A variable that is not constructed has nothing to free. *)
LEMMA DeadOwnsNothing ==
  ASSUME IInv, NEW o \in Objs, o \notin alive
  PROVE  BlockOf(o) = {} /\ data[o] = Null
  BY DEF IInv, DeadIsEmpty, BlockOf

(* A constructor that allocates. *)
LEMMA NewWithBlock ==
  ASSUME IInv, NEW o \in Objs, NEW c \in Contents,
         o \notin alive, alive' = alive \cup {o},
         Allocate(o, {}, c), len' = [len EXCEPT ![o] = Len(c)]
  PROVE  IInv'
<1>1. Allocate(o, BlockOf(o), c)
  BY DeadOwnsNothing
<1>2. Memory' /\ Ownership'
  BY <1>1, InvParts, AllocateKeeps
<1>3. alive' \in SUBSET Objs
  BY InvParts
<1>4. DeadIsEmpty'
  <2>1. ASSUME NEW p \in Objs \ alive' PROVE data'[p] = Null /\ len'[p] = 0
    <3>1. p # o /\ p \in Objs \ alive
      BY <2>1
    <3>2. data'[p] = data[p] /\ len'[p] = len[p]
      BY <3>1, InvParts DEF Allocate, Memory
    <3> QED
      BY <3>1, <3>2 DEF IInv, DeadIsEmpty
  <2> QED
    BY <2>1 DEF DeadIsEmpty
<1> QED
  BY <1>2, <1>3, <1>4, InvParts

LEMMA ConstructSizedKeeps ==
  ASSUME IInv, NEW o \in Objs, NEW n \in 0..MaxLen, ConstructSized(o, n)
  PROVE  IInv'
<1>1. /\ o \notin alive /\ alive' = alive \cup {o}
      /\ len' = [len EXCEPT ![o] = n]
  BY DEF ConstructSized
<1>2. CASE n = 0 /\ data' = [data EXCEPT ![o] = Null] /\ UNCHANGED store
  <2>1. data[o] = Null /\ len[o] = 0
    BY <1>1 DEF IInv, DeadIsEmpty
  <2>2. data' = data /\ len' = len /\ allocated' = allocated /\ heap' = heap
    BY <1>1, <1>2, <2>1 DEF IInv, TypeOK, store
  <2>3. DeadIsEmpty'
    BY <1>1, <2>2 DEF IInv, DeadIsEmpty
  <2>4. Memory' /\ Ownership'
    BY <2>2, InvParts DEF Memory, Ownership, Exclusive, Owned, Fits
  <2> QED
    BY <1>1, <2>3, <2>4, InvParts
<1>3. CASE \E c \in [1..n -> Bytes] : Allocate(o, {}, c)
  <2>1. PICK c \in [1..n -> Bytes] : Allocate(o, {}, c)
    BY <1>3
  <2>2. c \in Contents /\ Len(c) = n
    BY ContentMade
  <2> QED
    BY <1>1, <2>1, <2>2, NewWithBlock
<1> QED
  BY <1>2, <1>3 DEF ConstructSized

LEMMA ConstructFromKeeps ==
  ASSUME IInv, NEW o \in Objs, NEW c \in Contents, ConstructFrom(o, c)
  PROVE  IInv'
  BY NewWithBlock DEF ConstructFrom

LEMMA CopyConstructKeeps ==
  ASSUME IInv, NEW o \in Objs, NEW s \in Objs, CopyConstruct(o, s)
  PROVE  IInv'
<1>1. /\ o \notin alive /\ Usable(s) /\ alive' = alive \cup {o}
      /\ len' = [len EXCEPT ![o] = len[s]] /\ Allocate(o, {}, BytesOf(s))
  BY DEF CopyConstruct
<1>2. BytesOf(s) \in Contents /\ Len(BytesOf(s)) = len[s]
  BY <1>1, BytesFit
<1> QED
  BY <1>1, <1>2, NewWithBlock

LEMMA CopyAssignKeeps ==
  ASSUME IInv, NEW o \in Objs, NEW s \in Objs, CopyAssign(o, s)
  PROVE  IInv'
<1>1. o \in alive /\ Usable(s) /\ alive' = alive
  BY DEF CopyAssign
<1>2. CASE o = s /\ UNCHANGED <<data, len, store>>
  <2>1. data' = data /\ len' = len /\ allocated' = allocated /\ heap' = heap
    BY <1>2 DEF store
  <2> QED
    BY <1>1, <2>1 DEF IInv, TypeOK, DeadIsEmpty, Ownership, Exclusive, Owned, Fits
<1>3. CASE /\ o # s /\ len' = [len EXCEPT ![o] = len[s]]
           /\ Allocate(o, BlockOf(o), BytesOf(s))
  <2>1. BytesOf(s) \in Contents /\ Len(BytesOf(s)) = len[s]
    BY <1>1, BytesFit
  <2>2. Memory' /\ Ownership'
    BY <1>3, <2>1, InvParts, AllocateKeeps
  <2>3. DeadIsEmpty'
    <3>1. ASSUME NEW p \in Objs \ alive' PROVE data'[p] = Null /\ len'[p] = 0
      <4>1. p # o /\ p \in Objs \ alive
        BY <3>1, <1>1
      <4>2. data'[p] = data[p] /\ len'[p] = len[p]
        BY <4>1, <1>3, InvParts DEF Allocate, Memory
      <4> QED
        BY <4>1, <4>2 DEF IInv, DeadIsEmpty
    <3> QED
      BY <3>1 DEF DeadIsEmpty
  <2> QED
    BY <1>1, <2>2, <2>3, InvParts
<1> QED
  BY <1>2, <1>3 DEF CopyAssign

(* The old length stays when the block is gone; no block contradicts it.   *)
LEMMA FailedCopyAssignKeeps ==
  ASSUME IInv, NEW o \in Objs, NEW s \in Objs, FailedCopyAssign(o, s)
  PROVE  IInv'
<1>1. o \in alive /\ Release(o, Null) /\ alive' = alive /\ len' = len
  BY DEF FailedCopyAssign
<1>2. Memory' /\ Ownership'
  <2>1. len' \in [Objs -> 0..MaxLen] /\ \A p \in Objs : p # o => len'[p] = len[p]
    BY <1>1, InvParts DEF Memory
  <2> QED
    BY <1>1, <2>1, InvParts, ReleaseKeeps
<1>3. DeadIsEmpty'
  <2>1. ASSUME NEW p \in Objs \ alive' PROVE data'[p] = Null /\ len'[p] = 0
    <3>1. p # o /\ p \in Objs \ alive
      BY <2>1, <1>1
    <3>2. data'[p] = data[p]
      BY <3>1, <1>1, InvParts DEF Release, Memory
    <3> QED
      BY <3>1, <3>2, <1>1 DEF IInv, DeadIsEmpty
  <2> QED
    BY <2>1 DEF DeadIsEmpty
<1> QED
  BY <1>1, <1>2, <1>3, InvParts

LEMMA DestroyKeeps ==
  ASSUME IInv, NEW o \in Objs, Destroy(o)
  PROVE  IInv'
<1>1. alive' = alive \ {o} /\ Release(o, Null) /\ len' = [len EXCEPT ![o] = 0]
  BY DEF Destroy
<1>2. /\ len' \in [Objs -> 0..MaxLen] /\ len'[o] = 0
      /\ \A p \in Objs : p # o => len'[p] = len[p]
  BY <1>1, InvParts, MaxLenAssumption DEF Memory
<1>3. Memory' /\ Ownership'
  BY <1>1, <1>2, InvParts, ReleaseKeeps
<1>4. DeadIsEmpty'
  <2>1. ASSUME NEW p \in Objs \ alive' PROVE data'[p] = Null /\ len'[p] = 0
    <3>1. CASE p = o
      BY <3>1, <1>1, <1>2, InvParts DEF Release, Memory
    <3>2. CASE p # o
      <4>1. data'[p] = data[p] /\ p \in Objs \ alive
        BY <2>1, <3>2, <1>1, InvParts DEF Release, Memory
      <4> QED
        BY <3>2, <4>1, <1>2 DEF IInv, DeadIsEmpty
    <3> QED
      BY <3>1, <3>2
  <2> QED
    BY <2>1 DEF DeadIsEmpty
<1> QED
  BY <1>1, <1>3, <1>4, InvParts

(* A move into a buffer that is alive or becomes so. *)
LEMMA MovedKeeps ==
  ASSUME IInv, NEW o \in Objs, NEW s \in Objs, o # s, s \in alive,
         alive' = alive \cup {o},
         allocated' = allocated \ BlockOf(o),
         heap' = [b \in Blocks |-> IF b \in BlockOf(o) THEN <<>> ELSE heap[b]],
         data' = [data EXCEPT ![o] = data[s], ![s] = Null],
         len' = [len EXCEPT ![o] = len[s], ![s] = 0]
  PROVE  IInv'
<1>1. Memory' /\ Ownership'
  BY InvParts, MoveKeeps
<1>2. DeadIsEmpty'
  <2>1. ASSUME NEW p \in Objs \ alive' PROVE data'[p] = Null /\ len'[p] = 0
    <3>1. p # o /\ p # s /\ p \in Objs \ alive
      BY <2>1
    <3>2. data'[p] = data[p] /\ len'[p] = len[p]
      BY <3>1, InvParts DEF Memory
    <3> QED
      BY <3>1, <3>2 DEF IInv, DeadIsEmpty
  <2> QED
    BY <2>1 DEF DeadIsEmpty
<1> QED
  BY <1>1, <1>2, InvParts

LEMMA MoveConstructKeeps ==
  ASSUME IInv, NEW o \in Objs, NEW s \in Objs, MoveConstruct(o, s)
  PROVE  IInv'
<1>1. /\ o \notin alive /\ s \in alive /\ alive' = alive \cup {o}
      /\ data' = [data EXCEPT ![o] = data[s], ![s] = Null]
      /\ len' = [len EXCEPT ![o] = len[s], ![s] = 0]
      /\ allocated' = allocated /\ heap' = heap
  BY DEF MoveConstruct, store
<1>2. BlockOf(o) = {}
  BY <1>1, DeadOwnsNothing
<1>3. /\ allocated' = allocated \ BlockOf(o)
      /\ heap' = [b \in Blocks |-> IF b \in BlockOf(o) THEN <<>> ELSE heap[b]]
  BY <1>1, <1>2, InvParts DEF Memory
<1> QED
  BY <1>1, <1>3, MovedKeeps

LEMMA MoveAssignKeeps ==
  ASSUME IInv, NEW o \in Objs, NEW s \in Objs, MoveAssign(o, s)
  PROVE  IInv'
<1>1. o \in alive /\ s \in alive /\ alive' = alive /\ alive' = alive \cup {o}
  BY DEF MoveAssign
<1>2. CASE o = s /\ UNCHANGED <<data, len, store>>
  <2>1. data' = data /\ len' = len /\ allocated' = allocated /\ heap' = heap
    BY <1>2 DEF store
  <2> QED
    BY <1>1, <2>1 DEF IInv, TypeOK, DeadIsEmpty, Ownership, Exclusive, Owned, Fits
<1>3. CASE o # s
  BY <1>1, <1>3, MovedKeeps DEF MoveAssign
<1> QED
  BY <1>2, <1>3 DEF MoveAssign

LEMMA WriteByteKeeps ==
  ASSUME IInv, NEW o \in Objs, NEW i \in 1..MaxLen, NEW v \in Bytes, Write(o, i, v)
  PROVE  IInv'
<1>1. /\ Usable(o) /\ i \in 1..len[o]
      /\ heap' = [heap EXCEPT ![data[o]][i] = v]
      /\ alive' = alive /\ data' = data /\ len' = len /\ allocated' = allocated
  BY DEF Write
<1>2. len[o] \in Nat
  BY InvParts, MaxLenAssumption DEF Memory
<1>3. data[o] # Null
  BY <1>1, <1>2 DEF Usable, IsTorn
<1>4. Memory' /\ Ownership'
  BY <1>1, <1>3, InvParts, WriteKeeps
<1>5. DeadIsEmpty'
  BY <1>1 DEF IInv, DeadIsEmpty
<1> QED
  BY <1>1, <1>4, <1>5, InvParts

LEMMA InvStep == IInv /\ [Next]_vars => IInv'
<1> SUFFICES ASSUME IInv, [Next]_vars PROVE IInv'
  OBVIOUS
<1>1. CASE UNCHANGED vars
  BY <1>1 DEF vars, IInv, TypeOK, DeadIsEmpty, Ownership, Exclusive, Owned, Fits
<1>2. CASE Next
  <2>1. PICK o \in Objs :
          \/ \E n \in 0..MaxLen : ConstructSized(o, n)
          \/ \E c \in Contents : ConstructFrom(o, c)
          \/ Destroy(o)
          \/ \E i \in 1..MaxLen, b \in Bytes : Write(o, i, b)
          \/ \E s \in Objs :
               \/ CopyConstruct(o, s)
               \/ MoveConstruct(o, s)
               \/ CopyAssign(o, s)
               \/ FailedCopyAssign(o, s)
               \/ MoveAssign(o, s)
    BY <1>2 DEF Next
  <2>2. CASE \E n \in 0..MaxLen : ConstructSized(o, n)
    BY <2>2, ConstructSizedKeeps
  <2>3. CASE \E c \in Contents : ConstructFrom(o, c)
    BY <2>3, ConstructFromKeeps
  <2>4. CASE Destroy(o)
    BY <2>4, DestroyKeeps
  <2>5. CASE \E i \in 1..MaxLen, b \in Bytes : Write(o, i, b)
    BY <2>5, WriteByteKeeps
  <2>6. ASSUME NEW s \in Objs,
               \/ CopyConstruct(o, s)
               \/ MoveConstruct(o, s)
               \/ CopyAssign(o, s)
               \/ FailedCopyAssign(o, s)
               \/ MoveAssign(o, s)
        PROVE  IInv'
    BY <2>6, CopyConstructKeeps, MoveConstructKeeps, CopyAssignKeeps,
       FailedCopyAssignKeeps, MoveAssignKeeps
  <2> QED
    BY <2>1, <2>2, <2>3, <2>4, <2>5, <2>6
<1> QED
  BY <1>1, <1>2

LEMMA InvCorrect == Spec => []IInv
<1>1. Init => IInv
  BY InvInit
<1>2. IInv /\ [Next]_vars => IInv'
  BY InvStep
<1> QED
  BY <1>1, <1>2, PTL DEF Spec

-----------------------------------------------------------------------------

(* Pointers are nullptr or blocks, lengths and contents within bounds. *)
THEOREM TypeCorrect == Spec => []TypeOK
<1>1. IInv => TypeOK
  BY DEF IInv
<1> QED
  BY <1>1, InvCorrect, PTL

(* No block is ever freed twice or under another buffer: none has two      *)
(* buffers.                                                                *)
THEOREM OneOwnerCorrect == Spec => []OneOwner
<1>1. IInv => OneOwner
  BY DEF IInv, TypeOK, Ownership, Exclusive, OneOwner
<1> QED
  BY <1>1, InvCorrect, PTL

(* Nothing leaks and nothing dangles, though assignments may throw.        *)
THEOREM AllocatedCorrect == Spec => []AllocatedIffOwned
<1>1. ASSUME IInv PROVE AllocatedIffOwned
  <2>1. allocated = {data[o] : o \in Objs} \ {Null} /\ alive \subseteq Objs
    BY <1>1 DEF IInv, TypeOK, Ownership, Owned
  <2>2. \A o \in Objs : data[o] # Null => o \in alive
    BY <1>1 DEF IInv, DeadIsEmpty
  <2>3. {data[o] : o \in Objs} \ {Null} = {data[o] : o \in alive} \ {Null}
    BY <2>1, <2>2
  <2> QED
    BY <2>1, <2>3 DEF AllocatedIffOwned
<1>2. IInv => AllocatedIffOwned
  BY <1>1
<1> QED
  BY <1>2, InvCorrect, PTL

(* A buffer that has a block knows how long it is. *)
THEOREM LengthCorrect == Spec => []BlockHoldsLength
<1>1. IInv => BlockHoldsLength
  BY DEF IInv, TypeOK, Ownership, Fits, BlockHoldsLength
<1> QED
  BY <1>1, InvCorrect, PTL

-----------------------------------------------------------------------------
(* The refinement.  What the values are, and how the three changes of the  *)
(* memory look from outside.                                               *)

ValView == [o \in Objs |-> BytesOf(o)]

TornView == {o \in alive : IsTorn(o)}

(* A buffer whose block and length stay keeps its value. *)
LEMMA Untouched ==
  ASSUME NEW p \in Objs, data'[p] = data[p], len'[p] = len[p],
         data[p] # Null => heap'[data[p]] = heap[data[p]]
  PROVE  BytesOf(p)' = BytesOf(p) /\ (IsTorn(p)' <=> IsTorn(p))
  BY DEF BytesOf, IsTorn

LEMMA OthersKeepBlocks ==
  ASSUME IInv, NEW o \in Objs, NEW p \in Objs, p # o, data[p] # Null
  PROVE  data[p] \in Blocks /\ data[p] \in allocated /\ data[p] \notin BlockOf(o)
  BY DEF IInv, TypeOK, Ownership, Exclusive, Owned, BlockOf

LEMMA ViewChange ==
  ASSUME NEW o \in Objs, NEW c, BytesOf(o)' = c,
         \A p \in Objs : p # o => BytesOf(p)' = BytesOf(p)
  PROVE  ValView' = [ValView EXCEPT ![o] = c]
  BY DEF ValView

LEMMA AllocateView ==
  ASSUME IInv, NEW o \in Objs, NEW c \in Contents,
         Allocate(o, BlockOf(o), c), len' = [len EXCEPT ![o] = Len(c)]
  PROVE  /\ ValView' = [ValView EXCEPT ![o] = c]
         /\ ~ IsTorn(o)'
         /\ \A p \in Objs : p # o => (IsTorn(p)' <=> IsTorn(p))
<1>1. PICK b \in Blocks \ (allocated \ BlockOf(o)) :
        /\ heap' = [d \in Blocks |-> IF d = b THEN c ELSE IF d \in BlockOf(o) THEN <<>> ELSE heap[d]]
        /\ data' = [data EXCEPT ![o] = b]
  BY DEF Allocate
<1>2. b # Null /\ Memory
  BY NullAssumption, InvParts
<1>3. data'[o] = b /\ len'[o] = Len(c) /\ heap'[b] = c
  BY <1>1, <1>2 DEF Memory
<1>4. BytesOf(o)' = c /\ ~ IsTorn(o)'
  <2>1. SubSeq(c, 1, Len(c)) = c
    BY ContentFacts
  <2> QED
    BY <1>2, <1>3, <2>1 DEF BytesOf, IsTorn
<1>5. ASSUME NEW p \in Objs, p # o
      PROVE  BytesOf(p)' = BytesOf(p) /\ (IsTorn(p)' <=> IsTorn(p))
  <2>1. data'[p] = data[p] /\ len'[p] = len[p]
    BY <1>1, <1>2, <1>5 DEF Memory
  <2>2. ASSUME data[p] # Null PROVE heap'[data[p]] = heap[data[p]]
    BY <2>2, <1>1, <1>5, OthersKeepBlocks
  <2> QED
    BY <2>1, <2>2, Untouched
<1> QED
  BY <1>4, <1>5, ViewChange

LEMMA ReleaseView ==
  ASSUME IInv, NEW o \in Objs, Release(o, Null),
         \A p \in Objs : p # o => len'[p] = len[p]
  PROVE  /\ ValView' = [ValView EXCEPT ![o] = <<>>]
         /\ IsTorn(o)' <=> len'[o] # 0
         /\ \A p \in Objs : p # o => (IsTorn(p)' <=> IsTorn(p))
<1>1. /\ heap' = [b \in Blocks |-> IF b \in BlockOf(o) THEN <<>> ELSE heap[b]]
      /\ data' = [data EXCEPT ![o] = Null]
      /\ Memory
  BY InvParts DEF Release
<1>2. data'[o] = Null
  BY <1>1 DEF Memory
<1>3. BytesOf(o)' = <<>> /\ (IsTorn(o)' <=> len'[o] # 0)
  BY <1>2 DEF BytesOf, IsTorn
<1>4. ASSUME NEW p \in Objs, p # o
      PROVE  BytesOf(p)' = BytesOf(p) /\ (IsTorn(p)' <=> IsTorn(p))
  <2>1. data'[p] = data[p] /\ len'[p] = len[p]
    BY <1>1, <1>4 DEF Memory
  <2>2. ASSUME data[p] # Null PROVE heap'[data[p]] = heap[data[p]]
    BY <2>2, <1>1, <1>4, OthersKeepBlocks
  <2> QED
    BY <2>1, <2>2, Untouched
<1> QED
  BY <1>3, <1>4, ViewChange

LEMMA MoveView ==
  ASSUME IInv, NEW o \in Objs, NEW s \in Objs, o # s,
         heap' = [b \in Blocks |-> IF b \in BlockOf(o) THEN <<>> ELSE heap[b]],
         data' = [data EXCEPT ![o] = data[s], ![s] = Null],
         len' = [len EXCEPT ![o] = len[s], ![s] = 0]
  PROVE  /\ ValView' = [ValView EXCEPT ![o] = ValView[s], ![s] = <<>>]
         /\ IsTorn(o)' <=> IsTorn(s)
         /\ ~ IsTorn(s)'
         /\ \A p \in Objs : p # o /\ p # s => (IsTorn(p)' <=> IsTorn(p))
<1>1. Memory
  BY InvParts
<1>2. data'[o] = data[s] /\ data'[s] = Null /\ len'[o] = len[s] /\ len'[s] = 0
  BY <1>1 DEF Memory
<1>3. ASSUME NEW p \in Objs, p # o, data[p] # Null PROVE heap'[data[p]] = heap[data[p]]
  BY <1>3, OthersKeepBlocks
<1>4. BytesOf(o)' = BytesOf(s) /\ (IsTorn(o)' <=> IsTorn(s))
  BY <1>2, <1>3 DEF BytesOf, IsTorn
<1>5. BytesOf(s)' = <<>> /\ ~ IsTorn(s)'
  BY <1>2 DEF BytesOf, IsTorn
<1>6. ASSUME NEW p \in Objs, p # o, p # s
      PROVE  BytesOf(p)' = BytesOf(p) /\ (IsTorn(p)' <=> IsTorn(p))
  <2>1. data'[p] = data[p] /\ len'[p] = len[p]
    BY <1>1, <1>6 DEF Memory
  <2> QED
    BY <2>1, <1>3, <1>6, Untouched
<1>7. ValView' = [ValView EXCEPT ![o] = ValView[s], ![s] = <<>>]
  <2>1. ValView' = [p \in Objs |-> IF p = s THEN <<>> ELSE IF p = o THEN BytesOf(s) ELSE BytesOf(p)]
    BY <1>4, <1>5, <1>6 DEF ValView
  <2>2. ValView[s] = BytesOf(s)
    BY DEF ValView
  <2> QED
    BY <2>1, <2>2 DEF ValView
<1> QED
  BY <1>4, <1>5, <1>6, <1>7

LEMMA UsableView == Values!usable = {s \in alive : ~ IsTorn(s)}
  BY DEF Values!usable

LEMMA ViewOf ==
  ASSUME NEW s \in Objs
  PROVE  ValView[s] = BytesOf(s)
  BY DEF ValView

(* A constructor that allocates constructs a value. *)
LEMMA NewWithBlockView ==
  ASSUME IInv, NEW o \in Objs, NEW c \in Contents,
         o \notin alive, alive' = alive \cup {o},
         Allocate(o, {}, c), len' = [len EXCEPT ![o] = Len(c)]
  PROVE  Values!Construct(o, c)
<1>1. Allocate(o, BlockOf(o), c)
  BY DeadOwnsNothing
<1>2. /\ ValView' = [ValView EXCEPT ![o] = c]
      /\ ~ IsTorn(o)'
      /\ \A p \in Objs : p # o => (IsTorn(p)' <=> IsTorn(p))
  BY <1>1, AllocateView
<1>3. TornView' = TornView
  BY <1>2, InvParts DEF TornView
<1> QED
  BY <1>2, <1>3 DEF Values!Construct, ValView, TornView

LEMMA ConstructSizedView ==
  ASSUME IInv, NEW o \in Objs, NEW n \in 0..MaxLen, ConstructSized(o, n)
  PROVE  \E c \in Contents : Values!Construct(o, c)
<1>1. /\ o \notin alive /\ alive' = alive \cup {o}
      /\ len' = [len EXCEPT ![o] = n]
  BY DEF ConstructSized
<1>2. CASE n = 0 /\ data' = [data EXCEPT ![o] = Null] /\ UNCHANGED store
  <2>1. data[o] = Null /\ len[o] = 0
    BY <1>1 DEF IInv, DeadIsEmpty
  <2>2. data' = data /\ len' = len /\ heap' = heap
    BY <1>1, <1>2, <2>1 DEF IInv, TypeOK, store
  <2>3. ValView' = ValView /\ ValView[o] = <<>>
    BY <2>1, <2>2 DEF ValView, BytesOf
  <2>4. ValView' = [ValView EXCEPT ![o] = <<>>]
    BY <2>3 DEF ValView
  <2>5. TornView' = TornView
    BY <1>1, <2>1, <2>2 DEF TornView, IsTorn
  <2>6. Values!Construct(o, <<>>)
    BY <1>1, <2>4, <2>5 DEF Values!Construct, ValView, TornView
  <2> QED
    BY <2>6, EmptyContent
<1>3. CASE \E c \in [1..n -> Bytes] : Allocate(o, {}, c)
  <2>1. PICK c \in [1..n -> Bytes] : Allocate(o, {}, c)
    BY <1>3
  <2>2. c \in Contents /\ Len(c) = n
    BY ContentMade
  <2>3. Values!Construct(o, c)
    BY <1>1, <2>1, <2>2, NewWithBlockView
  <2> QED
    BY <2>2, <2>3
<1> QED
  BY <1>2, <1>3 DEF ConstructSized

LEMMA CopyConstructView ==
  ASSUME IInv, NEW o \in Objs, NEW s \in Objs, CopyConstruct(o, s)
  PROVE  Values!CopyConstruct(o, s)
<1>1. /\ o \notin alive /\ Usable(s) /\ alive' = alive \cup {o}
      /\ len' = [len EXCEPT ![o] = len[s]] /\ Allocate(o, {}, BytesOf(s))
  BY DEF CopyConstruct
<1>2. BytesOf(s) \in Contents /\ Len(BytesOf(s)) = len[s]
  BY <1>1, BytesFit
<1>3. Values!Construct(o, BytesOf(s))
  BY <1>1, <1>2, NewWithBlockView
<1>4. s \in Values!usable
  BY <1>1, UsableView DEF Usable
<1> QED
  BY <1>3, <1>4, ViewOf DEF Values!CopyConstruct, ValView

LEMMA CopyAssignView ==
  ASSUME IInv, NEW o \in Objs, NEW s \in Objs, CopyAssign(o, s)
  PROVE  Values!CopyAssign(o, s) \/ UNCHANGED vars
<1>1. o \in alive /\ Usable(s) /\ alive' = alive
  BY DEF CopyAssign
<1>2. CASE o = s /\ UNCHANGED <<data, len, store>>
  BY <1>1, <1>2 DEF vars, store
<1>3. CASE /\ o # s /\ len' = [len EXCEPT ![o] = len[s]]
           /\ Allocate(o, BlockOf(o), BytesOf(s))
  <2>1. BytesOf(s) \in Contents /\ Len(BytesOf(s)) = len[s]
    BY <1>1, BytesFit
  <2>2. /\ ValView' = [ValView EXCEPT ![o] = BytesOf(s)]
        /\ ~ IsTorn(o)'
        /\ \A p \in Objs : p # o => (IsTorn(p)' <=> IsTorn(p))
    BY <1>3, <2>1, AllocateView
  <2>3. TornView' = TornView \ {o}
    BY <1>1, <2>2, InvParts DEF TornView
  <2>4. s \in Values!usable
    BY <1>1, UsableView DEF Usable
  <2>5. ValView' = [ValView EXCEPT ![o] = ValView[s]]
    BY <2>2, ViewOf
  <2>6. Values!CopyAssign(o, s)
    BY <1>1, <2>3, <2>4, <2>5 DEF Values!CopyAssign, ValView, TornView
  <2> QED
    BY <2>6
<1> QED
  BY <1>2, <1>3 DEF CopyAssign

(* The target is torn by the failure unless it was empty; a torn one stays *)
(* torn.                                                                   *)
LEMMA FailedCopyAssignView ==
  ASSUME IInv, NEW o \in Objs, NEW s \in Objs, FailedCopyAssign(o, s)
  PROVE  Values!FailedCopyAssign(o, s)
<1>1. /\ AllocMayFail /\ o \in alive /\ Usable(s) /\ o # s
      /\ Release(o, Null) /\ alive' = alive /\ len' = len
  BY DEF FailedCopyAssign
<1>2. /\ ValView' = [ValView EXCEPT ![o] = <<>>]
      /\ IsTorn(o)' <=> len'[o] # 0
      /\ \A p \in Objs : p # o => (IsTorn(p)' <=> IsTorn(p))
  BY <1>1, ReleaseView
<1>3. TornView' = IF ValView[o] = <<>> THEN TornView ELSE TornView \cup {o}
  <2>1. CASE IsTorn(o)
    <3>1. ValView[o] = <<>> /\ len[o] # 0
      BY <2>1, ViewOf DEF BytesOf, IsTorn
    <3>2. TornView' = TornView
      BY <2>1, <3>1, <1>1, <1>2, InvParts DEF TornView
    <3> QED
      BY <3>1, <3>2
  <2>2. CASE ~ IsTorn(o)
    <3>1. Len(BytesOf(o)) = len[o] /\ BytesOf(o) \in Contents
      BY <1>1, <2>2, BytesFit DEF Usable
    <3>2. ValView[o] = <<>> <=> len[o] = 0
      <4>1. BytesOf(o) \in Seq(Bytes)
        BY <3>1, ContentFacts
      <4>2. BytesOf(o) = <<>> <=> Len(BytesOf(o)) = 0
        BY <4>1
      <4> QED
        BY <3>1, <4>2, ViewOf
    <3>3. IsTorn(o)' <=> ValView[o] # <<>>
      BY <3>2, <1>1, <1>2
    <3>4. TornView' = IF ValView[o] = <<>> THEN TornView ELSE TornView \cup {o}
      BY <2>2, <3>3, <1>1, <1>2, InvParts DEF TornView
    <3> QED
      BY <3>4
  <2> QED
    BY <2>1, <2>2
<1>4. s \in Values!usable
  BY <1>1, UsableView DEF Usable
<1> QED
  BY <1>1, <1>2, <1>3, <1>4 DEF Values!FailedCopyAssign, ValView, TornView

LEMMA DestroyView ==
  ASSUME IInv, NEW o \in Objs, Destroy(o)
  PROVE  Values!Destroy(o)
<1>1. /\ o \in alive /\ alive' = alive \ {o} /\ Release(o, Null)
      /\ len' = [len EXCEPT ![o] = 0]
  BY DEF Destroy
<1>2. \A p \in Objs : p # o => len'[p] = len[p]
  BY <1>1, InvParts DEF Memory
<1>3. /\ ValView' = [ValView EXCEPT ![o] = <<>>]
      /\ \A p \in Objs : p # o => (IsTorn(p)' <=> IsTorn(p))
  BY <1>1, <1>2, ReleaseView
<1>4. TornView' = TornView \ {o}
  BY <1>1, <1>3, InvParts DEF TornView
<1> QED
  BY <1>1, <1>3, <1>4 DEF Values!Destroy, ValView, TornView

(* What moves is the value, or the lack of one. *)
LEMMA MovedView ==
  ASSUME IInv, NEW o \in Objs, NEW s \in Objs, o # s, s \in alive,
         alive' = alive \cup {o},
         heap' = [b \in Blocks |-> IF b \in BlockOf(o) THEN <<>> ELSE heap[b]],
         data' = [data EXCEPT ![o] = data[s], ![s] = Null],
         len' = [len EXCEPT ![o] = len[s], ![s] = 0]
  PROVE  Values!Move(o, s)
<1>1. /\ ValView' = [ValView EXCEPT ![o] = ValView[s], ![s] = <<>>]
      /\ IsTorn(o)' <=> IsTorn(s)
      /\ ~ IsTorn(s)'
      /\ \A p \in Objs : p # o /\ p # s => (IsTorn(p)' <=> IsTorn(p))
  BY MoveView
<1>2. alive' = alive \cup {o} /\ alive \subseteq Objs
  BY InvParts
<1>3. TornView' = IF s \in TornView THEN (TornView \cup {o}) \ {s} ELSE TornView \ {o}
  <2>1. CASE IsTorn(s)
    <3>1. s \in TornView
      BY <2>1 DEF TornView
    <3>2. TornView' = (TornView \cup {o}) \ {s}
      BY <2>1, <1>1, <1>2 DEF TornView
    <3> QED
      BY <3>1, <3>2
  <2>2. CASE ~ IsTorn(s)
    <3>1. s \notin TornView
      BY <2>2 DEF TornView
    <3>2. TornView' = TornView \ {o}
      BY <2>2, <1>1, <1>2 DEF TornView
    <3> QED
      BY <3>1, <3>2
  <2> QED
    BY <2>1, <2>2
<1> QED
  BY <1>1, <1>3 DEF Values!Move, ValView, TornView

LEMMA MoveConstructView ==
  ASSUME IInv, NEW o \in Objs, NEW s \in Objs, MoveConstruct(o, s)
  PROVE  Values!MoveConstruct(o, s)
<1>1. /\ o \notin alive /\ s \in alive /\ alive' = alive \cup {o}
      /\ data' = [data EXCEPT ![o] = data[s], ![s] = Null]
      /\ len' = [len EXCEPT ![o] = len[s], ![s] = 0]
      /\ heap' = heap
  BY DEF MoveConstruct, store
<1>2. BlockOf(o) = {}
  BY <1>1, DeadOwnsNothing
<1>3. heap' = [b \in Blocks |-> IF b \in BlockOf(o) THEN <<>> ELSE heap[b]]
  BY <1>1, <1>2, InvParts DEF Memory
<1>4. Values!Move(o, s)
  BY <1>1, <1>3, MovedView
<1> QED
  BY <1>1, <1>4 DEF Values!MoveConstruct

LEMMA MoveAssignView ==
  ASSUME IInv, NEW o \in Objs, NEW s \in Objs, MoveAssign(o, s)
  PROVE  Values!MoveAssign(o, s) \/ UNCHANGED vars
<1>1. o \in alive /\ s \in alive /\ alive' = alive /\ alive' = alive \cup {o}
  BY DEF MoveAssign
<1>2. CASE o = s /\ UNCHANGED <<data, len, store>>
  BY <1>1, <1>2 DEF vars, store
<1>3. CASE o # s
  <2>1. Values!Move(o, s)
    BY <1>1, <1>3, MovedView DEF MoveAssign
  <2> QED
    BY <1>1, <1>3, <2>1 DEF Values!MoveAssign
<1> QED
  BY <1>2, <1>3 DEF MoveAssign

LEMMA WriteByteView ==
  ASSUME IInv, NEW o \in Objs, NEW i \in 1..MaxLen, NEW v \in Bytes, Write(o, i, v)
  PROVE  Values!Write(o, i, v)
<1>1. /\ Usable(o) /\ i \in 1..len[o]
      /\ heap' = [heap EXCEPT ![data[o]][i] = v]
      /\ alive' = alive /\ data' = data /\ len' = len
  BY DEF Write
<1>2. Memory
  BY InvParts
<1>3. data[o] # Null /\ data[o] \in Blocks
  BY <1>1, <1>2, MaxLenAssumption DEF Usable, IsTorn, Memory
<1> DEFINE old == heap[data[o]]
           new == [old EXCEPT ![i] = v]
<1>4. old \in Contents /\ len[o] = Len(old)
  BY <1>2, <1>3 DEF Memory, IInv, Ownership, Fits
<1>5. /\ Len(old) \in 0..MaxLen /\ old \in [1..Len(old) -> Bytes]
      /\ SubSeq(old, 1, Len(old)) = old
  BY <1>4, ContentFacts
<1>6. new \in [1..Len(old) -> Bytes]
  BY <1>5
<1>7. new \in Contents /\ Len(new) = Len(old)
  BY <1>5, <1>6, ContentMade
<1>8. SubSeq(new, 1, Len(new)) = new
  BY <1>7, ContentFacts
<1>9. heap' = [heap EXCEPT ![data[o]] = new]
  BY <1>1, <1>2, <1>3 DEF Memory
<1>10. heap'[data[o]] = new
  BY <1>9, <1>2, <1>3 DEF Memory
<1> HIDE DEF new
<1>11. BytesOf(o) = old /\ BytesOf(o)' = new
  <2>1. BytesOf(o) = old
    BY <1>3, <1>4, <1>5 DEF BytesOf
  <2>2. BytesOf(o)' = SubSeq(new, 1, len[o])
    BY <1>1, <1>3, <1>10 DEF BytesOf
  <2> QED
    BY <2>1, <2>2, <1>4, <1>7, <1>8
<1>12. ASSUME NEW p \in Objs, p # o PROVE BytesOf(p)' = BytesOf(p)
  <2>1. ASSUME data[p] # Null PROVE heap'[data[p]] = heap[data[p]]
    <3>1. data[p] # data[o] /\ data[p] \in Blocks
      BY <2>1, <1>2, <1>12 DEF Memory, IInv, Ownership, Exclusive
    <3> QED
      BY <3>1, <1>2, <1>9 DEF Memory
  <2> QED
    BY <2>1, <1>1, Untouched
<1>13. ValView' = [ValView EXCEPT ![o] = new]
  BY <1>11, <1>12, ViewChange
<1>14. ValView[o] = old
  BY <1>11, ViewOf
<1>15. ValView' = [ValView EXCEPT ![o][i] = v]
  BY <1>13, <1>14 DEF new, ValView
<1>16. TornView' = TornView
  BY <1>1 DEF TornView, IsTorn
<1>17. o \in Values!usable /\ i \in 1..Len(ValView[o])
  BY <1>1, <1>4, <1>14, UsableView DEF Usable
<1> QED
  BY <1>1, <1>15, <1>16, <1>17 DEF Values!Write, ValView, TornView

LEMMA InitView == Init => Values!Init
<1> SUFFICES ASSUME Init PROVE Values!Init
  OBVIOUS
<1>1. alive = {} /\ TornView = {}
  BY DEF Init, TornView
<1>2. ValView = [o \in Objs |-> <<>>]
  BY DEF Init, ValView, BytesOf
<1> QED
  BY <1>1, <1>2 DEF Values!Init, TornView, ValView

LEMMA StepView == IInv /\ [Next]_vars => [Values!Next]_(Values!vars)
<1> SUFFICES ASSUME IInv, [Next]_vars PROVE [Values!Next]_(Values!vars)
  OBVIOUS
<1>1. ASSUME UNCHANGED vars PROVE UNCHANGED Values!vars
  <2>1. alive' = alive /\ data' = data /\ len' = len /\ heap' = heap
    BY <1>1 DEF vars
  <2> QED
    BY <2>1 DEF Values!vars, IsTorn, BytesOf
<1>2. Values!Contents = Contents
  BY DEF Values!Contents, Contents
<1>3. CASE Next
  <2>1. PICK o \in Objs :
          \/ \E n \in 0..MaxLen : ConstructSized(o, n)
          \/ \E c \in Contents : ConstructFrom(o, c)
          \/ Destroy(o)
          \/ \E i \in 1..MaxLen, b \in Bytes : Write(o, i, b)
          \/ \E s \in Objs :
               \/ CopyConstruct(o, s)
               \/ MoveConstruct(o, s)
               \/ CopyAssign(o, s)
               \/ FailedCopyAssign(o, s)
               \/ MoveAssign(o, s)
    BY <1>3 DEF Next
  <2>2. ASSUME NEW n \in 0..MaxLen, ConstructSized(o, n) PROVE Values!Next
    <3>1. PICK c \in Contents : Values!Construct(o, c)
      BY <2>2, ConstructSizedView
    <3> QED
      BY <3>1, <1>2 DEF Values!Next
  <2>3. ASSUME NEW c \in Contents, ConstructFrom(o, c) PROVE Values!Next
    <3>1. Values!Construct(o, c)
      BY <2>3, NewWithBlockView DEF ConstructFrom
    <3> QED
      BY <3>1, <1>2 DEF Values!Next
  <2>4. ASSUME Destroy(o) PROVE Values!Next
    BY <2>4, DestroyView DEF Values!Next
  <2>5. ASSUME NEW i \in 1..MaxLen, NEW b \in Bytes, Write(o, i, b) PROVE Values!Next
    <3>1. Values!Write(o, i, b)
      BY <2>5, WriteByteView
    <3> QED
      BY <3>1 DEF Values!Next
  <2>6. ASSUME NEW s \in Objs, CopyConstruct(o, s) PROVE Values!Next
    <3>1. Values!CopyConstruct(o, s)
      BY <2>6, CopyConstructView
    <3> QED
      BY <3>1 DEF Values!Next
  <2>7. ASSUME NEW s \in Objs, MoveConstruct(o, s) PROVE Values!Next
    <3>1. Values!MoveConstruct(o, s)
      BY <2>7, MoveConstructView
    <3> QED
      BY <3>1 DEF Values!Next
  <2>8. ASSUME NEW s \in Objs, CopyAssign(o, s) PROVE Values!Next \/ UNCHANGED vars
    <3>1. Values!CopyAssign(o, s) \/ UNCHANGED vars
      BY <2>8, CopyAssignView
    <3> QED
      BY <3>1 DEF Values!Next
  <2>9. ASSUME NEW s \in Objs, FailedCopyAssign(o, s) PROVE Values!Next
    <3>1. Values!FailedCopyAssign(o, s)
      BY <2>9, FailedCopyAssignView
    <3> QED
      BY <3>1 DEF Values!Next
  <2>10. ASSUME NEW s \in Objs, MoveAssign(o, s) PROVE Values!Next \/ UNCHANGED vars
    <3>1. Values!MoveAssign(o, s) \/ UNCHANGED vars
      BY <2>10, MoveAssignView
    <3> QED
      BY <3>1 DEF Values!Next
  <2>11. Values!Next \/ UNCHANGED vars
    BY <2>1, <2>2, <2>3, <2>4, <2>5, <2>6, <2>7, <2>8, <2>9, <2>10
  <2> QED
    BY <2>11, <1>1
<1>4. CASE UNCHANGED vars
  BY <1>4, <1>1
<1> QED
  BY <1>3, <1>4

(* Buffers are independent values: nothing done to one is ever seen in     *)
(* another, except the move that empties its source.                       *)
THEOREM ValuesImplemented == Spec => ImplementsValues
<1>1. Init => Values!Init
  BY InitView
<1>2. IInv /\ [Next]_vars => [Values!Next]_(Values!vars)
  BY StepView
<1> QED
  BY <1>1, <1>2, InvCorrect, PTL DEF Spec, ImplementsValues, Values!Spec
=============================================================================
