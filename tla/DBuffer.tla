------------------------------ MODULE DBuffer ------------------------------
(***************************************************************************)
(* dbuffer_t of include/common/GB_dbuffer.h: a set of buffer variables,    *)
(* each a pointer and a length, over a heap of blocks.  Every constructor, *)
(* assignment and destructor is one action; operator new[] may throw.      *)
(* A program never reads, writes or copies from a buffer whose assignment  *)
(* has thrown (it may destroy it, assign to it or move it).                *)
(***************************************************************************)
EXTENDS Naturals, Sequences

CONSTANTS
  Objs,       \* the program's buffer variables
  Blocks,     \* the blocks operator new[] hands out
  Bytes,      \* the values of a byte
  MaxLen,     \* bound on the length of a buffer
  Null,       \* nullptr
  AllocMayFail    \* whether operator new[] may throw bad_alloc

ASSUME MaxLenAssumption == MaxLen \in Nat
ASSUME NullAssumption == Null \notin Blocks
ASSUME FailAssumption == AllocMayFail \in BOOLEAN

VARIABLES
  alive,    \* the constructed variables
  data,     \* __data of each variable
  len,      \* __len of each variable
  allocated,    \* the blocks that are allocated
  heap      \* the bytes of each block, <<>> when it is not allocated

vars == <<alive, data, len, allocated, heap>>
store == <<allocated, heap>>

Contents == UNION {[1..n -> Bytes] : n \in 0..MaxLen}

(* A variable that is not constructed is given the members of an empty     *)
(* buffer.                                                                 *)
Init ==
  /\ alive = {}
  /\ data = [o \in Objs |-> Null]
  /\ len = [o \in Objs |-> 0]
  /\ allocated = {}
  /\ heap = [b \in Blocks |-> <<>>]

(* The bytes behind a variable; copying 0 bytes from nullptr copies none.  *)
BytesOf(o) == IF data[o] = Null THEN <<>> ELSE SubSeq(heap[data[o]], 1, len[o])

(* A buffer whose pointer was lost and whose length was not. *)
IsTorn(o) == data[o] = Null /\ len[o] # 0

Usable(o) == o \in alive /\ ~IsTorn(o)

(* The block of variable o, if it has one. *)
BlockOf(o) == {data[o]} \ {Null}

(* __free() of variable o, whose pointer then becomes p. *)
Release(o, p) ==
  /\ allocated' = allocated \ BlockOf(o)
  /\ heap' = [b \in Blocks |-> IF b \in BlockOf(o) THEN <<>> ELSE heap[b]]
  /\ data' = [data EXCEPT ![o] = p]

(* Variable o frees what it has, if `freed', and gets a new block with the *)
(* bytes c.                                                                *)
Allocate(o, freed, c) ==
  \E b \in Blocks \ (allocated \ freed) :
    /\ allocated' = (allocated \ freed) \cup {b}
    /\ heap' = [d \in Blocks |-> IF d = b THEN c ELSE IF d \in freed THEN <<>> ELSE heap[d]]
    /\ data' = [data EXCEPT ![o] = b]

-----------------------------------------------------------------------------

(* Mutant: one byte more is allocated, for a terminating 0. *)
ConstructSized_terminated(o, n) ==
  /\ o \notin alive
  /\ alive' = alive \cup {o}
  /\ len' = [len EXCEPT ![o] = n]
  /\ n # 0 /\ \E c \in [1..n + 1 -> Bytes] : Allocate(o, {}, c)

(* dbuffer_t(size): no block for size 0, else a block of any bytes.  When  *)
(* new[] throws in a constructor there is no object and nothing changed.   *)
ConstructSized(o, n) ==
  /\ o \notin alive
  /\ alive' = alive \cup {o}
  /\ len' = [len EXCEPT ![o] = n]
  /\ \/ n = 0 /\ data' = [data EXCEPT ![o] = Null] /\ UNCHANGED store
     \/ n # 0 /\ \E c \in [1..n -> Bytes] : Allocate(o, {}, c)

(* dbuffer_t(ext_data, length) and dbuffer_t(str): a block even for 0.     *)
ConstructFrom(o, c) ==
  /\ o \notin alive
  /\ alive' = alive \cup {o}
  /\ len' = [len EXCEPT ![o] = Len(c)]
  /\ Allocate(o, {}, c)

(* Mutant: the members are copied, as the compiler's own constructor does. *)
CopyConstruct_shallow(o, s) ==
  /\ o \notin alive /\ Usable(s)
  /\ alive' = alive \cup {o}
  /\ len' = [len EXCEPT ![o] = len[s]]
  /\ data' = [data EXCEPT ![o] = data[s]]
  /\ UNCHANGED store

CopyConstruct(o, s) ==
  /\ o \notin alive /\ Usable(s)
  /\ alive' = alive \cup {o}
  /\ len' = [len EXCEPT ![o] = len[s]]
  /\ Allocate(o, {}, BytesOf(s))

MoveConstruct(o, s) ==
  /\ o \notin alive /\ s \in alive
  /\ alive' = alive \cup {o}
  /\ data' = [data EXCEPT ![o] = data[s], ![s] = Null]
  /\ len' = [len EXCEPT ![o] = len[s], ![s] = 0]
  /\ UNCHANGED store

(* Mutant: the old block of the target is not freed. *)
CopyAssign_leaks(o, s) ==
  /\ o \in alive /\ Usable(s)
  /\ \/ o = s /\ UNCHANGED <<data, len, store>>
     \/ o # s /\ len' = [len EXCEPT ![o] = len[s]] /\ Allocate(o, {}, BytesOf(s))
  /\ UNCHANGED alive

(* Mutant: no test for self-assignment: the block is freed, then copied.   *)
CopyAssign_no_self_test(o, s) ==
  /\ o \in alive /\ Usable(s)
  /\ len' = [len EXCEPT ![o] = len[s]]
  /\ \E c \in [1..len[s] -> Bytes] :
       /\ o # s => c = BytesOf(s)
       /\ Allocate(o, BlockOf(o), c)
  /\ UNCHANGED alive

(* operator=(const dbuffer_t&): frees the target's block first, so the new *)
(* block may be the old one.                                               *)
CopyAssign(o, s) ==
  /\ o \in alive /\ Usable(s)
  /\ \/ o = s /\ UNCHANGED <<data, len, store>>
     \/ o # s /\ len' = [len EXCEPT ![o] = len[s]] /\ Allocate(o, BlockOf(o), BytesOf(s))
  /\ UNCHANGED alive

(* The same when new[] throws: the block is gone, the length is not.       *)
FailedCopyAssign(o, s) ==
  /\ AllocMayFail
  /\ o \in alive /\ Usable(s) /\ o # s
  /\ Release(o, Null)
  /\ UNCHANGED <<alive, len>>

(* Mutant: the length of the target is not replaced. *)
MoveAssign_keeps_length(o, s) ==
  /\ o \in alive /\ s \in alive
  /\ \/ o = s /\ UNCHANGED <<data, len, store>>
     \/ /\ o # s
        /\ allocated' = allocated \ BlockOf(o)
        /\ heap' = [b \in Blocks |-> IF b \in BlockOf(o) THEN <<>> ELSE heap[b]]
        /\ data' = [data EXCEPT ![o] = data[s], ![s] = Null]
        /\ len' = [len EXCEPT ![s] = 0]
  /\ UNCHANGED alive

(* Mutant: the source keeps its pointer. *)
MoveAssign_keeps_source(o, s) ==
  /\ o \in alive /\ s \in alive
  /\ \/ o = s /\ UNCHANGED <<data, len, store>>
     \/ /\ o # s
        /\ Release(o, data[s])
        /\ len' = [len EXCEPT ![o] = len[s]]
  /\ UNCHANGED alive

MoveAssign(o, s) ==
  /\ o \in alive /\ s \in alive
  /\ \/ o = s /\ UNCHANGED <<data, len, store>>
     \/ /\ o # s
        /\ allocated' = allocated \ BlockOf(o)
        /\ heap' = [b \in Blocks |-> IF b \in BlockOf(o) THEN <<>> ELSE heap[b]]
        /\ data' = [data EXCEPT ![o] = data[s], ![s] = Null]
        /\ len' = [len EXCEPT ![o] = len[s], ![s] = 0]
  /\ UNCHANGED alive

Destroy(o) ==
  /\ o \in alive
  /\ alive' = alive \ {o}
  /\ Release(o, Null)
  /\ len' = [len EXCEPT ![o] = 0]

(* operator[] on the left of an assignment, below size(). *)
Write(o, i, b) ==
  /\ Usable(o) /\ i \in 1..len[o]
  /\ heap' = [heap EXCEPT ![data[o]][i] = b]
  /\ UNCHANGED <<alive, data, len, allocated>>

Next ==
  \E o \in Objs :
    \/ \E n \in 0..MaxLen : ConstructSized(o, n)
    \/ \E c \in Contents : ConstructFrom(o, c)
    \/ Destroy(o)
    \/ \E i \in 1..MaxLen, b \in Bytes : Write(o, i, b)
    \/ \E s \in Objs :
         \/ CopyConstruct(o, s)
         \/ MoveConstruct(o, s)
         \/ CopyAssign(o, s)
         \/ FailedCopyAssign(o, s)
         \/ MoveAssign(o, s)

Spec == Init /\ [][Next]_vars

-----------------------------------------------------------------------------
(* Properties. *)

TypeOK ==
  /\ alive \in SUBSET Objs
  /\ data \in [Objs -> Blocks \cup {Null}]
  /\ len \in [Objs -> 0..MaxLen]
  /\ allocated \in SUBSET Blocks
  /\ heap \in [Blocks -> Contents]

(* No two buffers point to the same block: whatever copies, moves and      *)
(* failed assignments came before, no destructor frees a block that        *)
(* another buffer still uses or has freed.                                 *)
OneOwner ==
  \A o, p \in alive : data[o] = data[p] /\ data[o] # Null => o = p

(* A block is allocated exactly as long as some buffer points to it:       *)
(* nothing leaks and no buffer points to freed memory, a throw in the      *)
(* middle of an assignment included.                                       *)
AllocatedIffOwned == allocated = {data[o] : o \in alive} \ {Null}

(* A buffer that has a block has the length of that block: no access below *)
(* size() is out of bounds.                                                *)
BlockHoldsLength ==
  \A o \in alive : data[o] # Null => len[o] = Len(heap[data[o]])

(* Buffers behave as independent values: a copy shares no bytes with its   *)
(* source, a move empties the source, self-assignment keeps the value, and *)
(* an assignment that throws costs only its target's value.                *)
Values == INSTANCE ValueBuffer WITH
  torn <- {o \in alive : IsTorn(o)},
  val <- [o \in Objs |-> BytesOf(o)]

ImplementsValues == Values!Spec
=============================================================================
