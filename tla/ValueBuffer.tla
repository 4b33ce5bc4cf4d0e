---------------------------- MODULE ValueBuffer ----------------------------
(***************************************************************************)
(* What a program expects of dynamic buffers: each is a value of its own,  *)
(* so no operation on one buffer changes another but the move that empties *)
(* its source.  An assignment that runs out of memory costs the target its *)
(* value: it is left torn, good for nothing but to be assigned, moved or   *)
(* destroyed.                                                              *)
(***************************************************************************)
EXTENDS Naturals, Sequences

CONSTANTS
  Objs,       \* the program's buffer variables
  Bytes,      \* the values of a byte
  MaxLen,     \* bound on the length of a buffer
  AllocMayFail    \* whether operator new[] may throw bad_alloc

VARIABLES
  alive,    \* the constructed variables
  torn,     \* those of them that lost their value
  val       \* the bytes of the others, <<>> for the rest

vars == <<alive, torn, val>>

Contents == UNION {[1..n -> Bytes] : n \in 0..MaxLen}

usable == alive \ torn

Init ==
  /\ alive = {}
  /\ torn = {}
  /\ val = [o \in Objs |-> <<>>]

(* Construct from a size (the bytes are any) or from given bytes.          *)
Construct(o, c) ==
  /\ o \notin alive
  /\ alive' = alive \cup {o}
  /\ val' = [val EXCEPT ![o] = c]
  /\ UNCHANGED torn

CopyConstruct(o, s) == s \in usable /\ Construct(o, val[s])

(* What moves is the value, or the lack of one.                            *)
Move(o, s) ==
  /\ torn' = IF s \in torn THEN (torn \cup {o}) \ {s} ELSE torn \ {o}
  /\ val' = [val EXCEPT ![o] = val[s], ![s] = <<>>]

MoveConstruct(o, s) ==
  /\ o \notin alive /\ s \in alive
  /\ alive' = alive \cup {o}
  /\ Move(o, s)

MoveAssign(o, s) ==
  /\ o \in alive /\ s \in alive /\ o # s
  /\ Move(o, s)
  /\ UNCHANGED alive

CopyAssign(o, s) ==
  /\ o \in alive /\ s \in usable
  /\ torn' = torn \ {o}
  /\ val' = [val EXCEPT ![o] = val[s]]
  /\ UNCHANGED alive

(* An empty buffer has no value to lose.                                   *)
FailedCopyAssign(o, s) ==
  /\ AllocMayFail
  /\ o \in alive /\ s \in usable /\ o # s
  /\ torn' = IF val[o] = <<>> THEN torn ELSE torn \cup {o}
  /\ val' = [val EXCEPT ![o] = <<>>]
  /\ UNCHANGED alive

Destroy(o) ==
  /\ o \in alive
  /\ alive' = alive \ {o}
  /\ torn' = torn \ {o}
  /\ val' = [val EXCEPT ![o] = <<>>]

Write(o, i, b) ==
  /\ o \in usable /\ i \in 1..Len(val[o])
  /\ val' = [val EXCEPT ![o][i] = b]
  /\ UNCHANGED <<alive, torn>>

Next ==
  \E o \in Objs :
    \/ \E c \in Contents : Construct(o, c)
    \/ Destroy(o)
    \/ \E i \in 1..MaxLen, b \in Bytes : Write(o, i, b)
    \/ \E s \in Objs :
         \/ CopyConstruct(o, s)
         \/ MoveConstruct(o, s)
         \/ CopyAssign(o, s)
         \/ FailedCopyAssign(o, s)
         \/ MoveAssign(o, s)

Spec == Init /\ [][Next]_vars
=============================================================================
