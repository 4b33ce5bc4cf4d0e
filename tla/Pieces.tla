------------------------------- MODULE Pieces -------------------------------
(***************************************************************************)
(* Finding and replacing in sequences of characters, or of larger pieces   *)
(* of text, as Python's string methods do.  Positions count from 1, 0      *)
(* means "not found".                                                      *)
(***************************************************************************)
EXTENDS Integers, Sequences, SequencesExt

At(s, sub, i) ==
  i + Len(sub) - 1 <= Len(s) /\ SubSeq(s, i, i + Len(sub) - 1) = sub

(* s.find(sub, i) *)
Find(s, sub, i) ==
  LET places == {k \in i..Len(s) : At(s, sub, k)}
  IN  IF places = {} THEN 0 ELSE Min(places)

After(s, i) == SubSeq(s, i, Len(s))

(* s.replace(sub, new): what becomes of s from the first piece on. *)
Replaced(s, sub, new) ==
  LET from[i \in 1..(Len(s) + 1)] ==
        LET k == Find(s, sub, i)
        IN  IF k = 0 THEN After(s, i)
            ELSE SubSeq(s, i, k - 1) \o new \o from[k + Len(sub)]
  IN  from[1]
=============================================================================
