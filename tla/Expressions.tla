---------------------------- MODULE Expressions ----------------------------
(***************************************************************************)
(* cpplint's view of the text of a file, whatever the text is: a file is   *)
(* typed one character at a time from a small alphabet, and after every    *)
(* character what Brackets finds in it is compared with how the brackets   *)
(* of the text pair.                                                       *)
(***************************************************************************)
EXTENDS Brackets

CONSTANTS
  Alphabets,      \* Alphabets[k]: the characters of files of kind k
  MaxChars,       \* MaxChars[k]: bound on the characters of such a file
  MaxLines        \* bound on the lines of a file

VARIABLES
  kind,           \* which alphabet this file is typed from
  text            \* its lines so far

TextInit == kind \in DOMAIN Alphabets /\ text = << <<>> >>

Chars == FoldLeft(LAMBDA n, line : n + Len(line), Len(text) - 1, text)

Type(c) ==
  /\ Chars < MaxChars[kind]
  /\ text' = [text EXCEPT ![Len(text)] = Append(@, c)]
  /\ UNCHANGED kind

NewLine ==
  /\ Chars < MaxChars[kind] /\ Len(text) < MaxLines
  /\ text' = Append(text, <<>>)
  /\ UNCHANGED kind

TextNext == NewLine \/ \E c \in Alphabets[kind] : Type(c)

TextSpec == TextInit /\ [][TextNext]_<<kind, text>>

-----------------------------------------------------------------------------
(* Two brackets are a pair when from the one to the other as many close as *)
(* open, and up to no place in between.  A pair closes when all pairs in   *)
(* it are of one kind.                                                     *)

Places == UNION {{n} \X DOMAIN text[n] : n \in DOMAIN text}

CharAt(p) == text[p[1]][p[2]]

Before(p, q) == p[1] < q[1] \/ (p[1] = q[1] /\ p[2] <= q[2])

Between(p, q) == {r \in Places : Before(p, r) /\ Before(r, q)}

Excess(places) ==
  Cardinality({r \in places : CharAt(r) \in Openers})
    - Cardinality({r \in places : CharAt(r) \in Closers})

Pair(p, q) ==
  /\ CharAt(p) \in Openers /\ CharAt(q) \in Closers
  /\ Before(p, q) /\ Excess(Between(p, q)) = 0
  /\ \A r \in Between(p, q) \ {q} : Excess(Between(p, r)) > 0

(* q is the place of the bracket that closes the one at p *)
Closes(q, p) ==
  /\ Pair(p, q)
  /\ \A r, s \in Between(p, q) : Pair(r, s) => CharAt(s) = Closer(CharAt(r))

(* Every bracket at these places is closed or closes another at one.       *)
Whole(places) ==
  \A r \in places :
    CharAt(r) \in Openers \cup Closers => \E s \in places : Closes(s, r) \/ Closes(r, s)

-----------------------------------------------------------------------------
(* Properties. *)

(* For every ( [ { in any text, over any number of lines and with any < >  *)
(* and -> in between, CloseExpression finds the bracket that closes it,    *)
(* and nothing when there is none.                                         *)
BracketsMatch ==
  \A p \in {q \in Places : CharAt(q) \in Openers} :
    LET end == CloseExpression(text, p[1], p[2])
        partners == {q \in Places : Closes(q, p)}
    IN  IF partners = {} THEN end.pos = 0
        ELSE <<end.line, end.pos - 1>> \in partners

(* ReverseCloseExpression leads back from a closing bracket to exactly the *)
(* bracket that it closes.                                                 *)
ReverseMatches ==
  \A q \in {p \in Places : CharAt(p) \in Closers} :
    LET start == ReverseCloseExpression(text, q[1], q[2])
        partners == {p \in Places : Closes(q, p)}
    IN  IF partners = {} THEN start.pos = 0
        ELSE <<start.line, start.pos>> \in partners

(* When CloseExpression finds a partner for a < that is no shift and no    *)
(* operator<, then it is a > and only whole pairs of brackets are between. *)
AnglesEnclose ==
  \A p \in {q \in Places : CharAt(q) = "<"} :
    LET end == CloseExpression(text, p[1], p[2])
        q == <<end.line, end.pos - 1>>
        before == SubSeq(text[p[1]], 1, p[2] - 1)
        opens == before = <<>> \/ (Last(before) # "<" /\ ~ EndsInOperator(before))
    IN  opens /\ end.pos > 0 => CharAt(q) = ">" /\ Whole(Between(p, q))

(* The text _GetTextInside finds is the text up to the closing bracket, if *)
(* the line has it.                                                        *)
TextInsideAgrees ==
  \A p \in {q \in Places : CharAt(q) \in Openers} :
    LET partners == {q \in Places : Closes(q, p) /\ q[1] = p[1]}
        inside == GetTextInside(text[p[1]], p[2])
    IN  /\ inside.found <=> partners # {}
        /\ \A q \in partners : inside.text = SubSeq(text[p[1]], p[2] + 1, q[2] - 1)

(* Brackets are matched as a parser matches them: from an opening one to   *)
(* the one that closes it and back, with what looks like < and > in        *)
(* between, over any number of lines, and within one line by               *)
(* _GetTextInside.                                                         *)
ExpressionsAgree == BracketsMatch /\ ReverseMatches /\ AnglesEnclose /\ TextInsideAgrees
=============================================================================
