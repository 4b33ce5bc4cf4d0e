------------------------------ MODULE Brackets ------------------------------
(***************************************************************************)
(* How cpplint finds the other end of a bracketed expression.  A line is a *)
(* sequence of characters, except that an identifier is one "w", the word  *)
(* operator is one element, and so is any other word a client of this      *)
(* module puts there.  Positions count from 1; 0 stands for the code's -1. *)
(***************************************************************************)
EXTENDS Integers, Sequences, SequencesExt

Openers == {"(", "[", "{"}
Closers == {")", "]", "}"}

Opener(c) == CASE c = ")" -> "(" [] c = "]" -> "[" [] c = "}" -> "{"
Closer(c) == CASE c = "(" -> ")" [] c = "[" -> "]" [] c = "{" -> "}"

(* re.search(r'\boperator\s*$', s) *)
EndsInOperator(s) ==
  LET k == SelectLastInSeq(s, LAMBDA c : c # " ")
  IN  k > 0 /\ s[k] = "operator" /\ (k = 1 \/ s[k - 1] \notin {"w", "operator"})

(* The state of a scan: brackets that wait for their partner, and the      *)
(* position where the scan ended, if it did.                               *)
Scanning(stack) == [stack |-> stack, over |-> FALSE, pos |-> 0]
Found(pos) == [stack |-> <<>>, over |-> TRUE, pos |-> pos]
Lost == Found(0)

Top(stack) == IF stack = <<>> THEN "" ELSE Last(stack)

(* Mutant: angle brackets stay where they are. *)
Without_nothing(stack, angle) == stack

(* The stack without the angle brackets on top of it: they were operators. *)
Without(stack, angle) ==
  SubSeq(stack, 1, SelectLastInSeq(stack, LAMBDA c : c # angle))

(* Mutant: the first partner ends the expression, whatever still waits. *)
Popped_at_once(stack, pos) == Found(pos)

(* Pop the partner of the bracket that was read; pos is the answer when    *)
(* nothing waits any more.                                                 *)
Popped(stack, pos) ==
  IF Len(stack) = 1 THEN Found(pos) ELSE Scanning(Front(stack))

(* One character of FindEndOfExpressionInLine. *)
EndStep(stack, line, i) ==
  LET c == line[i]
      rest == Without(stack, "<")
  IN CASE c \in Openers -> Scanning(Append(stack, c))
       [] c = "<" /\ i > 1 /\ line[i - 1] = "<" ->
            IF Top(stack) = "<" THEN Popped(stack, 0) ELSE Scanning(stack)
       [] c = "<" /\ ~ (i > 1 /\ line[i - 1] = "<") ->
            IF i > 1 /\ EndsInOperator(SubSeq(line, 1, i - 1))
              THEN Scanning(stack) ELSE Scanning(Append(stack, "<"))
       [] c \in Closers ->
            IF rest # <<>> /\ Top(rest) = Opener(c) THEN Popped(rest, i + 1) ELSE Lost
       [] c = ">" ->
            IF \/ Top(stack) # "<"
               \/ i > 1 /\ (line[i - 1] = "-" \/ EndsInOperator(SubSeq(line, 1, i - 2)))
              THEN Scanning(stack) ELSE Popped(stack, i + 1)
       [] c = ";" -> IF rest = <<>> THEN Lost ELSE Scanning(rest)
       [] OTHER -> Scanning(stack)

FindEndOfExpressionInLine(line, startpos, stack) ==
  LET scan[i \in (startpos - 1)..Len(line)] ==
        IF i = startpos - 1 THEN Scanning(stack)
        ELSE IF scan[i - 1].over THEN scan[i - 1]
        ELSE EndStep(scan[i - 1].stack, line, i)
  IN  scan[Len(line)]

(* Where the scan of some lines, up or down, first found the other end. *)
FoundIn(scan, upwards, nowhere) ==
  LET ends == {n \in DOMAIN scan : scan[n].pos > 0}
      n == IF upwards THEN Max(ends) ELSE Min(ends)
  IN  IF ends = {} THEN nowhere ELSE [line |-> n, pos |-> scan[n].pos]

(* The place just after the end of the expression that opens at pos. *)
CloseExpression(elided, linenum, pos) ==
  LET line == elided[linenum]
      nowhere == [line |-> Len(elided) + 1, pos |-> 0]
      scan[n \in linenum..Len(elided)] ==
        IF n > linenum /\ (scan[n - 1].over \/ scan[n - 1].stack = <<>>) THEN scan[n - 1]
        ELSE FindEndOfExpressionInLine(elided[n], IF n = linenum THEN pos ELSE 1,
                                       IF n = linenum THEN <<>> ELSE scan[n - 1].stack)
  IN  IF \/ line[pos] \notin Openers \cup {"<"}
         \/ line[pos] = "<" /\ pos < Len(line) /\ line[pos + 1] \in {"<", "="}
        THEN nowhere ELSE FoundIn(scan, FALSE, nowhere)

-----------------------------------------------------------------------------
(* The state of a scan that goes back; skip is the code's second i -= 1,   *)
(* over the first half of a token of two characters.                       *)
Going(result, skip) ==
  [stack |-> result.stack, over |-> result.over, pos |-> result.pos, skip |-> skip]

(* One character of FindStartOfExpressionInLine.                           *)
StartStep(stack, line, i) ==
  LET c == line[i]
      rest == Without(stack, ">")
      keep == Going(Scanning(stack), FALSE)
      over == Going(Scanning(stack), TRUE)
      arrow == /\ i > 1
               /\ \/ line[i - 1] = "-"
                  \/ /\ line[i - 1] = " " /\ i + 2 <= Len(line)
                     /\ line[i + 1] = "=" /\ line[i + 2] = " "
                  \/ EndsInOperator(SubSeq(line, 1, i - 1))
      end(result) == Going(result, FALSE)
  IN CASE c \in Closers -> end(Scanning(Append(stack, c)))
       [] c = ">" -> IF arrow THEN over ELSE end(Scanning(Append(stack, ">")))
       [] c = "<" -> IF i > 1 /\ line[i - 1] = "<" THEN over
                     ELSE IF Top(stack) = ">" THEN end(Popped(stack, i)) ELSE keep
       [] c \in Openers ->
            IF rest # <<>> /\ Top(rest) = Closer(c) THEN end(Popped(rest, i)) ELSE end(Lost)
       [] c = ";" -> IF rest = <<>> THEN end(Lost) ELSE end(Scanning(rest))
       [] OTHER -> keep

FindStartOfExpressionInLine(line, endpos, stack) ==
  LET scan[i \in 1..(endpos + 1)] ==
        IF i = endpos + 1 THEN Going(Scanning(stack), FALSE)
        ELSE IF scan[i + 1].over THEN scan[i + 1]
        ELSE IF scan[i + 1].skip THEN [scan[i + 1] EXCEPT !.skip = FALSE]
        ELSE StartStep(scan[i + 1].stack, line, i)
  IN  scan[1]

(* Mutant: what waits for its partner is forgotten from line to line. *)
ReverseCloseExpression_forgets(elided, linenum, pos) ==
  LET nowhere == [line |-> 0, pos |-> 0]
      scan[n \in 1..linenum] ==
        IF n < linenum /\ (scan[n + 1].over \/ scan[n + 1].stack = <<>>) THEN scan[n + 1]
        ELSE FindStartOfExpressionInLine(elided[n], IF n = linenum THEN pos ELSE Len(elided[n]),
                                         <<>>)
  IN  IF elided[linenum][pos] \notin Closers \cup {">"} THEN nowhere
      ELSE FoundIn(scan, TRUE, nowhere)

(* The place of the bracket whose expression ends at pos. *)
ReverseCloseExpression(elided, linenum, pos) ==
  LET nowhere == [line |-> 0, pos |-> 0]
      scan[n \in 1..linenum] ==
        IF n < linenum /\ (scan[n + 1].over \/ scan[n + 1].stack = <<>>) THEN scan[n + 1]
        ELSE FindStartOfExpressionInLine(elided[n], IF n = linenum THEN pos ELSE Len(elided[n]),
                                         IF n = linenum THEN <<>> ELSE scan[n + 1].stack)
  IN  IF elided[linenum][pos] \notin Closers \cup {">"} THEN nowhere
      ELSE FoundIn(scan, TRUE, nowhere)

-----------------------------------------------------------------------------
(* Mutant: any closing bracket ends the text. *)
GetTextInside_first(text, pos) ==
  LET end == SelectInSubSeq(text, pos + 1, Len(text), LAMBDA c : c \in Closers)
  IN  [found |-> end > 0, text |-> SubSeq(text, pos + 1, end - 1)]

(* _GetTextInside: the text between the opening punctuation at pos and its *)
(* partner, if it has one.                                                 *)
GetTextInside(text, pos) ==
  LET scan[i \in pos..Len(text)] ==
        IF i = pos THEN Scanning(<<Closer(text[pos])>>)
        ELSE LET before == scan[i - 1] IN
             CASE before.over -> before
               [] ~ before.over /\ text[i] = Last(before.stack) -> Popped(before.stack, i)
               [] ~ before.over /\ text[i] # Last(before.stack) /\ text[i] \in Closers -> Lost
               [] ~ before.over /\ text[i] \in Openers ->
                    Scanning(Append(before.stack, Closer(text[i])))
               [] OTHER -> before
      end == scan[Len(text)].pos
  IN  [found |-> end > 0, text |-> SubSeq(text, pos + 1, end - 1)]
=============================================================================
