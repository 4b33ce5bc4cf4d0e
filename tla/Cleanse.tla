------------------------------ MODULE Cleanse ------------------------------
(***************************************************************************)
(* What cpplint does to the text of a file before any check looks at it:   *)
(* raw strings, comments and the contents of strings are taken out.  Lines *)
(* are sequences of characters; "w" stands for any letter but R, "9" for   *)
(* any digit but 0.                                                       *)
(***************************************************************************)
EXTENDS Pieces

Quotes == {"\"", "'"}
WordChars == {"w", "9", "R"}
EmptyString == <<"\"", "\"">>
EmptyChar == <<"'", "'">>
Slashes == <<"/", "/">>
CommentStart == <<"/", "*">>
CommentEnd == <<"*", "/">>

(* s.count(sub) *)
Times(s, sub) == (Len(Replaced(s, sub, sub \o <<"w">>)) - Len(s))

LStrip(s) == After(s, IF SelectInSeq(s, LAMBDA c : c # " ") = 0 THEN Len(s) + 1
                      ELSE SelectInSeq(s, LAMBDA c : c # " "))
RStrip(s) == SubSeq(s, 1, SelectLastInSeq(s, LAMBDA c : c # " "))

-----------------------------------------------------------------------------
IsCppString(line) ==
  LET IsOpen(s) == (Times(s, <<"\"">>) - Times(s, <<"\\", "\"">>)
                      - Times(s, <<"'", "\"", "'">>)) % 2 = 1
  IN  IsOpen(Replaced(line, <<"\\", "\\">>, <<"w", "w">>))

(* Does the text match ^([^'"]|'(\\.|[^'])*'|"(\\.|[^"])*")*//, that is, is *)
(* there a // outside of everything that may be a literal?                  *)
HasLineComment(s) ==
  LET literal(b, e) == /\ s[b] \in Quotes /\ s[e] = s[b]
                       /\ \A k \in (b + 1)..(e - 1) : s[k] = s[b] => k > b + 1 /\ s[k - 1] = "\\"
      outside[p \in 1..(Len(s) + 1)] ==
        \/ p = 1
        \/ p > 1 /\ outside[p - 1] /\ s[p - 1] \notin Quotes
        \/ \E b \in 1..(p - 2) : outside[b] /\ literal(b, p - 1)
  IN  \E p \in 1..(Len(s) - 1) : At(s, Slashes, p) /\ outside[p]

(* Where the delimiter of a raw string that begins at i ends, or 0. *)
RawParen(line, i) ==
  LET k == SelectInSubSeq(line, i + 2, Len(line), LAMBDA c : c \in {" ", "\\", "(", ")"})
  IN  IF k > 0 /\ line[k] = "(" THEN k ELSE 0

(* The first R"delimiter( in the line, or 0. *)
RawStart(line) ==
  LET starts == {i \in 1..(Len(line) - 1) :
                   /\ line[i] = "R" /\ line[i + 1] = "\""
                   /\ i = 1 \/ line[i - 1] \notin WordChars
                   /\ RawParen(line, i) > 0}
  IN  Min(starts \cup {Len(line) + 1}) % (Len(line) + 1)

RECURSIVE RawStringsOut(_)

(* One round of the while loop, for the raw string at start. *)
RawStringOut(line, start, paren) ==
  LET before == SubSeq(line, 1, start - 1)
      delimiter == <<")">> \o SubSeq(line, start + 2, paren - 1) \o <<"\"">>
      end == Find(line, delimiter, paren + 1)
  IN  IF start = 0 \/ HasLineComment(before) THEN [line |-> line, delimiter |-> <<>>]
      ELSE IF end > 0
        THEN RawStringsOut(before \o EmptyString \o After(line, end + Len(delimiter)))
        ELSE [line |-> before \o EmptyString, delimiter |-> delimiter]

(* The while loop over one line, with delimiter None (<<>>). *)
RawStringsOut(line) == RawStringOut(line, RawStart(line), RawParen(line, RawStart(line)))

(* One line of CleanseRawStrings, begun with a delimiter or <<>>. *)
CleanseRawLine(line, delimiter) ==
  LET end == Find(line, delimiter, 1)
      indent == SubSeq(line, 1, Len(line) - Len(LStrip(line)))
  IN  IF delimiter # <<>> /\ end = 0 THEN [line |-> EmptyString, delimiter |-> delimiter]
      ELSE RawStringsOut(IF delimiter = <<>> THEN line
                         ELSE indent \o EmptyString \o After(line, end + Len(delimiter)))

CleanseRawStrings(raw_lines) ==
  LET scan[n \in 0..Len(raw_lines)] ==
        IF n = 0 THEN [line |-> <<>>, delimiter |-> <<>>]
        ELSE CleanseRawLine(raw_lines[n], scan[n - 1].delimiter)
  IN  [n \in DOMAIN raw_lines |-> scan[n].line]

-----------------------------------------------------------------------------
(* _RE_PATTERN_CLEANSE_LINE_C_COMMENTS.sub('', s) *)
RECURSIVE WithoutCComments(_)
WithoutCComments(s) ==
  LET starts == {i \in DOMAIN s : At(s, CommentStart, i) /\ Find(s, CommentEnd, i + 2) > 0}
      Joined(before, after) ==
        CASE LStrip(after) = <<>> -> RStrip(before)
          [] LStrip(after) # <<>> /\ RStrip(before) # before
               /\ after[1] \notin WordChars -> RStrip(before) \o WithoutCComments(after)
          [] OTHER -> before \o WithoutCComments(LStrip(after))
      Without(i) == Joined(SubSeq(s, 1, i - 1), After(s, Find(s, CommentEnd, i + 2) + 2))
  IN  IF starts = {} THEN s ELSE Without(Min(starts))

CleanseComments(line) ==
  LET commentpos == Find(line, Slashes, 1)
      before == SubSeq(line, 1, commentpos - 1)
  IN  WithoutCComments(IF commentpos > 0 /\ ~ IsCppString(before) THEN RStrip(before)
                       ELSE line)

(* Mutant: a backslash is not itself escaped. *)
RECURSIVE WithoutEscapes_quotes_only(_)
WithoutEscapes_quotes_only(s) ==
  LET i == Find(s, <<"\\", "\"">>, 1)
  IN  IF i = 0 THEN s ELSE SubSeq(s, 1, i - 1) \o WithoutEscapes_quotes_only(After(s, i + 2))

(* _RE_PATTERN_CLEANSE_LINE_ESCAPES.sub('', s); an escape is a backslash   *)
(* and a quote, a backslash, or digits.                                    *)
RECURSIVE WithoutEscapes(_)
WithoutEscapes(s) ==
  LET i == SelectInSeq(s, LAMBDA c : c = "\\")
      digits == SelectInSubSeq(s, i + 1, Len(s), LAMBDA c : c # "9")
  IN  IF i = 0 \/ i = Len(s) THEN s
      ELSE SubSeq(s, 1, i - 1) \o
           (CASE s[i + 1] \in Quotes \cup {"\\"} -> WithoutEscapes(After(s, i + 2))
              [] s[i + 1] = "9" -> WithoutEscapes(After(s, IF digits = 0 THEN Len(s) + 1
                                                          ELSE digits))
              [] OTHER -> <<"\\">> \o WithoutEscapes(After(s, i + 1)))

(* Mutant: a ' always opens a character literal. *)
EndsInNumber_never(head) == FALSE

(* Does head end in a number, so that a ' after it separates digits? *)
EndsInNumber(head) ==
  LET k == SelectLastInSeq(head, LAMBDA c : c # "9")
  IN  k < Len(head) /\ (k = 0 \/ head[k] \notin WordChars)

(* How many characters of digits, letters and separators s begins with. *)
RECURSIVE LiteralLength(_)
LiteralLength(s) ==
  CASE s # <<>> /\ s[1] \in WordChars -> 1 + LiteralLength(Tail(s))
    [] Len(s) > 1 /\ s[1] = "'" /\ s[2] \in WordChars -> 2 + LiteralLength(After(s, 3))
    [] OTHER -> 0

(* The loop of _CollapseStrings. *)
RECURSIVE Collapsed(_)
Collapsed(s) ==
  LET i == SelectInSeq(s, LAMBDA c : c \in Quotes)
      head == SubSeq(s, 1, i - 1)
      tail == After(s, i + 1)
      second == Find(tail, <<s[i]>>, 1)
  IN  IF i = 0 THEN s
      ELSE IF s[i] = "'" /\ EndsInNumber(head)
        THEN LET n == LiteralLength(After(s, i))
                 literal == SelectSeq(SubSeq(s, i, i + n - 1), LAMBDA c : c # "'")
             IN  head \o literal \o
                 (IF n = 0 THEN (* the quote is met again, now at the start *)
                    (IF second > 0 THEN EmptyChar \o Collapsed(After(tail, second + 1))
                     ELSE After(s, i))
                  ELSE Collapsed(After(s, i + n)))
        ELSE IF second > 0
          THEN head \o <<s[i], s[i]>> \o Collapsed(After(tail, second + 1))
          ELSE s

IsInclude(s) ==
  LET t == SelectSeq(s, LAMBDA c : c # " ")
  IN  Len(t) > 2 /\ t[1] = "#" /\ t[2] = "include" /\ t[3] \in {"<", "\""}

CollapseStrings(line) ==
  IF IsInclude(line) THEN line ELSE Collapsed(WithoutEscapes(line))

(* CleansedLines(lines): its members lines and elided *)
CleansedLines(lines) ==
  LET Cleansed(plain) ==
        [lines |-> [n \in DOMAIN plain |-> CleanseComments(plain[n])],
         elided |-> [n \in DOMAIN plain |-> CleanseComments(CollapseStrings(plain[n]))]]
  IN  Cleansed(CleanseRawStrings(lines))

-----------------------------------------------------------------------------
(* RemoveMultiLineComments: the lines from one that begins with a comment  *)
(* that does not end there, to one that ends with the end of a comment.    *)

Strip(s) == LStrip(RStrip(s))

FindNextMultiLineCommentStart(lines, lineix) ==
  LET starts == {n \in lineix..Len(lines) :
                   /\ At(Strip(lines[n]), CommentStart, 1)
                   /\ Find(Strip(lines[n]), CommentEnd, 3) = 0}
  IN  IF starts = {} THEN Len(lines) + 1 ELSE Min(starts)

FindNextMultiLineCommentEnd(lines, lineix) ==
  LET ends == {n \in lineix..Len(lines) : IsSuffix(CommentEnd, Strip(lines[n]))}
  IN  IF ends = {} THEN Len(lines) + 1 ELSE Min(ends)

(* Mutant: the last line of the comment stays. *)
RemoveMultiLineCommentsFromRange_short(lines, begin, end) ==
  [n \in DOMAIN lines |->
     IF n \in begin..(end - 1) THEN CommentStart \o CommentEnd ELSE lines[n]]

RemoveMultiLineCommentsFromRange(lines, begin, end) ==
  [n \in DOMAIN lines |-> IF n \in begin..end THEN CommentStart \o CommentEnd ELSE lines[n]]

(* The lines that are left, and the line an unfinished comment is reported *)
(* at, which is the one after its first line, or 0.                        *)
RECURSIVE RemoveMultiLineComments(_, _)
RemoveMultiLineComments(lines, lineix) ==
  LET Removed(begin, end) ==
        IF begin > Len(lines) THEN [lines |-> lines, error |-> 0]
        ELSE IF end > Len(lines) THEN [lines |-> lines, error |-> begin + 1]
        ELSE RemoveMultiLineComments(RemoveMultiLineCommentsFromRange(lines, begin, end), end + 1)
      From(begin) == Removed(begin, FindNextMultiLineCommentEnd(lines, begin))
  IN  From(FindNextMultiLineCommentStart(lines, lineix))

(* The categories CheckForMultilineCommentsAndStrings reports for a line. *)
CheckForMultilineCommentsAndStrings(elided) ==
  LET line == Replaced(elided, <<"\\", "\\">>, <<>>)
  IN  (IF Times(line, CommentStart) > Times(line, CommentEnd)
         THEN {"readability/multiline_comment"} ELSE {})
        \cup
      (IF (Times(line, <<"\"">>) - Times(line, <<"\\", "\"">>)) % 2 = 1
         THEN {"readability/multiline_string"} ELSE {})
=============================================================================
