------------------------------ MODULE LintText ------------------------------
(***************************************************************************)
(* What cpplint takes for the code of a text, beside what a C++ compiler   *)
(* would: the text that Expressions lets come to be goes through Cleanse   *)
(* after every character, and through a lexer of C++.                      *)
(***************************************************************************)
EXTENDS Expressions, Cleanse

-----------------------------------------------------------------------------
(* A C++ lexer.  It reads what is left of a line, s, in a mode: "code", a  *)
(* comment that goes on ("block"), a raw string that goes on ("raw", with  *)
(* the delimiter that ends it), or a string that was left open ("string"). *)
(* code is what the line holds besides comments and spaces, with "" for a  *)
(* string and '' for a character.  fits turns FALSE for text that is no    *)
(* C++, and for these, which cpplint is known to misread: quotes or // in  *)
(* a block comment, a string whose last word is R, a comment that begins   *)
(* with a third slash, and the end of a comment where there is none.       *)

Emit(st, s) == [st EXCEPT !.code = @ \o s]
Unfit(st) == [st EXCEPT !.fits = FALSE]

(* Where the string that opens at s[1] closes, or 0. *)
StringEnd(s) ==
  LET inside[i \in 1..Len(s)] ==   \* s[i] may be an unescaped character
        i = 1 \/ (inside[i - 1] /\ (s[i - 1] # "\\" \/ i = 2))
              \/ (i > 3 /\ inside[i - 2] /\ s[i - 2] = "\\")
      ends == {i \in 2..Len(s) : s[i] = "\"" /\ inside[i]
                 /\ ~ (i > 2 /\ inside[i - 1] /\ s[i - 1] = "\\")}
  IN  IF ends = {} THEN 0 ELSE Min(ends)

LastWordIsR(s) == /\ s # <<>> /\ Last(s) = "R"
                  /\ Len(s) > 1 => s[Len(s) - 1] \notin WordChars

RECURSIVE Lex(_, _)

LexBlock(s, st) ==     \* s is inside a block comment, after its /*
  LET e == Find(s, CommentEnd, 1)
      inner == SubSeq(s, 1, IF e = 0 THEN Len(s) ELSE e - 1)
      next == After(s, e + 2)
  IN  IF Find(inner, Slashes, 1) > 0 \/ ToSet(inner) \cap Quotes # {}
           \/ (e > 0 /\ next # <<>> /\ next[1] = "/")
        THEN Unfit(st)
      ELSE IF e = 0 THEN [st EXCEPT !.mode = "block"]
      ELSE Lex(next, [st EXCEPT !.mode = "code"])

LexRaw(s, st) ==       \* s is inside a raw string
  LET e == Find(s, st.delim, 1)
  IN  IF e = 0 THEN [Emit(st, EmptyString) EXCEPT !.mode = "raw"]
      ELSE Lex(After(s, e + Len(st.delim)), [Emit(st, EmptyString) EXCEPT !.mode = "code"])

LexString(s, st) ==
  LET e == StringEnd(s)
  IN  IF e = 0 THEN [Unfit(st) EXCEPT !.mode = "string"]
      ELSE IF LastWordIsR(SubSeq(s, 2, e - 1)) THEN Unfit(st)
      ELSE Lex(After(s, e + 1), Emit(st, EmptyString))

LexChar(s, st) ==
  LET e == IF Len(s) > 1 /\ s[2] = "\\" THEN 4 ELSE 3
  IN  IF e > Len(s) \/ s[2] = "'" \/ s[e] # "'" THEN Unfit(st)
      ELSE Lex(After(s, e + 1), Emit(st, EmptyChar))

LexWord(s, st) ==
  LET e == SelectInSeq(s, LAMBDA c : c \notin WordChars)
      word == IF e = 0 THEN s ELSE SubSeq(s, 1, e - 1)
      p == SelectInSeq(s, LAMBDA c : c \in {" ", "\\", "(", ")"})
  IN  CASE word = <<"R">> /\ Len(s) > 1 /\ s[2] = "\"" ->
             IF p > 0 /\ s[p] = "("
               THEN LexRaw(After(s, p + 1),
                           [st EXCEPT !.delim = <<")">> \o SubSeq(s, 3, p - 1) \o <<"\"">>])
               ELSE Unfit(st)
        [] s[1] = "9" ->
             LET n == LiteralLength(s) IN
             IF ToSet(SubSeq(s, 1, n)) \subseteq {"9", "'"} /\ (n = Len(s) \/ s[n + 1] # "'")
               THEN Lex(After(s, n + 1),
                        Emit(st, SelectSeq(SubSeq(s, 1, n), LAMBDA c : c # "'")))
               ELSE Unfit(st)
        [] OTHER -> Lex(After(s, Len(word) + 1), Emit(st, word))

Lex(s, st) ==
  CASE ~ st.fits -> st
    [] st.fits /\ st.mode = "raw" -> LexRaw(s, st)
    [] st.fits /\ st.mode = "block" -> LexBlock(s, st)
    [] s = <<>> /\ st.fits /\ st.mode \notin {"raw", "block"} -> st
    [] At(s, Slashes, 1) -> st
    [] At(s, CommentStart, 1) ->
         IF Len(s) > 2 /\ s[3] = "/" THEN Unfit(st) ELSE LexBlock(After(s, 3), st)
    [] s # <<>> /\ s[1] = "\"" -> LexString(s, st)
    [] s # <<>> /\ s[1] = "'" -> LexChar(s, st)
    [] s # <<>> /\ s[1] \in WordChars -> LexWord(s, st)
    [] s # <<>> /\ (s[1] = "\\" \/ At(s, CommentEnd, 1)) -> Unfit(st)
    [] OTHER -> Lex(Tail(s), IF s[1] = " " THEN st ELSE Emit(st, <<s[1]>>))

(* The state of the lexer after each line. *)
Lexed ==
  LET after[n \in 0..Len(text)] ==
        IF n = 0 THEN [mode |-> "code", delim |-> <<>>, code |-> <<>>, fits |-> TRUE]
        ELSE Lex(text[n], [after[n - 1] EXCEPT !.code = <<>>])
  IN  after

(* Comments that go over several lines begin a line and end one. *)
CommentsStandAlone(lexed) ==
  \A n \in DOMAIN text :
    /\ lexed[n].mode = "block" /\ lexed[n - 1].mode # "block" => At(Strip(text[n]), CommentStart, 1)
    /\ lexed[n].mode # "block" /\ lexed[n - 1].mode = "block" =>
         Find(Strip(text[n]), CommentEnd, 1) = Len(Strip(text[n])) - 1

-----------------------------------------------------------------------------
(* Properties. *)

(* The elided lines of a C++ text are its code: no character of a comment, *)
(* a string or a raw string is left and none of the code is lost, however  *)
(* quotes, escapes, digit separators and comment marks hide each other.    *)
ElidedIsCode ==
  LET Agree(lexed, elided) ==
        (\A n \in DOMAIN text : lexed[n].fits /\ lexed[n].mode # "block") =>
          \A n \in DOMAIN text : SelectSeq(elided[n], LAMBDA c : c # " ") = lexed[n].code
  IN  Agree(Lexed, CleansedLines(text).elided)

(* Exactly the lines of the comments that go over several lines are        *)
(* blanked, and an error is reported exactly when one has no end.          *)
OnlyCommentsRemoved ==
  LET Agree(lexed, result) ==
        LET unfinished == lexed[Len(text)].mode = "block"
            commented(n) == "block" \in {lexed[n].mode, lexed[n - 1].mode}
        IN  (/\ \A n \in DOMAIN text : lexed[n].fits /\ lexed[n].mode # "raw"
             /\ CommentsStandAlone(lexed)) =>
              /\ (result.error > 0) <=> unfinished
              /\ ~ unfinished =>
                   \A n \in DOMAIN text :
                     result.lines[n] = IF commented(n) THEN CommentStart \o CommentEnd ELSE text[n]
  IN  Agree(Lexed, RemoveMultiLineComments(text, 1))

(* A line that leaves a string or a comment open is reported, and a line   *)
(* of code that closes what it opens is not.                               *)
OpenEndsReported ==
  LET Agree(before, after, reported) ==
        before.fits /\ before.mode = "code" =>
          CASE after.mode = "string" -> "readability/multiline_string" \in reported
            [] after.fits /\ after.mode = "block" -> reported = {"readability/multiline_comment"}
            [] after.fits /\ after.mode \in {"code", "raw"} -> reported = {}
            [] OTHER -> TRUE
      AllAgree(lexed, elided) ==
        \A n \in DOMAIN text :
          Agree(lexed[n - 1], lexed[n], CheckForMultilineCommentsAndStrings(elided[n]))
  IN  AllAgree(Lexed, CleansedLines(text).elided)

(* What the checks read is the code of the text: without its comments, in  *)
(* a line and over lines, and without what its literals say.               *)
TextAgrees == ElidedIsCode /\ OnlyCommentsRemoved
=============================================================================
