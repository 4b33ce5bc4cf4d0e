---------------------------- MODULE MCLintText ----------------------------
(***************************************************************************)
(* Every text of at most 5 or 6 characters of five alphabets: brackets     *)
(* with angle brackets, arrows and operators, quotes and escapes, comments *)
(* that go over lines, and raw strings.                                    *)
(***************************************************************************)
EXTENDS LintText

MCAlphabets ==
  [brackets |-> {"(", ")", "{", "}", "<", ">"},
   arrows |-> {"(", ")", "<", ">", "-", "operator", ";"},
   quotes |-> {"\"", "'", "\\", "/", "9", "w"},
   comments |-> {"/", "*", " ", "w", "\""},
   raw |-> {"R", "\"", "(", ")", "/"}]

MCMaxChars == [brackets |-> 5, arrows |-> 5, quotes |-> 5, comments |-> 6, raw |-> 6]
=============================================================================
