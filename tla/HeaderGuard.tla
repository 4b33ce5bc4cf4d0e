---------------------------- MODULE HeaderGuard ----------------------------
(***************************************************************************)
(* CheckForHeaderGuard.  A line of the file has its words in toks, the     *)
(* macro it names in guard (for #endif the one its comment names), what    *)
(* begins its comment in comment[1], and nolint_guard for the comment      *)
(* NOLINT(build/header_guard).                                             *)
(***************************************************************************)
EXTENDS Includes

Lines(lines, Test(_)) == {n \in DOMAIN lines : Test(lines[n])}

Begins(line, words) == line.toks # <<>> /\ Head(line.toks) \in words

IsEndif(line) == Begins(line, {"#endif"}) /\ line.indent = 0

HasComment(line, mark) == line.comment # <<>> /\ line.comment[1] = mark

(* "#endif // GUARD", or "#endif /* GUARD" and the end of the comment, in  *)
(* a file without // comments; GUARD_ is an error of level 0.              *)
CheckEndif(lines, n, cppvar) ==
  LET mark == IF \A m \in DOMAIN lines : ~ HasComment(lines[m], "//") THEN "/*" ELSE "//"
      named == n > 0 /\ HasComment(lines[n], mark)
  IN CASE named /\ lines[n].guard = cppvar -> <<>>
       [] named /\ lines[n].guard = Append(cppvar, "_") ->
            <<ErrorAt(n, "build/header_guard", 0)>>
       [] OTHER -> <<ErrorAt(n, "build/header_guard", 5)>>

(* Mutant: the last #define is compared. *)
CheckForHeaderGuard_last_define(file, lines) ==
  LET ifndefs == Lines(lines, LAMBDA l : Begins(l, {"#ifndef"}))
      defines == Lines(lines, LAMBDA l : Begins(l, {"#define"}))
      endifs == Lines(lines, IsEndif)
      ifndef == lines[Min(ifndefs)].guard
      Level(cppvar) == IF ifndef = Append(cppvar, "_") THEN 0 ELSE 5
      Compared(cppvar) ==
        (IF ifndef = cppvar THEN <<>>
         ELSE <<ErrorAt(Min(ifndefs), "build/header_guard", Level(cppvar))>>)
        \o CheckEndif(lines, IF endifs = {} THEN 0 ELSE Max(endifs), cppvar)
  IN  IF \E n \in DOMAIN lines : lines[n].nolint_guard THEN <<>>
      ELSE IF ifndefs = {} \/ defines = {} \/ ifndef # lines[Max(defines)].guard
        THEN <<ErrorAt(0, "build/header_guard", 5)>>
      ELSE Compared(GetHeaderGuardCPPVariable(file.disk, file.name, file.root))

CheckForHeaderGuard(file, lines) ==
  LET ifndefs == Lines(lines, LAMBDA l : Begins(l, {"#ifndef"}))
      defines == Lines(lines, LAMBDA l : Begins(l, {"#define"}))
      endifs == Lines(lines, IsEndif)
      ifndef == lines[Min(ifndefs)].guard
      Level(cppvar) == IF ifndef = Append(cppvar, "_") THEN 0 ELSE 5
      Compared(cppvar) ==
        (IF ifndef = cppvar THEN <<>>
         ELSE <<ErrorAt(Min(ifndefs), "build/header_guard", Level(cppvar))>>)
        \o CheckEndif(lines, IF endifs = {} THEN 0 ELSE Max(endifs), cppvar)
  IN  IF \E n \in DOMAIN lines : lines[n].nolint_guard THEN <<>>
      ELSE IF ifndefs = {} \/ defines = {} \/ ifndef # lines[Min(defines)].guard
        THEN <<ErrorAt(0, "build/header_guard", 5)>>
      ELSE Compared(GetHeaderGuardCPPVariable(file.disk, file.name, file.root))
=============================================================================
