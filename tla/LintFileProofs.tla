--------------------------- MODULE LintFileProofs ---------------------------
(***************************************************************************)
(* For every file, however long, and every disk: a header is let pass just *)
(* if it is guarded, the includes of a file without inline assembly are    *)
(* judged as its conditionals and sections say, and the headers it is      *)
(* asked for are those it needs and does not have.                         *)
(***************************************************************************)
EXTENDS LintFile, FiniteSetTheorems, SequenceTheorems, WellFoundedInduction, TLAPS

(* What is kept from line to line, in a file without inline assembly.      *)
Kinds == {"block", "class", "namespace", "extern"}

Names == STRING \cup {""}

BlockType ==
  [kind: Kinds, name: Names, start: Nat, seen_open_brace: BOOLEAN,
   open_parentheses: Int, inline_asm: {"NO"}, is_struct: BOOLEAN, class_indent: Nat,
   last_line: Nat]

CheckpointType ==
  [stack_before_if: Seq(BlockType), stack_before_else: Seq(BlockType), seen_else: BOOLEAN]

NestingType ==
  [stack: Seq(BlockType), previous: [kind: Kinds \cup {"none"}, depth: Nat, start: Nat],
   pp_stack: Seq(CheckpointType)]

EntryType == [header: Seq(STRING), line: Nat]

IsIncludeState(state) ==
  /\ state = [include_list |-> state.include_list, section |-> state.section,
              last_header |-> state.last_header]
  /\ state.include_list \in Seq(Seq(EntryType)) /\ state.section \in 0..4

IncludeCategories == {"build/include", "build/include_order", "build/include_alpha"}

OtherCategories ==
  {"build/header_guard", "readability/namespace", "readability/constructors",
   "readability/fn_size", "whitespace/indent", "whitespace/blank_line",
   "runtime/indentation_namespace"}

(* The checks of lines are less sure of an include than the end of a file. *)
ErrorType ==
  {e \in [line: Nat, category: IncludeCategories \cup OtherCategories, confidence: Nat] :
     e.category = "build/include" => e.confidence = 4}

TypeInv ==
  /\ kind \in DOMAIN Alphabets /\ file \in Settings[kind]
  /\ lines \in Seq(Alphabets[kind])
  /\ pc \in {"typing", "lines", "done"} /\ lineno \in 0..Len(lines)
  /\ pc = "typing" =>
       /\ lineno = 0 /\ errors = <<>>
       /\ nesting_state = NestingStateInit /\ include_state = IncludeStateInit

GuardInv ==
  pc = "lines" /\ lineno = 0 =>
    errors = IF Extension(file.name) = <<".", "h">> THEN CheckForHeaderGuard(file, lines) ELSE <<>>

(* The checks of includes report the lines that were processed. *)
ReportsInv ==
  /\ errors \in Seq(ErrorType)
  /\ \A i \in DOMAIN errors :
       errors[i].category \in IncludeCategories => errors[i].line \in 1..lineno

(* A header that was let pass at line m is forgotten by line n: there was  *)
(* an #else of the conditional it is in.                                   *)
IsIf(n) == Begins(lines[n], Ifs)
IsElse(n) == Begins(lines[n], {"#else"})

Kept(m) == lines[m].include # <<>> /\ ~ IsThirdParty(lines[m].include) /\ ~ Refused(m)
Dropped(m, n) == \E k \in m..n : IsElse(k) /\ \A j \in m..k : ~ IsIf(j)
Current(m, n) == \A k \in m..n : ~ IsIf(k) /\ ~ IsElse(k)

Entry(m) == [header |-> lines[m].include, line |-> m]

EntriesOf(ms) == {Entry(m) : m \in ms}

CurrentLines(n) == {m \in 1..n : Kept(m) /\ Current(m, n)}
EarlierLines(n) == {m \in 1..n : Kept(m) /\ ~ Current(m, n) /\ ~ Dropped(m, n)}

EarlierEntries(list) == UNION {ToSet(list[i]) : i \in 1..(Len(list) - 1)}

(* What is listed is what was let pass, but for what was forgotten. *)
ListInv ==
  LET list == include_state.include_list
  IN  /\ list # <<>>
      /\ ToSet(Last(list)) = EntriesOf(CurrentLines(lineno))
      /\ EarlierEntries(list) = EntriesOf(EarlierLines(lineno))

Foreign(m) ==
  /\ IsSuffix(<<".", "cc">>, lines[m].include)
  /\ Dirname(RepositoryName(file.disk, file.name)) # Dirname(lines[m].include)

RefusedBy(j, m) == Same(j, m) /\ Kept(j) /\ ~ Dropped(j, m)

(* What was refused, was because of what is listed. *)
RefusedInv ==
  \A m \in 1..lineno :
    lines[m].include # <<>> =>
      (Refused(m) <=> Foreign(m) \/ \E j \in 1..lineno : RefusedBy(j, m))

(* The section is the last one of the group, and the last header its last. *)
SectionInv ==
  LET group == Group(lineno)
      section == include_state.section
      last == include_state.last_header
  IN  /\ section = 0 <=> group = {}
      /\ \A m \in group : Place(m) <= section
      /\ group = {} => last = <<>>
      /\ group # {} =>
           /\ \E m \in group : Place(m) = section
           /\ last = CanonicalizeAlphabeticalOrder(lines[Max(group)].include)

(* Every header after one of a later section is reported, and no other     *)
(* one, for the file's own header too wherever it is.                      *)
SectionsInOrder ==
  pc = "lines" /\ lineno \in Group(lineno) =>
    (Reported(lineno, "build/include_order") <=>
       \E m \in Group(lineno) : m < lineno /\ Place(m) > Place(lineno))

IncludeInv ==
  pc = "lines" /\ NoAssembly =>
    /\ nesting_state \in NestingType /\ IsIncludeState(include_state)
    /\ ReportsInv /\ ListInv /\ RefusedInv /\ SectionInv
    /\ SectionsInOrder /\ AlphaAgrees

-----------------------------------------------------------------------------
(* Facts about data. *)

(* A non-empty set of naturals has a least member. *)
LEMMA MinIn ==
  ASSUME NEW S \in SUBSET Nat, S # {}
  PROVE  Min(S) \in S /\ \A n \in S : Min(S) <= n
<1>1. \E x \in S : \A y \in S : ~ (<<y, x>> \in OpToRel(<, Nat))
  BY NatLessThanWellFounded, WFMin
<1>2. \E x \in S : \A y \in S : ~ (y < x)
  BY <1>1 DEF OpToRel
<1>3. \E x \in S : \A y \in S : x <= y
  BY <1>2
<1> QED BY <1>3 DEF Min

(* One below a bound has a greatest one. *)
LEMMA MaxIn ==
  ASSUME NEW N \in Nat, NEW S \in SUBSET (0..N), S # {}
  PROVE  Max(S) \in S /\ \A n \in S : n <= Max(S)
<1> DEFINE R == {N - n : n \in S}
<1>0. ASSUME NEW n \in S PROVE n \in Nat /\ n <= N /\ N - n \in Nat
  OBVIOUS
<1>1. R \in SUBSET Nat /\ R # {}
  BY <1>0
<1>2. Min(R) \in R /\ \A n \in R : Min(R) <= n
  BY <1>1, MinIn
<1>3. PICK m \in S : Min(R) = N - m
  BY <1>2
<1>4. ASSUME NEW n \in S PROVE n <= m
  <2>1. N - n \in R
    OBVIOUS
  <2>2. N - m <= N - n
    BY <1>2, <1>3, <2>1
  <2> QED BY <1>0, <2>2
<1>5. \E x \in S : \A y \in S : x >= y
  BY <1>0, <1>4
<1> QED BY <1>0, <1>5 DEF Max

(* A set of naturals that holds 0 and with n its successor holds them all. *)
LEMMA Induction ==
  ASSUME NEW S \in SUBSET Nat, 0 \in S, \A n \in S : n + 1 \in S
  PROVE  \A n \in Nat : n \in S
<1> DEFINE R == {n \in Nat : n \notin S}
<1> SUFFICES ASSUME R # {} PROVE FALSE
  OBVIOUS
<1>1. Min(R) \in R /\ \A n \in R : Min(R) <= n
  BY MinIn
<1>2. Min(R) # 0 /\ Min(R) - 1 \in Nat /\ Min(R) - 1 \notin R
  BY <1>1
<1> QED BY <1>1, <1>2

(* A function that begins with b and goes on by steps that each take D to  *)
(* D exists.                                                               *)
Steps(N, D, b, step) == N \in Nat /\ b \in D /\ step \in [1..N -> [D -> D]]

Recurs(f, N, D, b, step) ==
  f \in [0..N -> D] /\ f[0] = b /\ \A i \in 1..N : f[i] = step[i][f[i - 1]]

LEMMA Recursion ==
  ASSUME NEW N, NEW D, NEW b, NEW step, Steps(N, D, b, step)
  PROVE  \E f : Recurs(f, N, D, b, step)
<1>0. N \in Nat /\ b \in D /\ step \in [1..N -> [D -> D]]
  BY DEF Steps
<1> DEFINE Good == {n \in Nat : n <= N =>
      \E f \in [0..n -> D] : f[0] = b /\ \A i \in 1..n : f[i] = step[i][f[i - 1]]}
<1>1. 0 \in Good
  <2> DEFINE f == [i \in 0..0 |-> b]
  <2>1. f \in [0..0 -> D] /\ f[0] = b
    BY <1>0
  <2>2. \A i \in 1..0 : f[i] = step[i][f[i - 1]]
    OBVIOUS
  <2> HIDE DEF f
  <2> QED BY <2>1, <2>2
<1>2. ASSUME NEW n \in Good PROVE n + 1 \in Good
  <2> SUFFICES ASSUME n + 1 <= N
      PROVE \E f \in [0..(n + 1) -> D] :
              f[0] = b /\ \A i \in 1..(n + 1) : f[i] = step[i][f[i - 1]]
    OBVIOUS
  <2>1. PICK g \in [0..n -> D] : g[0] = b /\ \A i \in 1..n : g[i] = step[i][g[i - 1]]
    BY <1>0
  <2> DEFINE f == [i \in 0..(n + 1) |-> IF i <= n THEN g[i] ELSE step[n + 1][g[n]]]
  <2>2. n \in 0..n /\ n + 1 \in 1..N /\ step[n + 1][g[n]] \in D
    BY <1>0, <2>1
  <2>3. f \in [0..(n + 1) -> D]
    BY <2>2
  <2>4. f[0] = b
    BY <2>1
  <2>5. ASSUME NEW i \in 1..(n + 1) PROVE f[i] = step[i][f[i - 1]]
    <3>1. i - 1 \in 0..n /\ f[i - 1] = g[i - 1]
      OBVIOUS
    <3>2. CASE i = n + 1
      BY <3>1, <3>2
    <3>3. CASE i \in 1..n
      BY <3>1, <3>3, <2>1
    <3> QED BY <3>2, <3>3
  <2> QED BY <2>3, <2>4, <2>5
<1>3. N \in Good
  <2> HIDE DEF Good
  <2>1. Good \in SUBSET Nat
    BY DEF Good
  <2> QED BY <1>0, <1>1, <1>2, <2>1, Induction
<1> QED BY <1>0, <1>3 DEF Recurs

(* What begins in D and goes on in D stays there. *)
LEMMA StaysIn ==
  ASSUME NEW N \in Nat, NEW D, NEW f, f[0] \in D, \A i \in 1..N : f[i - 1] \in D => f[i] \in D
  PROVE  \A i \in 0..N : f[i] \in D
<1> DEFINE Good == {i \in Nat : i <= N => f[i] \in D}
<1>1. 0 \in Good
  OBVIOUS
<1>2. ASSUME NEW i \in Good PROVE i + 1 \in Good
  <2> SUFFICES ASSUME i + 1 <= N PROVE f[i + 1] \in D
    OBVIOUS
  <2>1. i + 1 \in 1..N /\ (i + 1) - 1 = i /\ f[i] \in D
    OBVIOUS
  <2> QED BY <2>1
<1>3. \A i \in Nat : i \in Good
  <2> HIDE DEF Good
  <2>1. Good \in SUBSET Nat
    BY DEF Good
  <2> QED BY <1>1, <1>2, <2>1, Induction
<1> QED BY <1>3

(* Places in a sequence. *)
LEMMA PlacesIn ==
  ASSUME NEW N \in Nat, NEW S \in SUBSET (1..N), S # {}
  PROVE  /\ Min(S) \in S /\ Min(S) \in 1..N /\ \A n \in S : Min(S) <= n
         /\ Max(S) \in S /\ Max(S) \in 1..N /\ \A n \in S : n <= Max(S)
<1>1. S \in SUBSET Nat /\ S \in SUBSET (0..N)
  OBVIOUS
<1>2. Min(S) \in S /\ \A n \in S : Min(S) <= n
  BY <1>1, MinIn
<1>3. Max(S) \in S /\ \A n \in S : n <= Max(S)
  BY <1>1, MaxIn
<1> QED BY <1>2, <1>3

LEMMA NoneAndOne ==
  ASSUME NEW S, NEW e \in S
  PROVE  /\ <<>> \in Seq(S) /\ Len(<<>>) = 0 /\ ToSet(<<>>) = {}
         /\ <<e>> \in Seq(S) /\ Len(<<e>>) = 1 /\ <<e>>[1] = e /\ ToSet(<<e>>) = {e}
BY DEF ToSet

LEMMA Joined ==
  ASSUME NEW S, NEW s \in Seq(S), NEW t \in Seq(S)
  PROVE  /\ s \o t \in Seq(S) /\ Len(s \o t) = Len(s) + Len(t)
         /\ \A i \in 1..Len(s) : (s \o t)[i] = s[i]
         /\ \A i \in 1..Len(t) : (s \o t)[Len(s) + i] = t[i]
         /\ ToSet(s \o t) = ToSet(s) \cup ToSet(t)
<1>1. /\ s \o t \in Seq(S) /\ Len(s \o t) = Len(s) + Len(t)
      /\ \A i \in 1..Len(s) : (s \o t)[i] = s[i]
      /\ Len(s) \in Nat /\ Len(t) \in Nat
  OBVIOUS
<1>2. ASSUME NEW i \in 1..Len(t)
      PROVE  (s \o t)[Len(s) + i] = t[i] /\ Len(s) + i \in 1..Len(s \o t)
  BY <1>1
<1>3. ASSUME NEW i \in 1..Len(s \o t), i > Len(s)
      PROVE  i - Len(s) \in 1..Len(t) /\ (s \o t)[i] = t[i - Len(s)]
  BY <1>1, <1>3
<1>4. DOMAIN s = 1..Len(s) /\ DOMAIN t = 1..Len(t) /\ DOMAIN (s \o t) = 1..Len(s \o t)
  BY <1>1
<1>5. ASSUME NEW x \in ToSet(s \o t) PROVE x \in ToSet(s) \cup ToSet(t)
  <2>1. PICK i \in 1..Len(s \o t) : x = (s \o t)[i]
    BY <1>4 DEF ToSet
  <2>2. CASE i \in 1..Len(s)
    BY <1>1, <1>4, <2>1, <2>2 DEF ToSet
  <2>3. CASE i > Len(s)
    BY <1>3, <1>4, <2>1, <2>3 DEF ToSet
  <2> QED BY <1>1, <2>2, <2>3
<1>6. ASSUME NEW x \in ToSet(s) PROVE x \in ToSet(s \o t)
  <2>1. PICK i \in 1..Len(s) : x = s[i]
    BY <1>4 DEF ToSet
  <2>2. i \in 1..Len(s \o t) /\ x = (s \o t)[i]
    BY <1>1, <2>1
  <2> QED BY <1>4, <2>2 DEF ToSet
<1>7. ASSUME NEW x \in ToSet(t) PROVE x \in ToSet(s \o t)
  <2>1. PICK i \in 1..Len(t) : x = t[i]
    BY <1>4 DEF ToSet
  <2> QED BY <1>2, <1>4, <2>1 DEF ToSet
<1> QED BY <1>1, <1>2, <1>5, <1>6, <1>7

LEMMA Naming ==
  /\ "build/header_guard" \in OtherCategories /\ 0 \in Nat /\ 5 \in Nat /\ 0 # 5
  /\ OtherCategories \subseteq IncludeCategories \cup OtherCategories
<1>1. "build/header_guard" \in OtherCategories
  BY Zenon DEF OtherCategories
<1> QED BY <1>1

LEMMA AppendOther ==
  ASSUME NEW S, NEW s \in Seq(S), NEW e
  PROVE  s # Append(s, e)
<1>1. Len(Append(s, e)) = Len(s) + 1 /\ Len(s) \in Nat
  OBVIOUS
<1>2. Len(s) # Len(s) + 1
  BY <1>1
<1> QED BY <1>1, <1>2

LEMMA ErrorAtType ==
  ASSUME NEW n \in Nat, NEW c \in IncludeCategories \cup OtherCategories, NEW k \in Nat,
         c \in OtherCategories \/ k = 4
  PROVE  /\ ErrorAt(n, c, k) \in ErrorType /\ ErrorAt(n, c, k).line = n
         /\ ErrorAt(n, c, k).category = c /\ ErrorAt(n, c, k).confidence = k
<1>1. "build/include" \notin OtherCategories
  BY DEF OtherCategories
<1> QED BY <1>1 DEF ErrorAt, ErrorType

-----------------------------------------------------------------------------
(* The header guard. *)

GuardErrors == {e \in ErrorType : e.category = "build/header_guard"}
Hidden(es) == \A e \in ToSet(es) : e.confidence = 0

LEMMA EndifCorrect ==
  ASSUME NEW ls \in Seq(LineType), NEW n \in 0..Len(ls), NEW cppvar \in Seq(STRING)
  PROVE  LET comments == \E m \in DOMAIN ls : HasComment(ls[m], "//")
             mark == IF comments THEN "//" ELSE "/*"
             es == CheckEndif(ls, n, cppvar)
         IN  /\ es \in Seq(GuardErrors)
             /\ Hidden(es) <=>
                   n > 0 /\ HasComment(ls[n], mark) /\ ls[n].guard \in {cppvar, Append(cppvar, "_")}
<1> DEFINE mark == IF \A m \in DOMAIN ls : ~ HasComment(ls[m], "//") THEN "/*" ELSE "//"
           named == n > 0 /\ HasComment(ls[n], mark)
           fine == ErrorAt(n, "build/header_guard", 0)
           bad == ErrorAt(n, "build/header_guard", 5)
           es == CheckEndif(ls, n, cppvar)
           guards == {cppvar, Append(cppvar, "_")}
<1>1. fine \in GuardErrors /\ fine.confidence = 0 /\ bad \in GuardErrors /\ bad.confidence = 5
  <2>0. Len(ls) \in Nat
    OBVIOUS
  <2>1. n \in Nat /\ "build/header_guard" \in OtherCategories /\ 0 \in Nat /\ 5 \in Nat
    <3>1. n \in Nat
      BY <2>0
    <3> QED BY <3>1, Naming
  <2>2. fine \in ErrorType /\ fine.category = "build/header_guard" /\ fine.confidence = 0
    BY <2>1, ErrorAtType
  <2>3. bad \in ErrorType /\ bad.category = "build/header_guard" /\ bad.confidence = 5
    BY <2>1, ErrorAtType
  <2> HIDE DEF fine, bad
  <2> QED BY <2>2, <2>3 DEF GuardErrors
<1>2. es = CASE named /\ ls[n].guard = cppvar -> <<>>
              [] named /\ ls[n].guard = Append(cppvar, "_") -> <<fine>>
              [] OTHER -> <<bad>>
  BY DEF CheckEndif
<1>3. mark = IF \E m \in DOMAIN ls : HasComment(ls[m], "//") THEN "//" ELSE "/*"
  OBVIOUS
<1> HIDE DEF named, fine, bad, es
<1>4. /\ named /\ ls[n].guard \in guards => es = <<>> \/ es = <<fine>>
      /\ ~ (named /\ ls[n].guard \in guards) => es = <<bad>>
  <2>0. cppvar # Append(cppvar, "_")
    BY AppendOther
  <2>1. CASE named /\ ls[n].guard = cppvar
    BY <1>2, <2>0, <2>1
  <2>2. CASE named /\ ls[n].guard = Append(cppvar, "_") /\ ls[n].guard # cppvar
    BY <1>2, <2>2
  <2>3. CASE ~ (named /\ ls[n].guard \in guards)
    BY <1>2, <2>3
  <2> QED BY <2>1, <2>2, <2>3
<1>5. es \in Seq(GuardErrors) /\ (Hidden(es) <=> named /\ ls[n].guard \in guards)
  <2>1. /\ <<>> \in Seq(GuardErrors) /\ Hidden(<<>>)
        /\ <<fine>> \in Seq(GuardErrors) /\ Hidden(<<fine>>)
        /\ <<bad>> \in Seq(GuardErrors) /\ ~ Hidden(<<bad>>)
    <3> HIDE DEF mark, guards
    <3>1. <<>> \in Seq(GuardErrors) /\ ToSet(<<>>) = {}
      BY <1>1, NoneAndOne
    <3>2. <<fine>> \in Seq(GuardErrors) /\ ToSet(<<fine>>) = {fine}
      BY <1>1, NoneAndOne
    <3>3. <<bad>> \in Seq(GuardErrors) /\ ToSet(<<bad>>) = {bad}
      BY <1>1, NoneAndOne
    <3> QED BY <1>1, <3>1, <3>2, <3>3 DEF Hidden
  <2> QED BY <1>4, <2>1
<1> QED BY <1>3, <1>5 DEF named, es

(* What CheckForHeaderGuard reports of any header. *)
LEMMA GuardCheck ==
  ASSUME NEW f, NEW ls \in Seq(LineType), f.guard \in Seq(STRING),
         f.guard = GetHeaderGuardCPPVariable(f.disk, f.name, f.root)
  PROVE  LET es == CheckForHeaderGuard(f, ls)
             ifndefs == Lines(ls, LAMBDA l : Begins(l, {"#ifndef"}))
             defines == Lines(ls, LAMBDA l : Begins(l, {"#define"}))
             endifs == Lines(ls, IsEndif)
             comments == \E m \in DOMAIN ls : HasComment(ls[m], "//")
             mark == IF comments THEN "//" ELSE "/*"
             names == {f.guard, Append(f.guard, "_")}
         IN  /\ es \in Seq(GuardErrors)
             /\ Hidden(es) <=>
                  \/ \E m \in DOMAIN ls : ls[m].nolint_guard
                  \/ /\ ifndefs # {} /\ defines # {} /\ endifs # {}
                     /\ ls[Min(ifndefs)].guard = ls[Min(defines)].guard
                     /\ ls[Min(ifndefs)].guard \in names
                     /\ HasComment(ls[Max(endifs)], mark) /\ ls[Max(endifs)].guard \in names
<1> DEFINE cppvar == f.guard
           names == {f.guard, Append(f.guard, "_")}
           ifndefs == Lines(ls, LAMBDA l : Begins(l, {"#ifndef"}))
           defines == Lines(ls, LAMBDA l : Begins(l, {"#define"}))
           endifs == Lines(ls, IsEndif)
           ifndef == ls[Min(ifndefs)].guard
           Conf == IF ifndef = Append(cppvar, "_") THEN 0 ELSE 5
           last == IF endifs = {} THEN 0 ELSE Max(endifs)
           wrong == ErrorAt(Min(ifndefs), "build/header_guard", Conf)
           first == IF ifndef = cppvar THEN <<>> ELSE <<wrong>>
           end == CheckEndif(ls, last, cppvar)
           whole == ErrorAt(0, "build/header_guard", 5)
           es == CheckForHeaderGuard(f, ls)
           nolint == \E n \in DOMAIN ls : ls[n].nolint_guard
           mark == IF \E m \in DOMAIN ls : HasComment(ls[m], "//") THEN "//" ELSE "/*"
           none == ifndefs = {} \/ defines = {} \/ ifndef # ls[Min(defines)].guard
<1>1. es = IF nolint THEN <<>> ELSE IF none THEN <<whole>> ELSE first \o end
  BY DEF CheckForHeaderGuard
<1>2. ifndefs \in SUBSET (1..Len(ls)) /\ endifs \in SUBSET (1..Len(ls)) /\ Len(ls) \in Nat
  BY DEF Lines
<1> HIDE DEF ifndefs, defines, endifs, nolint
<1>3. /\ ifndefs # {} => Min(ifndefs) \in 1..Len(ls)
      /\ endifs # {} => Max(endifs) \in 1..Len(ls)
  BY <1>2, PlacesIn
<1>4. last \in 0..Len(ls) /\ (last > 0 <=> endifs # {})
  <2> DEFINE m == Max(endifs)
             N == Len(ls)
  <2>1. m \in 1..N => m \in 0..N /\ m > 0
    BY <1>2
  <2>2. 0 \in 0..N /\ ~ (0 > 0)
    BY <1>2
  <2> HIDE DEF m, N
  <2>3. last = IF endifs = {} THEN 0 ELSE m
    BY DEF m
  <2>4. endifs # {} => m \in 1..N
    BY <1>3 DEF m, N
  <2> HIDE DEF last
  <2>5. last \in 0..N /\ (last > 0 <=> endifs # {})
    BY <2>1, <2>2, <2>3, <2>4
  <2> QED BY <2>5 DEF N
<1> HIDE DEF last
<1>5. /\ end \in Seq(GuardErrors)
      /\ Hidden(end) <=> last > 0 /\ HasComment(ls[last], mark) /\ ls[last].guard \in names
  <2>1. cppvar \in Seq(STRING)
    OBVIOUS
  <2> QED BY <1>4, <2>1, EndifCorrect
<1>6. whole \in GuardErrors /\ whole.confidence = 5
  <2>1. 0 \in Nat /\ 5 \in Nat /\ "build/header_guard" \in OtherCategories
    BY Naming
  <2>2. whole \in ErrorType /\ whole.category = "build/header_guard" /\ whole.confidence = 5
    BY <2>1, ErrorAtType
  <2> HIDE DEF whole
  <2> QED BY <2>2 DEF GuardErrors
<1> HIDE DEF end, whole, es, mark, ifndef
<1>7. ~ none => first \in Seq(GuardErrors) /\ (Hidden(first) <=> ifndef \in names)
  <2> SUFFICES ASSUME ~ none
      PROVE    first \in Seq(GuardErrors) /\ (Hidden(first) <=> ifndef \in names)
    OBVIOUS
  <2>1. Min(ifndefs) \in Nat /\ Conf \in Nat /\ "build/header_guard" \in OtherCategories
    <3>1. Min(ifndefs) \in 1..Len(ls)
      BY <1>3
    <3>2. Conf \in Nat
      BY Naming, Zenon
    <3>3. Min(ifndefs) \in Nat
      BY <1>2, <3>1
    <3> QED BY <3>2, <3>3, Naming
  <2> HIDE DEF Conf
  <2>2. wrong \in ErrorType /\ wrong.category = "build/header_guard" /\ wrong.confidence = Conf
    BY <2>1, ErrorAtType
  <2> HIDE DEF wrong
  <2>3. wrong \in GuardErrors
    BY <2>2 DEF GuardErrors
  <2>4. ToSet(<<>>) = {} /\ <<>> \in Seq(GuardErrors)
    BY <1>6, NoneAndOne
  <2>5. ToSet(<<wrong>>) = {wrong} /\ <<wrong>> \in Seq(GuardErrors)
    BY <2>3, NoneAndOne
  <2>6. wrong.confidence = 0 <=> ifndef = Append(cppvar, "_")
    <3>1. wrong.confidence = Conf /\ 0 # 5
      BY <2>2
    <3> QED BY <3>1, Zenon DEF Conf
  <2>7. CASE ifndef = cppvar
    BY <2>4, <2>7 DEF Hidden
  <2>8. CASE ifndef # cppvar
    BY <2>5, <2>6, <2>8 DEF Hidden
  <2> QED BY <2>7, <2>8
<1> HIDE DEF first
<1>8. /\ es \in Seq(GuardErrors)
      /\ Hidden(es) <=>
           \/ nolint
           \/ /\ ~ none /\ ifndef \in names
              /\ last > 0 /\ HasComment(ls[last], mark) /\ ls[last].guard \in names
  <2> HIDE DEF none, names
  <2>1. CASE nolint
    <3>1. es = <<>>
      BY <1>1, <2>1
    <3>2. <<>> \in Seq(GuardErrors) /\ ToSet(<<>>) = {}
      BY <1>6, NoneAndOne
    <3> QED BY <2>1, <3>1, <3>2 DEF Hidden
  <2>2. CASE ~ nolint /\ none
    <3>1. es = <<whole>>
      BY <1>1, <2>2
    <3>2. <<whole>> \in Seq(GuardErrors) /\ ToSet(<<whole>>) = {whole}
      BY <1>6, NoneAndOne
    <3> QED BY <1>6, <2>2, <3>1, <3>2 DEF Hidden
  <2>3. CASE ~ nolint /\ ~ none
    <3>1. es = first \o end
      BY <1>1, <2>3
    <3>2. first \o end \in Seq(GuardErrors) /\ ToSet(first \o end) = ToSet(first) \cup ToSet(end)
      BY <1>5, <1>7, <2>3, Joined
    <3>3. Hidden(es) <=> Hidden(first) /\ Hidden(end)
      BY <3>1, <3>2 DEF Hidden
    <3> QED BY <1>5, <1>7, <2>3, <3>1, <3>2, <3>3
  <2> QED BY <2>1, <2>2, <2>3
<1>9. ~ none <=> ifndefs # {} /\ defines # {} /\ ls[Min(ifndefs)].guard = ls[Min(defines)].guard
  BY DEF ifndef
<1>10. endifs # {} => last = Max(endifs)
  BY DEF last
<1>11. Hidden(es) <=>
         \/ nolint
         \/ /\ ifndefs # {} /\ defines # {} /\ endifs # {}
            /\ ls[Min(ifndefs)].guard = ls[Min(defines)].guard
            /\ ls[Min(ifndefs)].guard \in names
            /\ HasComment(ls[Max(endifs)], mark) /\ ls[Max(endifs)].guard \in names
  <2> HIDE DEF none, names
  <2> QED BY <1>4, <1>8, <1>9, <1>10 DEF ifndef
<1> QED BY <1>8, <1>11 DEF es, nolint, mark, ifndefs, defines, endifs

-----------------------------------------------------------------------------
(* Every step keeps the types. *)

LEMMA LinesTyped == TypeInv => lines \in Seq(LineType) /\ Len(lines) \in Nat
<1> SUFFICES ASSUME TypeInv PROVE lines \in Seq(LineType) /\ Len(lines) \in Nat
  OBVIOUS
<1>1. Alphabets[kind] \subseteq LineType
  BY LinesAssumption DEF TypeInv
<1>2. lines \in Seq(Alphabets[kind])
  BY DEF TypeInv
<1> HIDE DEF TypeInv
<1> QED BY <1>1, <1>2

LEMMA TypeInit == Init => TypeInv
BY DEF Init, TypeInv

LEMMA TypeStep == TypeInv /\ [Next]_vars => TypeInv'
<1> SUFFICES ASSUME TypeInv, [Next]_vars PROVE TypeInv'
  OBVIOUS
<1>1. ASSUME NEW line \in Alphabets[kind], Type(line) PROVE TypeInv'
  <2>1. lines' = Append(lines, line) /\ pc' = pc /\ lineno' = lineno /\ kind' = kind /\ file' = file
        /\ errors' = errors /\ nesting_state' = nesting_state /\ include_state' = include_state
        /\ pc = "typing"
    BY <1>1 DEF Type
  <2>2. lines' \in Seq(Alphabets[kind']) /\ Len(lines') = Len(lines) + 1 /\ Len(lines) \in Nat
    BY <2>1 DEF TypeInv
  <2>3. lineno' \in 0..Len(lines')
    BY <2>1, <2>2 DEF TypeInv
  <2> QED BY <2>1, <2>2, <2>3 DEF TypeInv
<1>2. CASE Guard
  BY <1>2 DEF Guard, TypeInv
<1>3. CASE ProcessLine
  <2>1. /\ lines' = lines /\ pc' = pc /\ pc = "lines" /\ kind' = kind /\ file' = file
        /\ lineno' = lineno + 1 /\ lineno < Len(lines)
    BY <1>3 DEF ProcessLine
  <2>2. lineno \in 0..Len(lines) /\ Len(lines) \in Nat
    BY DEF TypeInv
  <2>3. lineno' \in 0..Len(lines')
    BY <2>1, <2>2
  <2> QED BY <2>1, <2>3 DEF TypeInv
<1>4. CASE EndOfFile
  BY <1>4 DEF EndOfFile, TypeInv
<1>5. CASE UNCHANGED vars
  BY <1>5 DEF vars, TypeInv
<1> QED BY <1>1, <1>2, <1>3, <1>4, <1>5 DEF Next

LEMMA GuardStep == TypeInv /\ GuardInv /\ [Next]_vars => GuardInv'
<1> SUFFICES ASSUME TypeInv, GuardInv, [Next]_vars PROVE GuardInv'
  OBVIOUS
<1>1. ASSUME NEW line \in Alphabets[kind], Type(line) PROVE GuardInv'
  BY <1>1 DEF Type, GuardInv
<1>2. CASE Guard
  BY <1>2 DEF Guard, GuardInv
<1>3. CASE ProcessLine
  <2>1. lineno' = lineno + 1 /\ lineno \in Nat
    BY <1>3 DEF ProcessLine, TypeInv
  <2> QED BY <2>1 DEF GuardInv
<1>4. CASE EndOfFile
  BY <1>4 DEF EndOfFile, GuardInv
<1>5. CASE UNCHANGED vars
  BY <1>5 DEF vars, GuardInv
<1> QED BY <1>1, <1>2, <1>3, <1>4, <1>5 DEF Next

(* The errors before the first line are those of the guard. *)
LEMMA GuardHolds == TypeInv /\ GuardInv => GuardAgrees
<1> SUFFICES ASSUME TypeInv, GuardInv, pc = "lines", lineno = 0,
                    Extension(file.name) = <<".", "h">>
    PROVE GuardAgrees
  BY DEF GuardAgrees
<1>1. file \in Settings[kind] /\ kind \in DOMAIN Alphabets
  BY DEF TypeInv
<1>2. /\ file.guard \in Seq(STRING)
      /\ file.guard = GetHeaderGuardCPPVariable(file.disk, file.name, file.root)
  BY <1>1, SettingsAssumption
<1>3. lines \in Seq(LineType) /\ Len(lines) \in Nat /\ DOMAIN lines = 1..Len(lines)
  BY LinesTyped
<1>4. errors = CheckForHeaderGuard(file, lines)
  BY DEF GuardInv
<1> DEFINE ifndefs == Lines(lines, LAMBDA l : Begins(l, {"#ifndef"}))
           defines == Lines(lines, LAMBDA l : Begins(l, {"#define"}))
           endifs == Lines(lines, IsEndif)
           names == {file.guard, Append(file.guard, "_")}
           comments == \E m \in DOMAIN lines : HasComment(lines[m], "//")
           mark == IF comments THEN "//" ELSE "/*"
           ifndef == SelectInSeq(lines, LAMBDA l : Begins(l, {"#ifndef"}))
           define == SelectInSeq(lines, LAMBDA l : Begins(l, {"#define"}))
           endif == SelectLastInSeq(lines, IsEndif)
<1>5. /\ errors \in Seq(GuardErrors)
      /\ Hidden(errors) <=>
           \/ \E m \in DOMAIN lines : lines[m].nolint_guard
           \/ /\ ifndefs # {} /\ defines # {} /\ endifs # {}
              /\ lines[Min(ifndefs)].guard = lines[Min(defines)].guard
              /\ lines[Min(ifndefs)].guard \in names
              /\ HasComment(lines[Max(endifs)], mark) /\ lines[Max(endifs)].guard \in names
  BY <1>2, <1>3, <1>4, GuardCheck
<1>6. Hidden(errors) <=> \A i \in DOMAIN errors : errors[i].confidence = 0
  BY DEF Hidden, ToSet
<1>7. /\ ifndefs \in SUBSET (1..Len(lines)) /\ defines \in SUBSET (1..Len(lines))
      /\ endifs \in SUBSET (1..Len(lines))
  BY <1>3 DEF Lines
<1>8. /\ ifndef = IF ifndefs # {} THEN Min(ifndefs) ELSE 0
      /\ define = IF defines # {} THEN Min(defines) ELSE 0
      /\ endif = IF endifs # {} THEN Max(endifs) ELSE 0
  BY <1>3 DEF SelectInSeq, SelectLastInSeq, Lines
<1> HIDE DEF ifndefs, defines, endifs, ifndef, define, endif
<1>9. /\ ifndefs # {} => Min(ifndefs) \in 1..Len(lines)
      /\ defines # {} => Min(defines) \in 1..Len(lines)
      /\ endifs # {} => Max(endifs) \in 1..Len(lines)
  BY <1>3, <1>7, PlacesIn
<1>10. ASSUME NEW i, i \in 1..Len(lines) PROVE i > 0
  BY <1>3, <1>10
<1>11. /\ ifndef > 0 <=> ifndefs # {}
       /\ define > 0 <=> defines # {}
       /\ endif > 0 <=> endifs # {}
  <2>1. ~ (0 > 0)
    OBVIOUS
  <2> QED BY <1>8, <1>9, <1>10, <2>1, Zenon
<1>12. (\A i \in DOMAIN errors : errors[i].confidence = 0) <=>
         \/ \E m \in DOMAIN lines : lines[m].nolint_guard
         \/ /\ ifndef > 0 /\ define > 0 /\ endif > 0
            /\ lines[ifndef].guard = lines[define].guard
            /\ lines[ifndef].guard \in names
            /\ HasComment(lines[endif], mark) /\ lines[endif].guard \in names
  BY <1>5, <1>6, <1>8, <1>11, Zenon
<1> QED BY <1>12, Zenon DEF GuardAgrees, ifndef, define, endif

(* A header is let pass just if it is guarded, whatever its lines are.     *)
THEOREM GuardCorrect == Spec => []GuardAgrees
<1> DEFINE Inv == TypeInv /\ GuardInv
<1>1. Init => Inv
  BY TypeInit DEF Init, GuardInv
<1>2. Inv /\ [Next]_vars => Inv'
  BY TypeStep, GuardStep
<1>3. Inv => GuardAgrees
  BY GuardHolds
<1> QED BY <1>1, <1>2, <1>3, PTL DEF Spec

-----------------------------------------------------------------------------
(* Sequences and the errors of the checks of blocks, functions and         *)
(* sections.                                                               *)

OtherErrors == {e \in ErrorType : e.category \in OtherCategories}

LEMMA FrontLast ==
  ASSUME NEW S, NEW s \in Seq(S), s # <<>>
  PROVE  /\ Len(s) \in Nat \ {0} /\ Last(s) \in S
         /\ Front(s) \in Seq(S) /\ Len(Front(s)) = Len(s) - 1
         /\ \A i \in 1..(Len(s) - 1) : Front(s)[i] = s[i]
<1>1. Len(s) \in Nat \ {0} /\ \A i \in 1..Len(s) : s[i] \in S
  OBVIOUS
<1>2. /\ Front(s) \in Seq(S) /\ Len(Front(s)) = Len(s) - 1
      /\ \A i \in 1..(Len(s) - 1) : Front(s)[i] = s[i]
  <2> DEFINE n == Len(s) - 1
  <2>1. n \in Int /\ 1 \in Int /\ n >= 0 /\ \A i \in 1..n : s[i] \in S
    BY <1>1
  <2> HIDE DEF n
  <2>2. /\ SubSeq(s, 1, n) \in Seq(S)
        /\ Len(SubSeq(s, 1, n)) = IF 1 <= n THEN n - 1 + 1 ELSE 0
        /\ \A i \in 1..(n - 1 + 1) : SubSeq(s, 1, n)[i] = s[1 + i - 1]
    BY <2>1, SubSeqProperties
  <2>3. n - 1 + 1 = n /\ \A i \in 1..n : 1 + i - 1 = i
    BY <2>1
  <2>4. Len(SubSeq(s, 1, n)) = n
    BY <2>1, <2>2
  <2> QED BY <2>2, <2>3, <2>4 DEF Front, n
<1> QED BY <1>1, <1>2 DEF Last

LEMMA RestType ==
  ASSUME NEW S, NEW s \in Seq(S), NEW i \in Nat, NEW j \in Nat, i > 0, j <= Len(s)
  PROVE  /\ SubSeq(s, i, j) \in Seq(S)
         /\ \A k \in 1..Len(SubSeq(s, i, j)) : SubSeq(s, i, j)[k] \in S
<1>1. i \in Int /\ j \in Int /\ \A k \in i..j : s[k] \in S
  <2>1. Len(s) \in Nat /\ \A k \in 1..Len(s) : s[k] \in S
    OBVIOUS
  <2>2. \A k \in i..j : k \in 1..Len(s)
    BY <2>1
  <2> QED BY <2>1, <2>2
<1>2. SubSeq(s, i, j) \in Seq(S)
  BY <1>1, SubSeqProperties
<1> QED BY <1>2, ElementOfSeq

LEMMA Appended ==
  ASSUME NEW S, NEW s \in Seq(S), NEW e \in S
  PROVE  /\ Append(s, e) \in Seq(S) /\ Append(s, e) # <<>> /\ Len(Append(s, e)) = Len(s) + 1
         /\ Last(Append(s, e)) = e /\ Append(s, e)[Len(s) + 1] = e
         /\ \A i \in 1..Len(s) : Append(s, e)[i] = s[i]
<1>1. /\ Append(s, e) \in Seq(S) /\ Len(Append(s, e)) = Len(s) + 1 /\ Len(s) \in Nat
      /\ Append(s, e)[Len(s) + 1] = e /\ \A i \in 1..Len(s) : Append(s, e)[i] = s[i]
  OBVIOUS
<1>2. Append(s, e) # <<>>
  BY <1>1
<1> QED BY <1>1, <1>2 DEF Last

LEMMA ToppedType ==
  ASSUME NEW S, NEW s \in Seq(S), NEW e \in S, s # <<>>
  PROVE  /\ [s EXCEPT ![Len(s)] = e] \in Seq(S) /\ [s EXCEPT ![Len(s)] = e] # <<>>
         /\ Len([s EXCEPT ![Len(s)] = e]) = Len(s)
         /\ Last([s EXCEPT ![Len(s)] = e]) = e
         /\ \A i \in 1..(Len(s) - 1) : [s EXCEPT ![Len(s)] = e][i] = s[i]
<1>1. Len(s) \in 1..Len(s) /\ Len(s) \in Nat /\ Len(s) > 0
  OBVIOUS
<1> DEFINE t == [s EXCEPT ![Len(s)] = e]
<1>2. t \in Seq(S) /\ Len(t) = Len(s) /\ \A j \in 1..Len(s) : t[j] = IF j = Len(s) THEN e ELSE s[j]
  BY <1>1, ExceptSeq
<1> HIDE DEF t
<1>3. t # <<>>
  BY <1>1, <1>2
<1>4. \A i \in 1..(Len(s) - 1) : i \in 1..Len(s) /\ i # Len(s)
  BY <1>1
<1>5. Last(t) = e
  BY <1>1, <1>2 DEF Last
<1>6. \A i \in 1..(Len(s) - 1) : t[i] = s[i]
  BY <1>2, <1>4
<1> QED BY <1>2, <1>3, <1>5, <1>6 DEF t

LEMMA OtherErrorAt ==
  ASSUME NEW n \in Nat, NEW c \in OtherCategories, NEW k \in Nat
  PROVE  /\ ErrorAt(n, c, k) \in OtherErrors
         /\ <<ErrorAt(n, c, k)>> \in Seq(OtherErrors) /\ <<>> \in Seq(OtherErrors)
<1>1. c \in IncludeCategories \cup OtherCategories
  OBVIOUS
<1> DEFINE e == ErrorAt(n, c, k)
<1>2. e \in ErrorType /\ e.category = c
  BY <1>1, ErrorAtType
<1> HIDE DEF e
<1>3. e \in OtherErrors
  BY <1>2 DEF OtherErrors
<1> QED BY <1>3, NoneAndOne DEF e

LEMMA CategoriesAre ==
  /\ {"build/header_guard", "readability/namespace", "readability/constructors",
      "readability/fn_size", "whitespace/indent", "whitespace/blank_line",
      "runtime/indentation_namespace"} \subseteq OtherCategories
  /\ \A c \in OtherCategories : c \notin IncludeCategories
<1>1. \A c \in OtherCategories : c \notin IncludeCategories
  BY DEF OtherCategories, IncludeCategories
<1>2. {"build/header_guard", "readability/namespace", "readability/constructors",
      "readability/fn_size", "whitespace/indent", "whitespace/blank_line",
      "runtime/indentation_namespace"} = OtherCategories
  BY Zenon DEF OtherCategories
<1> QED BY <1>1, <1>2

LEMMA OccurrencesType ==
  ASSUME NEW S, NEW s \in Seq(S), NEW c
  PROVE  Occurrences(s, c) \in Nat
<1> DEFINE places == {i \in DOMAIN s : s[i] = c}
<1>1. Len(s) \in Nat /\ places \in SUBSET (1..Len(s))
  OBVIOUS
<1>2. IsFiniteSet(1..Len(s))
  BY <1>1, FS_Interval
<1>3. IsFiniteSet(places)
  BY <1>1, <1>2, FS_Subset
<1>4. Cardinality(places) \in Nat
  BY <1>3, FS_CardinalityType
<1> QED BY <1>4 DEF Occurrences

-----------------------------------------------------------------------------
(* The checks that report no includes. *)

LEMMA IndentationErrors ==
  ASSUME NEW state, NEW ls, NEW n \in Nat
  PROVE  CheckForNamespaceIndentation(state, ls, n) \in Seq(OtherErrors)
<1>1. "runtime/indentation_namespace" \in OtherCategories /\ 4 \in Nat
  BY CategoriesAre
<1> DEFINE e == ErrorAt(n, "runtime/indentation_namespace", 4)
<1>2. <<e>> \in Seq(OtherErrors) /\ <<>> \in Seq(OtherErrors)
  BY <1>1, OtherErrorAt
<1>3. CheckForNamespaceIndentation(state, ls, n) \in {<<e>>, <<>>}
  BY Zenon DEF CheckForNamespaceIndentation
<1> QED BY <1>2, <1>3

LEMMA SpacingErrors ==
  ASSUME NEW state, NEW ls, NEW n \in Nat
  PROVE  CheckSectionSpacing(state, ls, n) \in Seq(OtherErrors)
<1>1. "whitespace/blank_line" \in OtherCategories /\ 3 \in Nat
  BY CategoriesAre
<1> DEFINE e == ErrorAt(n, "whitespace/blank_line", 3)
<1>2. <<e>> \in Seq(OtherErrors) /\ <<>> \in Seq(OtherErrors)
  BY <1>1, OtherErrorAt
<1>3. CheckSectionSpacing(state, ls, n) \in {<<e>>, <<>>}
  BY Zenon DEF CheckSectionSpacing
<1> QED BY <1>2, <1>3

LEMMA LengthErrors ==
  ASSUME NEW state, NEW ls, NEW n \in Nat, NEW verbosity
  PROVE  CheckForFunctionLengths(state, ls, n, verbosity).errors \in Seq(OtherErrors)
<1>1. "readability/fn_size" \in OtherCategories /\ 5 \in Nat
  BY CategoriesAre
<1>2. ASSUME NEW k \in Nat
      PROVE  <<ErrorAt(n, "readability/fn_size", k)>> \in Seq(OtherErrors)
  BY <1>1, OtherErrorAt
<1>3. <<>> \in Seq(OtherErrors)
  BY <1>1, OtherErrorAt
<1>4. ASSUME NEW ns, NEW base PROVE Level(ns, base) \in Nat
  <2> DEFINE levels == {k \in 1..5 : base * 2 ^ k <= ns}
  <2>1. IsFiniteSet(1..5)
    <3>1. 1 \in Int /\ 5 \in Int
      OBVIOUS
    <3> QED BY <3>1, FS_Interval
  <2>2. IsFiniteSet(levels)
    BY <2>1, FS_Subset
  <2> QED BY <2>2, FS_CardinalityType DEF Level
<1>5. Check(state, n, verbosity) \in Seq(OtherErrors)
  <2> DEFINE level == Level(state.lines_in_function, BaseTrigger(state.is_test))
             e == ErrorAt(n, "readability/fn_size", level)
  <2>1. <<e>> \in Seq(OtherErrors)
    BY <1>2, <1>4
  <2>2. Check(state, n, verbosity) \in {<<e>>, <<>>}
    BY Zenon DEF Check
  <2> QED BY <1>3, <2>1, <2>2
<1> DEFINE line == ls[n]
           name == FunctionName(line)
           head == HeadEnd(ls, n)
           result == CheckForFunctionLengths(state, ls, n, verbosity)
<1>6. result =
        CASE name # <<>> /\ head = 0 ->
               [state |-> state, errors |-> <<ErrorAt(n, "readability/fn_size", 5)>>]
          [] name # <<>> /\ head > 0 ->
               IF Holds(ls[head], {";", "}"}) THEN [state |-> state, errors |-> <<>>]
               ELSE [state |-> Begin(state, Last(name) \in TestNames), errors |-> <<>>]
          [] name = <<>> /\ IsFunctionEnd(line) ->
               [state |-> End(state), errors |-> Check(state, n, verbosity)]
          [] OTHER -> IF line.toks = <<>> THEN [state |-> state, errors |-> <<>>]
                      ELSE [state |-> CountLine(state), errors |-> <<>>]
  BY DEF CheckForFunctionLengths
<1> HIDE DEF result, name, head, line
<1>7. CASE name # <<>> /\ head = 0
  <2>1. ~ (head > 0)
    BY <1>7
  <2>2. result.errors = <<ErrorAt(n, "readability/fn_size", 5)>>
    BY <1>6, <1>7, <2>1
  <2> QED BY <1>1, <1>2, <2>2 DEF result
<1>8. CASE name # <<>> /\ head > 0
  <2>1. head # 0
    BY <1>8
  <2>2. result.errors = <<>>
    BY <1>6, <1>8, <2>1
  <2> QED BY <1>3, <2>2 DEF result
<1>9. CASE name = <<>> /\ IsFunctionEnd(line)
  <2>1. result.errors = Check(state, n, verbosity)
    BY <1>6, <1>9
  <2> QED BY <1>5, <2>1 DEF result
<1>10. CASE ~ (name # <<>> /\ head = 0) /\ ~ (name # <<>> /\ head > 0)
            /\ ~ (name = <<>> /\ IsFunctionEnd(line))
  <2>1. result.errors = <<>>
    BY <1>6, <1>10
  <2> QED BY <1>3, <2>1 DEF result
<1> QED BY <1>7, <1>8, <1>9, <1>10

-----------------------------------------------------------------------------
(* The blocks of a file without inline assembly. *)

Pieces == STRING \ {"asm"}

PartType == [stack: Seq(BlockType), rest: Seq(Pieces), errors: Seq(OtherErrors)]

LEMMA PartTyped ==
  ASSUME NEW stack \in Seq(BlockType), NEW rest \in Seq(Pieces)
  PROVE  Part(stack, rest) \in PartType
<1>1. <<>> \in Seq(OtherErrors)
  OBVIOUS
<1> QED BY <1>1 DEF Part, PartType

LEMMA NoAsmMatch ==
  ASSUME NEW toks \in Seq(Pieces)
  PROVE  ~ MatchAsm(toks)
<1>1. toks # <<>> => Head(toks) \in Pieces
  OBVIOUS
<1> QED BY <1>1 DEF MatchAsm, Pieces

LEMMA BlockTyped ==
  ASSUME NEW k \in Kinds, NEW n \in Nat, NEW seen \in BOOLEAN
  PROVE  Block(k, n, seen) \in BlockType
BY DEF Block, BlockType, Names

LEMMA ParenthesesTyped ==
  ASSUME NEW stack \in Seq(BlockType), NEW toks \in Seq(Pieces)
  PROVE  CountParentheses(stack, toks) \in Seq(BlockType)
<1>1. CASE stack = <<>>
  BY <1>1 DEF CountParentheses
<1>2. CASE stack # <<>>
  <2> DEFINE change == Occurrences(toks, "(") - Occurrences(toks, ")")
             block == Last(stack)
             open == block.open_parentheses + change
             new == [block EXCEPT !.open_parentheses = open, !.inline_asm = "NO"]
  <2>1. block \in BlockType
    BY <1>2, FrontLast
  <2>2. Occurrences(toks, "(") \in Nat /\ Occurrences(toks, ")") \in Nat
    BY OccurrencesType
  <2>3. change \in Int
    BY <2>2
  <2> HIDE DEF change, block
  <2>4. block.inline_asm = "NO" /\ open \in Int
    <3>1. block.inline_asm \in {"NO"} /\ block.open_parentheses \in Int
      BY <2>1 DEF BlockType
    <3> QED BY <2>3, <3>1
  <2>5. new \in BlockType
    BY <2>1, <2>4 DEF BlockType
  <2> HIDE DEF open
  <2>6. CountParentheses(stack, toks) = WithTop(stack, new)
    BY <1>2, <2>4, NoAsmMatch DEF CountParentheses, block, change, open
  <2> HIDE DEF new
  <2> QED BY <1>2, <2>5, <2>6, ToppedType DEF WithTop
<1> QED BY <1>1, <1>2

LEMMA NamespaceTyped ==
  ASSUME NEW part \in PartType, NEW n \in Nat
  PROVE  ConsumeNamespace(part, n) \in PartType
<1> DEFINE rest == part.rest
           named == Len(rest) > 1 /\ rest[2] \in Words
           from == IF named THEN 3 ELSE 2
           after == From(rest, from)
           brace == SelectInSeq(after, LAMBDA c : c = "{")
           name == IF named THEN rest[2] ELSE ""
           info == NamespaceInfo(name, n)
           block == [info EXCEPT !.seen_open_brace = brace > 0]
<1>1. rest \in Seq(Pieces) /\ part.stack \in Seq(BlockType) /\ Len(rest) \in Nat
  BY DEF PartType
<1> HIDE DEF rest
<1>2. name \in Names
  <2>1. named => rest[2] \in STRING
    BY <1>1 DEF Pieces
  <2> QED BY <2>1 DEF Names
<1>3. from \in Nat /\ from > 0
  OBVIOUS
<1> HIDE DEF name, from
<1>4. after \in Seq(Pieces)
  BY <1>1, <1>3, RestType DEF From
<1>5. brace \in Nat
  <2> HIDE DEF after
  <2> DEFINE places == {i \in 1..Len(after) : after[i] = "{"}
  <2>1. Len(after) \in Nat /\ places \in SUBSET (1..Len(after))
    <3>1. Len(after) \in Nat
      BY <1>4
    <3>2. places \in SUBSET (1..Len(after))
      OBVIOUS
    <3> QED BY <3>1, <3>2
  <2>2. brace = IF places # {} THEN Min(places) ELSE 0
    BY DEF SelectInSeq
  <2> HIDE DEF places, brace
  <2>3. places # {} => Min(places) \in Nat
    BY <2>1, PlacesIn
  <2> QED BY <2>2, <2>3
<1> HIDE DEF after, brace
<1>6. From(after, brace + 1) \in Seq(Pieces)
  <2>1. brace + 1 \in Nat /\ brace + 1 > 0 /\ Len(after) \in Nat /\ Len(after) <= Len(after)
    BY <1>4, <1>5
  <2> QED BY <1>4, <2>1, RestType DEF From
<1>7. block \in BlockType
  <2>1. Block("namespace", n, FALSE) \in BlockType
    BY BlockTyped DEF Kinds
  <2>2. info = [Block("namespace", n, FALSE) EXCEPT !.name = name]
    BY DEF NamespaceInfo
  <2>3. info \in BlockType
    <3> DEFINE b == Block("namespace", n, FALSE)
    <3> HIDE DEF b, info
    <3>1. b \in BlockType /\ info = [b EXCEPT !.name = name]
      BY <2>1, <2>2 DEF b
    <3> QED BY <1>2, <3>1 DEF BlockType
  <2>4. (brace > 0) \in BOOLEAN
    OBVIOUS
  <2> HIDE DEF info
  <2> QED BY <2>3, <2>4 DEF BlockType
<1> HIDE DEF block
<1>8. Part(Append(part.stack, block), From(after, brace + 1)) \in PartType
  BY <1>1, <1>6, <1>7, Appended, PartTyped
<1>9. ConsumeNamespace(part, n) \in {part, Part(Append(part.stack, block), From(after, brace + 1))}
  BY Zenon DEF ConsumeNamespace, block, after, brace, from, name, rest
<1> QED BY <1>8, <1>9

LEMMA NamespacesTyped ==
  ASSUME NEW part \in PartType, NEW n \in Nat
  PROVE  ConsumeNamespaces(part, n) \in PartType
<1> DEFINE N == Len(part.rest)
           step == [i \in 1..N |-> [p \in PartType |-> ConsumeNamespace(p, n)]]
           Body(g) == [i \in 0..N |-> IF i = 0 THEN part ELSE ConsumeNamespace(g[i - 1], n)]
           f == CHOOSE g : g = Body(g)
<1>1. N \in Nat
  BY DEF PartType
<1> HIDE DEF N
<1>2. Steps(N, PartType, part, step)
  BY <1>1, NamespaceTyped DEF Steps
<1>3. PICK h : Recurs(h, N, PartType, part, step)
  <2> HIDE DEF step
  <2> QED BY <1>2, Recursion
<1>4. h = Body(h)
  <2>1. ASSUME NEW i \in 0..N PROVE h[i] = IF i = 0 THEN part ELSE ConsumeNamespace(h[i - 1], n)
    <3>1. CASE i = 0
      BY <1>3, <3>1 DEF Recurs
    <3>2. CASE i \in 1..N
      <4>1. h[i - 1] \in PartType /\ i # 0
        BY <1>1, <1>3, <3>2 DEF Recurs
      <4> QED BY <1>3, <3>2, <4>1 DEF Recurs
    <3> QED BY <1>1, <3>1, <3>2
  <2>2. h \in [0..N -> PartType]
    BY <1>3 DEF Recurs
  <2> QED BY <2>1, <2>2
<1>5. f = Body(f)
  BY <1>4
<1>6. ConsumeNamespaces(part, n) = f[N]
  BY DEF ConsumeNamespaces, N
<1> HIDE DEF f
<1>7. f[0] \in PartType
  BY <1>1, <1>5
<1>8. ASSUME NEW i \in 1..N, f[i - 1] \in PartType PROVE f[i] \in PartType
  <2>1. i \in 0..N /\ i # 0
    BY <1>1
  <2>2. f[i] = ConsumeNamespace(f[i - 1], n)
    BY <1>5, <2>1
  <2> QED BY <1>8, <2>2, NamespaceTyped
<1>9. \A i \in 0..N : f[i] \in PartType
  BY <1>1, <1>7, <1>8, StaysIn
<1> QED BY <1>1, <1>6, <1>9

(* The names after a class end somewhere. *)
LEMMA ClassNameIn ==
  ASSUME NEW rest \in Seq(Pieces), ClassKey(rest) # 0
  PROVE  /\ ClassKey(rest) \in DOMAIN rest
         /\ ClassName(rest, ClassKey(rest)) \in (ClassKey(rest) + 1)..Len(rest)
<1> DEFINE N == Len(rest)
           k == ClassKey(rest)
           keys == {i \in DOMAIN rest :
                 /\ rest[i] \in Openings /\ i < Len(rest) /\ rest[i + 1] \in Words
                 /\ \/ i = 1
                    \/ /\ i > 3 /\ rest[1] = "template" /\ rest[2] = "<" /\ rest[i - 1] = ">"
                       /\ \A j \in 3..(i - 1) :
                            rest[j] \in Words \cup Openings \cup {"<", ">", ",", ":"}}
<1>1. N \in Nat /\ DOMAIN rest = 1..N
  OBVIOUS
<1>2. k = IF keys = {} THEN 0 ELSE Max(keys)
  BY DEF ClassKey
<1>3. k \in keys
  <2>1. keys \in SUBSET (1..N)
    BY <1>1
  <2> HIDE DEF keys, k
  <2>2. keys # {} /\ k = Max(keys)
    BY <1>2 DEF k
  <2> QED BY <1>1, <2>1, <2>2, PlacesIn
<1>4. k \in 1..N /\ k < N /\ rest[k + 1] \in Words
  BY <1>1, <1>3
<1> HIDE DEF k, keys, N
<1> DEFINE ends == {j \in (k + 1)..N : rest[j] \notin MacroNames \/ j = N \/ rest[j + 1] \notin Words}
           j == Min(ends)
<1>5. N \in ends /\ ends \in SUBSET (1..N)
  BY <1>1, <1>4
<1>6. j \in ends /\ \A i \in ends : j <= i
  <2> HIDE DEF ends
  <2> QED BY <1>1, <1>5, PlacesIn
<1> HIDE DEF j
<1>7. ASSUME NEW i \in (k + 1)..j PROVE rest[i] \in Words /\ (i = j \/ rest[i] \in MacroNames)
  <2>1. i \in (k + 1)..N /\ j \in (k + 1)..N /\ j \in Nat /\ i \in Nat /\ i <= j
    BY <1>1, <1>4, <1>6
  <2>2. i # j => rest[i] \in MacroNames
    <3> SUFFICES ASSUME i # j PROVE rest[i] \in MacroNames
      OBVIOUS
    <3>1. ~ (j <= i)
      BY <2>1
    <3>2. i \notin ends
      BY <1>6, <3>1
    <3> QED BY <2>1, <3>2
  <2>3. rest[i] \in Words
    <3>1. CASE i = k + 1
      BY <1>4, <3>1
    <3>2. CASE i # k + 1
      <4>1. i - 1 \in (k + 1)..N /\ i - 1 # N /\ ~ (j <= i - 1) /\ (i - 1) + 1 = i
        BY <1>1, <1>4, <2>1, <3>2
      <4>2. i - 1 \notin ends
        BY <1>6, <4>1
      <4> QED BY <4>1, <4>2
    <3> QED BY <3>1, <3>2
  <2> QED BY <2>2, <2>3
<1>8. \E i \in (k + 1)..N :
        /\ \A m \in (k + 1)..i : rest[m] \in Words /\ (m = i \/ rest[m] \in MacroNames)
        /\ rest[i] \notin MacroNames \/ i = N \/ rest[i + 1] \notin Words
  <2>1. j \in (k + 1)..N /\ (rest[j] \notin MacroNames \/ j = N \/ rest[j + 1] \notin Words)
    BY <1>6
  <2> QED BY <1>7, <2>1
<1>9. ClassName(rest, k) \in (k + 1)..N
  BY <1>8 DEF ClassName, N
<1> QED BY <1>1, <1>4, <1>9 DEF k, N

LEMMA ClassInfoTyped ==
  ASSUME NEW ls \in Seq(LineType), NEW n \in 1..Len(ls), NEW name, name \in Names, NEW key
  PROVE  ClassInfo(name, key, ls, n) \in BlockType
<1> DEFINE b == Block("class", n, FALSE)
           last == ClassEnd(ls, n)
<1>1. b \in BlockType /\ n \in Nat /\ Len(ls) \in Nat
  <2>1. Len(ls) \in Nat
    OBVIOUS
  <2>2. n \in Nat
    BY <2>1
  <2> QED BY <2>1, <2>2, BlockTyped DEF Kinds
<1>2. \A i \in n..Len(ls) : i \in 1..Len(ls)
  BY <1>1
<1>3. PICK ends : ends \subseteq n..Len(ls) /\ last = IF ends = {} THEN 0 ELSE Min(ends)
  BY Zenon DEF ClassEnd
<1> HIDE DEF last
<1>4. last \in Nat
  <2>1. ends \in SUBSET (1..Len(ls))
    BY <1>2, <1>3
  <2>2. ends # {} => Min(ends) \in 1..Len(ls)
    BY <1>1, <2>1, PlacesIn
  <2>3. \A i \in 1..Len(ls) : i \in Nat
    BY <1>1
  <2> QED BY <1>3, <2>2, <2>3
<1>5. ls[n].indent \in Nat
  <2>1. ls[n] \in LineType
    BY ElementOfSeq
  <2> QED BY <2>1 DEF LineType
<1> DEFINE indent == ls[n].indent
           struct == (key = "struct")
<1>6. struct \in BOOLEAN
  OBVIOUS
<1>7. ClassInfo(name, key, ls, n) =
        [b EXCEPT !.name = name, !.is_struct = struct, !.class_indent = indent, !.last_line = last]
  BY DEF ClassInfo, last
<1> HIDE DEF b, struct, indent
<1>8. [b EXCEPT !.name = name, !.is_struct = struct, !.class_indent = indent, !.last_line = last]
        \in BlockType
  BY <1>1, <1>4, <1>5, <1>6 DEF BlockType, indent, Names
<1> QED BY <1>7, <1>8

LEMMA ClassTyped ==
  ASSUME NEW part \in PartType, NEW ls \in Seq(LineType), NEW n \in 1..Len(ls)
  PROVE  ConsumeClass(part, ls, n) \in PartType
<1> DEFINE stack == part.stack
           rest == part.rest
           k == ClassKey(rest)
           j == ClassName(rest, k)
           new == Part(Append(stack, ClassInfo(rest[j], rest[k], ls, n)), From(rest, j + 1))
<1>1. stack \in Seq(BlockType) /\ rest \in Seq(Pieces)
  BY DEF PartType
<1>2. k # 0 => new \in PartType
  <2> SUFFICES ASSUME k # 0 PROVE new \in PartType
    OBVIOUS
  <2> HIDE DEF stack, rest, k, j, new
  <2>1. k \in DOMAIN rest /\ j \in (k + 1)..Len(rest)
    BY <1>1, ClassNameIn DEF k, j
  <2>2. Len(rest) \in Nat /\ j \in 1..Len(rest)
    BY <1>1, <2>1
  <2>3. rest[j] \in Names
    <3>1. rest[j] \in Pieces
      BY <1>1, <2>2
    <3> QED BY <3>1 DEF Pieces, Names
  <2> DEFINE info == ClassInfo(rest[j], rest[k], ls, n)
  <2>4. info \in BlockType
    BY <2>3, ClassInfoTyped
  <2> HIDE DEF info
  <2>5. Append(stack, info) \in Seq(BlockType)
    BY <1>1, <2>4
  <2>6. j + 1 \in Nat /\ j + 1 > 0 /\ Len(rest) <= Len(rest)
    BY <2>2
  <2>7. From(rest, j + 1) \in Seq(Pieces)
    BY <1>1, <2>2, <2>6, RestType DEF From
  <2>8. Part(Append(stack, info), From(rest, j + 1)) \in PartType
    BY <2>5, <2>7, PartTyped
  <2> QED BY <2>8 DEF new, info
<1>3. ConsumeClass(part, ls, n) = part \/ (k # 0 /\ ConsumeClass(part, ls, n) = new)
  BY Zenon DEF ConsumeClass
<1> QED BY <1>2, <1>3

LEMMA AccessTyped ==
  ASSUME NEW part \in PartType, NEW ls, NEW n \in Nat
  PROVE  /\ CheckAccess(part, ls, n) \in PartType
<1> DEFINE es == <<ErrorAt(n, "whitespace/indent", 3)>>
<1>1. "whitespace/indent" \in OtherCategories /\ 3 \in Nat
  BY CategoriesAre
<1>2. es \in Seq(OtherErrors)
  BY <1>1, OtherErrorAt
<1>3. CheckAccess(part, ls, n) = part \/ CheckAccess(part, ls, n) = [part EXCEPT !.errors = es]
  BY Zenon DEF CheckAccess
<1> HIDE DEF es
<1>4. [part EXCEPT !.errors = es] \in PartType
  BY <1>2 DEF PartType
<1> QED BY <1>3, <1>4

LEMMA OpenedTyped ==
  ASSUME NEW rest \in Seq(Pieces), NEW i \in 1..Len(rest), NEW ls, NEW n \in Nat
  PROVE  OpenedBlock(rest, i, ls, n) \in BlockType
<1> DEFINE last == SelectLastInSubSeq(rest, 1, i - 1, LAMBDA c : c \in {"{", ";", ")", "}"})
           places == {m \in 1..(i - 1) : rest[m] \in {"{", ";", ")", "}"}}
           external == /\ rest = ls[n].toks /\ ls[n].indent = 0
                       /\ i = 2 /\ rest[1] = "extern"
           which == IF external THEN "extern" ELSE "block"
           b == Block(which, n, TRUE)
           words == SubSeq(rest, last + 1, i)
<1>1. i \in Nat /\ Len(rest) \in Nat /\ i <= Len(rest)
  OBVIOUS
<1>2. last = IF places # {} THEN Max(places) ELSE 0
  BY DEF SelectLastInSubSeq
<1>3. places \in SUBSET (1..Len(rest))
  <2>1. \A m \in 1..(i - 1) : m \in 1..Len(rest)
    BY <1>1
  <2> HIDE DEF last
  <2> QED BY <2>1
<1> HIDE DEF places, last
<1>4. last \in Nat
  <2>1. places # {} => Max(places) \in 1..Len(rest)
    BY <1>1, <1>3, PlacesIn
  <2>2. places # {} => Max(places) \in Nat
    BY <1>1, <2>1
  <2> QED BY <1>2, <2>2
<1>5. words \in Seq(Pieces)
  <2>1. last + 1 \in Nat /\ last + 1 > 0
    BY <1>4
  <2> QED BY <1>1, <2>1, RestType
<1>6. b \in BlockType
  <2>1. which \in Kinds
    BY Zenon DEF Kinds
  <2> QED BY <2>1, BlockTyped
<1> HIDE DEF words
<1>7. ~ MatchAsm(words)
  BY <1>5, NoAsmMatch
<1>8. OpenedBlock(rest, i, ls, n) = [b EXCEPT !.inline_asm = "NO"]
  BY <1>7 DEF OpenedBlock, words, last
<1> HIDE DEF b
<1>9. [b EXCEPT !.inline_asm = "NO"] \in BlockType
  BY <1>6 DEF BlockType
<1> QED BY <1>8, <1>9

LEMMA EndErrors ==
  ASSUME NEW block \in BlockType, NEW ls, NEW n \in Nat
  PROVE  CheckEnd(block, ls, n) \in Seq(OtherErrors)
<1>1. <<>> \in Seq(OtherErrors) /\ 3 \in Nat /\ 5 \in Nat
  OBVIOUS
<1>2. NamespaceCheckEnd(block, ls, n) \in Seq(OtherErrors)
  <2> DEFINE es == <<ErrorAt(n, "readability/namespace", 5)>>
  <2>1. "readability/namespace" \in OtherCategories
    BY CategoriesAre
  <2>2. es \in Seq(OtherErrors)
    BY <1>1, <2>1, OtherErrorAt
  <2>3. NamespaceCheckEnd(block, ls, n) \in {<<>>, es}
    BY Zenon DEF NamespaceCheckEnd
  <2> QED BY <1>1, <2>2, <2>3
<1>3. ClassCheckEnd(block, ls, n) \in Seq(OtherErrors)
  <2>1. "readability/constructors" \in OtherCategories /\ "whitespace/indent" \in OtherCategories
    BY CategoriesAre
  <2> DEFINE es == <<ErrorAt(n, "whitespace/indent", 3)>>
  <2>2. es \in Seq(OtherErrors)
    BY <1>1, <2>1, OtherErrorAt
  <2>3. ASSUME NEW m \in Nat
        PROVE  <<ErrorAt(m, "readability/constructors", 3)>> \in Seq(OtherErrors)
    BY <1>1, <2>1, OtherErrorAt
  <2>4. PICK disallow, after, s, t :
          /\ disallow \subseteq (block.start + 1)..(n - 1)
          /\ ClassCheckEnd(block, ls, n) = s \o t
          /\ s = IF disallow # {} /\ after # {}
                   THEN <<ErrorAt(Max(disallow), "readability/constructors", 3)>> ELSE <<>>
          /\ t \in {es, <<>>}
    BY ZenonT(90) DEF ClassCheckEnd
  <2> HIDE DEF es
  <2>5. s \in Seq(OtherErrors)
    <3>1. block.start \in Nat
      BY DEF BlockType
    <3>2. disallow \in SUBSET (1..n)
      <4>1. \A i \in (block.start + 1)..(n - 1) : i \in 1..n
        BY <3>1
      <4> QED BY <2>4, <4>1
    <3>3. disallow # {} => Max(disallow) \in 1..n
      BY <3>2, PlacesIn
    <3>4. \A i \in 1..n : i \in Nat
      OBVIOUS
    <3>5. CASE disallow # {} /\ after # {}
      <4>1. s = <<ErrorAt(Max(disallow), "readability/constructors", 3)>>
        BY <2>4, <3>5
      <4> QED BY <2>3, <3>3, <3>4, <3>5, <4>1
    <3>6. CASE ~ (disallow # {} /\ after # {})
      <4>1. s = <<>>
        BY <2>4, <3>6
      <4> QED BY <1>1, <4>1
    <3> QED BY <3>5, <3>6
  <2>6. t \in Seq(OtherErrors)
    BY <1>1, <2>2, <2>4
  <2> QED BY <2>4, <2>5, <2>6, Joined
<1>4. CheckEnd(block, ls, n) \in
        {NamespaceCheckEnd(block, ls, n), ClassCheckEnd(block, ls, n), <<>>}
  <2>1. CASE block.kind = "namespace"
    BY <2>1 DEF CheckEnd
  <2>2. CASE block.kind = "class"
    BY <2>2 DEF CheckEnd
  <2>3. CASE block.kind # "namespace" /\ block.kind # "class"
    BY <2>3 DEF CheckEnd
  <2> QED BY <2>1, <2>2, <2>3
<1> QED BY <1>1, <1>2, <1>3, <1>4

LEMMA BraceTyped ==
  ASSUME NEW part \in PartType, NEW i \in 1..Len(part.rest), NEW ls, NEW n \in Nat
  PROVE  /\ ConsumeBrace(part, i, ls, n) \in PartType
         /\ ConsumeBrace(part, i, ls, n).rest = part.rest
<1> DEFINE stack == part.stack
           tok == part.rest[i]
           opened == OpenedBlock(part.rest, i, ls, n)
           seen == [Last(stack) EXCEPT !.seen_open_brace = TRUE]
           new == IF SeenOpenBrace(stack) THEN Append(stack, opened) ELSE WithTop(stack, seen)
           end == CheckEnd(Last(stack), ls, n)
           result == ConsumeBrace(part, i, ls, n)
<1>1. stack \in Seq(BlockType) /\ part.rest \in Seq(Pieces) /\ part.errors \in Seq(OtherErrors)
  BY DEF PartType
<1>2. ASSUME NEW s \in Seq(BlockType), NEW es \in Seq(OtherErrors)
      PROVE  /\ [part EXCEPT !.stack = s] \in PartType /\ [part EXCEPT !.stack = s].rest = part.rest
             /\ [part EXCEPT !.stack = s, !.errors = es] \in PartType
             /\ [part EXCEPT !.stack = s, !.errors = es].rest = part.rest
  BY DEF PartType
<1>3. opened \in BlockType
  BY <1>1, OpenedTyped
<1> HIDE DEF stack, tok, opened, end, result
<1>4. ~ SeenOpenBrace(stack) => stack # <<>>
  BY DEF SeenOpenBrace
<1>5. stack # <<>> => Last(stack) \in BlockType /\ Front(stack) \in Seq(BlockType)
  BY <1>1, FrontLast
<1>6. new \in Seq(BlockType)
  <2>1. CASE SeenOpenBrace(stack)
    BY <1>1, <1>3, <2>1
  <2>2. CASE ~ SeenOpenBrace(stack)
    <3>1. seen \in BlockType
      BY <1>4, <1>5, <2>2 DEF BlockType
    <3> HIDE DEF seen
    <3>2. WithTop(stack, seen) \in Seq(BlockType)
      BY <1>1, <1>4, <2>2, <3>1, ToppedType DEF WithTop
    <3> QED BY <2>2, <3>2
  <2> QED BY <2>1, <2>2
<1> HIDE DEF new
<1>7. result = CASE tok = "{" -> [part EXCEPT !.stack = new]
                 [] tok \in {";", ")"} /\ ~ SeenOpenBrace(stack) -> [part EXCEPT !.stack = Front(stack)]
                 [] tok = "}" /\ stack # <<>> ->
                      [part EXCEPT !.stack = Front(stack), !.errors = @ \o end]
                 [] OTHER -> part
  BY DEF ConsumeBrace, result, new, tok, stack, end, opened
<1> SUFFICES result \in PartType /\ result.rest = part.rest
  BY DEF result
<1>8. CASE tok = "{"
  <2>1. result = [part EXCEPT !.stack = new]
    BY <1>7, <1>8
  <2>2. [part EXCEPT !.stack = new] \in PartType /\ [part EXCEPT !.stack = new].rest = part.rest
    BY <1>1, <1>2, <1>6
  <2> QED BY <2>1, <2>2
<1>9. CASE tok \in {";", ")"} /\ ~ SeenOpenBrace(stack)
  <2>1. result = [part EXCEPT !.stack = Front(stack)]
    BY <1>7, <1>9
  <2>2. Front(stack) \in Seq(BlockType)
    BY <1>4, <1>5, <1>9
  <2> DEFINE s == Front(stack)
  <2>3. [part EXCEPT !.stack = s] \in PartType /\ [part EXCEPT !.stack = s].rest = part.rest
    <3> HIDE DEF s
    <3>1. s \in Seq(BlockType)
      BY <2>2 DEF s
    <3> QED BY <1>1, <1>2, <3>1
  <2> QED BY <2>1, <2>3
<1>10. CASE tok = "}" /\ stack # <<>>
  <2> DEFINE es == part.errors \o end
  <2>1. result = [part EXCEPT !.stack = Front(stack), !.errors = es]
    BY <1>7, <1>10
  <2>2. end \in Seq(OtherErrors)
    BY <1>5, <1>10, EndErrors DEF end
  <2>3. es \in Seq(OtherErrors)
    BY <1>1, <2>2, Joined
  <2>4. Front(stack) \in Seq(BlockType)
    BY <1>5, <1>10
  <2> DEFINE s == Front(stack)
  <2>5. /\ [part EXCEPT !.stack = s, !.errors = es] \in PartType
        /\ [part EXCEPT !.stack = s, !.errors = es].rest = part.rest
    <3> HIDE DEF s, es
    <3>1. s \in Seq(BlockType)
      BY <2>4 DEF s
    <3> QED BY <1>2, <2>3, <3>1
  <2> QED BY <2>1, <2>5
<1>11. CASE tok # "{" /\ ~ (tok \in {";", ")"} /\ ~ SeenOpenBrace(stack)) /\ ~ (tok = "}" /\ stack # <<>>)
  <2>1. result = part
    BY <1>7, <1>11
  <2> QED BY <2>1
<1> QED BY <1>8, <1>9, <1>10, <1>11

LEMMA BracesTyped ==
  ASSUME NEW part \in PartType, NEW ls, NEW n \in Nat
  PROVE  ConsumeBraces(part, ls, n) \in PartType
<1> DEFINE N == Len(part.rest)
           D == {p \in PartType : p.rest = part.rest}
           step == [i \in 1..N |-> [p \in D |-> ConsumeBrace(p, i, ls, n)]]
           Body(g) == [i \in 0..N |-> IF i = 0 THEN part ELSE ConsumeBrace(g[i - 1], i, ls, n)]
           f == CHOOSE g : g = Body(g)
<1>1. N \in Nat
  BY DEF PartType
<1>2. ASSUME NEW p \in D, NEW i \in 1..N PROVE ConsumeBrace(p, i, ls, n) \in D
  BY BraceTyped
<1> HIDE DEF N
<1>3. Steps(N, D, part, step)
  <2>1. part \in D
    OBVIOUS
  <2> HIDE DEF D
  <2> QED BY <1>1, <1>2, <2>1 DEF Steps
<1> HIDE DEF D
<1>4. PICK h : Recurs(h, N, D, part, step)
  <2> HIDE DEF step
  <2> QED BY <1>3, Recursion
<1>5. h = Body(h)
  <2>1. ASSUME NEW i \in 0..N
        PROVE  h[i] = IF i = 0 THEN part ELSE ConsumeBrace(h[i - 1], i, ls, n)
    <3>1. CASE i = 0
      BY <1>4, <3>1 DEF Recurs
    <3>2. CASE i \in 1..N
      <4>1. h[i - 1] \in D /\ i # 0
        BY <1>1, <1>4, <3>2 DEF Recurs
      <4> QED BY <1>4, <3>2, <4>1 DEF Recurs
    <3> QED BY <1>1, <3>1, <3>2
  <2>2. h \in [0..N -> D]
    BY <1>4 DEF Recurs
  <2> QED BY <2>1, <2>2
<1>6. f = Body(f)
  BY <1>5
<1>7. ConsumeBraces(part, ls, n) = f[N]
  BY DEF ConsumeBraces, N
<1> HIDE DEF f
<1>8. f[0] \in D
  BY <1>1, <1>6 DEF D
<1>9. ASSUME NEW i \in 1..N, f[i - 1] \in D PROVE f[i] \in D
  <2>1. i \in 0..N /\ i # 0
    BY <1>1
  <2>2. f[i] = ConsumeBrace(f[i - 1], i, ls, n)
    BY <1>6, <2>1
  <2> QED BY <1>2, <1>9, <2>2
<1>10. \A i \in 0..N : f[i] \in D
  BY <1>1, <1>8, <1>9, StaysIn
<1> QED BY <1>1, <1>7, <1>10 DEF D

LEMMA PreprocessorTyped ==
  ASSUME NEW state \in NestingType, NEW line
  PROVE  UpdatePreprocessor(state, line) \in NestingType
<1> DEFINE directive == IF line.toks = <<>> THEN "" ELSE Head(line.toks)
           pps == state.pp_stack
           top == Last(pps)
           checkpoint == [stack_before_if |-> state.stack, stack_before_else |-> <<>>, seen_else |-> FALSE]
           elsed == IF top.seen_else THEN top
                    ELSE [top EXCEPT !.seen_else = TRUE, !.stack_before_else = state.stack]
           other == IF top.seen_else THEN top.stack_before_else ELSE state.stack
           result == UpdatePreprocessor(state, line)
<1>1. state.stack \in Seq(BlockType) /\ pps \in Seq(CheckpointType)
  BY DEF NestingType
<1>2. ASSUME NEW s \in Seq(BlockType), NEW p \in Seq(CheckpointType)
      PROVE  /\ [state EXCEPT !.pp_stack = p] \in NestingType
             /\ [state EXCEPT !.stack = s, !.pp_stack = p] \in NestingType
  BY DEF NestingType
<1> HIDE DEF directive
<1>3. CASE directive \in Ifs
  <2>1. <<>> \in Seq(BlockType)
    OBVIOUS
  <2>2. checkpoint \in CheckpointType
    BY <1>1, <2>1 DEF CheckpointType
  <2> HIDE DEF checkpoint
  <2>3. Append(pps, checkpoint) \in Seq(CheckpointType)
    BY <1>1, <2>2
  <2>4. result = [state EXCEPT !.pp_stack = Append(pps, checkpoint)]
    BY <1>3 DEF UpdatePreprocessor, directive, checkpoint, Ifs
  <2> HIDE DEF pps, result
  <2> QED BY <1>1, <1>2, <2>3, <2>4 DEF result
<1>4. CASE directive = "#else" /\ pps # <<>>
  <2>1. top \in CheckpointType
    BY <1>1, <1>4, FrontLast
  <2> HIDE DEF top
  <2>2. elsed \in CheckpointType /\ top.stack_before_if \in Seq(BlockType)
    BY <1>1, <2>1 DEF CheckpointType
  <2> DEFINE new == [pps EXCEPT ![Len(pps)] = elsed]
  <2> HIDE DEF elsed
  <2>3. new \in Seq(CheckpointType)
    BY <1>1, <1>4, <2>2, ToppedType
  <2>4. result = [state EXCEPT !.stack = top.stack_before_if, !.pp_stack = new]
    <3>1. directive \notin Ifs
      BY <1>4 DEF Ifs
    <3>2. result = [state EXCEPT !.stack = top.stack_before_if,
                                 !.pp_stack[Len(state.pp_stack)] =
                 IF top.seen_else THEN @
                 ELSE [@ EXCEPT !.seen_else = TRUE, !.stack_before_else = state.stack]]
      BY <1>4, <3>1 DEF UpdatePreprocessor, directive, top
    <3> QED BY <3>2 DEF elsed, top, Last, NestingType
  <2> HIDE DEF new, result
  <2> QED BY <1>2, <2>2, <2>3, <2>4 DEF result
<1>5. CASE directive = "#endif" /\ pps # <<>>
  <2>1. top \in CheckpointType /\ Front(pps) \in Seq(CheckpointType)
    BY <1>1, <1>5, FrontLast
  <2> HIDE DEF top
  <2>2. other \in Seq(BlockType)
    BY <1>1, <2>1 DEF CheckpointType
  <2>3. directive \notin Ifs
    BY <1>5 DEF Ifs
  <2>4. result = [state EXCEPT !.stack = other, !.pp_stack = Front(pps)]
    BY <1>5, <2>3 DEF UpdatePreprocessor, directive, top
  <2> HIDE DEF other, result
  <2> QED BY <1>2, <2>1, <2>2, <2>4 DEF result
<1>6. CASE directive \notin Ifs /\ ~ (directive = "#else" /\ pps # <<>>)
           /\ ~ (directive = "#endif" /\ pps # <<>>)
  <2>1. result = state
    BY <1>6 DEF UpdatePreprocessor, directive
  <2> QED BY <2>1
<1> QED BY <1>3, <1>4, <1>5, <1>6

(* Without inline assembly, blocks stay out of it. *)
LEMMA UpdateTyped ==
  ASSUME NEW state \in NestingType, NEW ls \in Seq(LineType), NEW n \in 1..Len(ls),
         ls[n].toks \in Seq(Pieces)
  PROVE  /\ Update(state, ls, n).state \in NestingType
         /\ Update(state, ls, n).errors \in Seq(OtherErrors)
<1> DEFINE toks == ls[n].toks
           pp == UpdatePreprocessor(state, ls[n])
           counted == CountParentheses(pp.stack, toks)
           begun == Part(counted, toks)
           named == ConsumeNamespaces(begun, n)
           classed == ConsumeClass(named, ls, n)
           checked == CheckAccess(classed, ls, n)
           braced == ConsumeBraces(checked, ls, n)
           top == Last(state.stack)
           previous == IF state.stack = <<>> \/ pp.stack # state.stack THEN NestingStateInit.previous
                       ELSE [kind |-> top.kind, depth |-> Len(state.stack), start |-> top.start]
           result == Update(state, ls, n)
<1>1. pp \in NestingType
  BY PreprocessorTyped
<1> HIDE DEF pp
<1>2. n \in Nat
  <2>1. Len(ls) \in Nat
    OBVIOUS
  <2> QED BY <2>1
<1>3. counted \in Seq(BlockType)
  <2>1. pp.stack \in Seq(BlockType)
    BY <1>1 DEF NestingType
  <2> QED BY <2>1, ParenthesesTyped
<1> HIDE DEF counted
<1>4. begun \in PartType
  BY <1>3, PartTyped
<1> HIDE DEF begun
<1>5. named \in PartType
  BY <1>2, <1>4, NamespacesTyped
<1> HIDE DEF named
<1>6. classed \in PartType
  BY <1>5, ClassTyped
<1> HIDE DEF classed
<1>7. checked \in PartType
  BY <1>2, <1>6, AccessTyped
<1> HIDE DEF checked
<1>8. braced \in PartType
  BY <1>2, <1>7, BracesTyped
<1> HIDE DEF braced
<1>9. previous \in [kind: Kinds \cup {"none"}, depth: Nat, start: Nat]
  <2>1. CASE state.stack = <<>> \/ pp.stack # state.stack
    BY <2>1 DEF NestingStateInit
  <2>2. CASE state.stack # <<>> /\ pp.stack = state.stack
    <3>1. state.stack \in Seq(BlockType)
      BY DEF NestingType
    <3>2. top \in BlockType /\ Len(state.stack) \in Nat
      BY <2>2, <3>1, FrontLast
    <3> HIDE DEF top
    <3> QED BY <2>2, <3>2 DEF BlockType
  <2> QED BY <2>1, <2>2
<1> HIDE DEF previous
<1>10. result = [state |-> [pp EXCEPT !.stack = braced.stack, !.previous = previous],
                 errors |-> braced.errors]
  BY Zenon DEF Update, pp, counted, begun, named, classed, checked, braced, previous
<1>11. [pp EXCEPT !.stack = braced.stack, !.previous = previous] \in NestingType
  <2>1. braced.stack \in Seq(BlockType)
    BY <1>8 DEF PartType
  <2> QED BY <1>1, <1>9, <2>1 DEF NestingType
<1>12. braced.errors \in Seq(OtherErrors)
  BY <1>8 DEF PartType
<1> QED BY <1>10, <1>11, <1>12

-----------------------------------------------------------------------------
(* What is reported of a line, in a sequence of errors.                    *)

ReportsIn(es, n, c) == {i \in DOMAIN es : es[i].line = n /\ es[i].category = c}

LEMMA ReportsJoined ==
  ASSUME NEW s \in Seq(ErrorType), NEW t \in Seq(ErrorType), NEW n, NEW c
  PROVE  ReportsIn(s \o t, n, c) = ReportsIn(s, n, c) \cup {Len(s) + i : i \in ReportsIn(t, n, c)}
<1>1. /\ s \o t \in Seq(ErrorType) /\ Len(s \o t) = Len(s) + Len(t)
      /\ \A i \in 1..Len(s) : (s \o t)[i] = s[i]
      /\ \A i \in 1..Len(t) : (s \o t)[Len(s) + i] = t[i]
  BY Joined
<1>2. /\ Len(s) \in Nat /\ Len(t) \in Nat /\ DOMAIN s = 1..Len(s) /\ DOMAIN t = 1..Len(t)
      /\ DOMAIN (s \o t) = 1..Len(s \o t)
  BY <1>1
<1>3. ASSUME NEW i \in ReportsIn(s \o t, n, c)
      PROVE  i \in ReportsIn(s, n, c) \cup {Len(s) + k : k \in ReportsIn(t, n, c)}
  <2>1. i \in 1..(Len(s) + Len(t)) /\ (s \o t)[i].line = n /\ (s \o t)[i].category = c
    BY <1>1, <1>2 DEF ReportsIn
  <2>2. CASE i \in 1..Len(s)
    BY <1>1, <1>2, <2>1, <2>2 DEF ReportsIn
  <2>3. CASE i > Len(s)
    <3>1. i - Len(s) \in 1..Len(t) /\ Len(s) + (i - Len(s)) = i
      BY <1>2, <2>1, <2>3
    <3>2. i - Len(s) \in ReportsIn(t, n, c)
      BY <1>1, <1>2, <2>1, <3>1 DEF ReportsIn
    <3> QED BY <3>1, <3>2
  <2> QED BY <1>2, <2>1, <2>2, <2>3
<1>4. ASSUME NEW i \in ReportsIn(s, n, c) PROVE i \in ReportsIn(s \o t, n, c)
  BY <1>1, <1>2 DEF ReportsIn
<1>5. ASSUME NEW i \in ReportsIn(t, n, c) PROVE Len(s) + i \in ReportsIn(s \o t, n, c)
  <2>1. i \in 1..Len(t) /\ Len(s) + i \in 1..(Len(s) + Len(t))
    BY <1>2 DEF ReportsIn
  <2> QED BY <1>1, <1>2, <2>1 DEF ReportsIn
<1> QED BY <1>3, <1>4, <1>5

LEMMA ReportsOfOne ==
  ASSUME NEW e \in ErrorType, NEW n, NEW c
  PROVE  /\ ReportsIn(<<>>, n, c) = {}
         /\ ReportsIn(<<e>>, n, c) = IF e.line = n /\ e.category = c THEN {1} ELSE {}
BY DEF ReportsIn

(* The other checks report nothing of includes. *)
LEMMA OtherReports ==
  ASSUME NEW s \in Seq(ErrorType), NEW t \in Seq(OtherErrors)
  PROVE  /\ s \o t \in Seq(ErrorType)
         /\ \A n : \A c \in IncludeCategories : ReportsIn(s \o t, n, c) = ReportsIn(s, n, c)
<1>1. OtherErrors \subseteq ErrorType
  BY DEF OtherErrors
<1>2. t \in Seq(ErrorType)
  BY <1>1, SeqMonotonic
<1>3. ASSUME NEW n, NEW c \in IncludeCategories PROVE ReportsIn(t, n, c) = {}
  <2>1. \A i \in DOMAIN t : t[i].category \in OtherCategories
    BY DEF OtherErrors
  <2> QED BY <2>1, CategoriesAre DEF ReportsIn
<1>4. s \o t \in Seq(ErrorType)
  BY <1>2, Joined
<1>5. ASSUME NEW n, NEW c \in IncludeCategories
      PROVE  ReportsIn(s \o t, n, c) = ReportsIn(s, n, c)
  <2>1. ReportsIn(s \o t, n, c) = ReportsIn(s, n, c) \cup {Len(s) + i : i \in ReportsIn(t, n, c)}
    BY <1>2, ReportsJoined
  <2>2. {Len(s) + i : i \in ReportsIn(t, n, c)} = {}
    BY <1>3
  <2> QED BY <2>1, <2>2
<1> QED BY <1>4, <1>5

-----------------------------------------------------------------------------
(* The lists of includes. *)

LEMMA ListedIs ==
  ASSUME NEW state, state.include_list \in Seq(Seq(EntryType)), state.include_list # <<>>
  PROVE  /\ Listed(state) = ToSet(Last(state.include_list)) \cup EarlierEntries(state.include_list)
         /\ Listed(state) \subseteq EntryType
<1> DEFINE list == state.include_list
           N == Len(list)
<1>1. N \in Nat \ {0} /\ DOMAIN list = 1..N /\ Last(list) = list[N]
      /\ \A i \in 1..N : list[i] \in Seq(EntryType)
  BY DEF Last
<1>2. Listed(state) = UNION {ToSet(list[i]) : i \in 1..N}
  <2>1. ToSet(list) = {list[i] : i \in 1..N}
    BY <1>1 DEF ToSet
  <2>2. Listed(state) = UNION {ToSet(l) : l \in ToSet(list)}
    BY DEF Listed
  <2> HIDE DEF list, N
  <2> QED BY <2>1, <2>2
<1>3. EarlierEntries(list) = UNION {ToSet(list[i]) : i \in 1..(N - 1)}
  BY DEF EarlierEntries
<1> HIDE DEF list, N
<1>4. \A i \in 1..N : i = N \/ i \in 1..(N - 1)
  BY <1>1
<1>5. N \in 1..N /\ \A i \in 1..(N - 1) : i \in 1..N
  BY <1>1
<1>6. Listed(state) = ToSet(Last(list)) \cup EarlierEntries(list)
  BY <1>1, <1>2, <1>3, <1>4, <1>5
<1>7. \A i \in 1..N : ToSet(list[i]) \subseteq EntryType
  BY <1>1 DEF ToSet
<1> QED BY <1>2, <1>6, <1>7 DEF list

(* A header is found just if it is listed. *)
LEMMA HeaderFound ==
  ASSUME NEW state, Listed(state) \subseteq EntryType, NEW header
  PROVE  /\ FindHeader(state, header) >= 0 <=> \E f \in Listed(state) : f.header = header
         /\ FindHeader(state, header) < 0 <=> ~ \E f \in Listed(state) : f.header = header
<1> DEFINE places == {f.line : f \in {g \in Listed(state) : g.header = header}}
           place == FindHeader(state, header)
<1>1. place = IF places = {} THEN -1 ELSE Min(places)
  BY DEF FindHeader
<1>2. places \in SUBSET Nat
  BY DEF EntryType
<1>3. places # {} <=> \E f \in Listed(state) : f.header = header
  OBVIOUS
<1> HIDE DEF places, place
<1>4. places # {} => Min(places) \in Nat
  BY <1>2, MinIn
<1>5. CASE places = {}
  <2>1. place = -1
    BY <1>1, <1>5
  <2>2. place < 0 /\ ~ (place >= 0)
    BY <2>1
  <2> QED BY <1>3, <1>5, <2>2 DEF place
<1>6. CASE places # {}
  <2>1. place \in Nat
    BY <1>1, <1>4, <1>6
  <2>2. place >= 0 /\ ~ (place < 0)
    BY <2>1
  <2> QED BY <1>3, <1>6, <2>2 DEF place
<1> QED BY <1>5, <1>6

(* One more list, one list less, one entry more. *)
LEMMA ListAppended ==
  ASSUME NEW list \in Seq(Seq(EntryType)), list # <<>>
  PROVE  /\ Append(list, <<>>) \in Seq(Seq(EntryType)) /\ Append(list, <<>>) # <<>>
         /\ ToSet(Last(Append(list, <<>>))) = {}
         /\ EarlierEntries(Append(list, <<>>)) = EarlierEntries(list) \cup ToSet(Last(list))
<1> DEFINE N == Len(list)
           new == Append(list, <<>>)
<1>1. N \in Nat \ {0} /\ Last(list) = list[N]
  BY DEF Last
<1>2. <<>> \in Seq(EntryType) /\ ToSet(<<>>) = {}
  BY DEF ToSet
<1>3. /\ new \in Seq(Seq(EntryType)) /\ new # <<>> /\ Len(new) = N + 1 /\ Last(new) = <<>>
      /\ \A i \in 1..N : new[i] = list[i]
  <2> DEFINE S == Seq(EntryType)
  <2>1. <<>> \in S /\ list \in Seq(S)
    BY <1>2
  <2> HIDE DEF S
  <2>2. /\ new \in Seq(S) /\ new # <<>> /\ Len(new) = N + 1 /\ Last(new) = <<>>
        /\ \A i \in 1..N : new[i] = list[i]
    BY <2>1, Appended
  <2> QED BY <2>2 DEF S
<1> HIDE DEF new, N
<1>4. (N + 1) - 1 = N /\ N \in 1..N /\ \A i \in 1..N : i = N \/ i \in 1..(N - 1)
  BY <1>1
<1>5. \A i \in 1..(N - 1) : i \in 1..N
  BY <1>1
<1>6. EarlierEntries(new) = UNION {ToSet(list[i]) : i \in 1..N}
  BY <1>3, <1>4 DEF EarlierEntries
<1>7. EarlierEntries(list) = UNION {ToSet(list[i]) : i \in 1..(N - 1)}
  BY DEF EarlierEntries, N
<1>8. EarlierEntries(new) = EarlierEntries(list) \cup ToSet(Last(list))
  BY <1>1, <1>4, <1>5, <1>6, <1>7
<1> QED BY <1>2, <1>3, <1>8 DEF new

LEMMA ListReplaced ==
  ASSUME NEW list \in Seq(Seq(EntryType)), list # <<>>
  PROVE  LET new == Append(Front(list), <<>>)
         IN  /\ new \in Seq(Seq(EntryType)) /\ new # <<>>
             /\ ToSet(Last(new)) = {} /\ EarlierEntries(new) = EarlierEntries(list)
<1> DEFINE N == Len(list)
           front == Front(list)
           new == Append(front, <<>>)
<1>1. /\ N \in Nat \ {0} /\ front \in Seq(Seq(EntryType)) /\ Len(front) = N - 1
      /\ \A i \in 1..(N - 1) : front[i] = list[i]
  BY FrontLast
<1>2. <<>> \in Seq(EntryType) /\ ToSet(<<>>) = {}
  BY DEF ToSet
<1> HIDE DEF front
<1>3. /\ new \in Seq(Seq(EntryType)) /\ new # <<>> /\ Len(new) = N - 1 + 1 /\ Last(new) = <<>>
      /\ \A i \in 1..(N - 1) : new[i] = front[i]
  <2> DEFINE S == Seq(EntryType)
  <2>1. <<>> \in S /\ front \in Seq(S)
    BY <1>1, <1>2
  <2> HIDE DEF S
  <2>2. /\ new \in Seq(S) /\ new # <<>> /\ Len(new) = Len(front) + 1 /\ Last(new) = <<>>
        /\ \A i \in 1..Len(front) : new[i] = front[i]
    BY <2>1, Appended
  <2> QED BY <1>1, <2>2 DEF S
<1> HIDE DEF new, N
<1>4. (N - 1 + 1) - 1 = N - 1
  BY <1>1
<1>5. EarlierEntries(new) = EarlierEntries(list)
  BY <1>1, <1>3, <1>4 DEF EarlierEntries, N
<1> QED BY <1>2, <1>3, <1>5 DEF new, front

LEMMA ListExtended ==
  ASSUME NEW list \in Seq(Seq(EntryType)), list # <<>>, NEW e \in EntryType
  PROVE  LET new == [list EXCEPT ![Len(list)] = Append(@, e)]
         IN  /\ new \in Seq(Seq(EntryType)) /\ new # <<>>
             /\ ToSet(Last(new)) = ToSet(Last(list)) \cup {e}
             /\ EarlierEntries(new) = EarlierEntries(list)
<1> DEFINE last == Append(Last(list), e)
           new == [list EXCEPT ![Len(list)] = last]
<1>1. Last(list) \in Seq(EntryType) /\ Len(list) \in Nat \ {0}
  BY FrontLast
<1>2. last = Last(list) \o <<e>>
  BY <1>1
<1>3. <<e>> \in Seq(EntryType) /\ ToSet(<<e>>) = {e}
  BY NoneAndOne
<1>4. last \in Seq(EntryType) /\ ToSet(last) = ToSet(Last(list)) \cup {e}
  <2> DEFINE old == Last(list)
             one == <<e>>
  <2>1. old \in Seq(EntryType) /\ one \in Seq(EntryType) /\ ToSet(one) = {e} /\ last = old \o one
    BY <1>1, <1>2, <1>3
  <2> HIDE DEF old, one, last
  <2>2. last \in Seq(EntryType) /\ ToSet(last) = ToSet(old) \cup ToSet(one)
    BY <2>1, Joined
  <2> QED BY <2>1, <2>2 DEF old
<1> HIDE DEF last
<1>5. /\ new \in Seq(Seq(EntryType)) /\ new # <<>> /\ Len(new) = Len(list) /\ Last(new) = last
      /\ \A i \in 1..(Len(list) - 1) : new[i] = list[i]
  BY <1>4, ToppedType
<1>6. [list EXCEPT ![Len(list)] = Append(@, e)] = new
  <2>1. Len(list) \in DOMAIN list
    BY <1>1
  <2> QED BY <2>1 DEF last, Last
<1> HIDE DEF new
<1>7. EarlierEntries(new) = EarlierEntries(list)
  BY <1>5 DEF EarlierEntries
<1> QED BY <1>4, <1>5, <1>6, <1>7

-----------------------------------------------------------------------------
(* What an include reports. *)

LEMMA IncludeErrorAt ==
  ASSUME NEW n \in Nat, NEW c \in IncludeCategories
  PROVE  LET e == ErrorAt(n, c, 4)
         IN  /\ e \in ErrorType /\ e.line = n /\ e.category = c
             /\ <<e>> \in Seq(ErrorType)
             /\ \A m, d : ReportsIn(<<e>>, m, d) = IF m = n /\ d = c THEN {1} ELSE {}
<1> DEFINE e == ErrorAt(n, c, 4)
<1>1. c \in IncludeCategories \cup OtherCategories /\ 4 \in Nat
  OBVIOUS
<1>2. e \in ErrorType /\ e.line = n /\ e.category = c
  BY <1>1, ErrorAtType
<1> HIDE DEF e
<1>3. <<e>> \in Seq(ErrorType)
  BY <1>2, NoneAndOne
<1>4. ASSUME NEW m, NEW d PROVE ReportsIn(<<e>>, m, d) = IF m = n /\ d = c THEN {1} ELSE {}
  BY <1>2, ReportsOfOne
<1> QED BY <1>2, <1>3, <1>4 DEF e

LEMMA IncludeNames ==
  /\ "build/include" \in IncludeCategories /\ "build/include_order" \in IncludeCategories
  /\ "build/include_alpha" \in IncludeCategories
  /\ "build/include" # "build/include_order" /\ "build/include" # "build/include_alpha"
  /\ "build/include_order" # "build/include_alpha"
  /\ IncludeCategories = {"build/include", "build/include_order", "build/include_alpha"}
BY DEF IncludeCategories

LEMMA UnnamedIs ==
  ASSUME NEW line, NEW n \in Nat
  PROVE  LET u == UnnamedDirectory(line, n)
         IN  /\ u \in Seq(ErrorType) /\ Len(u) \in {0, 1}
             /\ ReportsIn(u, n, "build/include") = 1..Len(u)
             /\ \A m, c : (m # n \/ c # "build/include") => ReportsIn(u, m, c) = {}
<1> DEFINE u == UnnamedDirectory(line, n)
           e == ErrorAt(n, "build/include", 4)
<1>1. u = <<>> \/ u = <<e>>
  BY Zenon DEF UnnamedDirectory
<1>2. <<e>> \in Seq(ErrorType) /\ e \in ErrorType
      /\ \A m, d : ReportsIn(<<e>>, m, d) = IF m = n /\ d = "build/include" THEN {1} ELSE {}
  BY IncludeNames, IncludeErrorAt
<1>3. <<>> \in Seq(ErrorType) /\ Len(<<>>) = 0 /\ Len(<<e>>) = 1
  BY <1>2, NoneAndOne
<1>4. \A m, d : ReportsIn(<<>>, m, d) = {}
  BY <1>2, ReportsOfOne
<1>5. 1..0 = {} /\ 1..1 = {1}
  OBVIOUS
<1> HIDE DEF u, e
<1>6. CASE u = <<>>
  BY <1>3, <1>4, <1>5, <1>6 DEF u
<1>7. CASE u = <<e>>
  BY <1>2, <1>3, <1>5, <1>7 DEF u
<1> QED BY <1>1, <1>6, <1>7

(* An include is refused just if what follows that it names no directory   *)
(* says so.                                                                *)
LEMMA RefusalCounts ==
  ASSUME NEW n \in Nat, NEW es \in Seq(ErrorType), ReportsIn(es, n, "build/include") = {},
         NEW u \in Seq(ErrorType), Len(u) \in {0, 1}, ReportsIn(u, n, "build/include") = 1..Len(u),
         NEW t \in Seq(ErrorType), ReportsIn(t, n, "build/include") \in {{}, {1}}
  PROVE  Cardinality(ReportsIn(es \o (u \o t), n, "build/include")) > Len(u)
           <=> ReportsIn(t, n, "build/include") = {1}
<1> DEFINE c == "build/include"
           L == Len(es)
           k == Len(u)
           rt == ReportsIn(t, n, c)
           whole == ReportsIn(es \o (u \o t), n, c)
<1>1. u \o t \in Seq(ErrorType) /\ L \in Nat /\ k \in Nat
  BY Joined
<1>2. ReportsIn(u \o t, n, c) = 1..k \cup {k + i : i \in rt}
  BY ReportsJoined
<1>3. whole = {L + i : i \in ReportsIn(u \o t, n, c)}
  <2> DEFINE v == u \o t
  <2>1. v \in Seq(ErrorType)
    BY <1>1
  <2> HIDE DEF v
  <2>2. ReportsIn(es \o v, n, c) = ReportsIn(es, n, c) \cup {L + i : i \in ReportsIn(v, n, c)}
    BY <2>1, ReportsJoined
  <2> QED BY <2>2 DEF v
<1>4. rt \in {{}, {1}} /\ k \in {0, 1}
  OBVIOUS
<1> HIDE DEF L, k, rt, whole
<1>5. CASE rt = {}
  <2>1. ReportsIn(u \o t, n, c) = 1..k
    BY <1>2, <1>5
  <2>2. whole = (L + 1)..(L + k)
    <3>1. ASSUME NEW i \in whole PROVE i \in (L + 1)..(L + k)
      BY <1>1, <1>3, <2>1
    <3>2. ASSUME NEW i \in (L + 1)..(L + k) PROVE i \in whole
      <4>1. i - L \in 1..k /\ L + (i - L) = i
        BY <1>1
      <4> QED BY <1>3, <2>1, <4>1
    <3> QED BY <3>1, <3>2
  <2>3. L + 1 \in Int /\ L + k \in Int
    BY <1>1
  <2>4. Cardinality(whole) = IF L + 1 > L + k THEN 0 ELSE (L + k) - (L + 1) + 1
    BY <2>2, <2>3, FS_Interval
  <2>5. ~ (Cardinality(whole) > k)
    BY <1>1, <2>4
  <2> QED BY <1>5, <2>5 DEF whole, k, rt
<1>6. CASE rt = {1}
  <2>1. ReportsIn(u \o t, n, c) = 1..(k + 1)
    <3>1. ReportsIn(u \o t, n, c) = 1..k \cup {k + 1}
      <4>1. {k + i : i \in rt} = {k + 1}
        BY <1>6
      <4> QED BY <1>2, <4>1
    <3>2. 1..k \cup {k + 1} = 1..(k + 1)
      BY <1>1
    <3> QED BY <3>1, <3>2
  <2>2. whole = (L + 1)..(L + k + 1)
    <3>1. ASSUME NEW i \in whole PROVE i \in (L + 1)..(L + k + 1)
      BY <1>1, <1>3, <2>1
    <3>2. ASSUME NEW i \in (L + 1)..(L + k + 1) PROVE i \in whole
      <4>1. i - L \in 1..(k + 1) /\ L + (i - L) = i
        BY <1>1
      <4> QED BY <1>3, <2>1, <4>1
    <3> QED BY <3>1, <3>2
  <2>3. L + 1 \in Int /\ L + k + 1 \in Int
    BY <1>1
  <2>4. Cardinality(whole) = IF L + 1 > L + k + 1 THEN 0 ELSE (L + k + 1) - (L + 1) + 1
    BY <2>2, <2>3, FS_Interval
  <2>5. Cardinality(whole) > k
    BY <1>1, <2>4
  <2> QED BY <1>6, <2>5 DEF whole, k, rt
<1> QED BY <1>4, <1>5, <1>6

-----------------------------------------------------------------------------
(* The place of an include, and the section it asks for. *)

LEMMA ClassifyRange ==
  ASSUME NEW disk, NEW path, NEW include
  PROVE  /\ ClassifyInclude(disk, path, include, TRUE, CppHeaders)
              = IF include \in CppHeaders THEN "CPP_SYS" ELSE "C_SYS"
         /\ ClassifyInclude(disk, path, include, FALSE, CppHeaders)
              \in {"LIKELY_MY", "POSSIBLE_MY", "OTHER"}
BY DEF ClassifyInclude

(* The section that line m asks for. *)
SectionOf(m, section) ==
  IF lines[m].system THEN IF lines[m].include \in CppHeaders THEN 3 ELSE 2
  ELSE IF IsOwn(m) /\ section <= 1 THEN 1 ELSE 4

TypeOf(m) == ClassifyInclude(file.disk, file.name, lines[m].include, lines[m].system, CppHeaders)

LEMMA SectionIs ==
  ASSUME TypeInv, NEW n \in 1..Len(lines), lines[n].include # <<>>, NEW section \in 0..4
  PROVE  LET own == CASE TypeOf(n) = "C_SYS" -> SectionOrder.C
                      [] TypeOf(n) = "CPP_SYS" -> SectionOrder.CPP
                      [] TypeOf(n) = "OTHER" -> SectionOrder.OTHER_H
                      [] OTHER -> IF section <= SectionOrder.MY_H THEN SectionOrder.MY_H
                                  ELSE SectionOrder.OTHER_H
         IN  own = SectionOf(n, section) /\ own \in 1..4
<1>1. /\ lines[n] \in LineType /\ lines[n] \in Alphabets[kind]
      /\ file \in Settings[kind] /\ kind \in DOMAIN Alphabets
  <2>1. lines \in Seq(Alphabets[kind]) /\ file \in Settings[kind] /\ kind \in DOMAIN Alphabets
    BY DEF TypeInv
  <2>2. lines[n] \in Alphabets[kind]
    BY <2>1, ElementOfSeq
  <2> QED BY <2>1, <2>2, LinesAssumption
<1>2. lines[n].system \in BOOLEAN
  BY <1>1 DEF LineType
<1>3. SectionOrder.C = 2 /\ SectionOrder.CPP = 3 /\ SectionOrder.OTHER_H = 4 /\ SectionOrder.MY_H = 1
  BY DEF SectionOrder
<1>4. CASE lines[n].system
  <2>1. lines[n].system = TRUE
    BY <1>2, <1>4
  <2>2. TypeOf(n) = IF lines[n].include \in CppHeaders THEN "CPP_SYS" ELSE "C_SYS"
    BY <2>1, ClassifyRange DEF TypeOf
  <2> QED BY <1>3, <1>4, <2>2 DEF SectionOf
<1>5. CASE ~ lines[n].system
  <2>1. lines[n].system = FALSE
    BY <1>2, <1>5
  <2>2. TypeOf(n) \in {"LIKELY_MY", "POSSIBLE_MY", "OTHER"}
    BY <2>1, ClassifyRange DEF TypeOf
  <2>3. IsOwn(n) <=> TypeOf(n) \in {"LIKELY_MY", "POSSIBLE_MY"}
    BY <1>1, <1>5, <2>1, SettingsAssumption DEF IsOwn, TypeOf
  <2> QED BY <1>3, <1>5, <2>2, <2>3 DEF SectionOf
<1> QED BY <1>4, <1>5

(* What becomes of an include that is let pass. *)
LEMMA OrderResult ==
  ASSUME TypeInv, IsIncludeState(include_state), include_state.include_list # <<>>,
         NEW n \in 1..Len(lines), lines[n].include # <<>>
  PROVE  LET result == OrderInclude(file, include_state, lines, n)
             list == include_state.include_list
             section == include_state.section
             own == SectionOf(n, section)
             canonical == CanonicalizeAlphabeticalOrder(lines[n].include)
             next == IF own < section THEN section ELSE own
             last == IF own = section THEN include_state.last_header ELSE <<>>
             previous == n > 1 /\ lines[n - 1].include # <<>>
         IN  /\ result.errors =
                  (IF own < section THEN <<ErrorAt(n, "build/include_order", 4)>> ELSE <<>>)
                  \o (IF LessPath(canonical, last) /\ previous
                        THEN <<ErrorAt(n, "build/include_alpha", 4)>> ELSE <<>>)
             /\ result.state =
                  [include_list |-> [list EXCEPT ![Len(list)] = Append(@, Entry(n))],
                   section |-> next, last_header |-> canonical]
             /\ own \in 1..4 /\ next \in 1..4
<1> DEFINE result == OrderInclude(file, include_state, lines, n)
           list == include_state.include_list
           section == include_state.section
           type == TypeOf(n)
           listed == [include_state EXCEPT !.include_list[Len(include_state.include_list)] =
                        Append(@, [header |-> lines[n].include, line |-> n])]
           own == CASE type = "C_SYS" -> SectionOrder.C
                    [] type = "CPP_SYS" -> SectionOrder.CPP
                    [] type = "OTHER" -> SectionOrder.OTHER_H
                    [] OTHER -> IF listed.section <= SectionOrder.MY_H THEN SectionOrder.MY_H
                                ELSE SectionOrder.OTHER_H
           late == own < listed.section
           next == IF late THEN listed.section ELSE own
           step == [error |-> late,
                    state |-> [listed EXCEPT !.section = next,
                      !.last_header = IF late \/ next # listed.section THEN <<>> ELSE @]]
           canonical == CanonicalizeAlphabeticalOrder(lines[n].include)
           previous == n > 1 /\ lines[n - 1].include # <<>>
           new == [list EXCEPT ![Len(list)] = Append(@, Entry(n))]
           last == IF own = section THEN include_state.last_header ELSE <<>>
           order == <<ErrorAt(n, "build/include_order", 4)>>
           alpha == <<ErrorAt(n, "build/include_alpha", 4)>>
<1>1. step = CheckNextIncludeOrder(listed, type)
  BY Zenon DEF CheckNextIncludeOrder
<1>2. result = [errors |-> (IF step.error THEN order ELSE <<>>)
                  \o (IF IsInAlphabeticalOrder(step.state, previous, canonical) THEN <<>> ELSE alpha),
                state |-> [step.state EXCEPT !.last_header = canonical]]
  <2> HIDE DEF step
  <2> QED BY <1>1, Zenon DEF OrderInclude, TypeOf
<1>3. listed = [include_list |-> new, section |-> section, last_header |-> include_state.last_header]
  <2>1. include_state = [include_list |-> include_state.include_list, section |-> section,
                         last_header |-> include_state.last_header]
    BY DEF IsIncludeState
  <2> HIDE DEF new
  <2>2. listed = [include_state EXCEPT !.include_list = new]
    BY DEF new, Entry
  <2> HIDE DEF listed
  <2> QED BY <2>1, <2>2
<1> HIDE DEF listed, new
<1>4. section \in 0..4 /\ listed.section = section
  BY <1>3 DEF IsIncludeState
<1>5. own = SectionOf(n, section) /\ own \in 1..4
  BY <1>4, SectionIs
<1> HIDE DEF own, type
<1>6. next \in 1..4
  BY <1>4, <1>5
<1>7. /\ step.error = late
      /\ step.state = [include_list |-> new, section |-> next, last_header |-> last]
  <2>1. (late \/ next # listed.section) <=> own # section
    BY <1>4, <1>5
  <2> HIDE DEF late, next
  <2> QED BY <1>3, <2>1
<1> HIDE DEF step
<1>8. IsInAlphabeticalOrder(step.state, previous, canonical) <=> ~ (LessPath(canonical, last) /\ previous)
  BY <1>7 DEF IsInAlphabeticalOrder
<1>9. [step.state EXCEPT !.last_header = canonical]
        = [include_list |-> new, section |-> next, last_header |-> canonical]
  BY <1>7
<1>10. result.errors = (IF late THEN order ELSE <<>>)
                         \o (IF LessPath(canonical, last) /\ previous THEN alpha ELSE <<>>)
  <2> HIDE DEF canonical, previous, last, order, alpha, late, result
  <2>1. result.errors = (IF step.error THEN order ELSE <<>>)
                  \o (IF IsInAlphabeticalOrder(step.state, previous, canonical) THEN <<>> ELSE alpha)
    BY <1>2
  <2> QED BY <1>7, <1>8, <2>1
<1>11. result.state = [include_list |-> new, section |-> next, last_header |-> canonical]
  <2> HIDE DEF result
  <2> QED BY <1>2, <1>9
<1> QED BY <1>4, <1>5, <1>6, <1>10, <1>11 DEF new

Included(n) ==
  /\ n \in 1..Len(lines) /\ lines[n].include # <<>>
  /\ TypeInv /\ IsIncludeState(include_state) /\ include_state.include_list # <<>>

Known(n) == FindHeader(include_state, lines[n].include) >= 0 \/ Foreign(n)

Checked(n) == CheckIncludeState(file, include_state, lines, n)

LEMMA IncludeChecked ==
  ASSUME NEW n, Included(n)
  PROVE  LET u == UnnamedDirectory(lines[n], n)
             order == OrderInclude(file, include_state, lines, n)
         IN  /\ Known(n) => /\ Checked(n).state = include_state
                            /\ Checked(n).errors = u \o <<ErrorAt(n, "build/include", 4)>>
             /\ ~ Known(n) /\ IsThirdParty(lines[n].include) =>
                  Checked(n).state = include_state /\ Checked(n).errors = u \o <<>>
             /\ ~ Known(n) /\ ~ IsThirdParty(lines[n].include) =>
                  Checked(n).state = order.state /\ Checked(n).errors = u \o order.errors
<1> DEFINE u == UnnamedDirectory(lines[n], n)
           order == OrderInclude(file, include_state, lines, n)
           found == FindHeader(include_state, lines[n].include)
           third == IsThirdParty(lines[n].include)
           foreign == Foreign(n)
           refusal == [state |-> include_state, errors |-> <<ErrorAt(n, "build/include", 4)>>]
           none == [state |-> include_state, errors |-> <<>>]
           result == CASE found >= 0 \/ foreign -> refusal
                       [] found < 0 /\ ~ foreign /\ third -> none
                       [] OTHER -> order
<1>1. Checked(n) = CheckIncludeLine(file, include_state, lines, n)
  BY DEF Checked, CheckIncludeState, Included
<1>2. Checked(n) = [result EXCEPT !.errors = u \o @]
  BY <1>1 DEF CheckIncludeLine, Foreign
<1>3. found \in Int /\ (found < 0 <=> ~ (found >= 0))
  <2>1. Listed(include_state) \subseteq EntryType
    BY ListedIs DEF Included, IsIncludeState
  <2> DEFINE places == {f.line : f \in {g \in Listed(include_state) : g.header = lines[n].include}}
  <2>2. places \in SUBSET Nat
    BY <2>1 DEF EntryType
  <2>3. found = IF places = {} THEN -1 ELSE Min(places)
    BY DEF FindHeader
  <2> HIDE DEF places, found
  <2>4. places # {} => Min(places) \in Nat
    BY <2>2, MinIn
  <2>5. found \in Int
    <3>1. CASE places = {}
      BY <2>3, <3>1
    <3>2. CASE places # {}
      BY <2>3, <2>4, <3>2
    <3> QED BY <3>1, <3>2
  <2> QED BY <2>5
<1>4. order = [errors |-> order.errors, state |-> order.state]
  BY DEF OrderInclude
<1>5. Known(n) <=> found >= 0 \/ foreign
  BY DEF Known
<1> HIDE DEF order, u, found, foreign, third
<1>6. CASE Known(n)
  <2>1. result = refusal
    BY <1>3, <1>5, <1>6
  <2> HIDE DEF result
  <2> QED BY <1>2, <1>6, <2>1 DEF u
<1>7. CASE ~ Known(n) /\ third
  <2>1. result = none
    BY <1>3, <1>5, <1>7
  <2> HIDE DEF result
  <2> QED BY <1>2, <1>7, <2>1 DEF u, third
<1>8. CASE ~ Known(n) /\ ~ third
  <2>1. result = order
    BY <1>3, <1>5, <1>8
  <2> HIDE DEF result
  <2> DEFINE e == order.errors
             s == order.state
  <2> HIDE DEF e, s
  <2>0. order = [errors |-> e, state |-> s]
    BY <1>4 DEF e, s
  <2>2. [order EXCEPT !.errors = u \o @] = [errors |-> u \o e, state |-> s]
    <3>1. order.errors = e
      BY DEF e
    <3> DEFINE new == u \o e
    <3> HIDE DEF new
    <3>2. [order EXCEPT !.errors = new] = [errors |-> new, state |-> s]
      BY <2>0
    <3> QED BY <3>1, <3>2, Zenon DEF new
  <2> QED BY <1>2, <1>8, <2>1, <2>2 DEF u, third, order, e, s
<1> QED BY <1>6, <1>7, <1>8 DEF third

LEMMA Shifted ==
  ASSUME NEW S, NEW T, NEW k
  PROVE  /\ S \cup {k + i : i \in T} # {} <=> S # {} \/ T # {}
         /\ T = {} => S \cup {k + i : i \in T} = S
<1>1. S \cup {k + i : i \in T} # {} <=> S # {} \/ T # {}
  <2>1. ASSUME NEW i \in T PROVE k + i \in {k + j : j \in T}
    OBVIOUS
  <2>2. ASSUME NEW x \in {k + j : j \in T} PROVE \E i : i \in T
    OBVIOUS
  <2> DEFINE moved == {k + j : j \in T}
  <2> HIDE DEF moved
  <2>3. moved # {} <=> T # {}
    BY <2>1, <2>2 DEF moved
  <2>4. S \cup moved # {} <=> S # {} \/ moved # {}
    OBVIOUS
  <2> QED BY <2>3, <2>4 DEF moved
<1>2. T = {} => S \cup {k + i : i \in T} = S
  OBVIOUS
<1> QED BY <1>1, <1>2

(* What the whole list of errors says of the line, and of others. *)
Judged(n, es) ==
  LET all == es \o Checked(n).errors
      section == include_state.section
      own == SectionOf(n, section)
      canonical == CanonicalizeAlphabeticalOrder(lines[n].include)
      last == IF own = section THEN include_state.last_header ELSE <<>>
      previous == n > 1 /\ lines[n - 1].include # <<>>
  IN  /\ all \in Seq(ErrorType)
      /\ \A m, c : m # n => ReportsIn(all, m, c) = ReportsIn(es, m, c)
      /\ Cardinality(ReportsIn(all, n, "build/include")) > Len(UnnamedDirectory(lines[n], n))
           <=> Known(n)
      /\ ~ Known(n) /\ ~ IsThirdParty(lines[n].include) =>
           /\ ReportsIn(all, n, "build/include_order") # {} <=> own < section
           /\ ReportsIn(all, n, "build/include_alpha") # {}
                <=> LessPath(canonical, last) /\ previous

LEMMA IncludeReported ==
  ASSUME NEW n, Included(n), NEW es \in Seq(ErrorType),
         \A c \in IncludeCategories : ReportsIn(es, n, c) = {}
  PROVE  Judged(n, es)
<1> DEFINE u == UnnamedDirectory(lines[n], n)
           all == es \o Checked(n).errors
           section == include_state.section
           own == SectionOf(n, section)
           canonical == CanonicalizeAlphabeticalOrder(lines[n].include)
           last == IF own = section THEN include_state.last_header ELSE <<>>
           previous == n > 1 /\ lines[n - 1].include # <<>>
           third == IsThirdParty(lines[n].include)
           early == LessPath(canonical, last) /\ previous
           late == own < section
           refusal == <<ErrorAt(n, "build/include", 4)>>
           order == <<ErrorAt(n, "build/include_order", 4)>>
           alpha == <<ErrorAt(n, "build/include_alpha", 4)>>
           a == IF late THEN order ELSE <<>>
           b == IF early THEN alpha ELSE <<>>
           t == IF Known(n) THEN refusal ELSE IF third THEN <<>> ELSE a \o b
<1>1. n \in Nat
  <2>1. n \in 1..Len(lines) /\ Len(lines) \in Nat
    BY LinesTyped DEF Included
  <2> QED BY <2>1
<1>2. Checked(n).errors = u \o t
  <2>1. ~ Known(n) /\ ~ third => OrderInclude(file, include_state, lines, n).errors = a \o b
    <3>1. /\ TypeInv /\ IsIncludeState(include_state) /\ include_state.include_list # <<>>
          /\ n \in 1..Len(lines) /\ lines[n].include # <<>>
      BY DEF Included
    <3> QED BY <3>1, OrderResult
  <2> HIDE DEF a, b, u, third, refusal
  <2> QED BY <2>1, IncludeChecked DEF u, third, refusal
<1>3. /\ u \in Seq(ErrorType) /\ Len(u) \in {0, 1}
      /\ ReportsIn(u, n, "build/include") = 1..Len(u)
      /\ \A m, c : (m # n \/ c # "build/include") => ReportsIn(u, m, c) = {}
  BY <1>1, UnnamedIs
<1>4. /\ refusal \in Seq(ErrorType) /\ order \in Seq(ErrorType) /\ alpha \in Seq(ErrorType)
      /\ \A m, d : ReportsIn(refusal, m, d) = IF m = n /\ d = "build/include" THEN {1} ELSE {}
      /\ \A m, d : ReportsIn(order, m, d) = IF m = n /\ d = "build/include_order" THEN {1} ELSE {}
      /\ \A m, d : ReportsIn(alpha, m, d) = IF m = n /\ d = "build/include_alpha" THEN {1} ELSE {}
  BY <1>1, IncludeNames, IncludeErrorAt
<1>5. <<>> \in Seq(ErrorType) /\ \A m, d : ReportsIn(<<>>, m, d) = {}
  <2>1. <<>> \in Seq(ErrorType)
    OBVIOUS
  <2>2. \A m, d : ReportsIn(<<>>, m, d) = {}
    BY DEF ReportsIn
  <2> QED BY <2>1, <2>2
<1> HIDE DEF u, all, late, early, refusal, order, alpha, third
<1>6. /\ a \in Seq(ErrorType) /\ b \in Seq(ErrorType)
      /\ \A m, d : ReportsIn(a, m, d) = IF late /\ m = n /\ d = "build/include_order" THEN {1} ELSE {}
      /\ \A m, d : ReportsIn(b, m, d) = IF early /\ m = n /\ d = "build/include_alpha" THEN {1} ELSE {}
  BY <1>4, <1>5
<1> HIDE DEF a, b
<1>7. /\ a \o b \in Seq(ErrorType)
      /\ \A m, d : ReportsIn(a \o b, m, d) # {} <=> ReportsIn(a, m, d) # {} \/ ReportsIn(b, m, d) # {}
  <2>1. a \o b \in Seq(ErrorType)
    BY <1>6, Joined
  <2>2. \A m, d : ReportsIn(a \o b, m, d) = ReportsIn(a, m, d) \cup {Len(a) + i : i \in ReportsIn(b, m, d)}
    BY <1>6, ReportsJoined
  <2>3. ASSUME NEW m, NEW d
        PROVE  ReportsIn(a \o b, m, d) # {} <=> ReportsIn(a, m, d) # {} \/ ReportsIn(b, m, d) # {}
    BY <2>2, Shifted
  <2> QED BY <2>1, <2>3
<1>8. /\ t \in Seq(ErrorType)
      /\ ReportsIn(t, n, "build/include") = IF Known(n) THEN {1} ELSE {}
      /\ \A m, d : m # n => ReportsIn(t, m, d) = {}
      /\ ~ Known(n) /\ ~ third => /\ ReportsIn(t, n, "build/include_order") # {} <=> late
                                  /\ ReportsIn(t, n, "build/include_alpha") # {} <=> early
  <2>1. CASE Known(n)
    BY <1>4, <2>1
  <2>2. CASE ~ Known(n) /\ third
    BY <1>5, <2>2
  <2>3. CASE ~ Known(n) /\ ~ third
    <3>1. t = a \o b
      BY <2>3
    <3>2. ReportsIn(t, n, "build/include") = {}
      <4>1. ReportsIn(a, n, "build/include") = {} /\ ReportsIn(b, n, "build/include") = {}
        BY <1>6, IncludeNames
      <4>2. ReportsIn(t, n, "build/include") # {} <=>
              ReportsIn(a, n, "build/include") # {} \/ ReportsIn(b, n, "build/include") # {}
        BY <1>7, <3>1
      <4> QED BY <4>1, <4>2
    <3>3. ASSUME NEW m, NEW d, m # n
          PROVE  ReportsIn(t, m, d) = {}
      <4>1. ReportsIn(a, m, d) = {} /\ ReportsIn(b, m, d) = {}
        BY <1>6, <3>3
      <4>2. ReportsIn(t, m, d) # {} <=> ReportsIn(a, m, d) # {} \/ ReportsIn(b, m, d) # {}
        BY <1>7, <3>1
      <4> QED BY <4>1, <4>2
    <3>4. /\ ReportsIn(t, n, "build/include_order") # {} <=> late
          /\ ReportsIn(t, n, "build/include_alpha") # {} <=> early
      BY <1>6, <1>7, <3>1, IncludeNames
    <3> QED BY <1>7, <2>3, <3>1, <3>2, <3>3, <3>4
  <2> QED BY <2>1, <2>2, <2>3
<1> HIDE DEF t
<1>9. /\ u \o t \in Seq(ErrorType) /\ all = es \o (u \o t) /\ all \in Seq(ErrorType)
  <2>1. u \o t \in Seq(ErrorType)
    BY <1>3, <1>8, Joined
  <2>2. all = es \o (u \o t)
    BY <1>2 DEF all
  <2> DEFINE v == u \o t
  <2> HIDE DEF v
  <2>3. es \o v \in Seq(ErrorType)
    BY <2>1, Joined DEF v
  <2> QED BY <2>1, <2>2, <2>3 DEF v
<1>10. \A m, c : /\ ReportsIn(u \o t, m, c) = ReportsIn(u, m, c) \cup {Len(u) + i : i \in ReportsIn(t, m, c)}
                 /\ ReportsIn(all, m, c) = ReportsIn(es, m, c) \cup {Len(es) + i : i \in ReportsIn(u \o t, m, c)}
  <2>1. \A m, c : ReportsIn(u \o t, m, c) = ReportsIn(u, m, c) \cup {Len(u) + i : i \in ReportsIn(t, m, c)}
    BY <1>3, <1>8, ReportsJoined
  <2> DEFINE v == u \o t
  <2> HIDE DEF v
  <2>2. v \in Seq(ErrorType) /\ all = es \o v
    BY <1>9 DEF v
  <2>3. \A m, c : ReportsIn(all, m, c) = ReportsIn(es, m, c) \cup {Len(es) + i : i \in ReportsIn(v, m, c)}
    BY <2>2, ReportsJoined
  <2> QED BY <2>1, <2>3 DEF v
<1>11. ASSUME NEW m, NEW c, m # n PROVE ReportsIn(all, m, c) = ReportsIn(es, m, c)
  <2>1. ReportsIn(u, m, c) = {} /\ ReportsIn(t, m, c) = {}
    BY <1>3, <1>8, <1>11
  <2>2. ReportsIn(u \o t, m, c) = {}
    BY <1>10, <2>1, Shifted
  <2>3. ReportsIn(all, m, c) = ReportsIn(es, m, c) \cup {Len(es) + i : i \in ReportsIn(u \o t, m, c)}
    BY <1>10
  <2> QED BY <2>2, <2>3, Shifted
<1>12. Cardinality(ReportsIn(all, n, "build/include")) > Len(u) <=> Known(n)
  <2>1. ReportsIn(es, n, "build/include") = {}
    BY IncludeNames
  <2>2. ReportsIn(t, n, "build/include") \in {{}, {1}}
    BY <1>8
  <2>3. Cardinality(ReportsIn(es \o (u \o t), n, "build/include")) > Len(u)
          <=> ReportsIn(t, n, "build/include") = {1}
    BY <1>1, <1>3, <1>8, <2>1, <2>2, RefusalCounts
  <2> QED BY <1>8, <1>9, <2>3
<1>13. ASSUME NEW c \in {"build/include_order", "build/include_alpha"}
       PROVE  ReportsIn(all, n, c) # {} <=> ReportsIn(t, n, c) # {}
  <2>1. ReportsIn(es, n, c) = {} /\ ReportsIn(u, n, c) = {}
    BY <1>3, IncludeNames
  <2>2. ReportsIn(u \o t, n, c) # {} <=> ReportsIn(t, n, c) # {}
    <3>1. ReportsIn(u \o t, n, c) = ReportsIn(u, n, c) \cup {Len(u) + i : i \in ReportsIn(t, n, c)}
      BY <1>10
    <3> QED BY <2>1, <3>1, Shifted
  <2>3. ReportsIn(all, n, c) = ReportsIn(es, n, c) \cup {Len(es) + i : i \in ReportsIn(u \o t, n, c)}
    BY <1>10
  <2> QED BY <2>1, <2>2, <2>3, Shifted
<1> QED BY <1>8, <1>9, <1>11, <1>12, <1>13 DEF u, all, late, early, third, Judged

-----------------------------------------------------------------------------
(* A line of a file without inline assembly. *)

Outside == TypeInv /\ IncludeInv /\ NoAssembly /\ ProcessLine

LEMMA OutsideLine ==
  ASSUME Outside
  PROVE  /\ pc = "lines" /\ pc' = "lines" /\ lines' = lines /\ kind' = kind /\ file' = file
         /\ lineno \in Nat /\ lineno' = lineno + 1 /\ lineno + 1 \in 1..Len(lines)
         /\ nesting_state \in NestingType /\ IsIncludeState(include_state)
         /\ ReportsInv /\ ListInv /\ RefusedInv /\ SectionInv
         /\ lines \in Seq(LineType) /\ Len(lines) \in Nat
<1>1. /\ pc = "lines" /\ pc' = "lines" /\ lines' = lines /\ kind' = kind /\ file' = file
      /\ lineno' = lineno + 1 /\ lineno < Len(lines)
  BY DEF Outside, ProcessLine
<1>2. lines \in Seq(LineType) /\ Len(lines) \in Nat
  BY LinesTyped DEF Outside
<1>3. lineno \in 0..Len(lines)
  BY DEF Outside, TypeInv
<1>4. lineno \in Nat /\ lineno + 1 \in 1..Len(lines)
  BY <1>1, <1>2, <1>3
<1> QED BY <1>1, <1>2, <1>4 DEF Outside, IncludeInv

LEMMA NoAsmPieces ==
  ASSUME NoAssembly, NEW n \in DOMAIN lines, lines[n].toks \in Seq(STRING)
  PROVE  lines[n].toks \in Seq(Pieces)
<1> DEFINE toks == lines[n].toks
<1>1. ToSet(toks) \cap {"asm"} = {}
  BY DEF NoAssembly, Holds
<1> HIDE DEF toks
<1>2. toks \in Seq(STRING)
  BY DEF toks
<1>3. Len(toks) \in Nat /\ DOMAIN toks = 1..Len(toks)
  BY <1>2
<1>4. ASSUME NEW i \in 1..Len(toks) PROVE toks[i] \in Pieces
  <2>1. toks[i] \in STRING
    BY <1>2
  <2>2. toks[i] \in ToSet(toks)
    BY <1>3 DEF ToSet
  <2> QED BY <1>1, <2>1, <2>2 DEF Pieces
<1>5. toks = [i \in 1..Len(toks) |-> toks[i]]
  BY <1>2
<1> QED BY <1>3, <1>4, <1>5, IsASeq DEF toks

(* It takes the checks of includes one step on, and the other checks       *)
(* report nothing of includes.                                             *)
LEMMA OutsideStep ==
  ASSUME Outside
  PROVE  /\ nesting_state' \in NestingType
         /\ include_state' = Checked(lineno + 1).state
         /\ \E es \in Seq(ErrorType) :
              /\ errors' = es \o Checked(lineno + 1).errors
              /\ \A m : \A c \in IncludeCategories : ReportsIn(es, m, c) = ReportsIn(errors, m, c)
<1> DEFINE n == lineno + 1
           nesting == Update(nesting_state, lines, n)
           indentation == CheckForNamespaceIndentation(nesting.state, lines, n)
           begun == errors \o nesting.errors \o indentation
           length == CheckForFunctionLengths(function_state, lines, n, file.verbosity)
           spacing == CheckSectionSpacing(nesting.state, lines, n)
           include == CheckIncludeState(file, include_state, lines, n)
<1>1. n \in 1..Len(lines) /\ n \in Nat /\ lines \in Seq(LineType) /\ nesting_state \in NestingType
  BY OutsideLine
<1>2. lines[n].toks \in Seq(Pieces)
  <2>1. n \in DOMAIN lines /\ lines[n] \in LineType
    BY <1>1
  <2>2. lines[n].toks \in Seq(STRING)
    BY <2>1 DEF LineType
  <2> QED BY <2>1, <2>2, NoAsmPieces DEF Outside
<1>3. nesting.state \in NestingType /\ nesting.errors \in Seq(OtherErrors)
  BY <1>1, <1>2, UpdateTyped
<1>4. ~ InAsmBlock(nesting.state)
  <2> DEFINE stack == nesting.state.stack
  <2>1. stack \in Seq(BlockType)
    BY <1>3 DEF NestingType
  <2> HIDE DEF stack
  <2>2. stack # <<>> => Last(stack) \in BlockType
    BY <2>1, FrontLast
  <2>3. stack # <<>> => Last(stack).inline_asm = "NO"
    BY <2>2 DEF BlockType
  <2> QED BY <2>3 DEF InAsmBlock, stack
<1>5. lineno' = n /\ ProcessLine
  BY OutsideLine DEF Outside
<1> HIDE DEF n
<1>6. /\ nesting_state' = nesting.state
      /\ include_state' = include.state
      /\ errors' = begun \o length.errors \o spacing \o include.errors
  BY <1>4, <1>5 DEF ProcessLine, ProcessOutside
<1>7. /\ indentation \in Seq(OtherErrors) /\ length.errors \in Seq(OtherErrors)
      /\ spacing \in Seq(OtherErrors)
  BY <1>1, IndentationErrors, LengthErrors, SpacingErrors
<1>8. errors \in Seq(ErrorType)
  BY OutsideLine DEF ReportsInv
<1> DEFINE e1 == nesting.errors
           e3 == length.errors
           s1 == errors \o e1
           s2 == s1 \o indentation
           s3 == s2 \o e3
           s4 == s3 \o spacing
<1> HIDE DEF e1, e3, indentation, spacing, nesting, length
<1>9. s1 \in Seq(ErrorType) /\ \A m : \A c \in IncludeCategories : ReportsIn(s1, m, c) = ReportsIn(errors, m, c)
  BY <1>3, <1>8, OtherReports DEF e1
<1> HIDE DEF s1
<1>10. s2 \in Seq(ErrorType) /\ \A m : \A c \in IncludeCategories : ReportsIn(s2, m, c) = ReportsIn(s1, m, c)
  BY <1>7, <1>9, OtherReports
<1> HIDE DEF s2
<1>11. s3 \in Seq(ErrorType) /\ \A m : \A c \in IncludeCategories : ReportsIn(s3, m, c) = ReportsIn(s2, m, c)
  BY <1>7, <1>10, OtherReports DEF e3
<1> HIDE DEF s3
<1>12. s4 \in Seq(ErrorType) /\ \A m : \A c \in IncludeCategories : ReportsIn(s4, m, c) = ReportsIn(s3, m, c)
  BY <1>7, <1>11, OtherReports
<1>13. errors' = s4 \o include.errors
  BY <1>6 DEF s3, s2, s1, e1, e3
<1> HIDE DEF s4
<1>14. \A m : \A c \in IncludeCategories : ReportsIn(s4, m, c) = ReportsIn(errors, m, c)
  BY <1>9, <1>10, <1>11, <1>12
<1> QED BY <1>3, <1>6, <1>12, <1>13, <1>14 DEF Checked, n

LEMMA OtherChecked ==
  ASSUME NEW n, lines[n].include = <<>>
  PROVE  Checked(n) = [state |-> IF Begins(lines[n], Conditionals)
                                   THEN ResetSection(include_state, Head(lines[n].toks))
                                   ELSE include_state,
                       errors |-> <<>>]
<1>1. CASE Begins(lines[n], Conditionals)
  BY <1>1 DEF Checked, CheckIncludeState, Begins
<1>2. CASE ~ Begins(lines[n], Conditionals)
  BY <1>2 DEF Checked, CheckIncludeState, Begins
<1> QED BY <1>1, <1>2

(* What is reported of the line, and of others. *)
LEMMA OutsideReports ==
  ASSUME Outside, NEW n, n = lineno + 1
  PROVE  LET section == include_state.section
             own == SectionOf(n, section)
             canonical == CanonicalizeAlphabeticalOrder(lines[n].include)
             last == IF own = section THEN include_state.last_header ELSE <<>>
             previous == n > 1 /\ lines[n - 1].include # <<>>
         IN  /\ errors' \in Seq(ErrorType)
             /\ \A m : m # n => (Refused(m)' <=> Refused(m))
             /\ \A m : \A c \in IncludeCategories : m # n => Reports(m, c)' = Reports(m, c)
             /\ lines[n].include = <<>> => \A c \in IncludeCategories : Reports(n, c)' = {}
             /\ lines[n].include # <<>> =>
                  /\ Refused(n)' <=> Known(n)
                  /\ ~ Known(n) /\ ~ IsThirdParty(lines[n].include) =>
                       /\ Reported(n, "build/include_order")' <=> own < section
                       /\ Reported(n, "build/include_alpha")' <=> LessPath(canonical, last) /\ previous
<1> DEFINE section == include_state.section
           own == SectionOf(n, section)
           canonical == CanonicalizeAlphabeticalOrder(lines[n].include)
           last == IF own = section THEN include_state.last_header ELSE <<>>
           previous == n > 1 /\ lines[n - 1].include # <<>>
<1>1. /\ lines' = lines /\ lineno \in Nat /\ n \in 1..Len(lines) /\ ReportsInv /\ ListInv
      /\ IsIncludeState(include_state) /\ TypeInv
  BY OutsideLine DEF Outside
<1>2. PICK es \in Seq(ErrorType) :
         /\ errors' = es \o Checked(n).errors
         /\ \A m : \A c \in IncludeCategories : ReportsIn(es, m, c) = ReportsIn(errors, m, c)
  BY OutsideStep
<1>3. /\ \A m, c : Reports(m, c) = ReportsIn(errors, m, c)
      /\ \A m, c : Reports(m, c)' = ReportsIn(errors', m, c)
  BY DEF Reports, ReportsIn
<1>4. \A c \in IncludeCategories : ReportsIn(es, n, c) = {}
  <2>1. \A i \in DOMAIN errors : errors[i].category \in IncludeCategories => errors[i].line # n
    BY <1>1 DEF ReportsInv
  <2>2. \A c \in IncludeCategories : ReportsIn(errors, n, c) = {}
    BY <2>1 DEF ReportsIn
  <2> QED BY <1>2, <2>2
<1>5. \A m : /\ Refused(m) <=> Cardinality(Reports(m, "build/include")) > Len(UnnamedDirectory(lines[m], m))
             /\ Refused(m)' <=> Cardinality(Reports(m, "build/include")') > Len(UnnamedDirectory(lines[m], m))
  BY <1>1 DEF Refused
<1>6. CASE lines[n].include = <<>>
  <2>1. Checked(n).errors = <<>>
    BY <1>6, OtherChecked
  <2>2. errors' = es
    BY <1>2, <2>1
  <2>3. \A m : \A c \in IncludeCategories : m # n => Reports(m, c)' = Reports(m, c)
    BY <1>2, <1>3, <2>2
  <2>4. \A c \in IncludeCategories : Reports(n, c)' = {}
    BY <1>3, <1>4, <2>2
  <2>5. \A m : m # n => (Refused(m)' <=> Refused(m))
    BY <1>5, <2>3, IncludeNames
  <2> QED BY <1>2, <1>6, <2>2, <2>3, <2>4, <2>5
<1>7. CASE lines[n].include # <<>>
  <2>1. Included(n)
    BY <1>1, <1>7 DEF Included, ListInv
  <2> DEFINE all == es \o Checked(n).errors
  <2>0. /\ all \in Seq(ErrorType)
        /\ \A m, c : m # n => ReportsIn(all, m, c) = ReportsIn(es, m, c)
        /\ Cardinality(ReportsIn(all, n, "build/include")) > Len(UnnamedDirectory(lines[n], n))
             <=> Known(n)
        /\ ~ Known(n) /\ ~ IsThirdParty(lines[n].include) =>
             /\ ReportsIn(all, n, "build/include_order") # {} <=> own < section
             /\ ReportsIn(all, n, "build/include_alpha") # {} <=> LessPath(canonical, last) /\ previous
    <3>1. Judged(n, es)
      BY <1>4, <2>1, IncludeReported
    <3> QED BY <3>1 DEF Judged
  <2> HIDE DEF section, own, canonical, last, previous, all
  <2>2. /\ errors' \in Seq(ErrorType)
        /\ \A m, c : m # n => ReportsIn(errors', m, c) = ReportsIn(es, m, c)
        /\ Cardinality(ReportsIn(errors', n, "build/include")) > Len(UnnamedDirectory(lines[n], n))
             <=> Known(n)
        /\ ~ Known(n) /\ ~ IsThirdParty(lines[n].include) =>
             /\ ReportsIn(errors', n, "build/include_order") # {} <=> own < section
             /\ ReportsIn(errors', n, "build/include_alpha") # {} <=> LessPath(canonical, last) /\ previous
    BY <1>2, <2>0 DEF all
  <2>3. \A m : \A c \in IncludeCategories : m # n => Reports(m, c)' = Reports(m, c)
    BY <1>2, <1>3, <2>2
  <2>4. \A m : m # n => (Refused(m)' <=> Refused(m))
    BY <1>5, <2>3, IncludeNames
  <2>5. Refused(n)' <=> Known(n)
    BY <1>3, <1>5, <2>2
  <2>6. ~ Known(n) /\ ~ IsThirdParty(lines[n].include) =>
          /\ Reported(n, "build/include_order")' <=> own < section
          /\ Reported(n, "build/include_alpha")' <=> LessPath(canonical, last) /\ previous
    <3>1. \A c : Reported(n, c)' <=> Reports(n, c)' # {}
      BY DEF Reported
    <3> QED BY <1>3, <2>2, <3>1
  <2> QED BY <1>7, <2>2, <2>3, <2>4, <2>5, <2>6 DEF section, own, canonical, last, previous
<1> QED BY <1>6, <1>7

(* How a directive moves what is listed. *)
LEMMA PathOn ==
  ASSUME NEW N \in Nat, NEW m \in 1..N
  PROVE  /\ ~ IsIf(N + 1) /\ ~ IsElse(N + 1) =>
              /\ Current(m, N + 1) <=> Current(m, N)
              /\ Dropped(m, N + 1) <=> Dropped(m, N)
         /\ IsIf(N + 1) /\ ~ IsElse(N + 1) =>
              ~ Current(m, N + 1) /\ (Dropped(m, N + 1) <=> Dropped(m, N))
         /\ IsElse(N + 1) /\ ~ IsIf(N + 1) =>
              /\ ~ Current(m, N + 1)
              /\ Dropped(m, N + 1) <=> Dropped(m, N) \/ Current(m, N)
         /\ Current(m, N) => ~ Dropped(m, N)
<1>1. /\ \A k : k \in m..(N + 1) <=> k \in m..N \/ k = N + 1
      /\ \A k \in m..N : N + 1 \notin m..k
      /\ N \in m..N
  OBVIOUS
<1>2. Dropped(m, N + 1) <=> Dropped(m, N) \/ (IsElse(N + 1) /\ \A j \in m..(N + 1) : ~ IsIf(j))
  BY <1>1, Zenon DEF Dropped
<1>3. Current(m, N + 1) <=> Current(m, N) /\ ~ IsIf(N + 1) /\ ~ IsElse(N + 1)
  BY <1>1, Zenon DEF Current
<1>4. Current(m, N) => ~ Dropped(m, N)
  <2>1. ASSUME NEW k \in m..N PROVE k \in m..N /\ k \in m..k
    OBVIOUS
  <2> QED BY <2>1 DEF Current, Dropped
<1>5. (\A j \in m..(N + 1) : ~ IsIf(j)) <=> (\A j \in m..N : ~ IsIf(j)) /\ ~ IsIf(N + 1)
  BY <1>1, Zenon
<1>6. (\A j \in m..N : ~ IsIf(j)) /\ ~ Dropped(m, N) <=> Current(m, N)
  <2>1. ASSUME \A j \in m..N : ~ IsIf(j), ~ Dropped(m, N) PROVE Current(m, N)
    <3>1. ASSUME NEW k \in m..N PROVE ~ IsElse(k)
      <4>1. \A j \in m..k : j \in m..N
        OBVIOUS
      <4> QED BY <2>1, <4>1 DEF Dropped
    <3> QED BY <2>1, <3>1 DEF Current
  <2> QED BY <1>4, <2>1 DEF Current
<1> QED BY <1>2, <1>3, <1>4, <1>5, <1>6, Zenon

(* What the properties say of lines is as it was, but for the line itself. *)
LEMMA OutsideViews ==
  ASSUME Outside, NEW n, n = lineno + 1
  PROVE  /\ \A m : (IsIf(m)' <=> IsIf(m)) /\ (IsElse(m)' <=> IsElse(m))
         /\ \A m : m # n => (Kept(m)' <=> Kept(m))
         /\ Kept(n)' <=> lines[n].include # <<>> /\ ~ IsThirdParty(lines[n].include) /\ ~ Known(n)
         /\ \A m, k : (Current(m, k)' <=> Current(m, k)) /\ (Dropped(m, k)' <=> Dropped(m, k))
         /\ \A m : Entry(m)' = Entry(m) /\ (Foreign(m)' <=> Foreign(m))
         /\ \A m, k : Same(m, k)' <=> Same(m, k)
<1>1. lines' = lines /\ file' = file
  BY OutsideLine
<1>2. \A m : (IsIf(m)' <=> IsIf(m)) /\ (IsElse(m)' <=> IsElse(m))
  BY <1>1 DEF IsIf, IsElse
<1>3. /\ \A m : m # n => (Refused(m)' <=> Refused(m))
      /\ lines[n].include # <<>> => (Refused(n)' <=> Known(n))
  BY OutsideReports
<1>4. \A m : Kept(m)' <=> lines[m].include # <<>> /\ ~ IsThirdParty(lines[m].include) /\ ~ Refused(m)'
  BY <1>1 DEF Kept
<1>5. \A m : m # n => (Kept(m)' <=> Kept(m))
  BY <1>3, <1>4 DEF Kept
<1>6. Kept(n)' <=> lines[n].include # <<>> /\ ~ IsThirdParty(lines[n].include) /\ ~ Known(n)
  BY <1>3, <1>4
<1>7. \A m, k : (Current(m, k)' <=> Current(m, k)) /\ (Dropped(m, k)' <=> Dropped(m, k))
  BY <1>1 DEF Current, Dropped, IsIf, IsElse
<1>8. \A m : Entry(m)' = Entry(m) /\ (Foreign(m)' <=> Foreign(m))
  BY <1>1 DEF Entry, Foreign
<1>9. \A m, k : Same(m, k)' <=> Same(m, k)
  BY <1>1 DEF Same
<1> QED BY <1>2, <1>5, <1>6, <1>7, <1>8, <1>9

(* An #include is no directive of a conditional. *)
LEMMA IncludeLine ==
  ASSUME TypeInv, NEW n \in 1..Len(lines), lines[n].include # <<>>
  PROVE  ~ Begins(lines[n], Conditionals) /\ ~ IsIf(n) /\ ~ IsElse(n)
<1>1. lines[n] \in Alphabets[kind] /\ kind \in DOMAIN Alphabets
  BY ElementOfSeq DEF TypeInv
<1>2. lines[n].toks = <<"#include">>
  BY <1>1, LinesAssumption
<1>3. Head(lines[n].toks) = "#include"
  BY <1>2
<1> QED BY <1>3 DEF Begins, Conditionals, Ifs, IsIf, IsElse

(* The lines whose includes are listed, after the line. *)
LEMMA ListedLines ==
  ASSUME Outside, NEW n, n = lineno + 1
  PROVE  LET old == CurrentLines(lineno)
             earlier == EarlierLines(lineno)
             new == CurrentLines(lineno)'
             left == EarlierLines(lineno)'
         IN  /\ Kept(n)' => new = old \cup {n} /\ left = earlier
             /\ ~ Kept(n)' /\ ~ IsIf(n) /\ ~ IsElse(n) => new = old /\ left = earlier
             /\ IsIf(n) => new = {} /\ left = old \cup earlier
             /\ IsElse(n) => new = {} /\ left = earlier
<1> DEFINE N == lineno
           old == CurrentLines(lineno)
           earlier == EarlierLines(lineno)
           new == CurrentLines(lineno)'
           left == EarlierLines(lineno)'
<1>1. lineno \in Nat /\ lineno' = n /\ n \in 1..Len(lines) /\ n \in Nat
  BY OutsideLine
<1>2. /\ new = {m \in 1..n : Kept(m)' /\ Current(m, n)}
      /\ left = {m \in 1..n : Kept(m)' /\ ~ Current(m, n) /\ ~ Dropped(m, n)}
  <2>1. \A m, k : (Current(m, k)' <=> Current(m, k)) /\ (Dropped(m, k)' <=> Dropped(m, k))
    BY OutsideViews
  <2>2. /\ new = {m \in 1..lineno' : Kept(m)' /\ Current(m, lineno)'}
        /\ left = {m \in 1..lineno' : Kept(m)' /\ ~ Current(m, lineno)' /\ ~ Dropped(m, lineno)'}
    BY DEF CurrentLines, EarlierLines
  <2>3. /\ \A m : Current(m, lineno)' <=> Current(m, n)
        /\ \A m : Dropped(m, lineno)' <=> Dropped(m, n)
    BY <1>1, <2>1
  <2> QED BY <1>1, <2>2, <2>3
<1>3. /\ old = {m \in 1..N : Kept(m) /\ Current(m, N)}
      /\ earlier = {m \in 1..N : Kept(m) /\ ~ Current(m, N) /\ ~ Dropped(m, N)}
  BY DEF CurrentLines, EarlierLines
<1>4. \A m \in 1..N : m # n /\ (Kept(m)' <=> Kept(m))
  <2>1. \A m \in 1..N : m # n
    BY <1>1
  <2> QED BY <2>1, OutsideViews
<1>5. \A m : m \in 1..n <=> m \in 1..N \/ m = n
  BY <1>1
<1>6. /\ Kept(n)' => lines[n].include # <<>>
      /\ lines[n].include # <<>> => ~ IsIf(n) /\ ~ IsElse(n)
      /\ ~ (IsIf(n) /\ IsElse(n))
  <2>1. Kept(n)' => lines[n].include # <<>>
    BY OutsideViews
  <2>2. lines[n].include # <<>> => ~ IsIf(n) /\ ~ IsElse(n)
    BY <1>1, IncludeLine DEF Outside
  <2>3. ~ (IsIf(n) /\ IsElse(n))
    BY DEF IsIf, IsElse, Begins, Ifs
  <2> QED BY <2>1, <2>2, <2>3
<1>7. \A m \in 1..N :
        /\ ~ IsIf(n) /\ ~ IsElse(n) =>
             (Current(m, n) <=> Current(m, N)) /\ (Dropped(m, n) <=> Dropped(m, N))
        /\ IsIf(n) /\ ~ IsElse(n) => ~ Current(m, n) /\ (Dropped(m, n) <=> Dropped(m, N))
        /\ IsElse(n) /\ ~ IsIf(n) =>
             ~ Current(m, n) /\ (Dropped(m, n) <=> Dropped(m, N) \/ Current(m, N))
        /\ Current(m, N) => ~ Dropped(m, N)
  BY <1>1, PathOn
<1>8. ~ IsIf(n) /\ ~ IsElse(n) => Current(n, n)
  BY <1>1 DEF Current
<1> HIDE DEF old, earlier, new, left, N
<1>9. \A m \in 1..N :
        /\ m \in new <=> Kept(m) /\ Current(m, n)
        /\ m \in left <=> Kept(m) /\ ~ Current(m, n) /\ ~ Dropped(m, n)
        /\ m \in old <=> Kept(m) /\ Current(m, N)
        /\ m \in earlier <=> Kept(m) /\ ~ Current(m, N) /\ ~ Dropped(m, N)
  BY <1>2, <1>3, <1>4, <1>5, Zenon
<1>10. /\ n \in new <=> Kept(n)' /\ Current(n, n)
       /\ n \in left <=> Kept(n)' /\ ~ Current(n, n) /\ ~ Dropped(n, n)
       /\ n \notin old /\ n \notin earlier
  BY <1>2, <1>3, <1>4, <1>5, Zenon
<1>11. /\ \A m \in new \cup left : m \in 1..N \/ m = n
       /\ \A m \in old \cup earlier : m \in 1..N
  BY <1>2, <1>3, <1>5, Zenon
<1>12. CASE Kept(n)'
  <2>1. ~ IsIf(n) /\ ~ IsElse(n) /\ Current(n, n)
    BY <1>6, <1>8, <1>12
  <2>2. \A m \in 1..N : (m \in new <=> m \in old) /\ (m \in left <=> m \in earlier)
    BY <1>7, <1>9, <2>1
  <2>3. n \in new /\ n \notin left
    BY <1>10, <1>12, <2>1
  <2>4. new = old \cup {n}
    BY <1>10, <1>11, <2>2, <2>3, Zenon
  <2>5. left = earlier
    BY <1>10, <1>11, <2>2, <2>3, Zenon
  <2> QED BY <1>12, <2>1, <2>4, <2>5
    DEF old, earlier, new, left
<1>13. CASE ~ Kept(n)' /\ ~ IsIf(n) /\ ~ IsElse(n)
  <2>1. \A m \in 1..N : (m \in new <=> m \in old) /\ (m \in left <=> m \in earlier)
    BY <1>7, <1>9, <1>13
  <2>2. new = old
    BY <1>10, <1>11, <1>13, <2>1, Zenon
  <2>3. left = earlier
    BY <1>10, <1>11, <1>13, <2>1, Zenon
  <2> QED BY <1>13, <2>2, <2>3
    DEF old, earlier, new, left
<1>14. CASE ~ Kept(n)' /\ IsIf(n)
  <2>1. \A m \in 1..N : m \notin new /\ (m \in left <=> m \in old \cup earlier)
    BY <1>6, <1>7, <1>9, <1>14
  <2>2. new = {}
    BY <1>10, <1>11, <1>14, <2>1, Zenon
  <2>3. left = old \cup earlier
    BY <1>10, <1>11, <1>14, <2>1, Zenon
  <2> QED BY <1>6, <1>14, <2>2, <2>3
    DEF old, earlier, new, left
<1>15. CASE ~ Kept(n)' /\ IsElse(n)
  <2>1. \A m \in 1..N : m \notin new /\ (m \in left <=> m \in earlier)
    BY <1>6, <1>7, <1>9, <1>15
  <2>2. new = {}
    BY <1>10, <1>11, <1>15, <2>1, Zenon
  <2>3. left = earlier
    BY <1>10, <1>11, <1>15, <2>1, Zenon
  <2> QED BY <1>6, <1>15, <2>2, <2>3
    DEF old, earlier, new, left
<1>16. IsIf(n) \/ IsElse(n) => ~ Kept(n)'
  BY <1>6
<1> QED BY <1>12, <1>13, <1>14, <1>15, <1>16 DEF old, earlier, new, left

(* What is listed is what was let pass, also after the line. *)
LEMMA ListStep ==
  ASSUME Outside
  PROVE  IsIncludeState(include_state)' /\ ListInv'
<1> DEFINE list == include_state.include_list
           list1 == include_state'.include_list
           old == CurrentLines(lineno)
           earlier == EarlierLines(lineno)
           new == CurrentLines(lineno)'
           left == EarlierLines(lineno)'
<1> PICK n : n = lineno + 1
  OBVIOUS
<1>1. /\ lineno \in Nat /\ n \in 1..Len(lines) /\ n \in Nat /\ lines \in Seq(LineType)
      /\ IsIncludeState(include_state) /\ ListInv /\ TypeInv
  BY OutsideLine DEF Outside
<1>2. include_state' = Checked(n).state
  BY OutsideStep
<1>3. /\ list # <<>> /\ list \in Seq(Seq(EntryType)) /\ include_state.section \in 0..4
      /\ ToSet(Last(list)) = EntriesOf(old) /\ EarlierEntries(list) = EntriesOf(earlier)
  BY <1>1 DEF ListInv, IsIncludeState
<1>4. \A S : EntriesOf(S)' = EntriesOf(S)
  BY OutsideViews DEF EntriesOf
<1> SUFFICES /\ list1 # <<>> /\ list1 \in Seq(Seq(EntryType)) /\ include_state'.section \in 0..4
             /\ include_state' = [include_list |-> list1, section |-> include_state'.section,
                                  last_header |-> include_state'.last_header]
             /\ ToSet(Last(list1)) = EntriesOf(new) /\ EarlierEntries(list1) = EntriesOf(left)
  BY <1>4 DEF ListInv, IsIncludeState
<1> HIDE DEF old, earlier, new, left
<1>5. CASE Kept(n)'
  <2>1. /\ lines[n].include # <<>> /\ ~ IsThirdParty(lines[n].include) /\ ~ Known(n)
    BY <1>5, OutsideViews
  <2>2. Included(n)
    BY <1>1, <1>3, <2>1 DEF Included
  <2>3. include_state' = OrderInclude(file, include_state, lines, n).state
    BY <1>2, <2>1, <2>2, IncludeChecked
  <2>4. \E section \in 1..4 :
          include_state' = [include_list |-> [list EXCEPT ![Len(list)] = Append(@, Entry(n))],
                            section |-> section,
                            last_header |-> CanonicalizeAlphabeticalOrder(lines[n].include)]
    BY <1>1, <1>3, <2>1, <2>3, OrderResult
  <2>5. Entry(n) \in EntryType
    <3>1. lines[n] \in LineType
      BY <1>1
    <3> QED BY <1>1, <3>1 DEF Entry, EntryType, LineType
  <2> DEFINE extended == [list EXCEPT ![Len(list)] = Append(@, Entry(n))]
  <2>6. /\ extended \in Seq(Seq(EntryType)) /\ extended # <<>>
        /\ ToSet(Last(extended)) = ToSet(Last(list)) \cup {Entry(n)}
        /\ EarlierEntries(extended) = EarlierEntries(list)
    BY <1>3, <2>5, ListExtended
  <2> HIDE DEF extended
  <2>7. /\ list1 = extended /\ include_state'.section \in 0..4
        /\ include_state' = [include_list |-> list1, section |-> include_state'.section,
                             last_header |-> include_state'.last_header]
    BY <2>4 DEF extended
  <2>8. new = old \cup {n} /\ left = earlier
    BY <1>5, ListedLines DEF old, earlier, new, left
  <2>9. EntriesOf(old \cup {n}) = EntriesOf(old) \cup {Entry(n)}
    BY DEF EntriesOf
  <2> HIDE DEF list1, list
  <2> QED BY <1>3, <2>6, <2>7, <2>8, <2>9
<1>6. CASE ~ Kept(n)' /\ ~ IsIf(n) /\ ~ IsElse(n)
  <2>1. new = old /\ left = earlier
    BY <1>6, ListedLines DEF old, earlier, new, left
  <2>2. /\ list1 = list /\ include_state'.section \in 0..4
        /\ include_state' = [include_list |-> list1, section |-> include_state'.section,
                             last_header |-> include_state'.last_header]
    <3>1. CASE lines[n].include # <<>>
      <4>1. Included(n)
        BY <1>1, <1>3, <3>1 DEF Included
      <4>2. Known(n) \/ IsThirdParty(lines[n].include)
        BY <1>6, <3>1, OutsideViews
      <4>3. include_state' = include_state
        BY <1>2, <4>1, <4>2, IncludeChecked
      <4> QED BY <1>1, <4>3 DEF IsIncludeState
    <3>2. CASE lines[n].include = <<>> /\ ~ Begins(lines[n], Conditionals)
      <4>1. include_state' = include_state
        BY <1>2, <3>2, OtherChecked
      <4> QED BY <1>1, <4>1 DEF IsIncludeState
    <3>3. CASE lines[n].include = <<>> /\ Begins(lines[n], Conditionals)
      <4>1. include_state' = ResetSection(include_state, Head(lines[n].toks))
        BY <1>2, <3>3, OtherChecked
      <4>2. Head(lines[n].toks) \notin Ifs /\ Head(lines[n].toks) # "#else"
        BY <1>6, <3>3 DEF IsIf, IsElse, Begins
      <4>3. include_state' = [IncludeStateInit EXCEPT !.include_list = list]
        BY <4>1, <4>2 DEF ResetSection
      <4> QED BY <4>3 DEF IncludeStateInit, SectionOrder
    <3> QED BY <3>1, <3>2, <3>3
  <2> HIDE DEF list1, list
  <2> QED BY <1>3, <2>1, <2>2
<1>7. CASE IsIf(n) \/ IsElse(n)
  <2>1. /\ lines[n].include = <<>> /\ Begins(lines[n], Conditionals)
        /\ IsIf(n) <=> Head(lines[n].toks) \in Ifs
        /\ IsElse(n) <=> Head(lines[n].toks) = "#else"
    <3>1. lines[n].include = <<>>
      BY <1>1, <1>7, IncludeLine
    <3> QED BY <1>7, <3>1 DEF IsIf, IsElse, Begins, Conditionals
  <2>2. include_state' = ResetSection(include_state, Head(lines[n].toks))
    BY <1>2, <2>1, OtherChecked
  <2> DEFINE reset == IF IsIf(n) THEN Append(list, <<>>) ELSE Append(Front(list), <<>>)
  <2>3. include_state' = [IncludeStateInit EXCEPT !.include_list = reset]
    <3> DEFINE d == Head(lines[n].toks)
               a == Append(list, <<>>)
               b == Append(Front(list), <<>>)
    <3>1. include_state' = [IncludeStateInit EXCEPT !.include_list =
             CASE d \in Ifs -> a [] d = "#else" -> b [] OTHER -> list]
      BY <2>2 DEF ResetSection
    <3>2. "#else" \notin Ifs
      BY DEF Ifs
    <3> HIDE DEF a, b, list
    <3>3. (CASE d \in Ifs -> a [] d = "#else" -> b [] OTHER -> list) = IF IsIf(n) THEN a ELSE b
      BY <1>7, <2>1, <3>2
    <3> QED BY <3>1, <3>3 DEF a, b
  <2> HIDE DEF reset
  <2>4. /\ list1 = reset /\ include_state'.section \in 0..4
        /\ include_state' = [include_list |-> list1, section |-> include_state'.section,
                             last_header |-> include_state'.last_header]
    BY <2>3 DEF IncludeStateInit, SectionOrder
  <2>5. EntriesOf({}) = {} /\ EntriesOf(old \cup earlier) = EntriesOf(old) \cup EntriesOf(earlier)
    BY DEF EntriesOf
  <2> HIDE DEF list1, list
  <2>6. CASE IsIf(n)
    <3>1. new = {} /\ left = old \cup earlier
      BY <2>6, ListedLines DEF old, earlier, new, left
    <3>2. reset = Append(list, <<>>)
      BY <2>6 DEF reset, list
    <3>3. /\ reset \in Seq(Seq(EntryType)) /\ reset # <<>> /\ ToSet(Last(reset)) = {}
          /\ EarlierEntries(reset) = EarlierEntries(list) \cup ToSet(Last(list))
      BY <1>3, <3>2, ListAppended
    <3> QED BY <1>3, <2>4, <2>5, <3>1, <3>3
  <2>7. CASE IsElse(n)
    <3>1. new = {} /\ left = earlier
      BY <2>7, ListedLines DEF old, earlier, new, left
    <3>2. reset = Append(Front(list), <<>>)
      <4>1. ~ IsIf(n)
        BY <2>1, <2>7 DEF Ifs
      <4> QED BY <4>1 DEF reset, list
    <3>3. /\ reset \in Seq(Seq(EntryType)) /\ reset # <<>> /\ ToSet(Last(reset)) = {}
          /\ EarlierEntries(reset) = EarlierEntries(list)
      BY <1>3, <3>2, ListReplaced
    <3> QED BY <1>3, <2>4, <2>5, <3>1, <3>3
  <2> QED BY <1>7, <2>6, <2>7
<1> QED BY <1>5, <1>6, <1>7

LEMMA ReportsStep ==
  ASSUME Outside
  PROVE  ReportsInv'
<1> PICK n : n = lineno + 1
  OBVIOUS
<1>1. lineno \in Nat /\ lineno' = n /\ ReportsInv
  BY OutsideLine
<1>2. /\ errors' \in Seq(ErrorType)
      /\ \A m : \A c \in IncludeCategories : m # n => Reports(m, c)' = Reports(m, c)
  BY OutsideReports
<1>3. ASSUME NEW i \in DOMAIN errors', errors'[i].category \in IncludeCategories
      PROVE  errors'[i].line \in 1..n
  <2> DEFINE m == errors'[i].line
             c == errors'[i].category
  <2>1. CASE m = n
    BY <1>1, <2>1
  <2>2. CASE m # n
    <3>1. \A k, d : Reports(k, d)' = {j \in DOMAIN errors' : errors'[j].line = k /\ errors'[j].category = d}
      BY DEF Reports
    <3>2. PICK k : k = m
      OBVIOUS
    <3>3. PICK d : d = c
      OBVIOUS
    <3>4. i \in Reports(k, d)'
      BY <3>1, <3>2, <3>3
    <3>5. i \in Reports(k, d)
      BY <1>2, <1>3, <2>2, <3>2, <3>3, <3>4
    <3>6. errors[i].line = k /\ errors[i].category = d /\ i \in DOMAIN errors
      BY <3>5 DEF Reports
    <3>7. k \in 1..lineno
      BY <1>1, <1>3, <3>3, <3>6 DEF ReportsInv
    <3> QED BY <1>1, <3>2, <3>7
  <2> QED BY <2>1, <2>2
<1> QED BY <1>1, <1>2, <1>3 DEF ReportsInv

(* A header is found just if it is listed, and what is listed was let pass *)
(* and is not forgotten.                                                   *)
LEMMA KnownIs ==
  ASSUME Outside, NEW n, n = lineno + 1, lines[n].include # <<>>
  PROVE  Known(n) <=> Foreign(n) \/ \E j \in 1..lineno : RefusedBy(j, n)
<1>1. /\ lineno \in Nat /\ n \in 1..Len(lines) /\ ListInv /\ IsIncludeState(include_state) /\ TypeInv
  BY OutsideLine DEF Outside
<1> DEFINE list == include_state.include_list
           listed == Listed(include_state)
           header == lines[n].include
<1>2. /\ list # <<>> /\ list \in Seq(Seq(EntryType))
      /\ ToSet(Last(list)) = EntriesOf(CurrentLines(lineno))
      /\ EarlierEntries(list) = EntriesOf(EarlierLines(lineno))
  BY <1>1 DEF ListInv, IsIncludeState
<1>3. listed = EntriesOf(CurrentLines(lineno)) \cup EntriesOf(EarlierLines(lineno))
      /\ listed \subseteq EntryType
  BY <1>2, ListedIs
<1>4. FindHeader(include_state, header) >= 0 <=> \E f \in listed : f.header = header
  BY <1>3, HeaderFound
<1> HIDE DEF list, listed
<1>5. \A f : f \in listed <=> \E j \in 1..lineno : f = Entry(j) /\ Kept(j) /\ ~ Dropped(j, lineno)
  <2>1. \A j \in 1..lineno : Current(j, lineno) => ~ Dropped(j, lineno)
    BY <1>1, PathOn
  <2>2. \A f : f \in EntriesOf(CurrentLines(lineno))
                 <=> \E j \in 1..lineno : f = Entry(j) /\ Kept(j) /\ Current(j, lineno)
    BY DEF EntriesOf, CurrentLines
  <2>3. \A f : f \in EntriesOf(EarlierLines(lineno))
                 <=> \E j \in 1..lineno : f = Entry(j) /\ Kept(j) /\ ~ Current(j, lineno)
                                            /\ ~ Dropped(j, lineno)
    BY DEF EntriesOf, EarlierLines
  <2> QED BY <1>3, <2>1, <2>2, <2>3, Zenon
<1>6. \A j \in 1..lineno : Dropped(j, n) <=> Dropped(j, lineno)
  <2>1. ~ IsIf(n) /\ ~ IsElse(n)
    BY <1>1, IncludeLine
  <2> QED BY <1>1, <2>1, PathOn
<1>7. \A j \in 1..lineno : j < n
  BY <1>1
<1>8. (\E f \in listed : f.header = header) <=> \E j \in 1..lineno : RefusedBy(j, n)
  <2>1. \A j : Entry(j).header = lines[j].include
    BY DEF Entry
  <2>2. \A j \in 1..lineno : RefusedBy(j, n) <=> lines[j].include = header /\ Kept(j) /\ ~ Dropped(j, lineno)
    BY <1>6, <1>7 DEF RefusedBy, Same
  <2> HIDE DEF header
  <2>3. ASSUME NEW f \in listed, f.header = header PROVE \E j \in 1..lineno : RefusedBy(j, n)
    <3>1. PICK j \in 1..lineno : f = Entry(j) /\ Kept(j) /\ ~ Dropped(j, lineno)
      BY <1>5
    <3> QED BY <2>1, <2>2, <2>3, <3>1
  <2>4. ASSUME NEW j \in 1..lineno, RefusedBy(j, n) PROVE \E f \in listed : f.header = header
    <3>1. Entry(j) \in listed
      BY <1>5, <2>2, <2>4
    <3>2. Entry(j).header = header
      BY <2>1, <2>2, <2>4
    <3> QED BY <3>1, <3>2
  <2> QED BY <2>3, <2>4
<1> QED BY <1>4, <1>8 DEF Known, header

LEMMA RefusedStep ==
  ASSUME Outside
  PROVE  RefusedInv'
<1> PICK n : n = lineno + 1
  OBVIOUS
<1>1. lineno \in Nat /\ lineno' = n /\ RefusedInv /\ lines' = lines /\ n \in Nat
  BY OutsideLine
<1>2. /\ \A m : m # n => (Refused(m)' <=> Refused(m))
      /\ lines[n].include # <<>> => (Refused(n)' <=> Known(n))
  BY OutsideReports
<1>3. /\ \A m : m # n => (Kept(m)' <=> Kept(m))
      /\ \A m, k : Dropped(m, k)' <=> Dropped(m, k)
      /\ \A m : Foreign(m)' <=> Foreign(m)
      /\ \A m, k : Same(m, k)' <=> Same(m, k)
  BY OutsideViews
<1>4. \A j, m : j # n => (RefusedBy(j, m)' <=> RefusedBy(j, m))
  BY <1>3 DEF RefusedBy
<1>5. \A j, m : RefusedBy(j, m)' => j < m
  BY <1>3 DEF RefusedBy, Same
<1>6. /\ \A m : m \in 1..n <=> m \in 1..lineno \/ m = n
      /\ \A m \in 1..n : ~ (n < m)
      /\ \A m \in 1..lineno : m # n
  BY <1>1
<1>7. \A m \in 1..n : (\E j \in 1..n : RefusedBy(j, m)') <=> \E j \in 1..lineno : RefusedBy(j, m)
  BY <1>4, <1>5, <1>6, Zenon
<1>8. ASSUME NEW m \in 1..n, lines[m].include # <<>>
      PROVE  Refused(m)' <=> Foreign(m)' \/ \E j \in 1..n : RefusedBy(j, m)'
  <2>1. CASE m = n
    BY <1>2, <1>3, <1>7, <1>8, <2>1, KnownIs
  <2>2. CASE m # n
    BY <1>1, <1>2, <1>3, <1>6, <1>7, <1>8, <2>2 DEF RefusedInv
  <2> QED BY <2>1, <2>2
<1> QED BY <1>1, <1>8 DEF RefusedInv

-----------------------------------------------------------------------------
(* The groups and places of includes. *)

IsConditional(n) == Begins(lines[n], Conditionals)

LEMMA GroupIs ==
  /\ \A N : Group(N) = {m \in 1..N : Kept(m) /\ \A k \in m..N : ~ IsConditional(k)}
  /\ \A N : Group(N)' = {m \in 1..N : Kept(m)' /\ \A k \in m..N : ~ IsConditional(k)'}
<1>1. \A N : Group(N) = {m \in 1..N : Kept(m) /\ \A k \in m..N : ~ IsConditional(k)}
  BY Zenon DEF Group, Kept, IsConditional
<1>2. \A N : Group(N)' = {m \in 1..N : Kept(m)' /\ \A k \in m..N : ~ IsConditional(k)'}
  BY Zenon DEF Group, Kept, IsConditional
<1> QED BY <1>1, <1>2

(* The group of a line in a group is what comes before it there. *)
LEMMA GroupWithin ==
  ASSUME NEW N \in Nat, NEW m \in Group(N)
  PROVE  /\ m \in 1..N /\ m \in Group(m)
         /\ \A k : k \in Group(m) <=> k \in Group(N) /\ k <= m
<1>1. m \in 1..N /\ Kept(m) /\ \A k \in m..N : ~ IsConditional(k)
  BY GroupIs
<1>2. m \in Nat
  BY <1>1
<1>3. ASSUME NEW k \in Group(m) PROVE k \in Group(N) /\ k <= m
  <2>1. k \in 1..m /\ Kept(k) /\ \A j \in k..m : ~ IsConditional(j)
    BY GroupIs
  <2>2. \A j \in k..N : j \in k..m \/ j \in m..N
    BY <1>1, <1>2, <2>1
  <2>3. k \in 1..N /\ k <= m
    BY <1>1, <1>2, <2>1
  <2> QED BY <1>1, <2>1, <2>2, <2>3, GroupIs
<1>4. ASSUME NEW k \in Group(N), k <= m PROVE k \in Group(m)
  <2>1. k \in 1..N /\ Kept(k) /\ \A j \in k..N : ~ IsConditional(j)
    BY GroupIs
  <2>2. k \in 1..m /\ \A j \in k..m : j \in k..N
    BY <1>1, <1>2, <1>4, <2>1
  <2> QED BY <2>1, <2>2, GroupIs
<1>5. m <= m
  BY <1>2
<1> QED BY <1>1, <1>3, <1>4, <1>5

(* Where line m belongs, after the lines ms. *)
PlaceOf(m, ms) ==
  IF lines[m].system THEN IF lines[m].include \in CppHeaders THEN 3 ELSE 2
  ELSE IF \A k \in ms \cup {m} : IsOwn(k) THEN 1 ELSE 4

LEMMA PlaceIs ==
  ASSUME NEW m, lines[m].system \in BOOLEAN
  PROVE  /\ Place(m) = PlaceOf(m, Group(m))
         /\ lines' = lines /\ file' = file => Place(m)' = PlaceOf(m, Group(m)')
<1>1. ASSUME NEW ms
      PROVE  PlaceOf(m, ms) =
               CASE lines[m].system -> IF lines[m].include \in CppHeaders THEN 3 ELSE 2
                 [] IsOwn(m) /\ \A k \in ms : IsOwn(k) -> 1
                 [] ~ lines[m].system /\ \E k \in ms \cup {m} : ~ IsOwn(k) -> 4
  <2>1. IsOwn(m) => ~ lines[m].system
    BY DEF IsOwn
  <2>2. (\A k \in ms \cup {m} : IsOwn(k)) <=> IsOwn(m) /\ \A k \in ms : IsOwn(k)
    OBVIOUS
  <2>3. (\E k \in ms \cup {m} : ~ IsOwn(k)) <=> ~ (\A k \in ms \cup {m} : IsOwn(k))
    OBVIOUS
  <2> QED BY <2>1, <2>2, <2>3 DEF PlaceOf
<1>2. Place(m) = PlaceOf(m, Group(m))
  BY <1>1 DEF Place
<1>3. ASSUME lines' = lines, file' = file PROVE Place(m)' = PlaceOf(m, Group(m)')
  <2>1. \A k : IsOwn(k)' <=> IsOwn(k)
    BY <1>3 DEF IsOwn
  <2> DEFINE ms == Group(m)'
  <2>2. Place(m)' =
          CASE lines[m].system -> IF lines[m].include \in CppHeaders THEN 3 ELSE 2
            [] IsOwn(m) /\ \A k \in ms : IsOwn(k) -> 1
            [] ~ lines[m].system /\ \E k \in ms \cup {m} : ~ IsOwn(k) -> 4
    BY <1>3, <2>1 DEF Place
  <2> HIDE DEF ms
  <2> QED BY <1>1, <2>2 DEF ms
<1> QED BY <1>2, <1>3

LEMMA PlaceRange ==
  ASSUME NEW m, NEW ms
  PROVE  /\ PlaceOf(m, ms) \in 1..4
         /\ PlaceOf(m, ms) = 1 <=> ~ lines[m].system /\ \A k \in ms \cup {m} : IsOwn(k)
BY DEF PlaceOf

(* The section that an include asks for is its place. *)
LEMMA SectionPlace ==
  ASSUME TypeInv, SectionInv, IsIncludeState(include_state), NEW n \in 1..Len(lines),
         lines[n].include # <<>>, lineno \in Nat
  PROVE  SectionOf(n, include_state.section) = PlaceOf(n, Group(lineno) \cup {n})
<1> DEFINE group == Group(lineno)
           section == include_state.section
<1>1. /\ section \in 0..4 /\ (section = 0 <=> group = {}) /\ (\A m \in group : Place(m) <= section)
      /\ group # {} => \E m \in group : Place(m) = section
  BY DEF SectionInv, IsIncludeState
<1>2. ASSUME NEW m \in group
      PROVE  /\ Place(m) = PlaceOf(m, Group(m)) /\ m \in Group(m) /\ Group(m) \subseteq group
  <2>1. m \in 1..lineno /\ m \in Group(m) /\ Group(m) \subseteq group
    BY GroupWithin
  <2>2. lineno <= Len(lines) /\ Len(lines) \in Nat /\ lines \in Seq(LineType)
    BY LinesTyped DEF TypeInv
  <2>3. lines[m] \in LineType
    BY <2>1, <2>2
  <2> QED BY <2>1, <2>3, PlaceIs DEF LineType
<1> HIDE DEF group, section
<1>3. section <= 1 <=> \A k \in group : IsOwn(k)
  <2>1. ASSUME \A k \in group : IsOwn(k) PROVE section <= 1
    <3>1. CASE group = {}
      BY <1>1, <3>1
    <3>2. CASE group # {}
      <4>1. PICK m \in group : Place(m) = section
        BY <1>1, <3>2
      <4>2. \A k \in Group(m) \cup {m} : IsOwn(k)
        BY <1>2, <2>1
      <4>3. ~ lines[m].system
        BY <2>1 DEF IsOwn
      <4>4. Place(m) = 1
        BY <1>2, <4>2, <4>3, PlaceRange
      <4> QED BY <4>1, <4>4
    <3> QED BY <3>1, <3>2
  <2>2. ASSUME section <= 1, NEW k \in group PROVE IsOwn(k)
    <3>1. Place(k) \in 1..4 /\ Place(k) <= 1
      BY <1>1, <1>2, <2>2, PlaceRange
    <3>2. Place(k) = 1
      BY <3>1
    <3> QED BY <1>2, <3>2, PlaceRange
  <2> QED BY <2>1, <2>2
<1>4. (\A k \in group \cup {n} : IsOwn(k)) <=> IsOwn(n) /\ \A k \in group : IsOwn(k)
  OBVIOUS
<1>5. (group \cup {n}) \cup {n} = group \cup {n}
  OBVIOUS
<1>6. SectionOf(n, section) = PlaceOf(n, group \cup {n})
  BY <1>3, <1>4, <1>5 DEF SectionOf, PlaceOf
<1> QED BY <1>6 DEF section, group

(* The groups after the line. *)
LEMMA GroupStep ==
  ASSUME Outside, NEW n, n = lineno + 1
  PROVE  /\ \A k \in 0..lineno : Group(k)' = Group(k)
         /\ \A m \in Group(lineno) : m \in 1..lineno /\ Place(m)' = Place(m)
         /\ Group(lineno)' = Group(n)'
         /\ IsConditional(n) => Group(n)' = {}
         /\ ~ IsConditional(n) =>
              Group(n)' = IF Kept(n)' THEN Group(lineno) \cup {n} ELSE Group(lineno)
<1>1. /\ lineno \in Nat /\ lineno' = n /\ n \in 1..Len(lines) /\ n \in Nat /\ lines' = lines
      /\ file' = file /\ lines \in Seq(LineType) /\ Len(lines) \in Nat
  BY OutsideLine
<1>2. \A m : m # n => (Kept(m)' <=> Kept(m))
  BY OutsideViews
<1>3. \A k : IsConditional(k)' <=> IsConditional(k)
  BY <1>1 DEF IsConditional
<1>4. ASSUME NEW k \in 0..lineno PROVE Group(k)' = Group(k)
  <2>1. \A m \in 1..k : m # n
    BY <1>1
  <2>2. \A m : m \in Group(k)' <=> m \in Group(k)
    BY <1>2, <1>3, <2>1, GroupIs
  <2> QED BY <2>2
<1>5. Group(lineno)' = Group(n)'
  BY <1>1
<1>6. ASSUME NEW m \in Group(lineno) PROVE m \in 1..lineno /\ Place(m)' = Place(m)
  <2>1. m \in 1..lineno
    BY <1>1, GroupWithin
  <2>2. m \in 0..lineno /\ m \in 1..Len(lines)
    BY <1>1, <2>1
  <2>3. lines[m].system \in BOOLEAN
    <3>1. lines[m] \in LineType
      BY <1>1, <2>2
    <3> QED BY <3>1 DEF LineType
  <2> QED BY <1>1, <1>4, <2>1, <2>2, <2>3, PlaceIs
<1>7. \A m : m \in Group(n)' <=> m \in 1..n /\ Kept(m)' /\ \A k \in m..n : ~ IsConditional(k)
  BY <1>3, GroupIs
<1>8. /\ \A m : m \in 1..n <=> m \in 1..lineno \/ m = n
      /\ \A m \in 1..lineno : m # n /\ \A k : k \in m..n <=> k \in m..lineno \/ k = n
      /\ \A m \in 1..n : n \in m..n
      /\ \A k \in n..n : k = n
  BY <1>1
<1>9. ASSUME IsConditional(n) PROVE Group(n)' = {}
  BY <1>7, <1>8, <1>9
<1>10. ASSUME ~ IsConditional(n)
       PROVE  Group(n)' = IF Kept(n)' THEN Group(lineno) \cup {n} ELSE Group(lineno)
  <2>1. \A m : m \in Group(lineno) <=> m \in 1..lineno /\ Kept(m) /\ \A k \in m..lineno : ~ IsConditional(k)
    BY GroupIs
  <2>2. \A m \in 1..lineno : m \in Group(n)' <=> m \in Group(lineno)
    BY <1>2, <1>7, <1>8, <1>10, <2>1
  <2>3. n \in Group(n)' <=> Kept(n)'
    BY <1>7, <1>8, <1>10
  <2>4. n \notin Group(lineno) /\ \A m \in Group(lineno) : m \in 1..lineno
    BY <1>8, <2>1
  <2>5. \A m \in Group(n)' : m \in 1..lineno \/ m = n
    BY <1>7, <1>8
  <2> QED BY <2>2, <2>3, <2>4, <2>5
<1> QED BY <1>4, <1>5, <1>6, <1>9, <1>10

(* What happens to the section and the last header. *)
LEMMA SectionMoves ==
  ASSUME Outside, NEW n, n = lineno + 1
  PROVE  /\ IsConditional(n) => include_state'.section = 0 /\ include_state'.last_header = <<>>
         /\ ~ IsConditional(n) /\ ~ Kept(n)' =>
              /\ include_state'.section = include_state.section
              /\ include_state'.last_header = include_state.last_header
         /\ Kept(n)' =>
              LET own == PlaceOf(n, Group(lineno) \cup {n})
              IN  /\ include_state'.section =
                       IF own < include_state.section THEN include_state.section ELSE own
                  /\ include_state'.last_header = CanonicalizeAlphabeticalOrder(lines[n].include)
<1>1. /\ lineno \in Nat /\ n \in 1..Len(lines) /\ SectionInv /\ ListInv
      /\ IsIncludeState(include_state) /\ TypeInv
  BY OutsideLine DEF Outside
<1>2. include_state' = Checked(n).state
  BY OutsideStep
<1>3. include_state.include_list # <<>>
  BY <1>1 DEF ListInv
<1>4. CASE lines[n].include = <<>> /\ IsConditional(n)
  <2>1. include_state' = ResetSection(include_state, Head(lines[n].toks))
    BY <1>2, <1>4, OtherChecked DEF IsConditional
  <2>2. include_state'.section = 0 /\ include_state'.last_header = <<>>
    BY <2>1 DEF ResetSection, IncludeStateInit, SectionOrder
  <2>3. ~ Kept(n)'
    BY <1>4, OutsideViews
  <2> QED BY <1>4, <2>2, <2>3
<1>5. CASE lines[n].include = <<>> /\ ~ IsConditional(n)
  <2>1. include_state' = include_state
    BY <1>2, <1>5, OtherChecked DEF IsConditional
  <2>2. ~ Kept(n)'
    BY <1>5, OutsideViews
  <2> QED BY <1>5, <2>1, <2>2
<1>6. CASE lines[n].include # <<>>
  <2>1. Included(n)
    BY <1>1, <1>3, <1>6 DEF Included
  <2>2. Kept(n)' <=> ~ IsThirdParty(lines[n].include) /\ ~ Known(n)
    BY <1>6, OutsideViews
  <2>3. ~ IsConditional(n)
    BY <1>1, <1>6, IncludeLine DEF IsConditional
  <2>4. CASE ~ Kept(n)'
    <3>1. include_state' = include_state
      BY <1>2, <2>1, <2>2, <2>4, IncludeChecked
    <3> QED BY <2>3, <2>4, <3>1
  <2>5. CASE Kept(n)'
    <3>1. include_state' = OrderInclude(file, include_state, lines, n).state
      BY <1>2, <2>1, <2>2, <2>5, IncludeChecked
    <3> DEFINE own == SectionOf(n, include_state.section)
    <3>2. /\ include_state'.section =
                IF own < include_state.section THEN include_state.section ELSE own
          /\ include_state'.last_header = CanonicalizeAlphabeticalOrder(lines[n].include)
      <4> DEFINE list == include_state.include_list
                 next == IF own < include_state.section THEN include_state.section ELSE own
                 canonical == CanonicalizeAlphabeticalOrder(lines[n].include)
                 longer == [list EXCEPT ![Len(list)] = Append(@, Entry(n))]
      <4>1. OrderInclude(file, include_state, lines, n).state =
              [include_list |-> longer, section |-> next, last_header |-> canonical]
        BY <1>1, <1>3, <1>6, OrderResult
      <4> HIDE DEF longer, next, canonical
      <4>2. include_state'.section = next /\ include_state'.last_header = canonical
        BY <3>1, <4>1
      <4> QED BY <4>2 DEF next, canonical
    <3>3. own = PlaceOf(n, Group(lineno) \cup {n})
      BY <1>1, <1>6, SectionPlace
    <3> HIDE DEF own
    <3> QED BY <2>3, <2>5, <3>2, <3>3
  <2> QED BY <2>4, <2>5
<1> QED BY <1>4, <1>5, <1>6

LEMMA SectionStep ==
  ASSUME Outside
  PROVE  SectionInv'
<1> PICK n : n = lineno + 1
  OBVIOUS
<1>1. /\ lineno \in Nat /\ lineno' = n /\ n \in 1..Len(lines) /\ n \in Nat /\ lines' = lines
      /\ file' = file /\ IsIncludeState(include_state) /\ SectionInv /\ lines \in Seq(LineType)
  BY OutsideLine
<1> DEFINE group == Group(lineno)
           new == Group(n)'
           section == include_state.section
           next == include_state'.section
           last == include_state'.last_header
<1>2. /\ section \in 0..4 /\ (section = 0 <=> group = {}) /\ (\A m \in group : Place(m) <= section)
      /\ group = {} => include_state.last_header = <<>>
      /\ group # {} =>
           /\ \E m \in group : Place(m) = section
           /\ include_state.last_header = CanonicalizeAlphabeticalOrder(lines[Max(group)].include)
  BY <1>1 DEF SectionInv, IsIncludeState
<1>3. /\ \A m \in group : m \in 1..lineno /\ Place(m)' = Place(m)
      /\ Group(lineno)' = new
      /\ IsConditional(n) => new = {}
      /\ ~ IsConditional(n) => new = IF Kept(n)' THEN group \cup {n} ELSE group
  BY GroupStep
<1> SUFFICES /\ next = 0 <=> new = {}
             /\ \A m \in new : Place(m)' <= next
             /\ new = {} => last = <<>>
             /\ new # {} => /\ \E m \in new : Place(m)' = next
                            /\ last = CanonicalizeAlphabeticalOrder(lines[Max(new)].include)
  BY <1>1, <1>3 DEF SectionInv
<1>4. CASE IsConditional(n)
  BY <1>3, <1>4, SectionMoves
<1>5. CASE ~ IsConditional(n) /\ ~ Kept(n)'
  <2>1. new = group /\ next = section /\ last = include_state.last_header
    BY <1>3, <1>5, SectionMoves
  <2> HIDE DEF new, next, section, last, group
  <2>2. \A m \in group : Place(m)' = Place(m)
    BY <1>3
  <2> QED BY <1>2, <2>1, <2>2 DEF new, next, section, last, group
<1>6. CASE ~ IsConditional(n) /\ Kept(n)'
  <2> DEFINE own == PlaceOf(n, group \cup {n})
  <2>1. new = group \cup {n} /\ n \in new
    BY <1>3, <1>6
  <2>2. /\ next = IF own < section THEN section ELSE own
        /\ last = CanonicalizeAlphabeticalOrder(lines[n].include)
    BY <1>6, SectionMoves
  <2>3. own \in 1..4
    BY PlaceRange
  <2>4. Place(n)' = own
    <3>1. lines[n] \in LineType
      BY <1>1
    <3>2. lines[n].system \in BOOLEAN
      BY <3>1 DEF LineType
    <3>3. Place(n)' = PlaceOf(n, new)
      BY <1>1, <3>2, PlaceIs
    <3> QED BY <2>1, <3>3
  <2>5. Max(new) = n
    <3>1. \A m \in new : m <= n
      BY <1>1, <1>3, <2>1
    <3>2. \A m \in new : m >= n => m = n
      BY <1>1, <1>3, <2>1
    <3>3. \A m \in new : n >= m
      BY <1>1, <1>3, <2>1
    <3> HIDE DEF new
    <3>4. n \in new
      BY <2>1
    <3> QED BY <3>2, <3>3, <3>4 DEF Max
  <2> HIDE DEF own, next, section, last, new, group
  <2>6. next \in 1..4 /\ own <= next /\ section <= next
    BY <1>2, <2>2, <2>3 DEF section
  <2>7. \A m \in group : Place(m)' <= section
    BY <1>2, <1>3 DEF section, group
  <2>8. \A m \in group : Place(m)' \in Int
    <3>1. ASSUME NEW m \in group PROVE Place(m)' \in Int
      <4>1. lines[m] \in LineType
        BY <1>1, <1>3 DEF group
      <4>2. lines[m].system \in BOOLEAN
        BY <4>1 DEF LineType
      <4>3. Place(m)' = PlaceOf(m, Group(m)')
        BY <1>1, <4>2, PlaceIs
      <4>4. PlaceOf(m, Group(m)') \in 1..4
        BY PlaceRange
      <4> QED BY <4>3, <4>4
    <3> QED BY <3>1
  <2>9. \A m \in new : Place(m)' <= next
    <3>1. section \in Int
      BY <1>2 DEF section
    <3>2. ASSUME NEW m \in group PROVE Place(m)' <= next
      BY <2>6, <2>7, <2>8, <3>1
    <3> QED BY <2>1, <2>4, <2>6, <3>2
  <2>10. \E m \in new : Place(m)' = next
    <3>1. CASE own < section
      <4>1. next = section /\ section # 0
        BY <2>2, <2>3, <3>1
      <4>2. group # {}
        BY <1>2, <4>1 DEF section, group
      <4>3. PICK m \in group : Place(m) = section
        BY <1>2, <4>2 DEF section, group
      <4>4. Place(m)' = next /\ m \in new
        BY <1>3, <2>1, <4>1, <4>3 DEF group
      <4> QED BY <4>4
    <3>2. CASE ~ (own < section)
      BY <2>1, <2>2, <2>4, <3>2
    <3> QED BY <3>1, <3>2
  <2>11. next # 0 /\ new # {}
    BY <2>1, <2>6
  <2> QED BY <2>2, <2>5, <2>9, <2>10, <2>11 DEF next, last, new
<1> QED BY <1>4, <1>5, <1>6

(* What is known of an include that was let pass. *)
LEMMA PassedLine ==
  ASSUME Outside, NEW n, n = lineno + 1, n \in Group(n)'
  PROVE  LET group == Group(lineno)
             section == include_state.section
             own == PlaceOf(n, group \cup {n})
             canonical == CanonicalizeAlphabeticalOrder(lines[n].include)
             last == IF own = section THEN include_state.last_header ELSE <<>>
             previous == n > 1 /\ lines[n - 1].include # <<>>
         IN  /\ own \in 1..4 /\ Place(n)' = own
             /\ Group(n)' = group \cup {n} /\ \A m \in group : m < n
             /\ \A m \in group : Place(m)' = Place(m) /\ Place(m) \in 1..4 /\ Place(m) <= section
             /\ Reported(n, "build/include_order")' <=> own < section
             /\ Reported(n, "build/include_alpha")' <=> LessPath(canonical, last) /\ previous
<1>1. /\ lineno \in Nat /\ lineno' = n /\ n \in 1..Len(lines) /\ n \in Nat /\ lines' = lines
      /\ file' = file /\ IsIncludeState(include_state) /\ SectionInv /\ lines \in Seq(LineType)
      /\ TypeInv
  BY OutsideLine DEF Outside
<1> DEFINE group == Group(lineno)
           section == include_state.section
           own == PlaceOf(n, group \cup {n})
<1>2. /\ \A m \in group : m \in 1..lineno /\ Place(m)' = Place(m)
      /\ Kept(n)' /\ Group(n)' = group \cup {n}
  <2>1. ~ IsConditional(n)
    BY GroupStep
  <2>2. Group(n)' = IF Kept(n)' THEN group \cup {n} ELSE group
    BY <2>1, GroupStep
  <2>3. \A m \in group : m \in 1..lineno /\ Place(m)' = Place(m)
    BY GroupStep
  <2>4. n \notin group
    BY <1>1, <2>3
  <2> HIDE DEF group
  <2>5. Kept(n)'
    BY <2>2, <2>4
  <2> QED BY <2>2, <2>3, <2>5
<1>3. /\ lines[n].include # <<>> /\ ~ IsThirdParty(lines[n].include) /\ ~ Known(n)
  BY <1>2, OutsideViews
<1>4. own \in 1..4 /\ own = SectionOf(n, section)
  BY <1>1, <1>3, SectionPlace, PlaceRange
<1>5. ASSUME NEW m \in 1..Len(lines)
      PROVE  /\ Place(m) = PlaceOf(m, Group(m)) /\ Place(m)' = PlaceOf(m, Group(m)')
             /\ Place(m) \in 1..4
  <2>1. lines[m] \in LineType
    BY <1>1
  <2>2. lines[m].system \in BOOLEAN
    BY <2>1 DEF LineType
  <2>3. Place(m) = PlaceOf(m, Group(m)) /\ Place(m)' = PlaceOf(m, Group(m)')
    BY <1>1, <2>2, PlaceIs
  <2> QED BY <2>3, PlaceRange
<1>6. Place(n)' = own
  BY <1>1, <1>2, <1>5
<1>7. \A m \in group : m \in 1..Len(lines) /\ m < n
  BY <1>1, <1>2
<1>8. \A m \in group : Place(m)' = Place(m) /\ Place(m) \in 1..4 /\ Place(m) <= section
  BY <1>1, <1>2, <1>5, <1>7 DEF SectionInv
<1> HIDE DEF own, group
<1>9. LET canonical == CanonicalizeAlphabeticalOrder(lines[n].include)
          last == IF own = section THEN include_state.last_header ELSE <<>>
          previous == n > 1 /\ lines[n - 1].include # <<>>
      IN  /\ Reported(n, "build/include_order")' <=> own < section
          /\ Reported(n, "build/include_alpha")' <=> LessPath(canonical, last) /\ previous
  BY <1>3, <1>4, OutsideReports
<1> QED BY <1>2, <1>4, <1>6, <1>7, <1>8, <1>9 DEF own, group

LEMMA OrderStep ==
  ASSUME Outside
  PROVE  SectionsInOrder'
<1> PICK n : n = lineno + 1
  OBVIOUS
<1>1. lineno' = n /\ lineno \in Nat /\ n \in Nat /\ SectionInv /\ IsIncludeState(include_state)
  BY OutsideLine
<1>2. /\ Group(lineno)' = Group(n)' /\ Place(lineno)' = Place(n)'
      /\ Reported(lineno, "build/include_order")' <=> Reported(n, "build/include_order")'
  BY <1>1
<1> SUFFICES ASSUME n \in Group(n)'
    PROVE    Reported(n, "build/include_order")' <=>
               \E m \in Group(n)' : m < n /\ Place(m)' > Place(n)'
  BY <1>1, <1>2 DEF SectionsInOrder
<1> DEFINE group == Group(lineno)
           section == include_state.section
           own == PlaceOf(n, group \cup {n})
<1>3. /\ own \in 1..4 /\ Place(n)' = own
      /\ Group(n)' = group \cup {n} /\ \A m \in group : m < n
      /\ \A m \in group : Place(m)' = Place(m) /\ Place(m) \in 1..4 /\ Place(m) <= section
      /\ Reported(n, "build/include_order")' <=> own < section
  BY PassedLine
<1>4. /\ section \in 0..4 /\ (section = 0 <=> group = {})
      /\ group # {} => \E m \in group : Place(m) = section
  BY <1>1 DEF SectionInv, IsIncludeState
<1> HIDE DEF group, section, own
<1>5. ASSUME own < section PROVE \E m \in Group(n)' : m < n /\ Place(m)' > Place(n)'
  <2>1. group # {}
    BY <1>3, <1>4, <1>5
  <2>2. PICK m \in group : Place(m) = section
    BY <1>4, <2>1
  <2>3. m \in Group(n)' /\ m < n /\ Place(m)' > Place(n)'
    BY <1>3, <1>4, <1>5, <2>2
  <2> QED BY <2>3
<1>6. ASSUME NEW m \in Group(n)', m < n, Place(m)' > Place(n)' PROVE own < section
  <2>1. m \in group
    BY <1>1, <1>3, <1>6
  <2>2. Place(m) \in 1..4 /\ Place(m) <= section /\ Place(m) > own
    BY <1>3, <1>6, <2>1
  <2> QED BY <1>3, <1>4, <2>2
<1> QED BY <1>3, <1>5, <1>6

LEMMA NothingBelow ==
  ASSUME NEW path
  PROVE  ~ LessPath(path, <<>>)
BY DEF LessPath

(* AlphaAgrees of line n, where m is the one before it. *)
AlphaOf(n, m) ==
  LET before == Group(n) \ {n}
      late == \E j \in Group(m) : j < m /\ Place(j) > Place(m)
  IN  before = {} \/ ~ late =>
        (Reported(n, "build/include_alpha") <=>
           /\ before # {} /\ Place(m) = Place(n)
           /\ lines[n - 1].include # <<>>
           /\ LessPath(CanonicalizeAlphabeticalOrder(lines[n].include),
                       CanonicalizeAlphabeticalOrder(lines[m].include)))

LEMMA AlphaStep ==
  ASSUME Outside
  PROVE  AlphaAgrees'
<1> PICK n : n = lineno + 1
  OBVIOUS
<1> PICK m : m = Max(Group(n)' \ {n})
  OBVIOUS
<1>1. /\ lineno' = n /\ lineno \in Nat /\ n \in Nat /\ lines' = lines /\ SectionInv
      /\ IsIncludeState(include_state)
  BY OutsideLine
<1> SUFFICES ASSUME n \in Group(n)' PROVE AlphaOf(n, m)'
  BY <1>1 DEF AlphaAgrees, AlphaOf
<1> DEFINE group == Group(lineno)
           section == include_state.section
           own == PlaceOf(n, group \cup {n})
           canonical == CanonicalizeAlphabeticalOrder(lines[n].include)
           latest == CanonicalizeAlphabeticalOrder(lines[m].include)
           last == IF own = section THEN include_state.last_header ELSE <<>>
           previous == lines[n - 1].include # <<>>
           late == \E j \in Group(m)' : j < m /\ Place(j)' > Place(m)'
           reported == Reported(n, "build/include_alpha")'
<1>2. /\ own \in 1..4 /\ Place(n)' = own
      /\ Group(n)' \ {n} = group /\ \A k \in group : k < n
      /\ \A k \in group : Place(k)' = Place(k) /\ Place(k) \in 1..4 /\ Place(k) <= section
      /\ reported <=> LessPath(canonical, last) /\ n > 1 /\ previous
  <2>1. /\ own \in 1..4 /\ Place(n)' = own
        /\ Group(n)' = group \cup {n} /\ \A k \in group : k < n
        /\ \A k \in group : Place(k)' = Place(k) /\ Place(k) \in 1..4 /\ Place(k) <= section
        /\ reported <=> LessPath(canonical, last) /\ n > 1 /\ previous
    BY PassedLine
  <2>2. n \notin group
    <3> HIDE DEF group
    <3> QED BY <1>1, <2>1
  <2> HIDE DEF own, group, section, canonical, last, previous, reported
  <2> QED BY <2>1, <2>2
<1>3. /\ section \in 0..4 /\ (section = 0 <=> group = {})
      /\ group # {} =>
           /\ \E k \in group : Place(k) = section
           /\ include_state.last_header = CanonicalizeAlphabeticalOrder(lines[Max(group)].include)
  BY <1>1 DEF SectionInv, IsIncludeState
<1>4. \A k \in group : k \in 1..lineno /\ Group(k)' = Group(k)
  <2>1. \A k \in 0..lineno : Group(k)' = Group(k)
    BY GroupStep
  <2>2. \A k \in group : k \in 1..lineno
    BY GroupStep
  <2>3. 1..lineno \subseteq 0..lineno
    BY <1>1
  <2> QED BY <2>1, <2>2, <2>3
<1>5. group = {} => ~ reported
  <2> SUFFICES ASSUME group = {} PROVE ~ reported
    OBVIOUS
  <2>1. last = <<>>
    BY <1>2, <1>3
  <2> HIDE DEF last, reported
  <2> QED BY <1>2, <2>1, NothingBelow
<1> HIDE DEF own, section, previous, reported, latest, canonical
<1>6. ASSUME group # {}, ~ late
      PROVE  reported <=> Place(m)' = Place(n)' /\ previous /\ LessPath(canonical, latest)
  <2>1. group \subseteq 1..lineno
    BY <1>4
  <2>2. m \in group /\ \A k \in group : k <= m
    <3> HIDE DEF group
    <3>1. Max(group) \in group /\ \A k \in group : k <= Max(group)
      BY <1>1, <1>6, <2>1, PlacesIn
    <3> QED BY <1>2, <3>1
  <2>3. include_state.last_header = latest
    BY <1>2, <1>3, <1>6 DEF latest
  <2>4. \A k : k \in Group(m) <=> k \in group /\ k <= m
    BY <1>1, <2>2, GroupWithin DEF group
  <2> HIDE DEF group
  <2>5. PICK k \in group : Place(k) = section
    BY <1>3, <1>6
  <2>6. Place(m) = section
    <3>1. k \in Group(m)'
      BY <1>4, <2>2, <2>4
    <3>2. CASE k = m
      BY <2>5, <3>2
    <3>3. CASE k # m
      <4>1. k < m
        BY <1>1, <2>1, <2>2, <3>3
      <4>2. ~ (Place(k)' > Place(m)')
        BY <1>6, <3>1, <4>1
      <4>3. Place(m) \in 1..4 /\ Place(m) <= section /\ Place(m)' = Place(m) /\ Place(k)' = section
        BY <1>2, <2>2, <2>5
      <4> QED BY <1>3, <4>2, <4>3
    <3> QED BY <3>2, <3>3
  <2>7. Place(m)' = section /\ Place(n)' = own
    BY <1>2, <2>2, <2>6
  <2>8. n > 1
    BY <1>1, <2>1, <2>2
  <2>9. CASE own = section
    BY <1>2, <2>3, <2>7, <2>8, <2>9
  <2>10. CASE own # section
    <3>1. last = <<>>
      BY <2>10
    <3> HIDE DEF last
    <3> QED BY <1>2, <2>7, <2>10, <3>1, NothingBelow
  <2> QED BY <2>9, <2>10
<1>7. lines[n - 1]' = lines[n - 1] /\ lines[n]' = lines[n] /\ lines[m]' = lines[m]
  BY <1>1
<1>8. AlphaOf(n, m)' <=>
        (group = {} \/ ~ late =>
           (reported <=> /\ group # {} /\ Place(m)' = Place(n)' /\ previous
                         /\ LessPath(canonical, latest)))
  BY <1>1, <1>2, <1>7 DEF AlphaOf, reported, previous, canonical, latest
<1> HIDE DEF late, group
<1> QED BY <1>5, <1>6, <1>8

(* Before the first line. *)
LEMMA IncludeFirst ==
  ASSUME TypeInv, Guard
  PROVE  IncludeInv'
<1>1. /\ pc = "typing" /\ lineno = 0 /\ lineno' = 0 /\ lines' = lines /\ file' = file /\ kind' = kind
      /\ nesting_state' = NestingStateInit /\ include_state' = IncludeStateInit
      /\ errors' = IF Extension(file.name) = <<".", "h">> THEN CheckForHeaderGuard(file, lines) ELSE <<>>
  BY DEF Guard, TypeInv
<1>2. nesting_state' \in NestingType
  <2>1. NestingStateInit.stack = <<>> /\ NestingStateInit.pp_stack = <<>>
    BY DEF NestingStateInit
  <2> QED BY <1>1 DEF NestingStateInit, NestingType
<1>3. IsIncludeState(include_state)'
  BY <1>1 DEF IsIncludeState, IncludeStateInit, SectionOrder
<1>4. errors' \in Seq(GuardErrors)
  <2>1. CASE Extension(file.name) = <<".", "h">>
    <3>1. /\ file.guard \in Seq(STRING)
          /\ file.guard = GetHeaderGuardCPPVariable(file.disk, file.name, file.root)
      BY <2>1, SettingsAssumption DEF TypeInv
    <3>2. CheckForHeaderGuard(file, lines) \in Seq(GuardErrors)
      BY <3>1, LinesTyped, GuardCheck
    <3> QED BY <1>1, <2>1, <3>2
  <2>2. CASE Extension(file.name) # <<".", "h">>
    BY <1>1, <2>2
  <2> QED BY <2>1, <2>2
<1>5. ReportsInv'
  <2>1. GuardErrors \subseteq ErrorType
    BY DEF GuardErrors
  <2>2. errors' \in Seq(ErrorType)
    BY <1>4, <2>1
  <2>3. \A i \in DOMAIN errors' : errors'[i].category \notin IncludeCategories
    BY <1>4, CategoriesAre DEF GuardErrors
  <2> QED BY <2>2, <2>3 DEF ReportsInv
<1>6. /\ CurrentLines(lineno)' = {} /\ EarlierLines(lineno)' = {} /\ Group(lineno)' = {}
      /\ 1..lineno' = {}
  BY <1>1 DEF CurrentLines, EarlierLines, Group
<1>7. ListInv'
  <2>1. /\ include_state'.include_list = << <<>> >>
    BY <1>1 DEF IncludeStateInit
  <2>2. EntriesOf({})' = {}
    BY DEF EntriesOf
  <2>3. /\ << <<>> >> # <<>> /\ ToSet(Last(<< <<>> >>)) = {} /\ EarlierEntries(<< <<>> >>) = {}
    BY DEF ToSet, Last, EarlierEntries
  <2> QED BY <1>6, <2>1, <2>2, <2>3 DEF ListInv
<1>8. RefusedInv'
  BY <1>6 DEF RefusedInv
<1>9. SectionInv'
  BY <1>1, <1>6 DEF SectionInv, IncludeStateInit, SectionOrder
<1>10. SectionsInOrder' /\ AlphaAgrees'
  BY <1>6 DEF SectionsInOrder, AlphaAgrees
<1> QED BY <1>2, <1>3, <1>5, <1>7, <1>8, <1>9, <1>10 DEF IncludeInv

LEMMA IncludeStutters ==
  ASSUME IncludeInv, UNCHANGED vars
  PROVE  IncludeInv'
<1>1. /\ kind' = kind /\ file' = file /\ lines' = lines /\ pc' = pc /\ lineno' = lineno
      /\ nesting_state' = nesting_state /\ include_state' = include_state /\ errors' = errors
  BY DEF vars
<1>2. NoAssembly' <=> NoAssembly
  BY <1>1 DEF NoAssembly
<1>3. \A m, c : Reports(m, c)' = Reports(m, c) /\ (Reported(m, c)' <=> Reported(m, c))
  BY <1>1 DEF Reports, Reported
<1>4. \A m : (Refused(m)' <=> Refused(m)) /\ (Kept(m)' <=> Kept(m))
  BY <1>1, <1>3 DEF Refused, Kept
<1>5. \A m, n : (Current(m, n)' <=> Current(m, n)) /\ (Dropped(m, n)' <=> Dropped(m, n))
  BY <1>1 DEF Current, Dropped, IsIf, IsElse
<1>6. \A n : Group(n)' = Group(n)
  BY <1>1, <1>4 DEF Group
<1>7. \A m : (IsOwn(m)' <=> IsOwn(m)) /\ Entry(m)' = Entry(m) /\ (Foreign(m)' <=> Foreign(m))
  BY <1>1 DEF IsOwn, Entry, Foreign
<1>8. \A m : Place(m)' = Place(m)
  BY <1>1, <1>6, <1>7 DEF Place
<1>9. ReportsInv => ReportsInv'
  BY <1>1 DEF ReportsInv
<1>10. ListInv => ListInv'
  <2>1. \A n : CurrentLines(n)' = CurrentLines(n) /\ EarlierLines(n)' = EarlierLines(n)
    BY <1>4, <1>5 DEF CurrentLines, EarlierLines
  <2>2. \A S : EntriesOf(S)' = EntriesOf(S)
    BY <1>7 DEF EntriesOf
  <2> QED BY <1>1, <2>1, <2>2 DEF ListInv
<1>11. RefusedInv => RefusedInv'
  <2>1. \A j, m : RefusedBy(j, m)' <=> RefusedBy(j, m)
    BY <1>1, <1>4, <1>5 DEF RefusedBy, Same
  <2> QED BY <1>1, <1>4, <1>7, <2>1 DEF RefusedInv
<1>12. SectionInv => SectionInv'
  BY <1>1, <1>6, <1>8 DEF SectionInv
<1>13. SectionsInOrder => SectionsInOrder'
  BY <1>1, <1>3, <1>6, <1>8 DEF SectionsInOrder
<1>14. AlphaAgrees => AlphaAgrees'
  BY <1>1, <1>3, <1>6, <1>8 DEF AlphaAgrees
<1>15. IsIncludeState(include_state) => IsIncludeState(include_state)'
  BY <1>1
<1> QED BY <1>1, <1>2, <1>9, <1>10, <1>11, <1>12, <1>13, <1>14, <1>15 DEF IncludeInv

LEMMA IncludeStep == TypeInv /\ IncludeInv /\ [Next]_vars => IncludeInv'
<1> SUFFICES ASSUME TypeInv, IncludeInv, [Next]_vars PROVE IncludeInv'
  OBVIOUS
<1>1. ASSUME NEW line \in Alphabets[kind], Type(line) PROVE IncludeInv'
  BY <1>1 DEF Type, IncludeInv
<1>2. CASE Guard
  BY <1>2, IncludeFirst
<1>3. CASE ProcessLine
  <2> SUFFICES ASSUME NoAssembly' PROVE IncludeInv'
    BY DEF IncludeInv
  <2>1. NoAssembly
    BY <1>3 DEF ProcessLine, NoAssembly
  <2>2. Outside
    BY <1>3, <2>1 DEF Outside
  <2>3. nesting_state' \in NestingType /\ IsIncludeState(include_state)' /\ ListInv'
    BY <2>2, OutsideStep, ListStep
  <2>4. ReportsInv' /\ RefusedInv' /\ SectionInv' /\ SectionsInOrder' /\ AlphaAgrees'
    BY <2>2, ReportsStep, RefusedStep, SectionStep, OrderStep, AlphaStep
  <2> QED BY <2>3, <2>4 DEF IncludeInv
<1>4. CASE EndOfFile
  BY <1>4 DEF EndOfFile, IncludeInv
<1>5. CASE UNCHANGED vars
  BY <1>5, IncludeStutters
<1> QED BY <1>1, <1>2, <1>3, <1>4, <1>5 DEF Next

-----------------------------------------------------------------------------
(* The branches that lines are in. *)

Crumb == [opened: Nat, branch: Nat]

LEMMA FollowTyped ==
  ASSUME NEW before \in Seq(Crumb), NEW n \in Nat
  PROVE  Follow(before, n) \in Seq(Crumb)
<1> DEFINE opened == [opened |-> n, branch |-> 1]
           next == [Last(before) EXCEPT !.branch = @ + 1]
<1>1. opened \in Crumb
  BY DEF Crumb
<1> HIDE DEF opened
<1>2. Append(before, opened) \in Seq(Crumb)
  BY <1>1
<1>3. before # <<>> => Front(before) \in Seq(Crumb) /\ Append(Front(before), next) \in Seq(Crumb)
  <2> SUFFICES ASSUME before # <<>>
      PROVE Front(before) \in Seq(Crumb) /\ Append(Front(before), next) \in Seq(Crumb)
    OBVIOUS
  <2>1. Front(before) \in Seq(Crumb) /\ Last(before) \in Crumb
    BY FrontLast
  <2>2. next \in Crumb
    <3>1. ASSUME NEW c \in Crumb PROVE [c EXCEPT !.branch = @ + 1] \in Crumb
      BY DEF Crumb
    <3> QED BY <2>1, <3>1
  <2> HIDE DEF next
  <2> QED BY <2>1, <2>2
<1>4. CASE Begins(lines[n], Ifs)
  <2>1. ~ Begins(lines[n], {"#else"}) /\ ~ Begins(lines[n], {"#endif"})
    BY <1>4 DEF Begins, Ifs
  <2> QED BY <1>2, <1>4, <2>1 DEF Follow, opened
<1>5. CASE Begins(lines[n], {"#else"}) /\ before # <<>>
  <2>1. ~ Begins(lines[n], Ifs) /\ ~ Begins(lines[n], {"#endif"})
    BY <1>5 DEF Begins, Ifs
  <2> HIDE DEF next
  <2>2. Follow(before, n) = Append(Front(before), next)
    BY <1>5, <2>1 DEF Follow, next
  <2> QED BY <1>3, <1>5, <2>2
<1>6. CASE Begins(lines[n], {"#endif"}) /\ before # <<>>
  <2>1. ~ Begins(lines[n], Ifs) /\ ~ Begins(lines[n], {"#else"})
    BY <1>6 DEF Begins, Ifs
  <2>2. Follow(before, n) = Front(before)
    BY <1>6, <2>1 DEF Follow
  <2> QED BY <1>3, <1>6, <2>2
<1>7. CASE /\ ~ Begins(lines[n], Ifs)
           /\ ~ (Begins(lines[n], {"#else"}) /\ before # <<>>)
           /\ ~ (Begins(lines[n], {"#endif"}) /\ before # <<>>)
  <2>1. Follow(before, n) = before
    BY <1>7 DEF Follow
  <2> QED BY <2>1
<1> QED BY <1>4, <1>5, <1>6, <1>7

LEMMA PathsAre ==
  ASSUME Len(lines) \in Nat
  PROVE  /\ Paths[0] = <<>>
         /\ \A n \in 1..Len(lines) : Paths[n] = Follow(Paths[n - 1], n)
         /\ \A n \in 0..Len(lines) : Paths[n] \in Seq(Crumb)
<1> DEFINE N == Len(lines)
           D == Seq(Crumb)
           step == [i \in 1..N |-> [p \in D |-> Follow(p, i)]]
           Body(g) == [i \in 0..N |-> IF i = 0 THEN <<>> ELSE Follow(g[i - 1], i)]
           f == CHOOSE g : g = Body(g)
<1>1. N \in Nat /\ <<>> \in D
  OBVIOUS
<1>2. Steps(N, D, <<>>, step)
  <2>1. ASSUME NEW i \in 1..N, NEW p \in D PROVE Follow(p, i) \in D
    <3>1. i \in Nat
      BY <1>1
    <3> QED BY <3>1, FollowTyped
  <2> HIDE DEF N, D
  <2> QED BY <1>1, <2>1 DEF Steps
<1> HIDE DEF N, D
<1>3. PICK h : Recurs(h, N, D, <<>>, step)
  <2> HIDE DEF step
  <2> QED BY <1>2, Recursion
<1>4. h = Body(h)
  <2>1. ASSUME NEW i \in 0..N PROVE h[i] = IF i = 0 THEN <<>> ELSE Follow(h[i - 1], i)
    <3>1. CASE i = 0
      BY <1>3, <3>1 DEF Recurs
    <3>2. CASE i \in 1..N
      <4>1. h[i - 1] \in D /\ i # 0
        BY <1>1, <1>3, <3>2 DEF Recurs
      <4> QED BY <1>3, <3>2, <4>1 DEF Recurs
    <3> QED BY <1>1, <3>1, <3>2
  <2>2. h \in [0..N -> D]
    BY <1>3 DEF Recurs
  <2> QED BY <2>1, <2>2
<1>5. f = Body(f)
  BY <1>4
<1>6. Paths = f
  BY DEF Paths, N
<1> HIDE DEF f
<1>7. f[0] = <<>>
  BY <1>1, <1>5
<1>8. ASSUME NEW i \in 1..N PROVE f[i] = Follow(f[i - 1], i)
  <2>1. i \in 0..N /\ i # 0
    BY <1>1
  <2> QED BY <1>5, <2>1
<1>9. ASSUME NEW i \in 1..N, f[i - 1] \in D PROVE f[i] \in D
  <2>1. i \in Nat
    BY <1>1
  <2> QED BY <1>8, <1>9, <2>1, FollowTyped DEF D
<1>10. \A i \in 0..N : f[i] \in D
  BY <1>1, <1>7, <1>9, StaysIn
<1> QED BY <1>6, <1>7, <1>8, <1>10 DEF N, D

(* Where conditionals do not lie in one another: every line is in one      *)
(* branch at most.                                                         *)
LEMMA FlatSteps ==
  ASSUME Flat, Len(lines) \in Nat, NEW n \in 1..Len(lines), lines \in Seq(LineType)
  PROVE  /\ IsIf(n) => Paths[n] = << [opened |-> n, branch |-> 1] >>
         /\ IsElse(n) => \E c \in Crumb : /\ Paths[n - 1] = <<c>>
                                          /\ Paths[n] = << [c EXCEPT !.branch = @ + 1] >>
         /\ ~ IsIf(n) /\ ~ IsElse(n) => Paths[n] \in {<<>>, Paths[n - 1]}
<1> DEFINE p == Paths[n - 1]
           q == Paths[n]
<1>1. n \in Nat /\ n - 1 \in 0..Len(lines) /\ DOMAIN lines = 1..Len(lines)
  OBVIOUS
<1>2. q = Follow(p, n) /\ p \in Seq(Crumb) /\ q \in Seq(Crumb)
  BY <1>1, PathsAre
<1>3. Len(q) < 2 /\ (IsElse(n) => p # <<>>)
  BY <1>1 DEF Flat, IsElse
<1>4. Len(p) < 2
  <2>1. CASE n = 1
    BY <2>1, PathsAre
  <2>2. CASE n # 1
    BY <1>1, <2>2 DEF Flat
  <2> QED BY <2>1, <2>2
<1> HIDE DEF p, q
<1>5. p # <<>> => /\ \E c \in Crumb : p = <<c>>
                  /\ Front(p) = <<>> /\ Last(p) = p[1]
  <2> SUFFICES ASSUME p # <<>>
      PROVE  (\E c \in Crumb : p = <<c>>) /\ Front(p) = <<>> /\ Last(p) = p[1]
    OBVIOUS
  <2>1. Len(p) = 1
    <3>1. Len(p) \in Nat \ {0}
      BY <1>2, FrontLast
    <3>2. \A k \in Nat \ {0} : k < 2 => k = 1
      OBVIOUS
    <3> QED BY <1>4, <3>1, <3>2, Zenon
  <2>2. p[1] \in Crumb /\ p = <<p[1]>>
    BY <1>2, <2>1
  <2>3. Front(p) \in Seq(Crumb) /\ Len(Front(p)) = 0
    BY <1>2, <2>1, FrontLast
  <2>4. Front(p) = <<>>
    BY <2>3
  <2>5. Last(p) = p[1]
    BY <2>1 DEF Last
  <2> QED BY <2>2, <2>4, <2>5
<1>6. ASSUME IsIf(n) PROVE q = << [opened |-> n, branch |-> 1] >>
  <2> DEFINE opened == [opened |-> n, branch |-> 1]
  <2>1. ~ Begins(lines[n], {"#else"}) /\ ~ Begins(lines[n], {"#endif"}) /\ Begins(lines[n], Ifs)
    BY <1>6 DEF IsIf, Begins, Ifs
  <2> HIDE DEF opened
  <2>2. q = Append(p, opened)
    BY <1>2, <2>1 DEF Follow, opened
  <2>3. p = <<>>
    BY <1>2, <1>3, <1>4, <2>2
  <2>4. q = <<opened>>
    BY <2>2, <2>3
  <2> QED BY <2>4 DEF opened
<1>7. ASSUME IsElse(n)
      PROVE  \E c \in Crumb : p = <<c>> /\ q = << [c EXCEPT !.branch = @ + 1] >>
  <2>1. PICK c \in Crumb : p = <<c>>
    BY <1>3, <1>5, <1>7
  <2>2. ~ Begins(lines[n], Ifs) /\ ~ Begins(lines[n], {"#endif"}) /\ Begins(lines[n], {"#else"})
    BY <1>7 DEF IsElse, Begins, Ifs
  <2> DEFINE next == [Last(p) EXCEPT !.branch = @ + 1]
             turned == [c EXCEPT !.branch = @ + 1]
  <2>3. q = Append(Front(p), next)
    <3> HIDE DEF next
    <3> QED BY <1>2, <1>3, <1>7, <2>2 DEF Follow, next
  <2>4. Front(p) = <<>> /\ Last(p) = c
    BY <1>3, <1>5, <1>7, <2>1
  <2>5. next = turned
    BY <2>4
  <2> HIDE DEF next, turned
  <2>6. q = <<turned>>
    BY <2>3, <2>4, <2>5
  <2> QED BY <2>1, <2>6 DEF turned
<1>8. ASSUME ~ IsIf(n), ~ IsElse(n) PROVE q \in {<<>>, p}
  <2>1. q = Front(p) \/ q = p
    BY <1>2, <1>8 DEF Follow, IsIf, IsElse
  <2>2. CASE p = <<>>
    <3>1. q = p
      BY <1>2, <1>8, <2>2 DEF Follow, IsIf, IsElse
    <3> QED BY <3>1
  <2>3. CASE p # <<>>
    BY <1>5, <2>1, <2>3
  <2> QED BY <2>2, <2>3
<1> QED BY <1>6, <1>7, <1>8 DEF p, q

(* What became of the branch of line j at line n. *)
Turned(c, d, j, n) ==
  /\ d.opened = c.opened
  /\ d = c \/ (d.branch > c.branch /\ \E k \in (j + 1)..n : IsElse(k))
  /\ \A k \in (j + 1)..n : ~ IsIf(k)

WalkedTo(j, n) ==
  \/ Paths[n] = <<>>
  \/ \E d \in Crumb :
       /\ Paths[n] = <<d>>
       /\ \/ d.opened \in (j + 1)..n /\ IsIf(d.opened)
          \/ \E c \in Crumb : Paths[j] = <<c>> /\ Turned(c, d, j, n)

LEMMA Walk ==
  ASSUME Flat, Len(lines) \in Nat, lines \in Seq(LineType), NEW j \in 0..Len(lines)
  PROVE  \A n \in j..Len(lines) : WalkedTo(j, n)
<1> DEFINE N == Len(lines)
           Good == {i \in Nat : j + i <= N => WalkedTo(j, j + i)}
<1>1. WalkedTo(j, j)
  <2>1. Paths[j] \in Seq(Crumb)
    BY PathsAre
  <2>2. Len(Paths[j]) < 2
    <3>1. CASE j = 0
      BY <3>1, PathsAre
    <3>2. CASE j # 0
      <4>1. j \in DOMAIN lines
        BY <3>2
      <4> QED BY <4>1 DEF Flat
    <3> QED BY <3>1, <3>2
  <2> DEFINE p == Paths[j]
  <2> HIDE DEF p
  <2>3. p = <<>> \/ \E c \in Crumb : p = <<c>>
    BY <2>1, <2>2 DEF p
  <2>4. \A k \in (j + 1)..j : FALSE
    OBVIOUS
  <2> QED BY <2>3, <2>4 DEF p, WalkedTo, Turned
<1>2. ASSUME NEW n \in j..N, n + 1 <= N, WalkedTo(j, n) PROVE WalkedTo(j, n + 1)
  <2>1. n \in Nat /\ n + 1 \in 1..N /\ (n + 1) - 1 = n /\ j \in Nat
    BY <1>2
  <2>2. /\ IsIf(n + 1) => Paths[n + 1] = << [opened |-> n + 1, branch |-> 1] >>
        /\ IsElse(n + 1) => \E c \in Crumb : /\ Paths[n] = <<c>>
                                             /\ Paths[n + 1] = << [c EXCEPT !.branch = @ + 1] >>
        /\ ~ IsIf(n + 1) /\ ~ IsElse(n + 1) => Paths[n + 1] \in {<<>>, Paths[n]}
    BY <2>1, FlatSteps
  <2>3. \A k : k \in (j + 1)..(n + 1) <=> k \in (j + 1)..n \/ k = n + 1
    BY <1>2, <2>1
  <2>4. CASE IsIf(n + 1)
    <3> DEFINE d == [opened |-> n + 1, branch |-> 1]
    <3>1. d \in Crumb /\ d.opened = n + 1
      BY <2>1 DEF Crumb
    <3> HIDE DEF d
    <3>2. Paths[n + 1] = <<d>>
      BY <2>2, <2>4 DEF d
    <3>3. d.opened \in (j + 1)..(n + 1) /\ IsIf(d.opened)
      BY <2>3, <2>4, <3>1
    <3> QED BY <3>1, <3>2, <3>3 DEF WalkedTo
  <2>5. CASE IsElse(n + 1)
    <3>1. PICK d \in Crumb : Paths[n] = <<d>> /\ Paths[n + 1] = << [d EXCEPT !.branch = @ + 1] >>
      BY <2>2, <2>5
    <3> DEFINE e == [d EXCEPT !.branch = @ + 1]
    <3>2. e \in Crumb /\ e.opened = d.opened /\ e.branch = d.branch + 1 /\ d.branch \in Nat
      BY DEF Crumb
    <3> HIDE DEF e
    <3>3. Paths[n + 1] = <<e>>
      BY <3>1 DEF e
    <3>4. ~ IsIf(n + 1)
      BY <2>5 DEF IsIf, IsElse, Begins, Ifs
    <3>5. CASE d.opened \in (j + 1)..n /\ IsIf(d.opened)
      <4>1. e.opened \in (j + 1)..(n + 1) /\ IsIf(e.opened)
        BY <2>3, <3>2, <3>5
      <4> QED BY <3>2, <3>3, <4>1 DEF WalkedTo
    <3>6. CASE \E c \in Crumb : Paths[j] = <<c>> /\ Turned(c, d, j, n)
      <4>1. PICK c \in Crumb : Paths[j] = <<c>> /\ Turned(c, d, j, n)
        BY <3>6
      <4>2. c.branch \in Nat /\ (d = c \/ d.branch > c.branch)
        BY <4>1 DEF Crumb, Turned
      <4>3. e.branch > c.branch
        BY <3>2, <4>2
      <4>4. n + 1 \in (j + 1)..(n + 1)
        BY <2>3
      <4>5. \A k \in (j + 1)..(n + 1) : ~ IsIf(k)
        BY <2>3, <3>4, <4>1 DEF Turned
      <4>6. Turned(c, e, j, n + 1)
        BY <2>5, <3>2, <4>1, <4>3, <4>4, <4>5 DEF Turned
      <4> QED BY <3>2, <3>3, <4>1, <4>6 DEF WalkedTo
    <3>7. \/ d.opened \in (j + 1)..n /\ IsIf(d.opened)
          \/ \E c \in Crumb : Paths[j] = <<c>> /\ Turned(c, d, j, n)
      <4>1. Paths[n] # <<>> /\ \A b : Paths[n] = <<b>> => b = d
        BY <3>1
      <4> QED BY <1>2, <4>1 DEF WalkedTo
    <3> QED BY <3>5, <3>6, <3>7
  <2>6. CASE ~ IsIf(n + 1) /\ ~ IsElse(n + 1)
    <3>1. CASE Paths[n + 1] = <<>>
      BY <3>1 DEF WalkedTo
    <3>2. CASE Paths[n + 1] = Paths[n] /\ Paths[n] # <<>>
      <4>1. PICK d \in Crumb :
               /\ Paths[n] = <<d>>
               /\ \/ d.opened \in (j + 1)..n /\ IsIf(d.opened)
                  \/ \E c \in Crumb : Paths[j] = <<c>> /\ Turned(c, d, j, n)
        BY <1>2, <3>2 DEF WalkedTo
      <4>2. ASSUME NEW c \in Crumb, Turned(c, d, j, n) PROVE Turned(c, d, j, n + 1)
        BY <2>3, <2>6, <4>2 DEF Turned
      <4>3. d.opened \in (j + 1)..n => d.opened \in (j + 1)..(n + 1)
        BY <2>3
      <4> QED BY <3>2, <4>1, <4>2, <4>3 DEF WalkedTo
    <3> QED BY <2>2, <2>6, <3>1, <3>2
  <2> QED BY <2>4, <2>5, <2>6
<1>3. 0 \in Good
  BY <1>1
<1>4. ASSUME NEW i \in Good PROVE i + 1 \in Good
  <2> SUFFICES ASSUME j + (i + 1) <= N PROVE WalkedTo(j, j + (i + 1))
    OBVIOUS
  <2>1. j + i \in j..N /\ (j + i) + 1 = j + (i + 1) /\ j + i <= N
    OBVIOUS
  <2>2. WalkedTo(j, j + i)
    BY <2>1
  <2> HIDE DEF N
  <2> QED BY <1>2, <2>1, <2>2
<1>5. \A i \in Nat : i \in Good
  <2> HIDE DEF Good
  <2>1. Good \in SUBSET Nat
    BY DEF Good
  <2> QED BY <1>3, <1>4, <2>1, Induction
<1>6. ASSUME NEW n \in j..N PROVE WalkedTo(j, n)
  <2>1. n - j \in Nat /\ j + (n - j) = n /\ n <= N
    OBVIOUS
  <2>2. n - j \in Good
    BY <1>5, <2>1
  <2> QED BY <2>1, <2>2
<1> QED BY <1>6

(* A header in the branches that a line is in is listed there. *)
LEMMA BranchListed ==
  ASSUME Flat, TypeInv, NEW n \in 1..Len(lines), NEW m \in 1..n, lines[m].include # <<>>,
         IsPrefix(Paths[m], Paths[n])
  PROVE  ~ Dropped(m, n)
<1>1. lines \in Seq(LineType) /\ Len(lines) \in Nat
  BY LinesTyped
<1> SUFFICES ASSUME NEW k \in m..n, IsElse(k), \A j \in m..k : ~ IsIf(j) PROVE FALSE
  BY DEF Dropped
<1>2. m # k
  <2>1. m \in 1..Len(lines)
    BY <1>1
  <2>2. ~ IsElse(m)
    BY <2>1, IncludeLine
  <2> QED BY <2>2
<1>3. /\ k \in 1..Len(lines) /\ k - 1 \in m..Len(lines) /\ m \in 0..Len(lines) /\ m < k
      /\ n \in k..Len(lines) /\ k \in 0..Len(lines) /\ m \in Nat /\ k \in Nat /\ n \in Nat
      /\ k \in m..Len(lines) /\ m \in 1..Len(lines)
  BY <1>1, <1>2
<1>4. PICK b \in Crumb : Paths[k - 1] = <<b>> /\ Paths[k] = << [b EXCEPT !.branch = @ + 1] >>
  BY <1>1, <1>3, FlatSteps
<1>5. WalkedTo(m, k - 1)
  BY <1>1, <1>3, Walk
<1>6. PICK c \in Crumb : Paths[m] = <<c>> /\ Turned(c, b, m, k - 1)
  <2>1. Paths[k - 1] # <<>> /\ \A d : Paths[k - 1] = <<d>> => d = b
    BY <1>4
  <2>2. ~ (b.opened \in (m + 1)..(k - 1) /\ IsIf(b.opened))
    <3>1. (m + 1)..(k - 1) \subseteq m..k
      BY <1>3
    <3> QED BY <3>1
  <2> QED BY <1>5, <2>1, <2>2 DEF WalkedTo
<1> DEFINE e == [b EXCEPT !.branch = @ + 1]
<1>7. e \in Crumb /\ e.opened = c.opened /\ e.branch > c.branch /\ c.branch \in Nat /\ c.opened \in Nat
  <2>1. /\ e \in Crumb /\ e.opened = b.opened /\ e.branch = b.branch + 1
        /\ c.branch \in Nat /\ c.opened \in Nat /\ b.branch \in Nat
    BY DEF Crumb
  <2> HIDE DEF e
  <2>2. b.opened = c.opened /\ (b = c \/ b.branch > c.branch)
    BY <1>6 DEF Turned
  <2> QED BY <2>1, <2>2
<1> HIDE DEF e
<1>8. Paths[k] = <<e>>
  BY <1>4 DEF e
<1>9. c.opened \in 1..m
  <2>1. WalkedTo(0, m) /\ 0 \in 0..Len(lines)
    <3>1. 0 \in 0..Len(lines) /\ m \in 0..Len(lines)
      BY <1>1, <1>3
    <3> QED BY <1>1, <3>1, Walk
  <2>2. Paths[0] = <<>>
    BY <1>1, PathsAre
  <2>3. Paths[m] # <<>> /\ \A d : Paths[m] = <<d>> => d = c
    BY <1>6
  <2>4. \A d : Paths[0] # <<d>>
    BY <2>2
  <2>5. c.opened \in (0 + 1)..m
    BY <2>1, <2>3, <2>4, Zenon DEF WalkedTo
  <2> QED BY <2>5
<1>10. WalkedTo(k, n)
  BY <1>1, <1>3, Walk
<1>11. \A d : Paths[n] = <<d>> => d # c
  <2> SUFFICES ASSUME Paths[n] = <<c>> PROVE FALSE
    OBVIOUS
  <2>1. Paths[n] # <<>> /\ \A d : Paths[n] = <<d>> => d = c
    OBVIOUS
  <2>2. \A d : Paths[k] = <<d>> => d = e
    BY <1>8
  <2>3. c.opened \in (k + 1)..n \/ Turned(e, c, k, n)
    BY <1>10, <2>1, <2>2 DEF WalkedTo
  <2>4. c.opened \notin (k + 1)..n
    BY <1>3, <1>9
  <2>5. c = e \/ c.branch > e.branch
    BY <2>3, <2>4 DEF Turned
  <2>6. e.branch \in Nat
    BY <1>7 DEF Crumb
  <2> QED BY <1>7, <2>5, <2>6
<1>12. Paths[n] = <<>> \/ \E d \in Crumb : Paths[n] = <<d>>
  BY <1>10 DEF WalkedTo
<1>13. ASSUME NEW d, IsPrefix(<<c>>, <<d>>) PROVE d = c
  BY <1>13 DEF IsPrefix
<1>14. ~ IsPrefix(<<c>>, <<>>)
  BY DEF IsPrefix
<1> QED BY <1>6, <1>11, <1>12, <1>13, <1>14

(* What is not forgotten can be in one translation unit with the line. *)
LEMMA ListedTogether ==
  ASSUME Flat, TypeInv, NEW n \in 1..Len(lines), NEW m \in 1..n, lines[m].include # <<>>,
         ~ Dropped(m, n), NEW c \in ToSet(Paths[m]), NEW d \in ToSet(Paths[n]), c.opened = d.opened
  PROVE  c = d
<1>1. lines \in Seq(LineType) /\ Len(lines) \in Nat
  BY LinesTyped
<1>2. /\ m \in 0..Len(lines) /\ n \in m..Len(lines) /\ m \in Nat /\ n \in Nat
      /\ m \in 1..Len(lines) /\ 0 \in 0..Len(lines)
  BY <1>1
<1>3. WalkedTo(0, m) /\ WalkedTo(m, n) /\ Paths[0] = <<>>
  BY <1>1, <1>2, Walk, PathsAre
<1>4. ASSUME NEW x, NEW s, s = <<>> \/ \E e \in Crumb : s = <<e>>, x \in ToSet(s)
      PROVE  s = <<x>>
  BY <1>4 DEF ToSet
<1>5. Paths[m] = <<c>> /\ Paths[n] = <<d>>
  BY <1>3, <1>4 DEF WalkedTo
<1>6. c.opened \in (0 + 1)..m
  <2>1. Paths[m] # <<>> /\ (\A b : Paths[m] = <<b>> => b = c) /\ \A b : Paths[0] # <<b>>
    BY <1>3, <1>5
  <2> QED BY <1>3, <2>1, Zenon DEF WalkedTo
<1>7. d.opened \in (m + 1)..n \/ Turned(c, d, m, n)
  <2>1. Paths[n] # <<>> /\ (\A b : Paths[n] = <<b>> => b = d) /\ \A b : Paths[m] = <<b>> => b = c
    BY <1>5
  <2> QED BY <1>3, <2>1, Zenon DEF WalkedTo
<1>8. d.opened \notin (m + 1)..n
  BY <1>2, <1>6
<1>9. ~ IsIf(m) /\ ~ IsElse(m)
  BY <1>2, IncludeLine
<1>10. ASSUME NEW k \in (m + 1)..n, IsElse(k), \A j \in (m + 1)..n : ~ IsIf(j)
       PROVE  FALSE
  <2>1. k \in m..n /\ \A j \in m..k : j = m \/ j \in (m + 1)..n
    BY <1>2
  <2> QED BY <1>9, <1>10, <2>1 DEF Dropped
<1> QED BY <1>7, <1>8, <1>10 DEF Turned

(* The repetitions that are refused. *)
LEMMA DuplicatesHold == TypeInv /\ IncludeInv /\ NoAssembly => DuplicatesAgree
<1> DEFINE n == lineno
           together(m) == \A c \in ToSet(Paths[m]), d \in ToSet(Paths[n]) :
                             c.opened = d.opened => c = d
<1> SUFFICES ASSUME TypeInv, IncludeInv, NoAssembly, pc = "lines", n > 0, lines[n].include # <<>>,
                    Flat, ~ IsSuffix(<<".", "cc">>, lines[n].include),
                    ~ IsThirdParty(lines[n].include)
    PROVE  /\ (\E m \in 1..n : Same(m, n) /\ IsPrefix(Paths[m], Paths[n])) => Refused(n)
           /\ Refused(n) => \E m \in 1..n : Same(m, n) /\ together(m)
  BY DEF DuplicatesAgree
<1>1. lines \in Seq(LineType) /\ Len(lines) \in Nat
  BY LinesTyped
<1>2. n \in 1..Len(lines) /\ n \in Nat /\ n \in 1..n
  <2>1. n \in 0..Len(lines)
    BY DEF TypeInv
  <2> HIDE DEF n
  <2> QED BY <1>1, <2>1
<1>3. RefusedInv
  BY DEF IncludeInv
<1>4. Refused(n) <=> \E j \in 1..n : RefusedBy(j, n)
  <2>1. ~ Foreign(n)
    BY DEF Foreign
  <2> QED BY <1>2, <1>3, <2>1 DEF RefusedInv
<1>5. ASSUME NEW m \in 1..n, Same(m, n), IsPrefix(Paths[m], Paths[n])
      PROVE  \E j \in 1..n : RefusedBy(j, n)
  <2>1. m < n /\ lines[m].include = lines[n].include
    BY <1>5 DEF Same
  <2>2. ~ Dropped(m, n)
    BY <1>2, <1>5, <2>1, BranchListed
  <2>3. CASE ~ Refused(m)
    <3>1. Kept(m)
      BY <2>1, <2>3 DEF Kept
    <3> QED BY <1>5, <2>2, <3>1 DEF RefusedBy
  <2>4. CASE Refused(m)
    <3>1. ~ Foreign(m)
      BY <2>1 DEF Foreign
    <3>2. PICK j \in 1..n : RefusedBy(j, m)
      BY <1>3, <2>1, <2>4, <3>1 DEF RefusedInv
    <3>3. j < m /\ lines[j].include = lines[m].include /\ Kept(j) /\ ~ Dropped(j, m)
      BY <3>2 DEF RefusedBy, Same
    <3>4. ~ Dropped(j, n)
      <4> SUFFICES ASSUME NEW k \in j..n, IsElse(k), \A i \in j..k : ~ IsIf(i) PROVE FALSE
        BY DEF Dropped
      <4> HIDE DEF n
      <4>1. j \in Nat /\ m \in Nat /\ k \in Nat /\ j < m
        BY <1>2, <3>3
      <4>2. k <= m => k \in j..m
        BY <4>1
      <4>3. ~ (k <= m) => k \in m..n /\ m..k \subseteq j..k
        BY <1>2, <4>1
      <4> QED BY <2>2, <3>3, <4>2, <4>3 DEF Dropped
    <3>5. j < n
      <4> HIDE DEF n
      <4> QED BY <1>2, <2>1, <3>3
    <3> QED BY <2>1, <3>3, <3>4, <3>5 DEF RefusedBy, Same
  <2> QED BY <2>3, <2>4
<1>6. ASSUME NEW j \in 1..n, RefusedBy(j, n) PROVE Same(j, n) /\ together(j)
  <2>1. Same(j, n) /\ ~ Dropped(j, n) /\ lines[j].include # <<>>
    BY <1>6 DEF RefusedBy, Kept
  <2> HIDE DEF n
  <2>2. \A c \in ToSet(Paths[j]), d \in ToSet(Paths[n]) : c.opened = d.opened => c = d
    BY <1>2, <2>1, ListedTogether
  <2> QED BY <2>1, <2>2 DEF n
<1> HIDE DEF n, together
<1> QED BY <1>4, <1>5, <1>6

(* Of the includes of a file without inline assembly exactly those are     *)
(* reported that repeat one, come after one of a later section, or do not  *)
(* follow the alphabet, whatever the file has in it, however long it is.   *)
(* The parts of the property name what they leave out; of the order of     *)
(* sections the proof shows it for the file's own header too.              *)
THEOREM IncludeOrderCorrect == Spec => []IncludeOrderAgrees
<1> DEFINE Inv == TypeInv /\ IncludeInv
<1>1. Init => Inv
  BY TypeInit DEF Init, IncludeInv
<1>2. Inv /\ [Next]_vars => Inv'
  BY TypeStep, IncludeStep
<1>3. Inv => IncludeOrderAgrees
  <2> SUFFICES ASSUME Inv, NoAssembly PROVE DuplicatesAgree /\ OrderAgrees /\ AlphaAgrees
    BY DEF IncludeOrderAgrees
  <2>1. DuplicatesAgree
    BY DuplicatesHold
  <2>2. CASE pc = "lines"
    BY <2>1, <2>2 DEF IncludeInv, SectionsInOrder, OrderAgrees
  <2>3. CASE pc # "lines"
    BY <2>1, <2>3 DEF OrderAgrees, AlphaAgrees
  <2> QED BY <2>2, <2>3
<1> QED BY <1>1, <1>2, <1>3, PTL DEF Spec

-----------------------------------------------------------------------------
(* Sequences that are appended, and sets in some order. *)

(* FlattenSeq is the last value of a function that appends one sequence    *)
(* after the other.                                                        *)
LEMMA Flatten ==
  ASSUME NEW S, NEW ss \in Seq(Seq(S))
  PROVE  \E g \in [0..Len(ss) -> Seq(S)] :
            /\ g[0] = <<>>
            /\ \A i \in 1..Len(ss) : g[i] = g[i - 1] \o ss[i]
            /\ FlattenSeq(ss) = g[Len(ss)]
<1> DEFINE step == [i \in 1..Len(ss) |-> [t \in Seq(S) |-> t \o ss[i]]]
<1>1. /\ Len(ss) \in Nat /\ <<>> \in Seq(S)
      /\ step \in [1..Len(ss) -> [Seq(S) -> Seq(S)]]
  OBVIOUS
<1>2. PICK g \in [0..Len(ss) -> Seq(S)] :
        g[0] = <<>> /\ \A i \in 1..Len(ss) : g[i] = step[i][g[i - 1]]
  <2>1. Steps(Len(ss), Seq(S), <<>>, step)
    BY <1>1 DEF Steps
  <2> HIDE DEF step
  <2>2. PICK f : Recurs(f, Len(ss), Seq(S), <<>>, step)
    BY <2>1, Recursion
  <2>3. QED BY <2>2 DEF Recurs
<1>3. ASSUME NEW i \in 1..Len(ss)
      PROVE  i - 1 \in 0..Len(ss) /\ g[i - 1] \in Seq(S) /\ g[i] = g[i - 1] \o ss[i]
  <2>1. i - 1 \in 0..Len(ss)
    BY <1>1
  <2>2. g[i] = step[i][g[i - 1]]
    BY <1>2
  <2>3. QED BY <1>2, <2>1, <2>2
<1>4. FlattenSeq(ss) = g[Len(ss)]
  <2>1. CASE Len(ss) = 0
    <3>1. ss = <<>> BY <2>1
    <3>2. QED BY <3>1, <1>2 DEF FlattenSeq
  <2>2. CASE Len(ss) # 0
    <3> DEFINE Body(f) == [i \in 1..Len(ss) |-> IF i = 1 THEN ss[i] ELSE f[i - 1] \o ss[i]]
               h == CHOOSE f : f = Body(f)
               k == [i \in 1..Len(ss) |-> g[i]]
    <3>1. k = Body(k)
      <4>1. ASSUME NEW i \in 1..Len(ss)
            PROVE  g[i] = IF i = 1 THEN ss[i] ELSE k[i - 1] \o ss[i]
        <5>1. CASE i = 1
          <6>1. i - 1 = 0 /\ ss[i] \in Seq(S)
            BY <5>1
          <6>3. g[i] = <<>> \o ss[i]
            BY <1>2, <1>3, <6>1
          <6>4. QED BY <6>1, <6>3, <5>1, ConcatEmptySeq
        <5>2. CASE i # 1
          <6>1. i - 1 \in 1..Len(ss)
            BY <1>1, <5>2
          <6>2. QED BY <1>3, <6>1, <5>2
        <5>3. QED BY <5>1, <5>2
      <4>2. QED BY <4>1
    <3>2. h = Body(h)
      BY <3>1
    <3>3. FlattenSeq(ss) = h[Len(ss)]
      BY <2>2 DEF FlattenSeq
    <3> HIDE DEF h
    <3> DEFINE Good == {n \in Nat : n + 1 <= Len(ss) => h[n + 1] = g[n + 1]}
    <3>4. 0 \in Good
      <4>1. 1 \in 1..Len(ss) /\ ss[1] \in Seq(S)
        BY <2>2, <1>1
      <4>2. g[1] = <<>> \o ss[1]
        BY <4>1, <1>2, <1>3, 1 - 1 = 0
      <4>3. h[1] = ss[1]
        BY <4>1, <3>2
      <4>4. QED BY <4>1, <4>2, <4>3, ConcatEmptySeq
    <3>5. ASSUME NEW n \in Good PROVE n + 1 \in Good
      <4> SUFFICES ASSUME n + 2 <= Len(ss) PROVE h[n + 2] = g[n + 2]
        OBVIOUS
      <4>1. n + 2 \in 1..Len(ss) /\ h[n + 1] = g[n + 1]
        BY <1>1
      <4>2. n + 2 # 1 /\ (n + 2) - 1 = n + 1
        OBVIOUS
      <4>3. h[n + 2] = h[n + 1] \o ss[n + 2]
        BY <4>1, <4>2, <3>2
      <4>4. g[n + 2] = g[n + 1] \o ss[n + 2]
        BY <4>1, <4>2, <1>3
      <4>5. QED BY <4>1, <4>3, <4>4
    <3>6. \A n \in Nat : n \in Good
      <4> HIDE DEF Good
      <4>1. Good \in SUBSET Nat BY DEF Good
      <4>2. QED BY <3>4, <3>5, <4>1, Induction
    <3>7. Len(ss) - 1 \in Nat /\ (Len(ss) - 1) + 1 = Len(ss)
      BY <2>2, <1>1
    <3>8. h[Len(ss)] = g[Len(ss)]
      <4>1. Len(ss) - 1 \in Good
        BY <3>6, <3>7
      <4>2. QED BY <4>1, <3>7
    <3>9. QED BY <3>8, <3>3
  <2>3. QED BY <2>1, <2>2
<1>5. QED BY <1>2, <1>3, <1>4

(* g is that function. *)
Flattens(S, ss, g) ==
  /\ g \in [0..Len(ss) -> Seq(S)]
  /\ g[0] = <<>>
  /\ \A i \in 1..Len(ss) : g[i] = g[i - 1] \o ss[i]


(* What is in sequences that are appended. *)
LEMMA FlattenIs ==
  ASSUME NEW S, NEW ss \in Seq(Seq(S))
  PROVE  /\ FlattenSeq(ss) \in Seq(S)
         /\ ToSet(FlattenSeq(ss)) = UNION {ToSet(ss[i]) : i \in 1..Len(ss)}
<1>1. PICK g \in [0..Len(ss) -> Seq(S)] :
        /\ g[0] = <<>>
        /\ \A i \in 1..Len(ss) : g[i] = g[i - 1] \o ss[i]
        /\ FlattenSeq(ss) = g[Len(ss)]
  BY Flatten
<1>2. /\ Len(ss) \in Nat /\ \A i \in 1..Len(ss) : ss[i] \in Seq(S)
      /\ g \in [0..Len(ss) -> Seq(S)] /\ g[0] = <<>>
      /\ \A i \in 1..Len(ss) : g[i] = g[i - 1] \o ss[i]
  <2>1. Len(ss) \in Nat /\ \A i \in 1..Len(ss) : ss[i] \in Seq(S)
    OBVIOUS
  <2> QED BY <1>1, <2>1
<1> DEFINE Good == {n \in Nat : n <= Len(ss) =>
                      ToSet(g[n]) = UNION {ToSet(ss[i]) : i \in 1..n}}
<1>3. 0 \in Good
  <2>1. ToSet(g[0]) = {} /\ 1..0 = {}
    BY <1>2 DEF ToSet
  <2> QED BY <2>1
<1>4. ASSUME NEW n \in Good PROVE n + 1 \in Good
  <2> SUFFICES ASSUME n + 1 <= Len(ss)
      PROVE    ToSet(g[n + 1]) = UNION {ToSet(ss[i]) : i \in 1..(n + 1)}
    OBVIOUS
  <2>0. n \in Nat
    OBVIOUS
  <2>1. n \in 0..Len(ss) /\ n + 1 \in 1..Len(ss) /\ (n + 1) - 1 = n
    BY <1>2, <2>0
  <2>2. 1..(n + 1) = 1..n \cup {n + 1}
    BY <2>0
  <2>3. ToSet(g[n]) = UNION {ToSet(ss[i]) : i \in 1..n}
    BY <1>2, <2>0, <2>1
  <2>4. g[n + 1] = g[n] \o ss[n + 1] /\ g[n] \in Seq(S) /\ ss[n + 1] \in Seq(S)
    BY <1>2, <2>1
  <2>5. ToSet(g[n + 1]) = ToSet(g[n]) \cup ToSet(ss[n + 1])
    BY <2>4, Joined
  <2> QED BY <2>2, <2>3, <2>5
<1>5. \A n \in Nat : n \in Good
  <2> HIDE DEF Good
  <2>1. Good \in SUBSET Nat
    BY DEF Good
  <2> QED BY <1>3, <1>4, <2>1, Induction
<1>6. ToSet(g[Len(ss)]) = UNION {ToSet(ss[i]) : i \in 1..Len(ss)}
  <2>1. Len(ss) \in Good
    BY <1>2, <1>5
  <2> QED BY <1>2, <2>1
<1>7. g[Len(ss)] \in Seq(S)
  BY <1>2
<1> QED BY <1>1, <1>6, <1>7

(* A finite set in some order. *)
LEMMA SetToSeqIs ==
  ASSUME NEW S, IsFiniteSet(S)
  PROVE  SetToSeq(S) \in Seq(S) /\ ToSet(SetToSeq(S)) = S
<1> DEFINE N == Cardinality(S)
           D == 1..N
           s == SetToSeq(S)
<1>1. N \in Nat /\ ExistsBijection(D, S)
  BY FS_CardinalityType
<1>2. \E f \in [D -> S] : IsInjective(f)
  BY <1>1 DEF ExistsBijection, Bijection, Injection
<1>3. s = CHOOSE f \in [D -> S] : IsInjective(f)
  BY DEF SetToSeq
<1> HIDE DEF s
<1>4. s \in [D -> S] /\ IsInjective(s)
  BY <1>2, <1>3
<1>5. s \in Injection(D, S)
  BY <1>4 DEF Injection
<1>6. Cardinality(D) = N
  BY <1>1, FS_Interval
<1>7. s \in Surjection(D, S)
  <2> HIDE DEF D
  <2> QED BY <1>5, <1>6, FS_Injection
<1>8. s \in Seq(S) /\ DOMAIN s = D
  BY <1>1, <1>4
<1>9. ToSet(s) = S
  <2> HIDE DEF D
  <2> QED BY <1>4, <1>7, <1>8 DEF ToSet, Surjection
<1> QED BY <1>8, <1>9 DEF s

(* The values of a function on a finite set. *)
LEMMA FiniteImage ==
  ASSUME NEW f, IsFiniteSet(DOMAIN f)
  PROVE  IsFiniteSet({f[x] : x \in DOMAIN f})
<1> DEFINE S == DOMAIN f
           T == {f[x] : x \in S}
           g == [x \in S |-> f[x]]
<1>1. g \in Surjection(S, T)
  BY DEF Surjection
<1> HIDE DEF g, T, S
<1> QED BY <1>1, FS_Surjection DEF S, T

-----------------------------------------------------------------------------
(* The headers that are listed at the end of a file. *)

(* All lines of a file without assembly are done. *)
Ending ==
  /\ TypeInv /\ IncludeInv /\ NoAssembly
  /\ pc = "lines" /\ lineno = Len(lines)

Headers == {f.header : f \in Listed(include_state)}

(* What the code looks at: no source file of another directory. *)
Taken(m) == lines[m].include # <<>> /\ ~ IsThirdParty(lines[m].include) /\ ~ Foreign(m)

LEMMA EndingFacts ==
  ASSUME Ending
  PROVE  /\ lines \in Seq(LineType) /\ Len(lines) \in Nat /\ DOMAIN lines = 1..Len(lines)
         /\ \A m \in 1..Len(lines) : lines[m] \in Alphabets[kind] /\ lines[m] \in LineType
         /\ kind \in DOMAIN Alphabets /\ file \in Settings[kind]
         /\ nesting_state \in NestingType /\ IsIncludeState(include_state)
         /\ ReportsInv /\ ListInv /\ RefusedInv
<1>1. lines \in Seq(LineType) /\ Len(lines) \in Nat
  BY LinesTyped DEF Ending
<1>2. lines \in Seq(Alphabets[kind]) /\ kind \in DOMAIN Alphabets /\ file \in Settings[kind]
  BY DEF Ending, TypeInv
<1>3. DOMAIN lines = 1..Len(lines)
  BY <1>1
<1>4. \A m \in 1..Len(lines) : lines[m] \in Alphabets[kind] /\ lines[m] \in LineType
  BY <1>1, <1>2, ElementOfSeq
<1> QED BY <1>1, <1>2, <1>3, <1>4 DEF Ending, IncludeInv

LEMMA ListedFlat ==
  ASSUME IsIncludeState(include_state), include_state.include_list # <<>>
  PROVE  /\ ToSet(FlattenSeq(include_state.include_list)) = Listed(include_state)
         /\ Listed(include_state) \subseteq EntryType
<1> DEFINE list == include_state.include_list
<1>1. list \in Seq(Seq(EntryType)) /\ DOMAIN list = 1..Len(list)
  BY DEF IsIncludeState
<1>2. Listed(include_state) \subseteq EntryType
  BY <1>1, ListedIs
<1>3. Listed(include_state) = UNION {ToSet(list[i]) : i \in 1..Len(list)}
  <2>1. ToSet(list) = {list[i] : i \in 1..Len(list)}
    BY <1>1 DEF ToSet
  <2>2. Listed(include_state) = UNION {ToSet(l) : l \in ToSet(list)}
    BY DEF Listed
  <2> HIDE DEF list
  <2> QED BY <2>1, <2>2
<1> HIDE DEF list
<1>4. ToSet(FlattenSeq(list)) = UNION {ToSet(list[i]) : i \in 1..Len(list)}
  BY <1>1, FlattenIs
<1> QED BY <1>2, <1>3, <1>4 DEF list

(* Without an #else no header is forgotten. *)
LEMMA ListedHeaders ==
  ASSUME Ending, NoElse
  PROVE  Headers = {lines[m].include : m \in {k \in DOMAIN lines : Taken(k)}}
<1> DEFINE N == Len(lines)
<1>1. /\ N \in Nat /\ DOMAIN lines = 1..N /\ lineno = N
      /\ IsIncludeState(include_state) /\ ListInv /\ RefusedInv
  BY EndingFacts DEF Ending
<1> HIDE DEF N
<1>2. \A m \in 1..N : \A k \in 1..N : ~ Dropped(m, k)
  <2>1. \A k \in 1..N : ~ IsElse(k)
    BY <1>1 DEF NoElse, IsElse
  <2>2. \A m \in 1..N : \A k \in 1..N : m..k \subseteq 1..N
    BY <1>1
  <2> QED BY <2>1, <2>2 DEF Dropped
<1>3. Listed(include_state) = {Entry(m) : m \in {k \in 1..N : Kept(k)}}
  <2>1. include_state.include_list \in Seq(Seq(EntryType)) /\ include_state.include_list # <<>>
    BY <1>1 DEF IsIncludeState, ListInv
  <2>2. Listed(include_state) = EntriesOf(CurrentLines(N)) \cup EntriesOf(EarlierLines(N))
    BY <1>1, <2>1, ListedIs DEF ListInv
  <2>3. CurrentLines(N) \cup EarlierLines(N) = {k \in 1..N : Kept(k)}
    <3>1. \A m \in 1..N : N \in 1..N
      BY <1>1
    <3>2. \A m \in 1..N : ~ Dropped(m, N)
      BY <1>2, <3>1
    <3> QED BY <3>2 DEF CurrentLines, EarlierLines
  <2> QED BY <2>2, <2>3 DEF EntriesOf
<1>4. Headers = {lines[m].include : m \in {k \in 1..N : Kept(k)}}
  <2>1. \A m : Entry(m).header = lines[m].include
    BY DEF Entry
  <2> QED BY <1>3, <2>1 DEF Headers
<1>5. ASSUME NEW m \in 1..N, Kept(m) PROVE Taken(m)
  BY <1>1, <1>5 DEF Kept, Taken, RefusedInv
<1>6. ASSUME NEW m \in 1..N, Taken(m)
      PROVE  \E k \in 1..N : Kept(k) /\ lines[k].include = lines[m].include
  <2>1. CASE Refused(m)
    <3>1. PICK j \in 1..N : RefusedBy(j, m)
      BY <1>1, <1>6, <2>1 DEF RefusedInv, Taken
    <3> QED BY <3>1 DEF RefusedBy, Same
  <2>2. CASE ~ Refused(m)
    BY <1>6, <2>2 DEF Kept, Taken
  <2> QED BY <2>1, <2>2
<1> QED BY <1>1, <1>4, <1>5, <1>6

-----------------------------------------------------------------------------
(* The file's own headers. *)

(* A header is no source file. *)
LEMMA SuffixesApart ==
  ASSUME NEW path \in Seq(STRING), IsSuffix(<<".", "h">>, path)
  PROVE  ~ IsSuffix(<<".", "cc">>, path)
<1> DEFINE r == Reverse(path)
<1>1. ASSUME NEW e, IsSuffix(<<".", e>>, path)
      PROVE  Len(r) >= 2 /\ r[1] = e
  <2> DEFINE s == <<".", e>>
             t == Reverse(s)
  <2>1. Len(s) = 2 /\ s[2] = e
    OBVIOUS
  <2>2. Len(t) = 2 /\ t[1] = e
    BY <2>1 DEF Reverse
  <2>3. Len(t) <= Len(r) /\ SubSeq(t, 1, Len(t)) = SubSeq(r, 1, Len(t))
    BY <1>1 DEF IsSuffix, IsPrefix
  <2> HIDE DEF r, t, s
  <2>4. SubSeq(t, 1, 2)[1] = t[1] /\ SubSeq(r, 1, 2)[1] = r[1]
    BY DEF SubSeq
  <2> QED BY <2>2, <2>3, <2>4
<1>2. ASSUME IsSuffix(<<".", "cc">>, path) PROVE FALSE
  <2>1. r[1] = "cc"
    BY <1>1, <1>2
  <2>2. r[1] = "h"
    BY <1>1
  <2> QED BY <2>1, <2>2
<1> QED BY <1>2

(* Where something is read, it is a header. *)
LEMMA ReadIsHeader ==
  ASSUME NEW f, NEW h, ReadAt(f, h) # {}
  PROVE  IsSuffix(<<".", "h">>, h)
BY DEF ReadAt, FilesBelongToSameModule

Readable == UNION {ReadAt(file, h) : h \in Headers}

(* The headers that the file includes, and those of them that are read.    *)
Inclusions == {lines[m].include : m \in DOMAIN lines} \ (ThirdParty \cup {<<>>})

OwnPaths ==
  {h \in DOMAIN file.disk.includes :
     IsSource(file.name) /\ \E o \in file.own \cap Inclusions : IsSuffix(o, h)}

LEMMA ReadableIs ==
  ASSUME Ending, NoElse
  PROVE  Readable = OwnPaths
<1>1. /\ DOMAIN lines = 1..Len(lines) /\ kind \in DOMAIN Alphabets /\ file \in Settings[kind]
      /\ \A m \in 1..Len(lines) : lines[m] \in Alphabets[kind] /\ lines[m] \in LineType
  BY EndingFacts
<1>2. ASSUME NEW m \in DOMAIN lines, lines[m].include # <<>>
      PROVE  ReadAt(file, lines[m].include) =
               {path \in DOMAIN file.disk.includes :
                  IsSource(file.name) /\ lines[m].include \in file.own
                  /\ IsSuffix(lines[m].include, path)}
  <2>1. lines[m].include \in {line.include : line \in Alphabets[kind]} \ {<<>>}
    BY <1>1, <1>2
  <2> QED BY <1>1, <2>1, NamesAssumption
<1>3. Headers = {lines[m].include : m \in {k \in DOMAIN lines : Taken(k)}}
  BY ListedHeaders
<1>4. ASSUME NEW p \in Readable PROVE p \in OwnPaths
  <2>1. PICK m \in DOMAIN lines : Taken(m) /\ p \in ReadAt(file, lines[m].include)
    BY <1>3 DEF Readable
  <2>2. lines[m].include # <<>> /\ lines[m].include \in Inclusions
    BY <2>1 DEF Taken, IsThirdParty, Inclusions
  <2> QED BY <1>2, <2>1, <2>2 DEF OwnPaths
<1>5. ASSUME NEW p \in OwnPaths PROVE p \in Readable
  <2>1. PICK o \in file.own \cap Inclusions : IsSuffix(o, p)
    BY DEF OwnPaths
  <2>2. PICK m \in DOMAIN lines : o = lines[m].include /\ o \notin ThirdParty /\ o # <<>>
    BY DEF Inclusions
  <2>3. p \in ReadAt(file, o)
    BY <1>2, <2>1, <2>2 DEF OwnPaths
  <2>4. IsSuffix(<<".", "h">>, o)
    BY <2>3, ReadIsHeader
  <2>5. o \in Seq(STRING)
    BY <1>1, <2>2 DEF LineType
  <2>6. ~ Foreign(m)
    BY <2>2, <2>4, <2>5, SuffixesApart DEF Foreign
  <2>7. Taken(m)
    BY <2>2, <2>6 DEF Taken, IsThirdParty
  <2> QED BY <1>3, <2>2, <2>3, <2>7 DEF Readable
<1> QED BY <1>4, <1>5

(* The header of a file's name is a header. *)
LEMMA OwnHeaderIs ==
  ASSUME NEW path \in Seq(STRING)
  PROVE  OwnHeader(path) # <<>> /\ IsSuffix(<<".", "h">>, OwnHeader(path))
<1> DEFINE places == {i \in 1..Len(path) : path[i] = "."}
           k == SelectLastInSeq(path, LAMBDA c : c = ".")
           n == IF k > LastSlash(path) + 1 THEN k - 1 ELSE Len(path)
           root == SubSeq(path, 1, n)
           s == <<".", "h">>
           header == root \o s
           S == STRING \cup {".", "h"}
<1>1. Len(path) \in Nat /\ k \in 0..Len(path)
  <2>1. Len(path) \in Nat /\ places \subseteq 1..Len(path)
    OBVIOUS
  <2>2. k = IF places = {} THEN 0 ELSE Max(places)
    BY Zenon DEF SelectLastInSeq
  <2> HIDE DEF places, k
  <2>3. places # {} => Max(places) \in 1..Len(path)
    BY <2>1, PlacesIn
  <2> QED BY <2>1, <2>2, <2>3
<1> HIDE DEF k, places
<1>2. n \in Int /\ n <= Len(path)
  BY <1>1
<1>3. header = OwnHeader(path)
  BY Zenon DEF OwnHeader, SplitExt, k
<1> HIDE DEF n
<1>4. root \in Seq(STRING)
  <2>1. 1 \in Int /\ \A i \in 1..n : path[i] \in STRING
    BY <1>1, <1>2
  <2> QED BY <1>2, <2>1, SubSeqProperties
<1> HIDE DEF root
<1>5. s \in Seq(S) /\ Len(s) = 2
  OBVIOUS
<1> DEFINE m == Len(root)
<1>6. m \in Nat /\ root \in Seq(S)
  BY <1>4
<1> HIDE DEF s, S
<1>7. /\ header \in Seq(S) /\ Len(header) = m + 2
      /\ header[m + 1] = s[1] /\ header[m + 2] = s[2]
  <2>1. /\ header \in Seq(S) /\ Len(header) = m + Len(s)
        /\ \A i \in 1..Len(s) : header[m + i] = s[i]
    <3>1. root \in Seq(S) /\ s \in Seq(S)
      BY <1>5, <1>6
    <3> QED BY <3>1, Joined
  <2>2. 1 \in 1..Len(s) /\ 2 \in 1..Len(s)
    BY <1>5
  <2> HIDE DEF header, m
  <2> QED BY <1>5, <2>1, <2>2
<1> DEFINE t == Reverse(s)
           r == Reverse(header)
<1> HIDE DEF header, m
<1>8. Len(t) = 2 /\ t[1] = s[2] /\ t[2] = s[1]
  BY <1>5 DEF Reverse
<1>9. Len(r) = m + 2 /\ r[1] = header[m + 2] /\ r[2] = header[m + 1]
  <2>1. \A i \in 1..(m + 2) : r[i] = header[((m + 2) - i) + 1]
    BY <1>7 DEF Reverse
  <2>2. /\ 1 \in 1..(m + 2) /\ 2 \in 1..(m + 2)
        /\ ((m + 2) - 1) + 1 = m + 2 /\ ((m + 2) - 2) + 1 = m + 1
    BY <1>6
  <2>3. Len(r) = m + 2
    BY <1>6, <1>7 DEF Reverse
  <2> QED BY <2>1, <2>2, <2>3
<1> HIDE DEF t, r
<1>10. Len(t) <= Len(r) /\ SubSeq(t, 1, 2) = SubSeq(r, 1, 2)
  <2>1. t[1] = r[1] /\ t[2] = r[2]
    BY <1>7, <1>8, <1>9
  <2>2. SubSeq(t, 1, 2) = [i \in 1..2 |-> t[i]] /\ SubSeq(r, 1, 2) = [i \in 1..2 |-> r[i]]
    BY DEF SubSeq
  <2> QED BY <1>6, <1>8, <1>9, <2>1, <2>2
<1>11. IsSuffix(s, header)
  BY <1>8, <1>10 DEF IsSuffix, IsPrefix, t, r
<1>12. header # <<>>
  BY <1>6, <1>7
<1> QED BY <1>3, <1>11, <1>12 DEF s

-----------------------------------------------------------------------------
(* What is reported at the end of the file. *)

UsedIn(n, h) == h \in lines[n].uses /\ \A m \in (n + 1)..Len(lines) : h \notin lines[m].uses

HaveAlready == Inclusions \cup UNION {ToSet(file.disk.includes[h]) : h \in OwnPaths}

Asked(n) ==
  /\ IsSuffix(<<".", "cc">>, file.name) => OwnPaths # {}
  /\ \E h \in lines[n].uses \ HaveAlready : UsedIn(n, h)

(* The line that is named for a header is the last one that uses it. *)
LEMMA RequiredIs ==
  ASSUME Ending
  PROVE  /\ DOMAIN Required(lines) = UNION {lines[n].uses : n \in DOMAIN lines}
         /\ IsFiniteSet(DOMAIN Required(lines))
         /\ \A h \in DOMAIN Required(lines) : \A n \in DOMAIN lines :
              Required(lines)[h] = n <=> UsedIn(n, h)
<1> DEFINE N == Len(lines)
           all == UNION {lines[n].uses : n \in DOMAIN lines}
           used(h) == {n \in DOMAIN lines : h \in lines[n].uses}
<1>1. /\ N \in Nat /\ DOMAIN lines = 1..N /\ kind \in DOMAIN Alphabets
      /\ \A n \in 1..N : lines[n] \in Alphabets[kind]
  BY EndingFacts
<1>2. Required(lines) = [h \in all |-> Max(used(h))]
  BY DEF Required
<1> HIDE DEF N
<1>3. IsFiniteSet(all)
  <2> DEFINE f == [n \in 1..N |-> lines[n].uses]
  <2>1. IsFiniteSet(DOMAIN f)
    BY <1>1, FS_Interval
  <2>2. \A n \in 1..N : IsFiniteSet(lines[n].uses)
    BY <1>1, LinesAssumption
  <2>3. {f[n] : n \in DOMAIN f} = {lines[n].uses : n \in DOMAIN lines}
    BY <1>1
  <2>4. \A T \in {f[n] : n \in DOMAIN f} : IsFiniteSet(T)
    BY <2>2
  <2> HIDE DEF f
  <2>5. IsFiniteSet(UNION {f[n] : n \in DOMAIN f})
    BY <2>1, <2>4, FiniteImage, FS_UNION
  <2> QED BY <2>3, <2>5
<1>4. ASSUME NEW h \in all, NEW n \in DOMAIN lines
      PROVE  Max(used(h)) = n <=> UsedIn(n, h)
  <2>1. used(h) # {} /\ used(h) \in SUBSET (1..N) /\ \A m \in 1..N : m \in used(h) <=> h \in lines[m].uses
    BY <1>1
  <2> HIDE DEF used, all
  <2>2. Max(used(h)) \in used(h) /\ Max(used(h)) \in 1..N /\ \A m \in used(h) : m <= Max(used(h))
    BY <1>1, <2>1, PlacesIn
  <2>3. ASSUME Max(used(h)) = n PROVE UsedIn(n, h)
    <3>1. ASSUME NEW m \in (n + 1)..N PROVE h \notin lines[m].uses
      <4>1. m \in 1..N /\ ~ (m <= n)
        BY <1>1
      <4> QED BY <2>1, <2>2, <2>3, <4>1
    <3> QED BY <1>1, <2>1, <2>2, <2>3, <3>1 DEF UsedIn, N
  <2>4. ASSUME UsedIn(n, h) PROVE Max(used(h)) = n
    <3>1. n \in used(h) /\ \A m \in (n + 1)..N : m \notin used(h)
      <4>1. \A m \in (n + 1)..N : m \in 1..N
        BY <1>1
      <4> QED BY <1>1, <2>1, <2>4, <4>1 DEF UsedIn, N
    <3>2. n <= Max(used(h)) /\ Max(used(h)) \notin (n + 1)..N
      BY <2>2, <3>1
    <3> QED BY <1>1, <2>2, <3>2
  <2> QED BY <2>3, <2>4
<1> HIDE DEF all, used
<1> QED BY <1>2, <1>3, <1>4 DEF all

Wanted == CheckForIncludeWhatYouUse(file, include_state, lines)

(* What is asked for, and at which lines. *)
LEMMA WantedIs ==
  ASSUME Ending, NoElse
  PROVE  /\ IsFiniteSet(Wanted)
         /\ \A e \in Wanted : e.category = "build/include_what_you_use"
         /\ \A n \in DOMAIN lines : (\E e \in Wanted : e.line = n) <=> Asked(n)
<1> DEFINE req == Required(lines)
           dict == UpdateIncludeState(file.disk, Headers, Readable)
           missing == DOMAIN req \ dict
           At(h) == ErrorAt(req[h], "build/include_what_you_use", 4)
           none == IsSuffix(<<".", "cc">>, file.name) /\ Readable = {}
<1>1. Wanted = IF none THEN {} ELSE {At(h) : h \in missing}
  BY Zenon DEF Wanted, CheckForIncludeWhatYouUse, Headers, Readable
<1>2. \A h : At(h).category = "build/include_what_you_use" /\ At(h).line = req[h]
  BY DEF ErrorAt
<1>3. /\ DOMAIN req = UNION {lines[n].uses : n \in DOMAIN lines} /\ IsFiniteSet(DOMAIN req)
      /\ \A h \in DOMAIN req : \A n \in DOMAIN lines : req[h] = n <=> UsedIn(n, h)
  BY RequiredIs
<1>4. none <=> IsSuffix(<<".", "cc">>, file.name) /\ OwnPaths = {}
  BY ReadableIs
<1>5. ASSUME NEW h \in DOMAIN req PROVE h \in dict <=> h \in HaveAlready
  <2>1. dict = Headers \cup UNION {ToSet(file.disk.includes[p]) : p \in OwnPaths}
    BY ReadableIs DEF UpdateIncludeState
  <2>2. h \in Headers <=> h \in Inclusions
    <3>1. ~ IsSuffix(<<".", "cc">>, h)
      <4>1. PICK n \in DOMAIN lines : h \in lines[n].uses
        BY <1>3
      <4> QED BY <4>1, EndingFacts, LinesAssumption
    <3>2. Headers = {lines[m].include : m \in {k \in DOMAIN lines : Taken(k)}}
      BY ListedHeaders
    <3>3. \A m \in DOMAIN lines : lines[m].include = h => ~ Foreign(m)
      BY <3>1 DEF Foreign
    <3> QED BY <3>2, <3>3 DEF Taken, Inclusions, IsThirdParty
  <2> QED BY <2>1, <2>2 DEF HaveAlready
<1> HIDE DEF req, dict, At, none
<1>6. IsFiniteSet(Wanted)
  <2> DEFINE f == [h \in missing |-> At(h)]
  <2>1. IsFiniteSet(missing)
    BY <1>3, FS_Subset
  <2>2. IsFiniteSet(DOMAIN f) /\ {f[h] : h \in DOMAIN f} = {At(h) : h \in missing}
    BY <2>1
  <2> HIDE DEF f, missing
  <2>3. IsFiniteSet({At(h) : h \in missing})
    BY <2>2, FiniteImage
  <2> QED BY <1>1, <2>3, FS_EmptySet
<1>7. \A e \in Wanted : e.category = "build/include_what_you_use"
  BY <1>1, <1>2
<1>8. ASSUME NEW n \in DOMAIN lines
      PROVE  (\E e \in Wanted : e.line = n) <=> Asked(n)
  <2>1. (\E e \in Wanted : e.line = n) <=> ~ none /\ \E h \in missing : req[h] = n
    BY <1>1, <1>2
  <2>2. (\E h \in missing : req[h] = n) <=> \E h \in lines[n].uses \ HaveAlready : UsedIn(n, h)
    <3>1. \A h \in lines[n].uses : h \in DOMAIN req
      BY <1>3
    <3>2. \A h : UsedIn(n, h) => h \in lines[n].uses
      BY DEF UsedIn
    <3> QED BY <1>3, <1>5, <3>1, <3>2
  <2> QED BY <1>4, <2>1, <2>2 DEF Asked
<1> QED BY <1>6, <1>7, <1>8

(* The check of the file's own header, for a source file. *)
OwnCheck == CheckHeaderFileIncluded(file, include_state)

LEMMA OwnCheckIs ==
  ASSUME Ending, NoElse, IsSource(file.name)
  PROVE  /\ OwnCheck = <<>> \/ \E n : OwnCheck = <<ErrorAt(n, "build/include", 5)>>
         /\ OwnCheck # <<>> <=>
              /\ ~ IsTest(file.name)
              /\ \E h \in file.disk.files : IsSuffix(OwnHeader(file.place), h)
              /\ \A m \in DOMAIN lines : lines[m].include # OwnHeader(file.place)
<1> DEFINE header == OwnHeader(file.place)
           name == RepositoryName(file.disk, OwnHeader(file.name))
           there == FullName(file.disk, OwnHeader(file.name)) \in file.disk.files
           listed == FlattenSeq(include_state.include_list)
           e == ErrorAt(IF listed = <<>> THEN 0 ELSE Head(listed).line, "build/include", 5)
           Related(h) == PartOf(name, h) \/ PartOf(h, name)
           fine == IsTest(file.name) \/ ~ there \/ \E f \in ToSet(listed) : Related(f.header)
<1>1. OwnCheck = IF fine THEN <<>> ELSE <<e>>
  BY Zenon DEF OwnCheck, CheckHeaderFileIncluded
<1>2. /\ DOMAIN lines = 1..Len(lines) /\ kind \in DOMAIN Alphabets /\ file \in Settings[kind]
      /\ \A m \in 1..Len(lines) : lines[m] \in Alphabets[kind] /\ lines[m] \in LineType
      /\ IsIncludeState(include_state) /\ ListInv
  BY EndingFacts
<1>3. (\E f \in ToSet(listed) : Related(f.header)) <=> \E h \in Headers : Related(h)
  <2>1. ToSet(listed) = Listed(include_state)
    BY <1>2, ListedFlat DEF ListInv
  <2> HIDE DEF listed, Related
  <2> QED BY <2>1 DEF Headers
<1> HIDE DEF listed, e
<1>4. ASSUME ~ IsTest(file.name)
      PROVE  fine <=> ~ (/\ \E h \in file.disk.files : IsSuffix(header, h)
                         /\ \A m \in DOMAIN lines : lines[m].include # header)
  <2> DEFINE headers == {line.include : line \in Alphabets[kind]} \ {<<>>}
  <2>1. /\ there <=> \E h \in file.disk.files : IsSuffix(header, h)
        /\ ~ IsThirdParty(header)
        /\ \A h \in headers : Related(h) <=> h = header
        /\ file.place \in Seq(STRING)
    BY <1>2, <1>4, NamesAssumption
  <2>2. header # <<>> /\ IsSuffix(<<".", "h">>, header)
    BY <2>1, OwnHeaderIs
  <2> HIDE DEF header, Related, there
  <2>3. Headers = {lines[m].include : m \in {k \in DOMAIN lines : Taken(k)}}
    BY ListedHeaders
  <2>4. \A h \in Headers : h \in headers
    BY <1>2, <2>3 DEF Taken
  <2>5. (\E h \in Headers : Related(h)) <=> header \in Headers
    <3> HIDE DEF headers
    <3> QED BY <2>1, <2>4
  <2>6. ASSUME NEW m \in DOMAIN lines, lines[m].include = header PROVE Taken(m)
    <3>1. header \in Seq(STRING)
      BY <1>2, <2>6 DEF LineType
    <3>2. ~ Foreign(m)
      BY <2>2, <2>6, <3>1, SuffixesApart DEF Foreign
    <3> QED BY <2>1, <2>2, <2>6, <3>2 DEF Taken
  <2>7. header \in Headers <=> \E m \in DOMAIN lines : lines[m].include = header
    BY <2>3, <2>6
  <2> QED BY <1>3, <1>4, <2>1, <2>5, <2>7
<1> HIDE DEF fine, header
<1>5. IsTest(file.name) => fine
  BY DEF fine
<1>6. <<e>> # <<>>
  OBVIOUS
<1> QED BY <1>1, <1>4, <1>5, <1>6 DEF header, e

(* The blocks that are open are no includes. *)
BlockErrors == [line: Nat, category: {"build/class", "build/namespaces"}, confidence: Nat]

LEMMA CompletedTyped ==
  ASSUME nesting_state \in NestingType
  PROVE  CheckCompletedBlocks(nesting_state) \in Seq(BlockErrors)
<1> DEFINE stack == nesting_state.stack
           Said(block) ==
             CASE block.kind = "class" -> <<ErrorAt(block.start, "build/class", 5)>>
               [] block.kind = "namespace" -> <<ErrorAt(block.start, "build/namespaces", 5)>>
               [] OTHER -> <<>>
           said == [i \in DOMAIN stack |-> Said(stack[i])]
<1>1. stack \in Seq(BlockType)
  BY DEF NestingType
<1>2. ASSUME NEW i \in DOMAIN stack PROVE Said(stack[i]) \in Seq(BlockErrors)
  <2> DEFINE b == stack[i]
  <2>1. b \in BlockType
    BY <1>1, <1>2
  <2> HIDE DEF b
  <2>2. b.start \in Nat /\ 5 \in Nat
    BY <2>1 DEF BlockType
  <2>3. \A c \in {"build/class", "build/namespaces"} : ErrorAt(b.start, c, 5) \in BlockErrors
    BY <2>2 DEF ErrorAt, BlockErrors
  <2> HIDE DEF BlockErrors
  <2>4. \A c \in {"build/class", "build/namespaces"} : <<ErrorAt(b.start, c, 5)>> \in Seq(BlockErrors)
    BY <2>3, NoneAndOne
  <2>5. <<>> \in Seq(BlockErrors)
    OBVIOUS
  <2>6. Said(b) \in Seq(BlockErrors)
    BY <2>4, <2>5
  <2> QED BY <2>6 DEF b
<1>3. CheckCompletedBlocks(nesting_state) = FlattenSeq(said)
  BY Zenon DEF CheckCompletedBlocks
<1> HIDE DEF Said
<1>4. said \in Seq(Seq(BlockErrors))
  <2>1. Len(stack) \in Nat /\ DOMAIN stack = 1..Len(stack)
    BY <1>1
  <2> HIDE DEF stack, BlockErrors
  <2> QED BY <1>2, <2>1, IsASeq
<1> HIDE DEF said, stack, BlockErrors
<1> QED BY <1>3, <1>4, FlattenIs

(* What is reported in the end. *)
LEMMA Ended ==
  ASSUME TypeInv, IncludeInv, NoAssembly, NoElse, EndOfFile
  PROVE  /\ Ending
         /\ \A n : (\E i \in DOMAIN errors' :
                      errors'[i].line = n /\ errors'[i].category = "build/include_what_you_use")
                     <=> \E e \in Wanted : e.line = n
         /\ (\E i \in DOMAIN errors' : errors'[i].category = "build/include" /\ errors'[i].confidence = 5)
              <=> IsSource(file.name) /\ OwnCheck # <<>>
<1> DEFINE completed == CheckCompletedBlocks(nesting_state)
           wanted == SetToSeq(Wanted)
           own == IF IsSource(file.name) THEN OwnCheck ELSE <<>>
           S == ErrorType \cup BlockErrors \cup Wanted \cup ToSet(own)
           s1 == errors \o completed
           s2 == s1 \o wanted
<1>1. Ending
  BY DEF Ending, EndOfFile
<1>2. errors' = errors \o completed \o wanted \o own
  BY DEF EndOfFile, Wanted, OwnCheck
<1>3. errors \in Seq(ErrorType) /\ completed \in Seq(BlockErrors)
  BY <1>1, EndingFacts, CompletedTyped DEF ReportsInv
<1>4. wanted \in Seq(Wanted) /\ ToSet(wanted) = Wanted
  BY <1>1, WantedIs, SetToSeqIs
<1>5. /\ own = <<>> \/ \E n : own = <<ErrorAt(n, "build/include", 5)>>
      /\ own # <<>> <=> IsSource(file.name) /\ OwnCheck # <<>>
  BY <1>1, OwnCheckIs
<1> HIDE DEF completed, wanted, own
<1>6. /\ own \in Seq(ToSet(own))
      /\ \A e \in ToSet(own) : e.category = "build/include" /\ e.confidence = 5
      /\ ToSet(own) # {} <=> own # <<>>
  <2>1. CASE own = <<>>
    BY <2>1 DEF ToSet
  <2>2. ASSUME NEW n, own = <<ErrorAt(n, "build/include", 5)>> PROVE <1>6
    <3> DEFINE e == ErrorAt(n, "build/include", 5)
    <3>1. e.category = "build/include" /\ e.confidence = 5
      BY DEF ErrorAt
    <3> HIDE DEF e
    <3>2. own = <<e>>
      BY <2>2 DEF e
    <3>3. own \in Seq({e}) /\ ToSet(own) = {e} /\ own # <<>>
      BY <3>2 DEF ToSet
    <3> QED BY <3>1, <3>3
  <2> QED BY <1>5, <2>1, <2>2
<1>7. errors \in Seq(S) /\ completed \in Seq(S) /\ wanted \in Seq(S) /\ own \in Seq(S)
  <2>1. ErrorType \subseteq S /\ BlockErrors \subseteq S /\ Wanted \subseteq S /\ ToSet(own) \subseteq S
    OBVIOUS
  <2> HIDE DEF S
  <2> QED BY <1>3, <1>4, <1>6, <2>1, SeqMonotonic
<1> HIDE DEF S
<1>8. s1 \in Seq(S) /\ ToSet(s1) = ToSet(errors) \cup ToSet(completed)
  BY <1>7, Joined
<1> HIDE DEF s1
<1>9. s2 \in Seq(S) /\ ToSet(s2) = ToSet(s1) \cup Wanted
  BY <1>4, <1>7, <1>8, Joined
<1> HIDE DEF s2
<1>10. errors' = s2 \o own
  BY <1>2 DEF s1, s2
<1>11. ToSet(errors') = ToSet(errors) \cup ToSet(completed) \cup Wanted \cup ToSet(own)
  BY <1>7, <1>8, <1>9, <1>10, Joined
<1>12. \A e \in ToSet(errors) : /\ e.category # "build/include_what_you_use"
                                /\ e.category = "build/include" => e.confidence # 5
  <2>1. ToSet(errors) \subseteq ErrorType
    BY <1>3 DEF ToSet
  <2>2. ASSUME NEW e \in ErrorType
        PROVE  /\ e.category # "build/include_what_you_use"
               /\ e.category = "build/include" => e.confidence # 5
    BY DEF ErrorType, IncludeCategories, OtherCategories
  <2> QED BY <2>1, <2>2
<1>13. \A e \in ToSet(completed) :
         e.category # "build/include_what_you_use" /\ e.category # "build/include"
  <2>1. ToSet(completed) \subseteq BlockErrors
    BY <1>3 DEF ToSet
  <2>2. \A e \in BlockErrors :
          e.category # "build/include_what_you_use" /\ e.category # "build/include"
    BY DEF BlockErrors
  <2> QED BY <2>1, <2>2
<1>14. \A e \in Wanted : e.category = "build/include_what_you_use"
  BY <1>1, WantedIs
<1>15. ToSet(errors') = {errors'[i] : i \in DOMAIN errors'}
  BY DEF ToSet
<1>16. ASSUME NEW n
       PROVE  (\E i \in DOMAIN errors' :
                 errors'[i].line = n /\ errors'[i].category = "build/include_what_you_use")
                 <=> \E e \in Wanted : e.line = n
  <2>1. (\E i \in DOMAIN errors' :
           errors'[i].line = n /\ errors'[i].category = "build/include_what_you_use")
          <=> \E e \in ToSet(errors') : e.line = n /\ e.category = "build/include_what_you_use"
    BY <1>15
  <2> QED BY <1>6, <1>11, <1>12, <1>13, <1>14, <2>1
<1>17. (\E i \in DOMAIN errors' : errors'[i].category = "build/include" /\ errors'[i].confidence = 5)
         <=> IsSource(file.name) /\ OwnCheck # <<>>
  <2>1. (\E i \in DOMAIN errors' : errors'[i].category = "build/include" /\ errors'[i].confidence = 5)
          <=> \E e \in ToSet(errors') : e.category = "build/include" /\ e.confidence = 5
    BY <1>15
  <2> QED BY <1>5, <1>6, <1>11, <1>12, <1>13, <1>14, <2>1
<1> QED BY <1>1, <1>16, <1>17

(* What the file needs is asked for at its end. *)
LEMMA HeadersEnd ==
  ASSUME TypeInv, IncludeInv, EndOfFile
  PROVE  HeadersAskedFor'
<1>1. lines' = lines /\ file' = file
  BY DEF EndOfFile
<1>2. (NoAssembly' <=> NoAssembly) /\ (NoElse' <=> NoElse)
  BY <1>1 DEF NoAssembly, NoElse
<1> SUFFICES ASSUME NoAssembly, NoElse PROVE HeadersAskedFor'
  BY <1>2 DEF HeadersAskedFor, IncludesAskedFor, OwnHeaderIsAskedFor
<1>3. /\ Ending
      /\ \A n : (\E i \in DOMAIN errors' :
                   errors'[i].line = n /\ errors'[i].category = "build/include_what_you_use")
                  <=> \E e \in Wanted : e.line = n
      /\ (\E i \in DOMAIN errors' : errors'[i].category = "build/include" /\ errors'[i].confidence = 5)
           <=> IsSource(file.name) /\ OwnCheck # <<>>
  BY Ended
<1>4. IncludesAskedFor'
  <2>1. ASSUME NEW n \in DOMAIN lines
        PROVE  Reported(n, "build/include_what_you_use")' <=> Asked(n)
    <3>1. Reported(n, "build/include_what_you_use")' <=> \E e \in Wanted : e.line = n
      <4>1. Reported(n, "build/include_what_you_use")' <=>
              \E i \in DOMAIN errors' :
                errors'[i].line = n /\ errors'[i].category = "build/include_what_you_use"
        BY DEF Reported, Reports
      <4> QED BY <1>3, <4>1
    <3> QED BY <1>3, <3>1, WantedIs
  <2>2. \A n : Asked(n)' <=> Asked(n)
    BY <1>1 DEF Asked, UsedIn, HaveAlready, OwnPaths, Inclusions
  <2>3. (\A n \in DOMAIN lines : Reported(n, "build/include_what_you_use") <=> Asked(n))'
          => IncludesAskedFor'
    BY DEF IncludesAskedFor, Asked, UsedIn, HaveAlready, OwnPaths, Inclusions
  <2> QED BY <1>1, <2>1, <2>2, <2>3
<1>5. OwnHeaderIsAskedFor'
  BY <1>1, <1>3, OwnCheckIs DEF OwnHeaderIsAskedFor
<1> QED BY <1>4, <1>5 DEF HeadersAskedFor

LEMMA HeadersStep == TypeInv /\ IncludeInv /\ HeadersAskedFor /\ [Next]_vars => HeadersAskedFor'
<1> SUFFICES ASSUME TypeInv, IncludeInv, HeadersAskedFor, [Next]_vars PROVE HeadersAskedFor'
  OBVIOUS
<1>1. pc' # "done" => HeadersAskedFor'
  BY DEF HeadersAskedFor, IncludesAskedFor, OwnHeaderIsAskedFor
<1>2. ASSUME NEW line \in Alphabets[kind], Type(line) PROVE HeadersAskedFor'
  BY <1>1, <1>2 DEF Type
<1>3. CASE Guard
  BY <1>1, <1>3 DEF Guard
<1>4. CASE ProcessLine
  BY <1>1, <1>4 DEF ProcessLine
<1>5. CASE EndOfFile
  BY <1>5, HeadersEnd
<1>6. CASE UNCHANGED vars
  BY <1>6 DEF vars, HeadersAskedFor, NoAssembly, IncludesAskedFor, OwnHeaderIsAskedFor, NoElse,
              Reported, Reports
<1> QED BY <1>2, <1>3, <1>4, <1>5, <1>6 DEF Next

(* A file without inline assembly and #else is told to include just what   *)
(* it needs and does not have, whatever it has in it, however long it is.  *)
THEOREM HeadersCorrect == Spec => []HeadersAskedFor
<1> DEFINE Inv == TypeInv /\ IncludeInv /\ HeadersAskedFor
<1>1. Init => Inv
  BY TypeInit DEF Init, IncludeInv, HeadersAskedFor, IncludesAskedFor, OwnHeaderIsAskedFor
<1>2. Inv /\ [Next]_vars => Inv'
  BY TypeStep, IncludeStep, HeadersStep
<1> QED BY <1>1, <1>2, PTL DEF Spec
=============================================================================
