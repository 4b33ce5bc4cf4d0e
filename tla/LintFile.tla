------------------------------ MODULE LintFile ------------------------------
(***************************************************************************)
(* ProcessFileData over one file: the header guard, then every line in     *)
(* turn through the checks that keep a state from line to line, then the   *)
(* checks at the end of the file.  A line of inline assembly goes no       *)
(* further than NestingState.                                              *)
(***************************************************************************)
EXTENDS HeaderGuard, FunctionSize, Nesting

CONSTANTS
  Alphabets,        \* Alphabets[k]: the lines that files of kind k consist of
  Sizes,            \* Sizes[k]: the number of their lines
  Settings          \* Settings[k]: their names, with the disk and the options

LineType ==
  [indent: Nat, toks: Seq(STRING), comment: Seq(STRING), include: Seq(STRING),
   system: BOOLEAN, uses: SUBSET Seq(STRING), guard: Seq(STRING), nolint_guard: BOOLEAN]

(* A line with an #include has nothing else, and what a line uses is in    *)
(* some headers.                                                           *)
ASSUME LinesAssumption ==
  \A k \in DOMAIN Alphabets :
    \A line \in Alphabets[k] :
      /\ line \in LineType
      /\ line.include # <<>> => line.toks = <<"#include">>
      /\ IsFiniteSet(line.uses) /\ \A h \in line.uses : ~ IsSuffix(<<".", "cc">>, h)

ASSUME SizesAssumption == \A k \in DOMAIN Alphabets : Sizes[k] \in Nat

(* A setting says how a header of its name is to be guarded, and which of  *)
(* the headers that lines include a file of its name may be written for.   *)
ASSUME SettingsAssumption ==
  \A k \in DOMAIN Alphabets :
    \A f \in Settings[k] :
      /\ f.guard \in Seq(STRING)
      /\ Extension(f.name) = <<".", "h">> =>
           f.guard = GetHeaderGuardCPPVariable(f.disk, f.name, f.root)
      /\ \A line \in Alphabets[k] :
           line.include # <<>> /\ ~ line.system =>
             (line.include \in f.own <=>
                ClassifyInclude(f.disk, f.name, line.include, FALSE, CppHeaders)
                  \in {"LIKELY_MY", "POSSIBLE_MY"})

(* Nor do the names of headers mislead: of those that lines include, just  *)
(* the file's own are read for it, and where they are; and if it is        *)
(* no test, the header of its name is found if it is anywhere, and no      *)
(* other one's name is part of that one's or has it as a part.             *)
ASSUME NamesAssumption ==
  \A k \in DOMAIN Alphabets :
    \A f \in Settings[k] :
      LET headers == {line.include : line \in Alphabets[k]} \ {<<>>}
          header == OwnHeader(f.place)
          name == RepositoryName(f.disk, OwnHeader(f.name))
      IN  /\ f.place \in Seq(STRING)
          /\ \A h \in headers :
               ReadAt(f, h) = {path \in DOMAIN f.disk.includes :
                                IsSource(f.name) /\ h \in f.own /\ IsSuffix(h, path)}
          /\ IsSource(f.name) /\ ~ IsTest(f.name) =>
               /\ FullName(f.disk, OwnHeader(f.name)) \in f.disk.files
                    <=> \E h \in f.disk.files : IsSuffix(header, h)
               /\ ~ IsThirdParty(header)
               /\ \A h \in headers : PartOf(name, h) \/ PartOf(h, name) <=> h = header

VARIABLES
  kind,             \* the kind of the file
  file,             \* its name, place, disk, root and verbosity
  lines,            \* the lines of the file
  pc,
  lineno,           \* the lines that were processed
  nesting_state,
  include_state,
  function_state,
  errors            \* what was reported, in order

vars == <<kind, file, lines, pc, lineno, nesting_state, include_state, function_state, errors>>

Init ==
  /\ kind \in DOMAIN Alphabets /\ file \in Settings[kind] /\ lines = <<>>
  /\ pc = "typing" /\ lineno = 0
  /\ nesting_state = NestingStateInit
  /\ include_state = IncludeStateInit
  /\ function_state = FunctionStateInit
  /\ errors = <<>>

(* The file comes to be what it is. *)
Type(line) ==
  /\ pc = "typing" /\ Len(lines) < Sizes[kind]
  /\ lines' = Append(lines, line)
  /\ UNCHANGED <<kind, file, pc, lineno, nesting_state, include_state, function_state, errors>>

Guard ==
  /\ pc = "typing" /\ Len(lines) = Sizes[kind]
  /\ errors' = IF Extension(file.name) = <<".", "h">>
                 THEN CheckForHeaderGuard(file, lines) ELSE <<>>
  /\ pc' = "lines"
  /\ UNCHANGED <<kind, file, lines, lineno, nesting_state, include_state, function_state>>

(* The checks of a line that is no inline assembly. *)
ProcessOutside(nesting, begun) ==
  \E length \in {CheckForFunctionLengths(function_state, lines, lineno', file.verbosity)},
     include \in {CheckIncludeState(file, include_state, lines, lineno')} :
    /\ function_state' = length.state
    /\ include_state' = include.state
    /\ errors' = begun \o length.errors \o CheckSectionSpacing(nesting, lines, lineno')
                   \o include.errors

(* Mutant: the checks go on inside inline assembly. *)
ProcessLine_through_asm ==
  /\ pc = "lines" /\ lineno < Len(lines)
  /\ lineno' = lineno + 1
  /\ \E nesting \in {Update(nesting_state, lines, lineno')} :
       LET begun == errors \o nesting.errors
                      \o CheckForNamespaceIndentation(nesting.state, lines, lineno')
       IN  /\ nesting_state' = nesting.state
           /\ ProcessOutside(nesting.state, begun)
  /\ UNCHANGED <<kind, file, lines, pc>>

ProcessLine ==
  /\ pc = "lines" /\ lineno < Len(lines)
  /\ lineno' = lineno + 1
  /\ \E nesting \in {Update(nesting_state, lines, lineno')} :
       LET begun == errors \o nesting.errors
                      \o CheckForNamespaceIndentation(nesting.state, lines, lineno')
       IN  /\ nesting_state' = nesting.state
           /\ IF InAsmBlock(nesting.state)
                THEN errors' = begun /\ UNCHANGED <<function_state, include_state>>
                ELSE ProcessOutside(nesting.state, begun)
  /\ UNCHANGED <<kind, file, lines, pc>>

(* The order of the headers that are asked for is that of a Python dict.   *)
EndOfFile ==
  /\ pc = "lines" /\ lineno = Len(lines)
  /\ errors' = errors \o CheckCompletedBlocks(nesting_state)
                 \o SetToSeq(CheckForIncludeWhatYouUse(file, include_state, lines))
                 \o (IF IsSource(file.name) THEN CheckHeaderFileIncluded(file, include_state)
                     ELSE <<>>)
  /\ pc' = "done"
  /\ UNCHANGED <<kind, file, lines, lineno, nesting_state, include_state, function_state>>

Next ==
  \/ \E line \in Alphabets[kind] : Type(line)
  \/ Guard
  \/ ProcessLine
  \/ EndOfFile

Spec == Init /\ [][Next]_vars

-----------------------------------------------------------------------------
(* What the file says, read without the states of the checks.              *)

Reports(n, category) ==
  {i \in DOMAIN errors : errors[i].line = n /\ errors[i].category = category}

Reported(n, category) == Reports(n, category) # {}

(* The branches of conditionals each line is in, outermost first: the line *)
(* of the #if, and which of its branches.                                  *)
Follow(before, n) ==
  CASE Begins(lines[n], Ifs) -> Append(before, [opened |-> n, branch |-> 1])
    [] Begins(lines[n], {"#else"}) /\ before # <<>> ->
         Append(Front(before), [Last(before) EXCEPT !.branch = @ + 1])
    [] Begins(lines[n], {"#endif"}) /\ before # <<>> -> Front(before)
    [] OTHER -> before

Paths ==
  LET paths[n \in 0..Len(lines)] == IF n = 0 THEN <<>> ELSE Follow(paths[n - 1], n)
  IN  paths

(* The lines that count for line n: they are in the branch that n is in,   *)
(* or in the first branch of a conditional that is over.                   *)
Counting(n) ==
  LET paths == Paths
      counts(c) == LET now == {d \in ToSet(paths[n]) : d.opened = c.opened}
                   IN  IF now = {} THEN c.branch = 1 ELSE now = {c}
  IN  {m \in 1..n : \A c \in ToSet(paths[m]) : counts(c)}

IsDirective(line) == Begins(line, Conditionals \cup {"#define"})

(* What a statement that ends in a brace opens.  A class may have template *)
(* parameters before it, but is none of them.                              *)
KindOf(stmt) ==
  LET head == IF stmt = <<>> THEN "" ELSE stmt[1]
      even(i) == Occurrences(SubSeq(stmt, 1, i), "<") = Occurrences(SubSeq(stmt, 1, i), ">")
      close == Min({i \in DOMAIN stmt : stmt[i] = ">" /\ even(i)} \cup {Len(stmt)})
      key == IF head = "template" /\ close < Len(stmt) THEN stmt[close + 1] ELSE head
  IN CASE key = "namespace" -> "namespace"
       [] key \in Openings /\ even(Len(stmt)) /\ "(" \notin ToSet(stmt) -> "class"
       [] key = "extern" -> "extern"
       [] key = "asm" -> "asm"
       [] OTHER -> "block"

(* The name after namespace, class or struct.                              *)
NameOf(stmt) ==
  LET keys == {i \in DOMAIN stmt : stmt[i] \in Openings \cup {"namespace"}}
      rest == SelectInSubSeq(stmt, Max(keys) + 1, Len(stmt), LAMBDA w : w \in Words \ MacroNames)
  IN  IF KindOf(stmt) = "namespace" /\ (Len(stmt) = 1 \/ stmt[2] \notin Words) THEN ""
      ELSE IF rest = 0 THEN "" ELSE stmt[rest]

(* May a piece come next in a statement?                                   *)
Follows(stmt, tok) ==
  LET depth == Occurrences(stmt, "<") - Occurrences(stmt, ">")
      head == IF stmt = <<>> THEN "" ELSE stmt[1]
  IN CASE tok = ">" -> depth > 0
       [] tok \in {"{", ";"} -> depth = 0 /\ Occurrences(stmt, "(") = Occurrences(stmt, ")")
       [] tok = "}" -> stmt = <<>>
       [] tok \in Openings -> stmt = <<>> \/ depth > 0 \/ Last(stmt) \in {">", "("}
       [] OTHER -> tok # "template" \/ head \notin Openings

(* The statements of the lines that count for line n, with the braces      *)
(* that are open after each piece: their kind and name, and where.         *)
ReadPiece(st, piece) ==
  LET tok == piece.tok
      Opened(what) ==
        [kind |-> what, line |-> piece.line,
         name |-> IF what \in {"namespace", "class"} THEN NameOf(st.stmt) ELSE "",
         head |-> IF st.heads = <<>> THEN piece.line ELSE Last(st.heads)]
      ended == [st EXCEPT !.stmt = <<>>, !.heads = <<>>]
      read == CASE tok = "{" -> [ended EXCEPT !.open = Append(@, Opened(KindOf(st.stmt)))]
                [] tok = "}" -> [ended EXCEPT !.open = IF @ = <<>> THEN <<>> ELSE Front(@)]
                [] tok = ";" \/ (tok = ":" /\ Len(st.stmt) = 1 /\ st.stmt[1] \in Accesses) ->
                     ended
                [] OTHER -> [st EXCEPT !.stmt = Append(@, tok),
                                       !.heads = IF tok \in Openings \cup {"namespace"}
                                                   THEN Append(@, piece.line) ELSE @]
  IN  [read EXCEPT !.fit = @ /\ Follows(st.stmt, tok)]

PiecesOf(m) == [i \in DOMAIN lines[m].toks |-> [tok |-> lines[m].toks[i], line |-> m]]

Reading(n) ==
  LET counting == {m \in Counting(n) : ~ IsDirective(lines[m])}
      pieces == FlattenSeq([m \in 1..n |-> IF m \in counting THEN PiecesOf(m) ELSE <<>>])
  IN  FoldLeft(ReadPiece, [open |-> <<>>, stmt |-> <<>>, heads |-> <<>>, fit |-> TRUE], pieces)

OpenAfter(n) == Reading(n).open

(* The statements up to line n are C++, as far as braces and angle         *)
(* brackets go.                                                            *)
WellFormed(n) == Reading(n).fit

Innermost(open) == IF open = <<>> THEN "file" ELSE Last(open).kind

(* The line is inline assembly: in the braces of an asm, or from a line    *)
(* with asm( to the one where its parentheses are even again.              *)
IsAssembly(n) ==
  LET counting == Counting(n)
      change(m) == Occurrences(lines[m].toks, "(") - Occurrences(lines[m].toks, ")")
      parens(m, k) == FoldSet(LAMBDA i, sum : sum + change(i), 0, (m..k) \cap counting)
  IN  \/ Innermost(OpenAfter(n)) = "asm"
      \/ \E m \in counting :
           /\ Begins(lines[m], {"asm"}) /\ OpenAfter(m - 1) # <<>>
           /\ Occurrences(lines[m].toks, "{") = 0 /\ change(m) = 1
           /\ \A k \in m..(n - 1) : parens(m, k) > 0

IsLoneBrace(line) == Begins(line, {"}"}) /\ ToSet(Tail(line.toks)) \subseteq {";"}

-----------------------------------------------------------------------------
(* Properties of the blocks. *)

(* The blocks whose brace was seen are the braces that are open, and of    *)
(* what kind they are, at every line: in whichever branch of a conditional *)
(* the line is, after heads over several lines, forward declarations and   *)
(* templates.                                                              *)
BlocksAgree ==
  LET seen == SelectSeq(nesting_state.stack, LAMBDA b : b.seen_open_brace)
      Agree(block, brace) ==
        /\ block.kind = IF brace.kind = "asm" THEN "block" ELSE brace.kind
        /\ block.name = brace.name
      AgreeWith(reading) ==
        reading.fit => /\ Len(seen) = Len(reading.open)
                       /\ \A i \in DOMAIN seen : Agree(seen[i], reading.open[i])
  IN  pc = "lines" => AgreeWith(Reading(lineno))

(* A brace alone on its line is held against the block that it closes: a   *)
(* namespace is to be named in a comment there if it has NamespaceLines    *)
(* lines before this one, and if a comment there speaks of one; a class    *)
(* ends below its beginning; and nothing is said of any other block.       *)
ClosingsAgree ==
  pc = "lines" /\ lineno > 0 /\ IsLoneBrace(lines[lineno]) =>
    LET line == lines[lineno]
        Wanted(name) == IF name = "" THEN <<"namespace">> ELSE <<"namespace", name>>
        Agree(open) ==
          /\ Reported(lineno, "readability/namespace") <=>
               /\ Innermost(open) = "namespace"
               /\ ~ IsSuffix(Wanted(Last(open).name), line.comment)
               /\ \/ "namespace" \in ToSet(line.comment)
                  \/ lineno - Last(open).head >= NamespaceLines
          /\ Reported(lineno, "whitespace/indent") <=>
               Innermost(open) = "class" /\ line.indent # lines[Last(open).head].indent
    IN  Agree(OpenAfter(lineno - 1))

(* Only what stands right in a namespace may not be indented, and what     *)
(* opens a block there is told so.                                         *)
IndentationAgrees ==
  pc = "lines" /\ lineno > 0 =>
    LET line == lines[lineno]
        inside == Innermost(OpenAfter(lineno - 1)) = "namespace" /\ line.indent > 0
        opens == /\ Begins(line, Openings \cup {"namespace"}) /\ Last(line.toks) = "{"
                 /\ ~ IsMacroDefinition(lines, lineno)
    IN  /\ Reported(lineno, "runtime/indentation_namespace") => inside
        /\ inside /\ opens => Reported(lineno, "runtime/indentation_namespace")

(* Inline assembly is left alone, and nothing else is: the state says asm  *)
(* from the line that begins it to the line that ends it.                  *)
AssemblyAgrees ==
  pc = "lines" /\ lineno > 0 /\ WellFormed(lineno) =>
    (InAsmBlock(nesting_state) <=> IsAssembly(lineno))

(* A section of a class of some length follows a blank line, unless it is  *)
(* the first thing in it or comes after a line of a class: whatever the    *)
(* class has in it, and whichever class it is in.  This leaves out a class *)
(* whose brace is on a later line than its name: the comment of the check  *)
(* means to account for it, and the code takes it for one of no length.    *)
SectionsAreSpaced ==
  pc = "lines" /\ lineno > 1 /\ Begins(lines[lineno], Accesses \ {"signals"})
  /\ WellFormed(Len(lines)) =>
    LET before == lines[lineno - 1]
        open == OpenAfter(lineno)
        k == SelectLastInSeq(open, LAMBDA b : b.kind = "class")
        split == k > 0 /\ open[k].head < open[k].line
        ends == {n \in lineno..Len(lines) : Len(OpenAfter(n)) < k}
        long == ends # {} /\ Min(ends) - open[k].line > SectionLines
    IN  split \/ (Reported(lineno, "whitespace/blank_line") <=>
                    /\ before.toks # <<>> /\ ToSet(before.toks) \cap Openings = {}
                    /\ k > 0 /\ long /\ open[k].line < lineno - 1)

(* What is laid out by the blocks a line is in is judged by the blocks it  *)
(* is in: the brace that closes one, what stands in a namespace and the    *)
(* sections of a class.                                                    *)
LayoutAgrees == ClosingsAgree /\ IndentationAgrees /\ SectionsAreSpaced

-----------------------------------------------------------------------------
(* Properties of the size of functions. *)

IsHead(line) == line.indent = 0 /\ Holds(line, {"("}) /\ Last(line.toks) = "{"

(* A declaration of a function that begins its line, and no macro.         *)
IsPrototype(line) ==
  line.indent = 0 /\ Holds(line, {"("}) /\ Last(line.toks) = ";" /\ Head(line.toks) \notin Capitals

(* A function is reported at its end just if it has more lines than its    *)
(* kind may have at this verbosity, blank lines, inline assembly and       *)
(* declarations of functions at the beginning of a line not counted, nor   *)
(* any line of the function before; and never at a level that the          *)
(* verbosity hides.                                                        *)
FunctionSizeAgrees ==
  pc = "lines" /\ lineno > 0 /\ IsFunctionEnd(lines[lineno]) /\ WellFormed(lineno) =>
    LET heads == {m \in 1..lineno : IsHead(lines[m])}
        head == Max(heads)
        over == \E m \in head..(lineno - 1) : IsFunctionEnd(lines[m])
        counted == {m \in (head + 1)..(lineno - 1) :
                      lines[m].toks # <<>> /\ ~ IsPrototype(lines[m]) /\ ~ IsAssembly(m)}
        trigger == IF Head(lines[head].toks) \in TestNames THEN TestTrigger ELSE NormalTrigger
    IN  /\ Reported(lineno, "readability/fn_size") <=>
             /\ heads # {} /\ ~ over
             /\ Cardinality(counted) > trigger * 2 ^ file.verbosity
        /\ \A i \in DOMAIN errors :
             errors[i].category = "readability/fn_size" => errors[i].confidence >= file.verbosity

-----------------------------------------------------------------------------
(* Properties of the includes. *)

Same(m, n) == m < n /\ lines[m].include = lines[n].include

(* Conditionals that do not lie in one another, and no #else without #if.  *)
Flat ==
  LET paths == Paths IN
  \A m \in DOMAIN lines :
    Len(paths[m]) < 2 /\ (Begins(lines[m], {"#else"}) => paths[m - 1] # <<>>)

(* An include that is reported for more than the directory it does not     *)
(* name.                                                                   *)
Refused(m) ==
  Cardinality(Reports(m, "build/include")) > Len(UnnamedDirectory(lines[m], m))

(* Where conditionals do not lie in one another, an include is refused as  *)
(* a repetition if the file has it already in every branch that the line   *)
(* is in, and only if the two can be in one translation unit.              *)
DuplicatesAgree ==
  pc = "lines" /\ lineno > 0 /\ lines[lineno].include # <<>> /\ Flat
  /\ ~ IsSuffix(<<".", "cc">>, lines[lineno].include) /\ ~ IsThirdParty(lines[lineno].include) =>
    LET paths == Paths
        together(m) == \A c \in ToSet(paths[m]), d \in ToSet(paths[lineno]) :
                          c.opened = d.opened => c = d
    IN  /\ (\E m \in 1..lineno : Same(m, lineno) /\ IsPrefix(paths[m], paths[lineno]))
             => Refused(lineno)
        /\ Refused(lineno) => \E m \in 1..lineno : Same(m, lineno) /\ together(m)

(* The includes that are ordered together with line n, from the last       *)
(* directive on: those that are not refused.                               *)
Group(n) ==
  {m \in 1..n : /\ lines[m].include # <<>> /\ ~ IsThirdParty(lines[m].include)
                /\ ~ Refused(m)
                /\ \A k \in m..n : ~ Begins(lines[k], Conditionals)}

IsOwn(m) == ~ lines[m].system /\ lines[m].include \in file.own

(* The file's own header belongs first and comes after everything else if  *)
(* it does not.                                                            *)
Place(m) ==
  LET line == lines[m] IN
  CASE line.system -> IF line.include \in CppHeaders THEN 3 ELSE 2
    [] IsOwn(m) /\ \A k \in Group(m) : IsOwn(k) -> 1
    [] ~ line.system /\ \E k \in Group(m) \cup {m} : ~ IsOwn(k) -> 4

(* The file's own header after another one that is neither its own nor of  *)
(* the system.                                                             *)
IsLateOwn(n) ==
  IsOwn(n) /\ \E m \in Group(n) : m < n /\ ~ lines[m].system /\ ~ IsOwn(m)

(* Every header after one that belongs behind it is reported, and no other *)
(* one.  This leaves out the file's own header after other ones, which a   *)
(* comment gives a lower type than those, and the code the same.           *)
OrderAgrees ==
  pc = "lines" /\ lineno \in Group(lineno) /\ ~ IsLateOwn(lineno) =>
    (Reported(lineno, "build/include_order") <=>
       \E m \in Group(lineno) : m < lineno /\ Place(m) > Place(lineno))

(* A header is compared with the one before it just if both are in order,  *)
(* belong to one section and stand on lines that follow each other.        *)
AlphaAgrees ==
  pc = "lines" /\ lineno \in Group(lineno) =>
    LET before == Group(lineno) \ {lineno}
        m == Max(before)
        late(k) == \E j \in Group(k) : j < k /\ Place(j) > Place(k)
    IN  before = {} \/ ~ late(m) =>
          (Reported(lineno, "build/include_alpha") <=>
             /\ before # {} /\ Place(m) = Place(lineno)
             /\ lines[lineno - 1].include # <<>>
             /\ LessPath(CanonicalizeAlphabeticalOrder(lines[lineno].include),
                         CanonicalizeAlphabeticalOrder(lines[m].include)))

NoAssembly == \A m \in DOMAIN lines : ~ Holds(lines[m], {"asm"})

(* Of the includes of a file exactly those are reported that repeat one,   *)
(* come after one of a later section, or do not follow the alphabet,       *)
(* whatever conditionals and blank lines stand between them, but for what  *)
(* the three parts say that they leave out.                                *)
IncludeOrderAgrees == NoAssembly => DuplicatesAgree /\ OrderAgrees /\ AlphaAgrees

NoElse == \A m \in DOMAIN lines : ~ Begins(lines[m], {"#else"})

(* A header is asked for at the last line that needs it, unless the file   *)
(* or its own header includes it.  A .cc file whose own header cannot be   *)
(* read is asked for nothing.                                              *)
IncludesAskedFor ==
  pc = "done" /\ NoElse =>
    LET included == {lines[m].include : m \in DOMAIN lines} \ (ThirdParty \cup {<<>>})
        paths == {h \in DOMAIN file.disk.includes :
                    IsSource(file.name) /\ \E o \in file.own \cap included : IsSuffix(o, h)}
        known == included \cup UNION {ToSet(file.disk.includes[h]) : h \in paths}
        last(n, h) == h \in lines[n].uses /\ \A m \in (n + 1)..Len(lines) : h \notin lines[m].uses
    IN  \A n \in DOMAIN lines :
          Reported(n, "build/include_what_you_use") <=>
            /\ IsSuffix(<<".", "cc">>, file.name) => paths # {}
            /\ \E h \in lines[n].uses \ known : last(n, h)

(* A source file is told to include the header of its name just if there   *)
(* is one, it is no test, and the file includes it nowhere.                *)
OwnHeaderIsAskedFor ==
  pc = "done" /\ NoElse =>
    LET header == OwnHeader(file.place)
        asked == \E i \in DOMAIN errors :
                    errors[i].category = "build/include" /\ errors[i].confidence = 5
    IN  asked <=> /\ IsSource(file.name) /\ ~ IsTest(file.name)
                  /\ \E h \in file.disk.files : IsSuffix(header, h)
                  /\ \A m \in DOMAIN lines : lines[m].include # header

(* A file is told to include just what it needs and does not have: the     *)
(* headers of what it uses, and its own.  The code does not read what      *)
(* stands in inline assembly.                                              *)
HeadersAskedFor == NoAssembly => IncludesAskedFor /\ OwnHeaderIsAskedFor

-----------------------------------------------------------------------------
(* Properties of the name of the file. *)

(* The name of a file in its checkout is the same wherever the checkout    *)
(* lies, whatever tool made it and wherever cpplint is started.            *)
NameIsPlace ==
  pc = "typing" => RepositoryName(file.disk, file.name) = file.place

(* The header a source file is written for is found to be its own by each  *)
(* of the two ways the code asks: for the order of includes, and to read   *)
(* what it includes.                                                       *)
OwnHeaderIsFound ==
  pc = "typing" /\ IsSource(file.name) =>
    \A h \in file.own :
      LET fullname == FullName(file.disk, file.name)
          module == FilesBelongToSameModule(fullname, h)
      IN  /\ ClassifyInclude(file.disk, file.name, h, FALSE, CppHeaders) = "LIKELY_MY"
          /\ module.same
          /\ module.common_path \o h = WithoutLast(fullname, Len(file.place)) \o h

(* Files are told apart by their places in the checkout, wherever that is: *)
(* in names and guards, and to find a source file and its header together. *)
NamesAgree == NameIsPlace /\ OwnHeaderIsFound

(* A header is let pass just if one name guards it from its first #ifndef  *)
(* to its last #endif: that of its place under the root, or this name and  *)
(* an underscore.                                                          *)
GuardAgrees ==
  pc = "lines" /\ lineno = 0 /\ Extension(file.name) = <<".", "h">> =>
    LET first(word) == SelectInSeq(lines, LAMBDA l : Begins(l, {word}))
        endif == SelectLastInSeq(lines, IsEndif)
        names == {file.guard, Append(file.guard, "_")}
        comments == \E m \in DOMAIN lines : HasComment(lines[m], "//")
        mark == IF comments THEN "//" ELSE "/*"
    IN  (\A i \in DOMAIN errors : errors[i].confidence = 0) <=>
          \/ \E m \in DOMAIN lines : lines[m].nolint_guard
          \/ /\ first("#ifndef") > 0 /\ first("#define") > 0 /\ endif > 0
             /\ lines[first("#ifndef")].guard = lines[first("#define")].guard
             /\ lines[first("#ifndef")].guard \in names
             /\ HasComment(lines[endif], mark) /\ lines[endif].guard \in names
=============================================================================
