------------------------------ MODULE Nesting ------------------------------
(***************************************************************************)
(* NestingState: the blocks that are open at a line of the file, kept up   *)
(* from line to line, through #if and #else and inline assembly.  A line   *)
(* has an indent, its words and punctuation in toks, and the words of its  *)
(* comment in comment.                                                     *)
(***************************************************************************)
EXTENDS Includes

Brackets == INSTANCE Brackets

CONSTANTS
  NamespaceLines,    \* 10: a namespace of fewer lines needs no comment
  SectionLines,      \* 24: a class of no more lines needs no blank lines
  Words,             \* the pieces of a line that are names
  MacroNames         \* the names of capitals and underscores

Openings == {"class", "struct"}
Accesses == {"public", "private", "protected", "signals"}

Toks(lines) == [n \in DOMAIN lines |-> lines[n].toks]

From(s, i) == SubSeq(s, i, Len(s))

Occurrences(s, c) == Cardinality({i \in DOMAIN s : s[i] = c})

-----------------------------------------------------------------------------
(* Blocks.  kind is the class of the block: "block" for _BlockInfo itself. *)

Block(kind, n, seen) ==
  [kind |-> kind, name |-> "", start |-> n, seen_open_brace |-> seen,
   open_parentheses |-> 0, inline_asm |-> "NO", is_struct |-> FALSE,
   class_indent |-> 0, last_line |-> 0]

(* Mutant: a class ends with the first closing brace. *)
ClassEnd_first_close(lines, n) ==
  LET ends == {i \in n..Len(lines) : Occurrences(lines[i].toks, "}") > 0}
  IN  IF ends = {} THEN 0 ELSE Min(ends)

(* Where the braces are even again for the first time from line n on.      *)
ClassEnd(lines, n) ==
  LET depth[i \in (n - 1)..Len(lines)] ==
        IF i = n - 1 THEN 0
        ELSE depth[i - 1] + Occurrences(lines[i].toks, "{") - Occurrences(lines[i].toks, "}")
      ends == {i \in n..Len(lines) : depth[i] = 0}
  IN  IF ends = {} THEN 0 ELSE Min(ends)

ClassInfo(name, key, lines, n) ==
  [Block("class", n, FALSE) EXCEPT
     !.name = name, !.is_struct = (key = "struct"),
     !.class_indent = lines[n].indent, !.last_line = ClassEnd(lines, n)]

NamespaceInfo(name, n) == [Block("namespace", n, FALSE) EXCEPT !.name = name]

NestingStateInit ==
  [stack |-> <<>>, previous |-> [kind |-> "none", depth |-> 0, start |-> 0], pp_stack |-> <<>>]

SeenOpenBrace(stack) == stack = <<>> \/ Last(stack).seen_open_brace

InAsmBlock(state) == state.stack # <<>> /\ Last(state.stack).inline_asm # "NO"

(* InnermostClass: its place in the stack, or 0. *)
InnermostClass(state) == SelectLastInSeq(state.stack, LAMBDA b : b.kind = "class")

ChecksIndentation(block) == block.kind \in {"class", "namespace"}

WithTop(stack, block) == [stack EXCEPT ![Len(stack)] = block]

-----------------------------------------------------------------------------
(* The checks at the end of a block. *)

(* Mutant: any comment that speaks of a namespace will do. *)
NamespaceCheckEnd_any_name(block, lines, n) ==
  LET line == lines[n]
      closing == line.toks # <<>> /\ Head(line.toks) = "}"
                   /\ ToSet(Tail(line.toks)) \subseteq {";"} /\ line.comment # <<>>
  IN  IF n - block.start < NamespaceLines \/ (closing /\ "namespace" \in ToSet(line.comment))
        THEN <<>> ELSE <<ErrorAt(n, "readability/namespace", 5)>>

(* Mutant: the namespace may be one line longer. *)
NamespaceCheckEnd_longer(block, lines, n) ==
  LET line == lines[n]
      closing == line.toks # <<>> /\ Head(line.toks) = "}"
                   /\ ToSet(Tail(line.toks)) \subseteq {";"} /\ line.comment # <<>>
      wanted == IF block.name = "" THEN <<"namespace">> ELSE <<"namespace", block.name>>
  IN  IF \/ /\ n - block.start <= NamespaceLines
            /\ ~ (closing /\ "namespace" \in ToSet(line.comment))
         \/ closing /\ IsSuffix(wanted, line.comment)
        THEN <<>> ELSE <<ErrorAt(n, "readability/namespace", 5)>>

(* The brace that closes a namespace of some length, or with a comment     *)
(* that speaks of a namespace, is followed by a comment that names it.     *)
NamespaceCheckEnd(block, lines, n) ==
  LET line == lines[n]
      closing == line.toks # <<>> /\ Head(line.toks) = "}"
                   /\ ToSet(Tail(line.toks)) \subseteq {";"} /\ line.comment # <<>>
      wanted == IF block.name = "" THEN <<"namespace">> ELSE <<"namespace", block.name>>
  IN  IF \/ /\ n - block.start < NamespaceLines
            /\ ~ (closing /\ "namespace" \in ToSet(line.comment))
         \/ closing /\ IsSuffix(wanted, line.comment)
        THEN <<>> ELSE <<ErrorAt(n, "readability/namespace", 5)>>

(* A DISALLOW macro is the last thing in a class, and a closing brace that *)
(* begins its line stands below the beginning of the class.                *)
ClassCheckEnd(block, lines, n) ==
  LET disallow == {i \in (block.start + 1)..(n - 1) :
                     \E j \in DOMAIN lines[i].toks :
                       Text!At(lines[i].toks, <<"DISALLOW", "(", block.name, ")">>, j)}
      after == {i \in (Max(disallow) + 1)..(n - 1) : lines[i].toks # <<>>}
  IN  (IF disallow # {} /\ after # {}
         THEN <<ErrorAt(Max(disallow), "readability/constructors", 3)>> ELSE <<>>)
      \o (IF Head(lines[n].toks) = "}" /\ lines[n].indent # block.class_indent
            THEN <<ErrorAt(n, "whitespace/indent", 3)>> ELSE <<>>)

CheckEnd(block, lines, n) ==
  CASE block.kind = "namespace" -> NamespaceCheckEnd(block, lines, n)
    [] block.kind = "class" -> ClassCheckEnd(block, lines, n)
    [] OTHER -> <<>>

-----------------------------------------------------------------------------
(* InTemplateArgumentList: what there is from place pos of line n on.      *)
InTemplateArgumentList(lines, n, pos) ==
  LET First(toks, p) == SelectInSubSeq(toks, p, Len(toks), LAMBDA c :
        c \in {"{", "}", ";", "=", "[", "]", ".", "<", ">"})
      inside[m \in Nat, p \in Nat] ==
        LET toks == lines[m].toks
            i == First(toks, p)
            close == Brackets!CloseExpression(Toks(lines), m, i)
        IN  /\ m <= Len(lines)
            /\ CASE i = 0 -> inside[m + 1, 1]
                 [] i > 0 /\ toks[i] \in {"{", "}", ";"} -> FALSE
                 [] i > 0 /\ toks[i] \in {"=", "[", "]", ".", ">"} -> TRUE
                 [] OTHER -> close.pos > 0 /\ inside[close.line, close.pos]
  IN  inside[n, pos]

-----------------------------------------------------------------------------
(* UpdatePreprocessor.  A checkpoint holds the stack before #if and, once  *)
(* there was an #else or #elif ("#else"), the one before it.               *)

(* Mutant: the stack of the last branch is what counts after #endif. *)
UpdatePreprocessor_last_branch(state, line) ==
  LET directive == IF line.toks = <<>> THEN "" ELSE Head(line.toks)
      top == Last(state.pp_stack)
  IN CASE directive \in Ifs ->
            [state EXCEPT !.pp_stack =
               Append(@, [stack_before_if |-> state.stack, stack_before_else |-> <<>>,
                          seen_else |-> FALSE])]
       [] directive = "#else" /\ state.pp_stack # <<>> ->
            [state EXCEPT
               !.stack = top.stack_before_if,
               !.pp_stack[Len(state.pp_stack)] =
                 IF top.seen_else THEN @
                 ELSE [@ EXCEPT !.seen_else = TRUE, !.stack_before_else = state.stack]]
       [] directive = "#endif" /\ state.pp_stack # <<>> ->
            [state EXCEPT !.pp_stack = Front(@)]
       [] OTHER -> state

UpdatePreprocessor(state, line) ==
  LET directive == IF line.toks = <<>> THEN "" ELSE Head(line.toks)
      top == Last(state.pp_stack)
  IN CASE directive \in Ifs ->
            [state EXCEPT !.pp_stack =
               Append(@, [stack_before_if |-> state.stack, stack_before_else |-> <<>>,
                          seen_else |-> FALSE])]
       [] directive = "#else" /\ state.pp_stack # <<>> ->
            [state EXCEPT
               !.stack = top.stack_before_if,
               !.pp_stack[Len(state.pp_stack)] =
                 IF top.seen_else THEN @
                 ELSE [@ EXCEPT !.seen_else = TRUE, !.stack_before_else = state.stack]]
       [] directive = "#endif" /\ state.pp_stack # <<>> ->
            [state EXCEPT
               !.stack = IF top.seen_else THEN top.stack_before_else ELSE @,
               !.pp_stack = Front(@)]
       [] OTHER -> state

-----------------------------------------------------------------------------
(* The parts of Update, in their order. *)

(* Does a piece of a line begin inline assembly? *)
MatchAsm(toks) ==
  /\ toks # <<>> /\ Head(toks) = "asm"
  /\ LET k == IF Len(toks) > 1 /\ toks[2] = "volatile" THEN 3 ELSE 2
     IN  k <= Len(toks) /\ toks[k] \in {"(", "{"}

(* Mutant: assembly that has ended is not left. *)
CountParentheses_stays(stack, toks) ==
  LET depth_change == Occurrences(toks, "(") - Occurrences(toks, ")")
      block == Last(stack)
      open == block.open_parentheses + depth_change
      asm == CASE block.inline_asm = "NO" /\ depth_change # 0 /\ open = 1 /\ MatchAsm(toks) -> "INSIDE"
               [] block.inline_asm = "INSIDE" /\ open = 0 -> "END"
               [] OTHER -> block.inline_asm
  IN  IF stack = <<>> THEN stack
      ELSE WithTop(stack, [block EXCEPT !.open_parentheses = open, !.inline_asm = asm])

(* Parentheses are counted for the innermost block, and inline assembly    *)
(* begins and ends with them.                                              *)
CountParentheses(stack, toks) ==
  LET depth_change == Occurrences(toks, "(") - Occurrences(toks, ")")
      block == Last(stack)
      open == block.open_parentheses + depth_change
      asm == CASE block.inline_asm \in {"NO", "END"} ->
                    IF depth_change # 0 /\ open = 1 /\ MatchAsm(toks) THEN "INSIDE" ELSE "NO"
               [] block.inline_asm = "INSIDE" /\ open = 0 -> "END"
               [] OTHER -> block.inline_asm
  IN  IF stack = <<>> THEN stack
      ELSE WithTop(stack, [block EXCEPT !.open_parentheses = open, !.inline_asm = asm])

(* What the parts of Update work on, one after the other: the stack, what  *)
(* is left of the line, and the errors.                                    *)
Part(stack, rest) == [stack |-> stack, rest |-> rest, errors |-> <<>>]

(* A namespace that what is left of the line begins with. *)
ConsumeNamespace(part, n) ==
  LET rest == part.rest
      named == Len(rest) > 1 /\ rest[2] \in Words
      after == From(rest, IF named THEN 3 ELSE 2)
      brace == SelectInSeq(after, LAMBDA c : c = "{")
      block == [NamespaceInfo(IF named THEN rest[2] ELSE "", n)
                  EXCEPT !.seen_open_brace = brace > 0]
  IN  IF rest = <<>> \/ Head(rest) # "namespace" THEN part
      ELSE Part(Append(part.stack, block), From(after, brace + 1))

(* All of them: there are no more than pieces in the line. *)
ConsumeNamespaces(part, n) ==
  LET consumed[i \in 0..Len(part.rest)] ==
        IF i = 0 THEN part ELSE ConsumeNamespace(consumed[i - 1], n)
  IN  consumed[Len(part.rest)]

(* Where the class or struct of a declaration stands at the beginning of a *)
(* line, after a template<> prefix if there is one; 0 if nowhere.          *)
ClassKey(rest) ==
  LET keys == {k \in DOMAIN rest :
                 /\ rest[k] \in Openings /\ k < Len(rest) /\ rest[k + 1] \in Words
                 /\ \/ k = 1
                    \/ /\ k > 3 /\ rest[1] = "template" /\ rest[2] = "<" /\ rest[k - 1] = ">"
                       /\ \A j \in 3..(k - 1) :
                            rest[j] \in Words \cup Openings \cup {"<", ">", ",", ":"}}
  IN  IF keys = {} THEN 0 ELSE Max(keys)

(* The last of the names after the class, as long as macros precede it.    *)
ClassName(rest, k) ==
  CHOOSE j \in (k + 1)..Len(rest) :
    /\ \A i \in (k + 1)..j : rest[i] \in Words /\ (i = j \/ rest[i] \in MacroNames)
    /\ rest[j] \notin MacroNames \/ j = Len(rest) \/ rest[j + 1] \notin Words

(* A class that is declared, unless it is an argument of a function or of  *)
(* a template.  The place to look from counts in what is left of the line. *)
ConsumeClass(part, lines, n) ==
  LET stack == part.stack
      rest == part.rest
      k == ClassKey(rest)
      j == ClassName(rest, k)
  IN  IF \/ k = 0
         \/ stack # <<>> /\ Last(stack).open_parentheses # 0
         \/ InTemplateArgumentList(lines, n, j + 1)
        THEN part
        ELSE Part(Append(stack, ClassInfo(rest[j], rest[k], lines, n)), From(rest, j + 1))

(* An access keyword that begins a line in a class is indented by one.     *)
CheckAccess(part, lines, n) ==
  LET stack == part.stack
      rest == part.rest
      keys == {i \in DOMAIN rest : rest[i] \in Accesses /\ i < Len(rest) /\ rest[i + 1] = ":"}
  IN  IF /\ stack # <<>> /\ Last(stack).kind = "class"
         /\ keys = {1} /\ rest = lines[n].toks
         /\ lines[n].indent # Last(stack).class_indent + 1
        THEN [part EXCEPT !.errors = <<ErrorAt(n, "whitespace/indent", 3)>>] ELSE part

(* The brace at rest[i], where nothing waits for one, opens a block.       *)
OpenedBlock(rest, i, lines, n) ==
  LET last == SelectLastInSubSeq(rest, 1, i - 1, LAMBDA c : c \in {"{", ";", ")", "}"})
      external == /\ rest = lines[n].toks /\ lines[n].indent = 0
                  /\ i = 2 /\ rest[1] = "extern"
  IN  [Block(IF external THEN "extern" ELSE "block", n, TRUE)
         EXCEPT !.inline_asm = IF MatchAsm(SubSeq(rest, last + 1, i)) THEN "BLOCK" ELSE "NO"]

(* Mutant: a ; does not end a declaration without a body. *)
ConsumeBrace_declaration(part, i, lines, n) ==
  LET stack == part.stack
      tok == part.rest[i]
  IN CASE tok = "{" ->
            [part EXCEPT !.stack =
               IF SeenOpenBrace(stack) THEN Append(stack, OpenedBlock(part.rest, i, lines, n))
               ELSE WithTop(stack, [Last(stack) EXCEPT !.seen_open_brace = TRUE])]
       [] tok = ")" /\ ~ SeenOpenBrace(stack) -> [part EXCEPT !.stack = Front(stack)]
       [] tok = "}" /\ stack # <<>> ->
            [part EXCEPT !.stack = Front(stack),
                         !.errors = @ \o CheckEnd(Last(stack), lines, n)]
       [] OTHER -> part

(* Braces open and close blocks; a ; or ) ends a declaration that has no   *)
(* body.                                                                   *)
ConsumeBrace(part, i, lines, n) ==
  LET stack == part.stack
      tok == part.rest[i]
  IN CASE tok = "{" ->
            [part EXCEPT !.stack =
               IF SeenOpenBrace(stack) THEN Append(stack, OpenedBlock(part.rest, i, lines, n))
               ELSE WithTop(stack, [Last(stack) EXCEPT !.seen_open_brace = TRUE])]
       [] tok \in {";", ")"} /\ ~ SeenOpenBrace(stack) -> [part EXCEPT !.stack = Front(stack)]
       [] tok = "}" /\ stack # <<>> ->
            [part EXCEPT !.stack = Front(stack),
                         !.errors = @ \o CheckEnd(Last(stack), lines, n)]
       [] OTHER -> part

ConsumeBraces(part, lines, n) ==
  LET consumed[i \in 0..Len(part.rest)] ==
        IF i = 0 THEN part ELSE ConsumeBrace(consumed[i - 1], i, lines, n)
  IN  consumed[Len(part.rest)]

(* Update: the state after line n, and the errors.  previous stands for    *)
(* previous_stack_top: its kind, its depth and the line it began at; the   *)
(* copies that #else and #endif put into the stack are other objects.      *)
Update(state, lines, n) ==
  LET top == Last(state.stack)
      toks == lines[n].toks
      Previous(stack) ==
        IF state.stack = <<>> \/ stack # state.stack THEN NestingStateInit.previous
        ELSE [kind |-> top.kind, depth |-> Len(state.stack), start |-> top.start]
      Named(part) == ConsumeClass(ConsumeNamespaces(part, n), lines, n)
      Braced(part) == ConsumeBraces(CheckAccess(Named(part), lines, n), lines, n)
      Result(pp, part) ==
        [state |-> [pp EXCEPT !.stack = part.stack, !.previous = Previous(pp.stack)],
         errors |-> part.errors]
      Processed(pp) == Result(pp, Braced(Part(CountParentheses(pp.stack, toks), toks)))
  IN  Processed(UpdatePreprocessor(state, lines[n]))

CheckCompletedBlocks(state) ==
  LET Said(block) ==
        CASE block.kind = "class" -> <<ErrorAt(block.start, "build/class", 5)>>
          [] block.kind = "namespace" -> <<ErrorAt(block.start, "build/namespaces", 5)>>
          [] OTHER -> <<>>
  IN  FlattenSeq([i \in DOMAIN state.stack |-> Said(state.stack[i])])

-----------------------------------------------------------------------------
(* Checks that read the state. *)

IsMacroDefinition(lines, n) ==
  \/ lines[n].indent = 0 /\ lines[n].toks # <<>> /\ Head(lines[n].toks) = "#define"
  \/ n > 1 /\ lines[n - 1].toks # <<>> /\ Last(lines[n - 1].toks) = "\\"

IsForwardClassDeclaration(line) ==
  LET k == Len(line.toks)
  IN  k > 2 /\ line.toks[k] = ";" /\ line.toks[k - 1] \in Words /\ line.toks[k - 2] = "class"

IsBlockInNameSpace(stack, is_forward_declaration) ==
  LET k == Len(stack)
  IN  IF is_forward_declaration THEN k > 0 /\ stack[k].kind = "namespace"
      ELSE k > 1 /\ ChecksIndentation(stack[k]) /\ stack[k - 1].kind = "namespace"

(* Mutant: a namespace that was open before is not asked for. *)
CheckForNamespaceIndentation_any(state, lines, n) ==
  LET stack == state.stack
      forward == IsForwardClassDeclaration(lines[n])
      item == Len(stack) > 1 /\ ChecksIndentation(Last(stack))
  IN  IF /\ item \/ forward
         /\ ~ IsMacroDefinition(lines, n)
         /\ IsBlockInNameSpace(stack, forward)
         /\ lines[n].indent > 0 /\ lines[n].toks # <<>>
        THEN <<ErrorAt(n, "runtime/indentation_namespace", 4)>> ELSE <<>>

(* A class or a namespace that opens right in a namespace that was open    *)
(* before the line, and a forward declaration there, are not indented.     *)
CheckForNamespaceIndentation(state, lines, n) ==
  LET stack == state.stack
      k == Len(stack)
      forward == IsForwardClassDeclaration(lines[n])
      item == /\ k > 1 /\ ChecksIndentation(stack[k])
              /\ state.previous.kind = "namespace"
              /\ state.previous.depth = k - 1 /\ state.previous.start = stack[k - 1].start
  IN  IF /\ item \/ forward
         /\ ~ IsMacroDefinition(lines, n)
         /\ IsBlockInNameSpace(stack, forward)
         /\ lines[n].indent > 0 /\ lines[n].toks # <<>>
        THEN <<ErrorAt(n, "runtime/indentation_namespace", 4)>> ELSE <<>>

IsBlankLine(line) == line.toks = <<>>

(* A section of a long class follows a blank line, the head of the class,  *)
(* or a line of a class or a macro.                                        *)
CheckSectionSpacing(state, lines, n) ==
  LET class == state.stack[InnermostClass(state)]
      previous == lines[n - 1]
      heads == {i \in class.start..(n - 1) : lines[i].toks # <<>> /\ Last(lines[i].toks) = "{"}
      end_class_head == IF heads = {} THEN class.start ELSE Min(heads)
  IN  IF /\ InnermostClass(state) > 0
         /\ class.last_line - class.start > SectionLines /\ n > class.start
         /\ Len(lines[n].toks) > 1 /\ lines[n].toks[2] = ":"
         /\ Head(lines[n].toks) \in Accesses \ {"signals"}
         /\ ~ IsBlankLine(previous) /\ ToSet(previous.toks) \cap Openings = {}
         /\ Last(previous.toks) # "\\" /\ end_class_head < n - 1
        THEN <<ErrorAt(n, "whitespace/blank_line", 3)>> ELSE <<>>
=============================================================================
