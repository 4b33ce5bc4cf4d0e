---------------------------- MODULE FunctionSize ----------------------------
(***************************************************************************)
(* How many lines a function has: _FunctionState and what                  *)
(* CheckForFunctionLengths takes for the head and the end of a function.   *)
(***************************************************************************)
EXTENDS Includes

CONSTANTS
  NormalTrigger,     \* _NORMAL_TRIGGER
  TestTrigger,       \* _TEST_TRIGGER
  Punctuation,       \* the pieces of a line that are no words
  Capitals,          \* the words of capitals and underscores
  TestNames          \* the words that begin with TEST or Test

ASSUME TriggerAssumption == NormalTrigger \in Nat \ {0} /\ TestTrigger \in Nat \ {0}

FunctionStateInit == [in_a_function |-> FALSE, lines_in_function |-> 0, is_test |-> FALSE]

(* Mutant: the count goes on from the function before. *)
Begin_goes_on(state, is_test) ==
  [state EXCEPT !.in_a_function = TRUE, !.is_test = is_test]

Begin(state, is_test) ==
  [in_a_function |-> TRUE, lines_in_function |-> 0, is_test |-> is_test]

CountLine(state) ==
  IF state.in_a_function THEN [state EXCEPT !.lines_in_function = @ + 1] ELSE state

End(state) == [state EXCEPT !.in_a_function = FALSE]

BaseTrigger(is_test) == IF is_test THEN TestTrigger ELSE NormalTrigger

(* The lesser of 5 and int(math.log(lines / base, 2)): how often base can  *)
(* be doubled.                                                             *)
Level(lines, base) == Cardinality({k \in 1..5 : base * 2 ^ k <= lines})

(* Mutant: the level counts from the trigger that was exceeded. *)
Check_level(state, n, verbosity) ==
  LET base == BaseTrigger(state.is_test) * 2 ^ verbosity
  IN  IF state.in_a_function /\ state.lines_in_function > base
        THEN <<ErrorAt(n, "readability/fn_size", Level(state.lines_in_function, base))>>
        ELSE <<>>

(* The error for a function that ends at line n.                           *)
Check(state, n, verbosity) ==
  LET base == BaseTrigger(state.is_test)
  IN  IF state.in_a_function /\ state.lines_in_function > base * 2 ^ verbosity
        THEN <<ErrorAt(n, "readability/fn_size", Level(state.lines_in_function, base))>>
        ELSE <<>>

-----------------------------------------------------------------------------
Holds(line, pieces) == ToSet(line.toks) \cap pieces # {}

(* Mutant: a macro is taken for a function. *)
FunctionName_macro(line) ==
  LET paren == SelectInSeq(line.toks, LAMBDA c : c = "(")
      words == SubSeq(line.toks, 1, paren - 1)
  IN  IF /\ line.indent = 0 /\ words # <<>>
         /\ Head(words) \notin Punctuation
         /\ ToSet(words) \cap Punctuation \subseteq {"*", "&"}
        THEN <<Last(words)>> ELSE <<>>

(* The name before the first parenthesis of a line that begins with words, *)
(* and no indentation, up to it; <<>> if this is no such line or a macro.  *)
FunctionName(line) ==
  LET paren == SelectInSeq(line.toks, LAMBDA c : c = "(")
      words == SubSeq(line.toks, 1, paren - 1)
      named == /\ line.indent = 0 /\ words # <<>>
               /\ Head(words) \notin Punctuation
               /\ ToSet(words) \cap Punctuation \subseteq {"*", "&"}
  IN  IF named /\ (Last(words) \notin Capitals \/ Last(words) \in {"TEST", "TEST_F"})
        THEN <<Last(words)>> ELSE <<>>

IsFunctionEnd(line) == line.indent = 0 /\ line.toks = <<"}">>

(* The first line from n that shows whether a function has a body.         *)
HeadEnd(lines, n) ==
  LET ends == {m \in n..Len(lines) : Holds(lines[m], {";", "}", "{"})}
  IN  IF ends = {} THEN 0 ELSE Min(ends)

CheckForFunctionLengths(state, lines, n, verbosity) ==
  LET line == lines[n]
      name == FunctionName(line)
      head == HeadEnd(lines, n)
      keep == [state |-> state, errors |-> <<>>]
  IN CASE name # <<>> /\ head = 0 ->
            [state |-> state, errors |-> <<ErrorAt(n, "readability/fn_size", 5)>>]
       [] name # <<>> /\ head > 0 ->
            IF Holds(lines[head], {";", "}"}) THEN keep
            ELSE [state |-> Begin(state, Last(name) \in TestNames), errors |-> <<>>]
       [] name = <<>> /\ IsFunctionEnd(line) ->
            [state |-> End(state), errors |-> Check(state, n, verbosity)]
       [] OTHER -> IF line.toks = <<>> THEN keep
                   ELSE [state |-> CountLine(state), errors |-> <<>>]
=============================================================================
