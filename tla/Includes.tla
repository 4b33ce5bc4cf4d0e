------------------------------ MODULE Includes ------------------------------
(***************************************************************************)
(* The #include lines of a file: _IncludeState, the order and repetition   *)
(* of includes, and whether a file includes what it uses.  Checks return   *)
(* the new state, where they change it, and the errors they report.        *)
(***************************************************************************)
EXTENDS Paths

CONSTANTS
  CppHeaders,        \* _CPP_HEADERS
  ThirdParty,        \* headers that match _THIRD_PARTY_HEADERS_PATTERN
  LetterOrder        \* the pieces of paths in alphabetical order, a sequence

ErrorAt(line, category, confidence) ==
  [line |-> line, category |-> category, confidence |-> confidence]

(* The strings header_path of the code compare as these sequences do.      *)
Rank(c) == CHOOSE i \in DOMAIN LetterOrder : LetterOrder[i] = c

LessPath(a, b) ==
  \E n \in 1..Len(b) :
    /\ Len(a) >= n - 1 /\ SubSeq(a, 1, n - 1) = SubSeq(b, 1, n - 1)
    /\ Len(a) = n - 1 \/ Rank(a[n]) < Rank(b[n])

-----------------------------------------------------------------------------
(* _IncludeState *)

SectionOrder == [INITIAL |-> 0, MY_H |-> 1, C |-> 2, CPP |-> 3, OTHER_H |-> 4]

IncludeStateInit ==
  [include_list |-> << <<>> >>, section |-> SectionOrder.INITIAL, last_header |-> <<>>]

(* The headers that are listed, with the lines they were included at. *)
Listed(state) == UNION {ToSet(list) : list \in ToSet(state.include_list)}

(* The first line a header was included at, or -1. *)
FindHeader(state, header) ==
  LET places == {f.line : f \in {g \in Listed(state) : g.header = header}}
  IN  IF places = {} THEN -1 ELSE Min(places)

Ifs == {"#if", "#ifndef"}

(* Mutant: the lists of #else stay. *)
ResetSection_keeps(state, directive) ==
  [IncludeStateInit EXCEPT !.include_list =
     IF directive \in Ifs THEN Append(state.include_list, <<>>) ELSE state.include_list]

(* "#if" is also #ifdef, "#else" is also #elif. *)
ResetSection(state, directive) ==
  LET kept == Front(state.include_list) IN
  [IncludeStateInit EXCEPT !.include_list =
     CASE directive \in Ifs -> Append(state.include_list, <<>>)
       [] directive = "#else" -> Append(kept, <<>>)
       [] OTHER -> state.include_list]

CanonicalizeAlphabeticalOrder(header) ==
  LET inl == <<"-", "inl", ".", "h">>
      plain == IF IsSuffix(inl, header) THEN WithoutLast(header, 4) \o <<".", "h">>
               ELSE header
  IN  [i \in DOMAIN plain |-> IF plain[i] = "-" THEN "_" ELSE plain[i]]

IsInAlphabeticalOrder(state, previous_is_include, header) ==
  ~ (LessPath(header, state.last_header) /\ previous_is_include)

(* Mutant: my own header may come anywhere without a new section. *)
CheckNextIncludeOrder_my_header(state, header_type) ==
  LET own == CASE header_type = "C_SYS" -> SectionOrder.C
               [] header_type = "CPP_SYS" -> SectionOrder.CPP
               [] header_type = "OTHER" -> SectionOrder.OTHER_H
               [] OTHER -> Max({state.section, SectionOrder.MY_H})
      late == own < state.section
      next == IF late THEN state.section ELSE own
  IN  [error |-> late,
       state |-> [state EXCEPT !.section = next,
                    !.last_header = IF late \/ next # state.section THEN <<>> ELSE @]]

(* Mutant: a new section begins with the last header of the one before. *)
CheckNextIncludeOrder_last_header(state, header_type) ==
  LET own == CASE header_type = "C_SYS" -> SectionOrder.C
               [] header_type = "CPP_SYS" -> SectionOrder.CPP
               [] header_type = "OTHER" -> SectionOrder.OTHER_H
               [] OTHER -> IF state.section <= SectionOrder.MY_H THEN SectionOrder.MY_H
                           ELSE SectionOrder.OTHER_H
  IN  [error |-> own < state.section,
       state |-> [state EXCEPT !.section = Max({@, own})]]

(* Is a header of this type too late, and the state after it. *)
CheckNextIncludeOrder(state, header_type) ==
  LET own == CASE header_type = "C_SYS" -> SectionOrder.C
               [] header_type = "CPP_SYS" -> SectionOrder.CPP
               [] header_type = "OTHER" -> SectionOrder.OTHER_H
               [] OTHER -> IF state.section <= SectionOrder.MY_H THEN SectionOrder.MY_H
                           ELSE SectionOrder.OTHER_H
      late == own < state.section
      next == IF late THEN state.section ELSE own
  IN  [error |-> late,
       state |-> [state EXCEPT !.section = next,
                    !.last_header = IF late \/ next # state.section THEN <<>> ELSE @]]

-----------------------------------------------------------------------------
(* CheckIncludeLine: what an #include of line.include at line n reports,   *)
(* and the state after it.                                                 *)

IsThirdParty(header) == header \in ThirdParty

UnnamedDirectory(line, n) ==
  IF /\ line.indent = 0 /\ ~ line.system /\ LastSlash(line.include) = 0
     /\ IsSuffix(<<".", "h">>, line.include) /\ ~ IsThirdParty(line.include)
    THEN <<ErrorAt(n, "build/include", 4)>> ELSE <<>>

(* A header that is new to the file takes its place in the order. *)
OrderInclude(file, state, lines, n) ==
  LET line == lines[n]
      type == ClassifyInclude(file.disk, file.name, line.include, line.system, CppHeaders)
      listed == [state EXCEPT !.include_list[Len(state.include_list)] =
                   Append(@, [header |-> line.include, line |-> n])]
      canonical == CanonicalizeAlphabeticalOrder(line.include)
      previous == n > 1 /\ lines[n - 1].include # <<>>
      Ordered(next) ==
        [errors |-> (IF next.error THEN <<ErrorAt(n, "build/include_order", 4)>> ELSE <<>>)
                      \o (IF IsInAlphabeticalOrder(next.state, previous, canonical) THEN <<>>
                          ELSE <<ErrorAt(n, "build/include_alpha", 4)>>),
         state |-> [next.state EXCEPT !.last_header = canonical]]
  IN  Ordered(CheckNextIncludeOrder(listed, type))

CheckIncludeLine(file, state, lines, n) ==
  LET line == lines[n]
      unnamed == UnnamedDirectory(line, n)
      foreign == /\ IsSuffix(<<".", "cc">>, line.include)
                 /\ Dirname(RepositoryName(file.disk, file.name)) # Dirname(line.include)
      plain(errors) == [state |-> state, errors |-> errors]
      result == CASE FindHeader(state, line.include) >= 0 \/ foreign ->
                       plain(<<ErrorAt(n, "build/include", 4)>>)
                  [] FindHeader(state, line.include) < 0 /\ ~ foreign
                       /\ IsThirdParty(line.include) -> plain(<<>>)
                  [] OTHER -> OrderInclude(file, state, lines, n)
  IN  [result EXCEPT !.errors = unnamed \o @]

Conditionals == Ifs \cup {"#else", "#endif"}

(* The beginning of CheckLanguage. *)
CheckIncludeState(file, state, lines, n) ==
  LET line == lines[n] IN
  CASE line.include # <<>> -> CheckIncludeLine(file, state, lines, n)
    [] line.include = <<>> /\ line.toks # <<>> /\ Head(line.toks) \in Conditionals ->
         [state |-> ResetSection(state, Head(line.toks)), errors |-> <<>>]
    [] OTHER -> [state |-> state, errors |-> <<>>]

-----------------------------------------------------------------------------
(* At the end of the file.  disk.includes[path] is what the file there     *)
(* includes; line.uses is the set of the headers whose names a line uses.  *)

(* The headers in include_dict: a header the file includes that belongs to *)
(* its module adds its own.                                                *)
UpdateIncludeState(disk, include_dict, headers) ==
  include_dict \cup UNION {ToSet(disk.includes[h]) : h \in headers}

(* Mutant: the first line that uses a header is named. *)
Required_first(lines) ==
  LET used(h) == {n \in DOMAIN lines : h \in lines[n].uses}
  IN  [h \in UNION {lines[n].uses : n \in DOMAIN lines} |-> Min(used(h))]

(* required: the last line that needs each header. *)
Required(lines) ==
  LET used(h) == {n \in DOMAIN lines : h \in lines[n].uses}
  IN  [h \in UNION {lines[n].uses : n \in DOMAIN lines} |-> Max(used(h))]

(* The name of the file, or of the one that Emacs's flymake made a copy of *)
(* it.                                                                     *)
SourceName(file) ==
  LET name == FullName(file.disk, file.name)
  IN  IF IsSuffix(<<"_", "flymake", ".", "cc">>, name)
        THEN WithoutLast(name, 4) \o <<".", "cc">> ELSE name

(* Where a header of the file's module is read: at one path, or nowhere.   *)
ReadAt(file, header) ==
  LET module == FilesBelongToSameModule(SourceName(file), header)
  IN  {path \in DOMAIN file.disk.includes :
         module.same /\ path = module.common_path \o header}

CheckForIncludeWhatYouUse(file, state, lines) ==
  LET included == {f.header : f \in Listed(state)}
      readable == UNION {ReadAt(file, h) : h \in included}
      include_dict == UpdateIncludeState(file.disk, included, readable)
      required == Required(lines)
  IN  IF IsSuffix(<<".", "cc">>, file.name) /\ readable = {} THEN {}
      ELSE {ErrorAt(required[h], "build/include_what_you_use", 4) :
              h \in DOMAIN required \ include_dict}

PartOf(s, t) == Text!Find(t, s, 1) > 0

(* The header of a file's name. *)
OwnHeader(path) == SplitExt(path).root \o <<".", "h">>

(* Mutant: only what is included outside of conditionals is looked at. *)
CheckHeaderFileIncluded_outside(file, state) ==
  LET headerfile == OwnHeader(file.name)
      headername == RepositoryName(file.disk, headerfile)
      listed == Head(state.include_list)
  IN  IF \/ IsTest(file.name)
         \/ FullName(file.disk, headerfile) \notin file.disk.files
         \/ \E f \in ToSet(listed) : PartOf(headername, f.header) \/ PartOf(f.header, headername)
        THEN <<>>
        ELSE <<ErrorAt(IF listed = <<>> THEN 0 ELSE Head(listed).line, "build/include", 5)>>

CheckHeaderFileIncluded(file, state) ==
  LET headerfile == OwnHeader(file.name)
      headername == RepositoryName(file.disk, headerfile)
      listed == FlattenSeq(state.include_list)
  IN  IF \/ IsTest(file.name)
         \/ FullName(file.disk, headerfile) \notin file.disk.files
         \/ \E f \in ToSet(listed) : PartOf(headername, f.header) \/ PartOf(f.header, headername)
        THEN <<>>
        ELSE <<ErrorAt(IF listed = <<>> THEN 0 ELSE Head(listed).line, "build/include", 5)>>
=============================================================================
