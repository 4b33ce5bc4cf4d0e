---------------------------- MODULE MCLintFile ----------------------------
(***************************************************************************)
(* Files of a few lines, every sequence of the lines of a theme.           *)
(***************************************************************************)
EXTENDS LintFile

P(toks) == [indent |-> 0, toks |-> toks, comment |-> <<>>, include |-> <<>>,
            system |-> FALSE, uses |-> {}, guard |-> <<>>, nolint_guard |-> FALSE]
In(n, toks) == [P(toks) EXCEPT !.indent = n]
Com(toks, comment) == [P(toks) EXCEPT !.comment = comment]

MCWords == {"a", "b", "Foo", "T", "U", "API", "void", "f", "x", "Bar", "x.cc"}
MCMacroNames == {"API"}
MCCapitals == {"API", "TEST"}
MCPunctuation == {"{", "}", "(", ")", ";", ":", "<", ">", ",", "=", "*", "&", "+",
                  "#if", "#else", "#endif", "#define", "#include", "#ifndef"}

Blank == P(<<>>)

Braces ==
  { Blank, P(<<"namespace", "a", "{">>), P(<<"namespace", "{">>), P(<<"class", "Foo", "{">>),
    In(2, <<"class", "Foo", "{">>), P(<<"}", ";">>), Com(<<"}">>, <<"//", "namespace", "a">>),
    P(<<"void", "f", "(", ")", "{">>), P(<<"extern", "{">>) }

Heads ==
  { P(<<"class", "API", "Foo">>), In(2, <<":", "public", "Bar", "{">>), P(<<"class", "Foo", ";">>),
    P(<<"template", "<", "class", "T", ",">>), In(2, <<"class", "U", ">">>),
    In(2, <<"class", "U", "=", "Bar", "<", "T", ">", ">">>),
    P(<<"class", "Bar", "{">>), P(<<"void", "f", "(", "class", "T", "*", "x", ")", "{">>), P(<<"}">>) }

Nested ==
  { P(<<"namespace", "a", "{", "namespace", "b", "{">>), In(2, <<"namespace", "b", "{">>),
    In(2, <<"struct", "Foo", "{">>), In(2, <<"class", "Foo", ";">>),
    Com(<<"}">>, <<"//", "namespace", "b">>), Com(<<"}">>, <<"//", "namespace">>),
    In(2, <<"}", ";">>), P(<<"#define", "x", "\\">>) }

Branches ==
  { P(<<"#if">>), P(<<"#else">>), P(<<"#endif">>), P(<<"class", "Foo", "{">>),
    P(<<"namespace", "a", "{">>), P(<<"}">>) }

Assembly ==
  { P(<<"void", "f", "(", ")", "{">>), In(2, <<"asm", "volatile", "(">>), In(2, <<"x", ")", ";">>),
    In(2, <<"asm", "{">>), In(2, <<"f", "(", "x", ")", ";">>), P(<<"}">>), P(<<"#if">>), P(<<"#else">>) }

Sections ==
  { Blank, P(<<"class", "Foo", "{">>), In(2, <<"struct", "Bar", "{">>), In(1, <<"public", ":">>),
    In(2, <<"void", "f", "(", ")", "{">>), P(<<"}">>) }

Functions ==
  { Blank, P(<<"void", "f", "(", ")", "{">>), In(2, <<"x", ";">>), In(2, <<"asm", "volatile", "(">>), In(2, <<"x", ")", ";">>), P(<<"}">>) }

Tests ==
  { P(<<"void", "f", "(", ")", "{">>), P(<<"TEST", "(", "x", ")", "{">>), In(2, <<"x", ";">>), P(<<"}">>) }

Declared ==
  { P(<<"void", "f", "(", ")", "{">>), P(<<"void", "f", "(", ")", ";">>), P(<<"API", "(", "x", ")", ";">>),
    In(2, <<"x", ";">>), P(<<"}">>) }

Inc(path) == [P(<<"#include">>) EXCEPT !.include = path]
Sys(path) == [Inc(path) EXCEPT !.system = TRUE]
Use(headers) == [In(2, <<"x", ";">>) EXCEPT !.uses = headers]

H(name) == <<"d", "/", name, ".", "h">>

Included ==
  { Blank, Sys(<<"c", ".", "h">>), Sys(<<"d", ".", "h">>), Sys(<<"list">>), Sys(<<"map">>),
    Inc(H("a")), Inc(<<"d", "/", "a", "-", "b", ".", "h">>), Inc(H("x")), Inc(<<"lua", ".", "h">>),
    Inc(<<"a", ".", "h">>), Inc(<<"e", "/", "a", ".", "cc">>) }

Conditional ==
  { P(<<"#if">>), P(<<"#else">>), P(<<"#endif">>), Inc(H("a")), Inc(H("x")), Inc(<<"a", ".", "h">>) }

Used ==
  { P(<<"#if">>), P(<<"#endif">>), Inc(H("x")), Inc(H("a")), Sys(<<"list">>),
    Use({<<"list">>}), Use({<<"map">>, <<"list">>}) }

MCCppHeaders == {<<"list">>, <<"map">>}
MCThirdParty == {<<"lua", ".", "h">>}
MCLetterOrder ==
  <<"-", ".", "/", "_", "a", "b", "c", "d", "e", "h", "list", "lua", "map", "x">>

GuardWord == <<"d", "_", "x", "_", "h", "_">>
RootedWord == <<"x", "_", "h", "_">>
Macro(word, guard) == [P(<<word>>) EXCEPT !.guard = guard]
Endif(mark, guard) == [Macro("#endif", guard) EXCEPT !.comment = IF mark = "" THEN <<>> ELSE <<mark>>]

Guards ==
  { Macro("#ifndef", GuardWord), Macro("#ifndef", GuardWord \o <<"_">>), Macro("#ifndef", RootedWord),
    Macro("#define", GuardWord), Macro("#define", GuardWord \o <<"_">>), Macro("#define", RootedWord),
    Endif("", <<>>), Endif("//", GuardWord), Endif("//", RootedWord), Endif("/*", GuardWord \o <<"_">>), Com(<<>>, <<"//">>),
    [Com(<<>>, <<"//">>) EXCEPT !.nolint_guard = TRUE] }

-----------------------------------------------------------------------------
(* Files in a checkout at top: their place in it, the other files there,   *)
(* and the directories that the version control tool marks.                *)

In_(top, place) == top \o <<"/">> \o place

File(top, place, own) ==
  [name |-> In_(top, place), place |-> place, root |-> <<>>, verbosity |-> 1, own |-> own,
   guard |-> <<>>,
   disk |-> [files |-> {In_(top, p) : p \in own \cup {place}},
             git |-> {top}, svn |-> {}, cwd |-> <<"/">>, includes |-> <<>>]]

Top == <<"/", "a">>
Source == File(Top, <<"d", "/", "x", ".", "cc">>, {H("x")})
Lone == [Source EXCEPT !.disk.files = {In_(Top, <<"d", "/", "x", ".", "cc">>)}]
Header == [File(Top, H("x"), {H("x")}) EXCEPT !.guard = GuardWord]
Rooted == [Header EXCEPT !.root = <<"d">>, !.guard = RootedWord]

(* The file's own header can be read and includes map. *)
Reads(f) == [f EXCEPT !.disk.includes = (In_(Top, H("x")) :> << <<"map">> >>)]

Tops == {<<"/", "a">>, <<"/", "a", "/", "b">>}

(* Source files, with the headers that are their own. *)
Owned ==
  { [place |-> <<"x", ".", "cc">>, own |-> {<<"x", ".", "h">>, <<"x", "-", "inl", ".", "h">>}],
    [place |-> <<"d", "/", "x", "_", "test", ".", "cc">>, own |-> {H("x")}],
    [place |-> <<"d", "/", "x", "_", "unit", "test", ".", "cc">>, own |-> {H("x")}],
    [place |-> <<"d", "/", "internal", "/", "x", ".", "cc">>,
     own |-> {<<"d", "/", "public", "/", "x", ".", "h">>,
              <<"d", "/", "internal", "/", "x", ".", "h">>}],
    [place |-> <<"d", "/", "e", "/", "x", ".", "cc">>,
     own |-> {<<"d", "/", "e", "/", "x", "-", "inl", ".", "h">>}] }

(* git marks the top, svn the top or, before 1.7, every directory; a       *)
(* checkout may hold another one; a name may be relative.                  *)
Checkouts(top, o) ==
  LET f == File(top, o.place, o.own)
      inner == {d \in Ancestors(Dirname(f.name)) : Len(d) >= Len(top)}
      deepest == CHOOSE d \in inner : \A e \in inner : Len(d) >= Len(e)
      marks(git, svn) == [f EXCEPT !.disk.git = git, !.disk.svn = svn]
  IN  {f, marks({top, deepest}, {}), marks({}, {top}), marks({}, inner),
       [f EXCEPT !.disk.cwd = Dirname(f.name), !.name = Basename(f.name)]}

Places == UNION {Checkouts(top, o) : top \in Tops, o \in Owned}

MCAlphabets ==
  [braces |-> Braces, heads |-> Heads, nested |-> Nested, branches |-> Branches,
   assembly |-> Assembly, sections |-> Sections, functions |-> Functions,
   tests |-> Tests, declared |-> Declared, included |-> Included, conditional |-> Conditional, used |-> Used,
   guards |-> Guards, places |-> {}]

MCSizes ==
  [braces |-> 4, heads |-> 4, nested |-> 4, branches |-> 5, assembly |-> 4, sections |-> 5,
   functions |-> 5, tests |-> 5, declared |-> 5, included |-> 4, conditional |-> 5, used |-> 4, guards |-> 4, places |-> 0]

MCSettings ==
  [k \in DOMAIN MCAlphabets |->
     CASE k = "tests" -> {[Source EXCEPT !.verbosity = v] : v \in {0, 1}}
       [] k = "used" -> {Source, Lone, Reads(Source), Reads(Header)}
       [] k = "guards" -> {Header, Rooted}
       [] k = "places" -> Places
       [] OTHER -> {Source}]
=============================================================================
