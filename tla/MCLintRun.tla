----------------------------- MODULE MCLintRun -----------------------------
(***************************************************************************)
(* Runs over up to MaxFiles files in a tree of three directories, with the *)
(* options and CPPLINT.cfg files that change what is printed.              *)
(***************************************************************************)
EXTENDS LintRun

CONSTANT MaxFiles     \* bound on the files of one command line

MCCategories ==
  {"build/header_guard", "build/include_alpha", "legal/copyright", "readability/casting",
   "readability/nolint", "whitespace/line_length", "whitespace/newline", "whitespace/tab"}
MCLegacyCategories == {"readability/streams"}
MCCSuppressed == {"readability/casting"}
MCKernelSuppressed == {"whitespace/tab"}
MCTopLevel == [c \in MCCategories |->
                 CASE c \in {"build/header_guard", "build/include_alpha"} -> "build"
                   [] c = "legal/copyright" -> "legal"
                   [] c \in {"readability/casting", "readability/nolint"} -> "readability"
                   [] OTHER -> "whitespace"]
MCBeginnings == [c \in MCCategories |-> {"", c, MCTopLevel[c]}]

Filter(sign, name) == [sign |-> sign, name |-> name]
MCDefaultFilters == <<Filter("-", "build/include_alpha")>>

Opt(name, val) == [name |-> name, val |-> val, ok |-> TRUE]
Refused(name) == [name |-> name, val |-> "", ok |-> FALSE]

OptionLists ==
  { <<>>,
    <<Opt("--quiet", "")>>,
    <<Opt("--verbose", 3), Opt("--counting", "toplevel")>>,
    <<Opt("--counting", "detailed"), Opt("--headers", {"hpp"})>>,
    <<Opt("--headers", {"hpp"}), Opt("--extensions", {"cc"})>>,
    <<Opt("--filter", <<Filter("-", "whitespace"), Filter("+", "whitespace/tab")>>),
      Opt("--linelength", 120), Opt("--root", <<"sub">>)>>,
    <<Opt("--filter", <<Filter("-", ""), Filter("+", "build")>>), Opt("--quiet", "")>>,
    <<Opt("--filter", <<Filter("none", "runtime")>>)>> }

Refusals ==
  { <<Opt("--quiet", ""), Opt("invalid", "")>>, <<Opt("--help", "")>>,
    <<Refused("--verbose")>>, <<Refused("--counting")>>, <<Refused("--linelength")>>,
    <<Opt("--filter", <<>>)>> }

E(line, category, confidence) ==
  [line |-> line, category |-> category, confidence |-> confidence]
NoMarker == [kind |-> "none", category |-> ALL]
Marker(kind, category) == [kind |-> kind, category |-> category]
L(marker, width, cr, errors) ==
  [nolint |-> marker, width |-> width, cr |-> cr, errors |-> errors]

(* A file with nothing to say about, in directory path, to be modified. *)
Clean(path, ext) ==
  [path |-> path, ext |-> ext, stdin |-> FALSE, readable |-> TRUE, directives |-> {},
   copyright |-> <<>>, comments |-> <<>>, guard |-> <<>>, lines |-> <<>>,
   completed |-> <<>>, header |-> <<>>, ending |-> <<>>]

Waiver ==
  [Clean(<<"top", "sub", "a.cc">>, "cc") EXCEPT
     !.copyright = <<E(0, "legal/copyright", 5)>>,
     !.lines = << L(Marker("nextline", "whitespace/tab"), 90, FALSE,
                    <<E(1, "whitespace/tab", 1)>>),
                  L(Marker("line", ALL), 70, TRUE,
                    <<E(2, "whitespace/tab", 1), E(2, "readability/casting", 4)>>) >>]
Plain ==
  [Clean(<<"top", "b.cc">>, "cc") EXCEPT
     !.lines = << L(NoMarker, 110, FALSE, <<E(1, "whitespace/tab", 1)>>),
                  L(Marker("line", "no/such"), 70, FALSE,
                    <<E(2, "whitespace/tab", 3), E(1, "readability/casting", 4)>>) >>,
     !.completed = <<E(2, "build/include_alpha", 4)>>]
Kernel ==
  [Clean(<<"top", "sub", "c.h">>, "h") EXCEPT
     !.directives = {"kernel", "c"},
     !.comments = <<E(1, "whitespace/tab", 5)>>,
     !.guard = <<E(1, "NOLINT", 0), E(1, "build/header_guard", 5),
                 E(2, "NOLINT", 0), E(2, "build/header_guard", 5)>>,
     !.lines = << L(Marker("line", "readability/streams"), 70, FALSE,
                    <<E(1, "readability/casting", 4)>>),
                  L(Marker("line", "build/header_guard"), 70, FALSE, <<>>) >>]
Header ==
  [Clean(<<"top", "d.hpp">>, "hpp") EXCEPT
     !.guard = <<E(1, "NOLINT", 0), E(1, "build/header_guard", 0)>>,
     !.lines = << L(Marker("line", "no/such"), 70, FALSE, <<>>),
                  L(Marker("nextline", "build/header_guard"), 70, FALSE, <<>>) >>]
Missing == [Clean(<<"top", "sub", "e.cc">>, "cc") EXCEPT !.readable = FALSE]

Files == {Waiver, Plain, Kernel, Header, Missing}

MCCommandLines ==
  {[options |-> o, files |-> fs] : o \in OptionLists, fs \in BoundedSeq(Files, MaxFiles)}
    \cup {[options |-> o, files |-> <<Plain>>] : o \in Refusals}

Cfg(lines) == [kind |-> "file", lines |-> lines]
NoCfg == [kind |-> "none"]
Unreadable == [kind |-> "unreadable"]
Tree(root, top, sub) ==
  (<<>> :> root) @@ (<<"top">> :> top) @@ (<<"top", "sub">> :> sub)

MCTrees ==
  { Tree(NoCfg, NoCfg, NoCfg),
    Tree(NoCfg,
         Cfg(<<Opt("filter", <<Filter("-", "whitespace"), Filter("+", "whitespace/tab")>>),
               Opt("linelength", 100)>>),
         Cfg(<<Opt("filter", <<Filter("-", "readability")>>),
               Opt("filter", <<Filter("+", "readability/casting"), Filter("-", "whitespace/tab")>>),
               Opt("linelength", 60)>>)),
    Tree(Cfg(<<Opt("filter", <<Filter("-", "")>>)>>),
         Cfg(<<Opt("other", ""), Opt("set noparent", ""), Opt("filter", <<Filter("+", "build")>>),
               Opt("headers", {"h", "hpp"}), Opt("root", <<"sub">>)>>),
         NoCfg),
    Tree(Cfg(<<Opt("filter", <<Filter("-", "")>>)>>), Unreadable,
         Cfg(<<Refused("linelength"), Opt("filter", <<Filter("-", "whitespace")>>),
               Opt("exclude_files", {"c.h"})>>)),
    Tree(NoCfg, Cfg(<<Opt("exclude_files", {"sub"})>>),
         Cfg(<<Opt("filter", <<Filter("-", "readability")>>), Opt("linelength", 120)>>)),
    Tree(NoCfg, NoCfg, Cfg(<<Opt("filter", <<Filter("none", "build")>>)>>)) }
=============================================================================
