------------------------------- MODULE Paths -------------------------------
(***************************************************************************)
(* What cpplint reads off the name of a file.  A path is a sequence of     *)
(* pieces: "/", ".", "-", "_" and runs of letters, which may be cut where  *)
(* a suffix such as test may begin.  disk says what os.path.exists sees:   *)
(* the files that exist, the directories with a .svn, a .git or a .hg, and *)
(* the working directory.                                                  *)
(***************************************************************************)
EXTENDS Integers, Sequences, SequencesExt

Text == INSTANCE Pieces

LastSlash(path) == SelectLastInSeq(path, LAMBDA c : c = "/")

(* os.path.dirname and os.path.basename *)
Dirname(path) ==
  LET k == LastSlash(path) IN IF k = 1 THEN <<"/">> ELSE SubSeq(path, 1, k - 1)

Basename(path) == SubSeq(path, LastSlash(path) + 1, Len(path))

(* os.path.splitext *)
SplitExt(path) ==
  LET k == SelectLastInSeq(path, LAMBDA c : c = ".")
      n == IF k > LastSlash(path) + 1 THEN k - 1 ELSE Len(path)
  IN  [root |-> SubSeq(path, 1, n), ext |-> SubSeq(path, n + 1, Len(path))]

WithoutLast(path, n) == SubSeq(path, 1, Len(path) - n)

(* os.path.abspath of a path that has no . and .. in it *)
FullName(disk, path) ==
  IF path # <<>> /\ path[1] = "/" THEN path ELSE disk.cwd \o <<"/">> \o path

-----------------------------------------------------------------------------
(* FileInfo *)

(* An absolute directory and those above it, up to the root and without    *)
(* it.                                                                     *)
Ancestors(dir) ==
  {SubSeq(dir, 1, k) : k \in {j \in 2..Len(dir) : j = Len(dir) \/ dir[j + 1] = "/"}}

(* The top of an old Subversion checkout, where every directory is marked. *)
SvnRoot(disk, dir) ==
  LET tops == {d \in Ancestors(dir) :
                 \A e \in Ancestors(dir) : Len(e) >= Len(d) => e \in disk.svn}
  IN  CHOOSE d \in tops : \A e \in tops : Len(d) <= Len(e)

(* Mutant: the innermost checkout gives the name. *)
RepositoryName_innermost(disk, path) ==
  LET Place(fullname, project_dir) ==
        LET marked == Ancestors(project_dir) \cap (disk.git \cup disk.svn)
            root_dir == IF project_dir \in disk.svn THEN SvnRoot(disk, project_dir)
                        ELSE CHOOSE d \in marked : \A e \in marked : Len(d) >= Len(e)
        IN  IF fullname \notin disk.files \/ marked = {} THEN fullname
            ELSE SubSeq(fullname, Len(root_dir) + 2, Len(fullname))
  IN  Place(FullName(disk, path), Dirname(FullName(disk, path)))

(* The path within the outermost git, hg or svn checkout; disk.git stands  *)
(* for both .git and .hg.                                                  *)
RepositoryName(disk, path) ==
  LET Place(fullname, project_dir) ==
        LET marked == Ancestors(project_dir) \cap (disk.git \cup disk.svn)
            root_dir == IF project_dir \in disk.svn THEN SvnRoot(disk, project_dir)
                        ELSE CHOOSE d \in marked : \A e \in marked : Len(d) <= Len(e)
        IN  IF fullname \notin disk.files \/ marked = {} THEN fullname
            ELSE SubSeq(fullname, Len(root_dir) + 2, Len(fullname))
  IN  Place(FullName(disk, path), Dirname(FullName(disk, path)))

Extension(path) == SplitExt(path).ext
BaseName(path) == SplitExt(Basename(path)).root

IsSource(path) ==
  Extension(path) \in {<<".", e>> : e \in {"c", "cc", "cpp", "cxx"}}

(* re.search(r'(_test|_unittest|_regtest)$', name): how long the match is  *)
TestSuffixes == {<<"_", "test">>, <<"_", "unit", "test">>, <<"_", "reg", "test">>}

TestSuffixLength(name) ==
  LET matches == {s \in TestSuffixes : IsSuffix(s, name)}
  IN  IF matches = {} THEN 0 ELSE Len(CHOOSE s \in matches : TRUE)

IsTest(path) == TestSuffixLength(BaseName(path)) > 0

-----------------------------------------------------------------------------
(* Header guards *)

(* StripListPrefix of the split paths; <<>> stands for None as well.       *)
StripListPrefix(path, prefix) ==
  IF IsPrefix(Append(prefix, "/"), path)
    THEN SubSeq(path, Len(prefix) + 2, Len(path)) ELSE <<>>

FixupPathFromRoot(disk, path, root) ==
  LET outside == StripListPrefix(FullName(disk, path), FullName(disk, root))
      Fixed(file_path_from_root) ==
        LET stripped == StripListPrefix(file_path_from_root, root) IN
        CASE root # <<>> /\ stripped # <<>> -> stripped
          [] root # <<>> /\ stripped = <<>> /\ outside # <<>> -> outside
          [] OTHER -> file_path_from_root
  IN  Fixed(RepositoryName(disk, path))

(* The file that Emacs's flymake made a copy of.                           *)
WithoutFlymake(path) ==
  LET flymake == <<"_", "flymake", ".", "h">>
      renamed == IF IsSuffix(flymake, path) THEN WithoutLast(path, 4) \o <<".", "h">>
                 ELSE path
      dir == WithoutLast(renamed, Len(Basename(renamed)))
  IN  IF IsSuffix(<<"/", ".", "flymake", "/">>, dir)
        THEN WithoutLast(dir, 3) \o Basename(renamed) ELSE renamed

(* Every piece that is no letter becomes "_"; case is left out.            *)
GetHeaderGuardCPPVariable(disk, path, root) ==
  LET Cpp(name) == [i \in DOMAIN name |-> IF name[i] = "c++" THEN "cpp" ELSE name[i]]
      Underscored(fixed) ==
        [i \in DOMAIN fixed |-> IF fixed[i] \in {"/", ".", "-"} THEN "_" ELSE fixed[i]]
  IN  Append(Underscored(FixupPathFromRoot(disk, Cpp(WithoutFlymake(path)), root)), "_")

-----------------------------------------------------------------------------
(* Includes *)

CommonSuffixes ==
  {<<"test", ".", "cc">>, <<"reg", "test", ".", "cc">>, <<"unit", "test", ".", "cc">>,
   <<"inl", ".", "h">>, <<"impl", ".", "h">>, <<"internal", ".", "h">>}

DropCommonSuffixes(path) ==
  LET dropped == {n \in {Len(s) + 1 : s \in {t \in CommonSuffixes : IsSuffix(t, path)}} :
                    n <= Len(path) /\ path[Len(path) - n + 1] \in {"-", "_"}}
  IN  IF dropped = {} THEN SplitExt(path).root ELSE WithoutLast(path, Min(dropped))

FirstComponent(base) ==
  LET k == SelectInSeq(base, LAMBDA c : c \in {"-", "_", "."})
  IN  IF k = 0 THEN base ELSE SubSeq(base, 1, k - 1)

(* _ClassifyInclude *)
ClassifyInclude(disk, path, include, is_system, cpp_headers) ==
  LET Public(dir) == IF dir = <<>> THEN <<"/", "public">>
                     ELSE SubSeq(dir, 1, LastSlash(dir)) \o <<"public">>
      My(target, included) ==
        LET first == FirstComponent(Basename(target)) IN
        CASE /\ Basename(target) = Basename(included)
             /\ Dirname(included) \in {Dirname(target), Public(Dirname(target))} -> "LIKELY_MY"
          [] OTHER -> IF first # <<>> /\ first = FirstComponent(Basename(included))
                        THEN "POSSIBLE_MY" ELSE "OTHER"
  IN CASE is_system -> IF include \in cpp_headers THEN "CPP_SYS" ELSE "C_SYS"
       [] OTHER -> My(DropCommonSuffixes(RepositoryName(disk, path)), DropCommonSuffixes(include))

WithoutPublic(path) ==
  Text!Replaced(Text!Replaced(path, <<"/", "public", "/">>, <<"/">>),
                <<"/", "internal", "/">>, <<"/">>)

(* Mutant: a header's -inl belongs to its name. *)
FilesBelongToSameModule_inl(filename_cc, filename_h) ==
  LET source == WithoutLast(filename_cc, Len(Extension(filename_cc)))
      cc == WithoutPublic(WithoutLast(source, TestSuffixLength(BaseName(filename_cc))))
      h == WithoutPublic(WithoutLast(filename_h, 2))
  IN  IF IsSource(filename_cc) /\ IsSuffix(<<".", "h">>, filename_h) /\ IsSuffix(h, cc)
        THEN [same |-> TRUE, common_path |-> WithoutLast(cc, Len(h))]
        ELSE [same |-> FALSE, common_path |-> <<>>]

(* Do the two belong to the same module, and what stands before the path   *)
(* of the header?                                                          *)
FilesBelongToSameModule(filename_cc, filename_h) ==
  LET source == WithoutLast(filename_cc, Len(Extension(filename_cc)))
      cc == WithoutPublic(WithoutLast(source, TestSuffixLength(BaseName(filename_cc))))
      header == WithoutLast(filename_h, 2)
      h == WithoutPublic(IF IsSuffix(<<"-", "inl">>, header) THEN WithoutLast(header, 2)
                         ELSE header)
  IN  IF IsSource(filename_cc) /\ IsSuffix(<<".", "h">>, filename_h) /\ IsSuffix(h, cc)
        THEN [same |-> TRUE, common_path |-> WithoutLast(cc, Len(h))]
        ELSE [same |-> FALSE, common_path |-> <<>>]
=============================================================================
