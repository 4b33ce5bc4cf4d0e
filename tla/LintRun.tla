------------------------------ MODULE LintRun ------------------------------
(***************************************************************************)
(* A run of cpplint: the command line, the files in turn, the CPPLINT.cfg  *)
(* files from a file's directory up to the root, and the calls that        *)
(* ProcessFileData makes, in their order.  What the checks find in a file  *)
(* is data here: every error they report, in the order they report it.     *)
(***************************************************************************)
EXTENDS LintState

CONSTANTS
  CommandLines,   \* the argument lists that are explored
  Trees           \* the CPPLINT.cfg files that are explored, by directory

(* A finding is what a check passes to Error.  Before two findings of a    *)
(* header guard the code parses the NOLINT of the #ifndef and of the       *)
(* #endif line: that is an entry of the category "NOLINT".                 *)
Findings == [line : Nat, category : Categories, confidence : Int]
GuardLines == [line : Nat, category : {"NOLINT"}, confidence : Int]

Markers == [kind : {"none", "line", "nextline"}, category : STRING]
Lines == [nolint : Markers, width : Nat, cr : BOOLEAN, errors : Seq(Findings)]

(* A path is the sequence of its names from the root, which is <<>>.       *)
SourceFiles ==
  [path : Seq(STRING) \ {<<>>}, ext : STRING, stdin : BOOLEAN, readable : BOOLEAN,
   directives : SUBSET STRING, lines : Seq(Lines),
   copyright : Seq(Findings), comments : Seq(Findings),
   guard : Seq(Findings \cup GuardLines),
   completed : Seq(Findings), header : Seq(Findings), ending : Seq(Findings)]

(* #ifndef and #endif are two lines of the file, and no directive is about *)
(* the copyright, which is looked for before the directives are read.      *)
GuardLinesOf(f) == {i \in DOMAIN f.guard : f.guard[i].category = "NOLINT"}
IsFile(f) ==
  /\ f \in SourceFiles
  /\ \A i \in GuardLinesOf(f) : f.guard[i].line \in DOMAIN f.lines
  /\ \A i, j \in GuardLinesOf(f) : f.guard[i].line = f.guard[j].line => i = j
  /\ \A i \in DOMAIN f.copyright :
       f.copyright[i].category \notin CSuppressed \cup KernelSuppressed

(* The options of a command line, and the lines of a CPPLINT.cfg.          *)
IsOptions(s, filter) ==
  /\ Len(s) \in Nat /\ s = [i \in 1..Len(s) |-> s[i]]
  /\ \A i \in DOMAIN s : s[i].name = filter => s[i].val \in Seq(Filters)

IsCfg(cfg) ==
  /\ cfg.kind \in {"none", "file", "unreadable"}
  /\ cfg.kind = "file" => IsOptions(cfg.lines, "filter")

ASSUME ReportedAssumption ==
  /\ {"whitespace/line_length", "whitespace/newline"} \subseteq Categories
  /\ "NOLINT" \notin Categories
ASSUME CommandLinesAssumption ==
  \A a \in CommandLines :
    /\ IsOptions(a.options, "--filter")
    /\ Len(a.files) \in Nat /\ a.files = [i \in 1..Len(a.files) |-> a.files[i]]
    /\ \A i \in DOMAIN a.files : IsFile(a.files[i])
ASSUME TreesAssumption ==
  \A t \in Trees, a \in CommandLines : \A i \in DOMAIN a.files :
    \A n \in 0..(Len(a.files[i].path) - 1) : IsCfg(t[SubSeq(a.files[i].path, 1, n)])

VARIABLES
  pc,
  args,           \* the command line: options and files
  tree,           \* the CPPLINT.cfg of every directory
  opts,           \* the options ParseArguments has yet to look at
  parsed,         \* the other locals of ParseArguments
  settings,       \* the globals _line_length, _root, _hpp_headers, _valid_extensions
  current,        \* the files ProcessFile has been called on
  old_errors,
  config,         \* the locals of ProcessConfigOverrides
  lineno,         \* the lines ProcessLine has been called on
  pending,        \* what the check that runs now has yet to pass to Error
  status,         \* the exit status, once there is one
  log,            \* history: every call of Error
  done            \* history: the files that "Done processing" was written for

argvars == <<args, tree, opts, parsed>>
filevars == <<current, old_errors, config, lineno>>
histvars == <<log, done>>
vars == <<pc, argvars, settings, filevars, pending, status, histvars, statevars>>

Overrides(path) ==
  [path |-> path, base |-> "", lines |-> <<>>, cfg_filters |-> <<>>, keep_looking |-> TRUE]

NoRoot == <<"None">>

Init ==
  /\ StateInit
  /\ args \in CommandLines /\ tree \in Trees
  /\ pc = "options"
  /\ opts = args.options
  /\ parsed = [verbosity |-> 1, filters |-> <<>>, quiet |-> FALSE, counting |-> ""]
  /\ settings = [line_length |-> 80, root |-> NoRoot, hpp_headers |-> {"h"},
                 valid_extensions |-> {"cc", "h", "cpp", "cu", "cuh"}]
  /\ current = 0 /\ old_errors = 0 /\ config = Overrides(<<>>) /\ lineno = 0
  /\ pending = <<>> /\ status = 0
  /\ log = <<>> /\ done = {}

Exit(code) == pc' = "exit" /\ status' = code

-----------------------------------------------------------------------------
(* ParseArguments *)

Option(names) == pc = "options" /\ opts # <<>> /\ Head(opts).name \in names

NextOption == opts' = Tail(opts) /\ UNCHANGED <<args, tree>>

(* getopt refuses the whole command line before any option is looked at.   *)
Accepted == \A i \in DOMAIN args.options : args.options[i].name # "invalid"

(* --help, a value that is not allowed and an int() that raises end the    *)
(* run, and so does an empty --filter, which lists the categories.         *)
StopAtOption ==
  /\ pc = "options"
  /\ \/ ~ Accepted /\ Exit(1)
     \/ /\ Accepted
        /\ Option({"--help", "--counting", "--linelength", "--verbose"})
        /\ Head(opts).name = "--help" \/ ~ Head(opts).ok
        /\ Exit(1)
     \/ Accepted /\ Option({"--filter"}) /\ Head(opts).val = <<>> /\ Exit(0)
  /\ UNCHANGED <<argvars, settings, filevars, pending, histvars, statevars>>

ParseOption ==
  /\ Accepted /\ Option({"--quiet", "--verbose", "--filter", "--counting"})
  /\ LET o == Head(opts) IN
     /\ o.ok
     /\ o.name = "--filter" => o.val # <<>>
     /\ parsed' = CASE o.name = "--quiet" -> [parsed EXCEPT !.quiet = TRUE]
                    [] o.name = "--verbose" -> [parsed EXCEPT !.verbosity = o.val]
                    [] o.name = "--filter" -> [parsed EXCEPT !.filters = o.val]
                    [] o.name = "--counting" -> [parsed EXCEPT !.counting = o.val]
  /\ NextOption
  /\ UNCHANGED <<pc, settings, filevars, pending, status, histvars, statevars>>

ProcessHppHeadersOption(val) ==
  settings' = [settings EXCEPT !.hpp_headers = val,
                               !.valid_extensions = @ \cup val]

SetGlobal ==
  /\ Accepted /\ Option({"--root", "--linelength", "--extensions", "--headers"})
  /\ LET o == Head(opts) IN
     /\ o.ok
     /\ \/ o.name = "--root" /\ settings' = [settings EXCEPT !.root = o.val]
        \/ o.name = "--linelength" /\ settings' = [settings EXCEPT !.line_length = o.val]
        \/ o.name = "--extensions" /\ settings' = [settings EXCEPT !.valid_extensions = o.val]
        \/ o.name = "--headers" /\ ProcessHppHeadersOption(o.val)
  /\ NextOption
  /\ UNCHANGED <<pc, parsed, filevars, pending, status, histvars, statevars>>

(* All options are read: no file is an error, a filter without a sign      *)
(* raises, and otherwise main() clears the counters and begins.            *)
EndOfOptions ==
  /\ pc = "options" /\ opts = <<>>
  /\ IF args.files = <<>>
       THEN Exit(1) /\ UNCHANGED statevars
       ELSE /\ quiet' = parsed.quiet
            /\ verbose_level' = parsed.verbosity
            /\ SetFilters(parsed.filters)
            /\ counting' = IF Raised(filters') THEN counting ELSE parsed.counting
            /\ IF Raised(filters') THEN Exit(1) ELSE pc' = "files" /\ UNCHANGED status
            /\ error_count' = 0
            /\ errors_by_category' = [k \in CountKeys |-> 0]
            /\ UNCHANGED <<filters_backup, nolintvars>>
  /\ UNCHANGED <<argvars, settings, filevars, pending, histvars>>

-----------------------------------------------------------------------------
(* ProcessFile and ProcessConfigOverrides *)

File == args.files[current]

StartFile ==
  /\ pc = "files" /\ current < Len(args.files)
  /\ current' = current + 1
  /\ BackupFilters
  /\ old_errors' = error_count
  /\ config' = Overrides(args.files[current + 1].path)
  /\ pc' = "config"
  /\ UNCHANGED <<argvars, settings, lineno, pending, status, histvars,
                 flagvars, filters, countvars, nolintvars>>

(* Mutant: a directory without CPPLINT.cfg is looked at again. *)
OpenConfig_stays ==
  /\ pc = "config" /\ config.lines = <<>>
  /\ config.keep_looking /\ config.path # <<>>
  /\ LET cfg == tree[Front(config.path)] IN
     config' = [config EXCEPT !.path = IF cfg.kind = "none" THEN @ ELSE Front(@),
                              !.base = Last(config.path),
                              !.lines = IF cfg.kind = "file" THEN cfg.lines ELSE <<>>,
                              !.keep_looking = cfg.kind # "unreadable"]
  /\ UNCHANGED <<pc, argvars, settings, current, old_errors, lineno, pending, status,
                 histvars, statevars>>

(* One turn of the while loop: the next CPPLINT.cfg upwards, if there is   *)
(* one; config.base is the name of what lies under its directory.          *)
OpenConfig ==
  /\ pc = "config" /\ config.lines = <<>>
  /\ config.keep_looking /\ config.path # <<>>
  /\ LET cfg == tree[Front(config.path)] IN
     config' = [config EXCEPT !.path = Front(@),
                              !.base = Last(config.path),
                              !.lines = IF cfg.kind = "file" THEN cfg.lines ELSE <<>>,
                              !.keep_looking = cfg.kind # "unreadable"]
  /\ UNCHANGED <<pc, argvars, settings, current, old_errors, lineno, pending, status,
                 histvars, statevars>>

ConfigLine(names) ==
  /\ pc = "config" /\ config.lines # <<>> /\ Head(config.lines).name \in names
  /\ UNCHANGED <<argvars, current, old_errors, lineno, pending, status, histvars>>

NextConfigLine == config' = [config EXCEPT !.lines = Tail(@)]

ConfigRule ==
  /\ ConfigLine({"set noparent", "filter", "other"})
  /\ LET o == Head(config.lines) IN
     config' = [config EXCEPT
       !.lines = Tail(@),
       !.keep_looking = @ /\ o.name # "set noparent",
       !.cfg_filters = IF o.name = "filter" THEN Append(@, o.val) ELSE @]
  /\ UNCHANGED <<pc, settings, statevars>>

(* A linelength that int() refuses is only complained about. *)
ConfigSetting ==
  /\ ConfigLine({"linelength", "root", "headers"})
  /\ LET o == Head(config.lines) IN
     \/ /\ o.name = "linelength"
        /\ settings' = IF o.ok THEN [settings EXCEPT !.line_length = o.val] ELSE settings
     \/ o.name = "root" /\ settings' = [settings EXCEPT !.root = config.path \o o.val]
     \/ o.name = "headers" /\ ProcessHppHeadersOption(o.val)
  /\ NextConfigLine
  /\ UNCHANGED <<pc, statevars>>

(* The file, or a directory above it, is one the cfg excludes: ProcessFile *)
(* returns with the filters restored; settings made so far stay.           *)
ExcludeFiles ==
  /\ ConfigLine({"exclude_files"})
  /\ IF config.base \in Head(config.lines).val
       THEN pc' = "files" /\ RestoreFilters /\ UNCHANGED config
       ELSE NextConfigLine /\ UNCHANGED <<pc, filters>>
  /\ UNCHANGED <<settings, flagvars, filters_backup, countvars, nolintvars>>

ApplyConfigFilters ==
  /\ pc = "config" /\ config.lines = <<>>
  /\ ~ (config.keep_looking /\ config.path # <<>>)
  /\ AddFilters(FlattenSeq(Reverse(config.cfg_filters)))
  /\ IF Raised(filters') THEN Exit(1) ELSE pc' = "read" /\ UNCHANGED status
  /\ UNCHANGED <<argvars, settings, filevars, pending, histvars,
                 flagvars, filters_backup, countvars, nolintvars>>

-----------------------------------------------------------------------------
(* The rest of ProcessFile, and ProcessFileData.  A check passes what it   *)
(* finds to Error, one call after the other, before the next one runs.     *)

HasExtension == File.stdin \/ File.ext \in settings.valid_extensions

(* Mutant: the filters stay as they are when the file cannot be opened. *)
ReadFile_no_restore ==
  /\ pc = "read"
  /\ IF ~ File.readable
       THEN pc' = "files" /\ UNCHANGED <<nolintvars, pending>>
       ELSE /\ pc' = IF HasExtension THEN "directives" ELSE "done"
            /\ IF HasExtension
                 THEN ResetNolintSuppressions /\ pending' = File.copyright
                 ELSE UNCHANGED <<nolintvars, pending>>
  /\ lineno' = 0
  /\ UNCHANGED <<argvars, settings, current, old_errors, config, status, histvars,
                 flagvars, filtervars, countvars>>

ReadFile ==
  /\ pc = "read"
  /\ IF ~ File.readable
       THEN pc' = "files" /\ RestoreFilters /\ UNCHANGED <<nolintvars, pending>>
       ELSE /\ pc' = IF HasExtension THEN "directives" ELSE "done"
            /\ IF HasExtension
                 THEN ResetNolintSuppressions /\ pending' = File.copyright
                 ELSE UNCHANGED <<nolintvars, pending>>
            /\ UNCHANGED filters
  /\ lineno' = 0
  /\ UNCHANGED <<argvars, settings, current, old_errors, config, status, histvars,
                 flagvars, filters_backup, countvars>>

IsHeaderExtension == File.ext \in settings.hpp_headers

(* In the findings of CheckForHeaderGuard: the NOLINT of a line is parsed. *)
ParsesNolint(e) == e.category = "NOLINT"

(* History: the lines whose NOLINT was parsed for this file. *)
LinesRead ==
  1..lineno \cup
    (IF pc \in {"lines", "done"} /\ IsHeaderExtension
       THEN {e.line : e \in {g \in ToSet(File.guard) : ParsesNolint(g)} \ ToSet(pending)} ELSE {})

CallError ==
  /\ pending # <<>> /\ ~ ParsesNolint(Head(pending))
  /\ LET e == Head(pending) IN
     /\ Error(e.category, e.confidence, e.line)
     /\ log' = Append(log, [file |-> current, read |-> LinesRead, error |-> e,
                            shown |-> error_count' # error_count])
  /\ pending' = Tail(pending)
  /\ UNCHANGED <<pc, argvars, settings, filevars, status, done,
                 flagvars, filtervars, nolintvars>>

NolintErrors(marker, n) ==
  IF UnknownNolint(marker)
    THEN <<[line |-> n, category |-> "readability/nolint", confidence |-> 5]>> ELSE <<>>

(* The lines of the guard are parsed before their turn comes, and again    *)
(* then.                                                                   *)
ParseGuardLine ==
  /\ pending # <<>> /\ ParsesNolint(Head(pending))
  /\ LET n == Head(pending).line
         marker == File.lines[n].nolint
     IN  /\ ParseNolintSuppressions(marker, n)
         /\ pending' = NolintErrors(marker, n) \o Tail(pending)
  /\ UNCHANGED <<pc, argvars, settings, filevars, status, histvars,
                 flagvars, filtervars, countvars, global_error_suppressions>>

BeforeLines ==
  /\ pc = "directives" /\ pending = <<>>
  /\ ProcessGlobalSuppresions(File.directives)
  /\ pending' = File.comments \o (IF IsHeaderExtension THEN File.guard ELSE <<>>)
  /\ pc' = "lines"
  /\ UNCHANGED <<argvars, settings, filevars, status, histvars,
                 flagvars, filtervars, countvars, error_suppressions>>

TooLong(line, n) ==
  IF line.width > settings.line_length
    THEN <<[line |-> n, category |-> "whitespace/line_length", confidence |-> 2]>>
    ELSE <<>>

ProcessLine ==
  /\ pc = "lines" /\ pending = <<>> /\ lineno < Len(File.lines)
  /\ lineno' = lineno + 1
  /\ LET line == File.lines[lineno'] IN
     /\ ParseNolintSuppressions(line.nolint, lineno')
     /\ pending' = NolintErrors(line.nolint, lineno') \o TooLong(line, lineno') \o line.errors
  /\ UNCHANGED <<pc, argvars, settings, current, old_errors, config, status, histvars,
                 flagvars, filtervars, countvars, global_error_suppressions>>

IsSourceExtension == File.ext \in {"c", "cc", "cpp", "cxx"}

(* The lines that end in CR, in a file where others do not. *)
CrlfErrors ==
  IF \A n \in DOMAIN File.lines : File.lines[n].cr THEN <<>>
  ELSE FlattenSeq([n \in 1..Len(File.lines) |->
         IF File.lines[n].cr
           THEN <<[line |-> n, category |-> "whitespace/newline", confidence |-> 1]>>
           ELSE <<>>])

(* CheckCompletedBlocks, CheckForIncludeWhatYouUse, CheckHeaderFileIncluded*)
(* of a source, CheckForBadCharacters, CheckForNewlineAtEOF, and then what *)
(* ProcessFile says of the ends of the lines.                              *)
AfterLines ==
  /\ pc = "lines" /\ pending = <<>> /\ lineno = Len(File.lines)
  /\ pending' = File.completed \o (IF IsSourceExtension THEN File.header ELSE <<>>)
                  \o File.ending \o CrlfErrors
  /\ pc' = "done"
  /\ UNCHANGED <<argvars, settings, filevars, status, histvars, statevars>>

(* Mutant: any error so far makes the file worth a mention. *)
EndFile_any_error ==
  /\ pc = "done" /\ pending = <<>>
  /\ done' = IF ~ quiet \/ error_count > 0 THEN done \cup {current} ELSE done
  /\ RestoreFilters
  /\ pc' = "files"
  /\ UNCHANGED <<argvars, settings, filevars, pending, status, log,
                 flagvars, filters_backup, countvars, nolintvars>>

EndFile ==
  /\ pc = "done" /\ pending = <<>>
  /\ done' = IF ~ quiet \/ old_errors # error_count THEN done \cup {current} ELSE done
  /\ RestoreFilters
  /\ pc' = "files"
  /\ UNCHANGED <<argvars, settings, filevars, pending, status, log,
                 flagvars, filters_backup, countvars, nolintvars>>

(* Mutant: only the errors of the last file count. *)
EndRun_last_file ==
  /\ pc = "files" /\ current = Len(args.files)
  /\ Exit(IF error_count > old_errors THEN 1 ELSE 0)
  /\ UNCHANGED <<argvars, settings, filevars, pending, histvars, statevars>>

EndRun ==
  /\ pc = "files" /\ current = Len(args.files)
  /\ Exit(IF error_count > 0 THEN 1 ELSE 0)
  /\ UNCHANGED <<argvars, settings, filevars, pending, histvars, statevars>>

Arguments == StopAtOption \/ ParseOption \/ SetGlobal \/ EndOfOptions

Config == OpenConfig \/ ConfigRule \/ ConfigSetting \/ ExcludeFiles \/ ApplyConfigFilters

FileData == ReadFile \/ CallError \/ ParseGuardLine \/ BeforeLines \/ ProcessLine \/ AfterLines

Next == Arguments \/ StartFile \/ Config \/ FileData \/ EndFile \/ EndRun

(* One sequential program: as long as it can take a step it takes it. *)
Spec == Init /\ [][Next]_vars /\ WF_vars(Next)

-----------------------------------------------------------------------------
(* What a user may expect, said of the command line, the CPPLINT.cfg files *)
(* and one file alone.                                                     *)

Given(name) == {i \in DOMAIN args.options : args.options[i].name = name}

(* Of options given several times the last one counts. *)
LastOf(options, given, default) == IF given = {} THEN default ELSE options[Max(given)].val

FlagFilters == LastOf(args.options, Given("--filter"), <<>>)

Verbosity == LastOf(args.options, Given("--verbose"), 1)

CfgLines(dir) == IF tree[dir].kind = "file" THEN tree[dir].lines ELSE <<>>

(* A cfg that cannot be read, or says so, hides the ones above it. *)
NoParent(dir) ==
  \/ tree[dir].kind = "unreadable"
  \/ \E i \in DOMAIN CfgLines(dir) : CfgLines(dir)[i].name = "set noparent"

(* In one cfg the line that comes first has the last word. *)
FilterOf(o) == IF o.name = "filter" THEN o.val ELSE <<>>
OwnFilters(lines) == FlattenSeq(Reverse([i \in 1..Len(lines) |-> FilterOf(lines[i])]))

(* The filters that the cfgs from the root to each directory of a path     *)
(* give: those of the outermost cfg that counts come first.                *)
Inherited(path) ==
  LET rules[n \in 0..(Len(path) - 1)] ==
        LET dir == SubSeq(path, 1, n)
        IN  (IF n = 0 \/ NoParent(dir) THEN <<>> ELSE rules[n - 1])
              \o OwnFilters(CfgLines(dir))
  IN  rules

(* The filters for a file: the built-in ones, those of the command line,   *)
(* and those of the cfgs above it.                                         *)
RulesOf(f) ==
  DefaultFilters \o FlagFilters \o Inherited(f.path)[Len(f.path) - 1]

Wanted(rules, category) ==
  LET about == {i \in DOMAIN rules : rules[i].name \in Beginnings[category]}
  IN  about = {} \/ rules[Max(about)].sign = "+"

(* Error e is waived by a comment on its line or the line before, or by a  *)
(* directive; a comment counts from when its line is read.                 *)
Waived(f, e, read) ==
  \/ \E n \in read :
       /\ f.lines[n].nolint.kind = IF e.line = n THEN "line" ELSE "nextline"
       /\ e.line \in {n, n + 1}
       /\ f.lines[n].nolint.category \in {ALL, e.category}
  \/ "c" \in f.directives /\ e.category \in CSuppressed
  \/ "kernel" \in f.directives /\ e.category \in KernelSuppressed

ShownIn(k) == \E i \in DOMAIN log : log[i].file = k /\ log[i].shown

Shown == {i \in DOMAIN log : log[i].shown}

-----------------------------------------------------------------------------
(* Properties. *)

(* Every error is printed, or not, by the rules of its own file: NOLINT    *)
(* comments, directives and CPPLINT.cfg filters of the files before it,    *)
(* excluded and unreadable ones included, leave no trace.                  *)
JudgedByOwnRules ==
  \A i \in DOMAIN log :
    LET e == log[i].error  f == args.files[log[i].file]
    IN  log[i].shown <=> /\ ~ Waived(f, e, log[i].read)
                         /\ e.confidence >= Verbosity
                         /\ Wanted(RulesOf(f), e.category)

(* Between two files the filters are those of the command line again.      *)
FiltersRestored ==
  pc = "files" => filters = DefaultFilters \o FlagFilters

(* The totals that are printed are those of the errors that were printed.  *)
CountsAgree ==
  /\ error_count = Cardinality(Shown)
  /\ \A k \in CountKeys :
       errors_by_category[k] =
         CASE counting = "detailed" ->
                Cardinality({i \in Shown : log[i].error.category = k})
           [] counting = "toplevel" ->
                Cardinality({i \in Shown : TopLevel[log[i].error.category] = k})
           [] OTHER -> 0

(* A run that went through its files exits with 1 exactly when it printed  *)
(* an error, whichever file the error was in.                              *)
ExitIsHonest ==
  pc = "exit" /\ current > 0 /\ Signed(filters) =>
    (status = 1 <=> \E k \in 1..current : ShownIn(k))

(* With --quiet the file is mentioned if and only if an error of its own   *)
(* was printed.                                                            *)
QuietUnlessErrors ==
  quiet /\ pc \in {"files", "exit"} /\ Signed(filters) =>
    \A k \in 1..current : k \in done <=> ShownIn(k)

(* Who runs cpplint learns the truth: from its exit status whether any     *)
(* error was printed, and with --quiet from the files it names.            *)
ReportedHonestly == ExitIsHonest /\ QuietUnlessErrors

(* Whatever the files and configurations are, the run ends. *)
RunEnds == <>(pc = "exit")

(* "CPPLINT.cfg has an effect on files in the same directory and all       *)
(* sub-directories, unless overridden by a nested configuration file": the *)
(* line length that holds for a file is that of the nearest cfg that gives *)
(* one, or else that of the command line.                                  *)
ConfigScope ==
  LET scope[n \in 0..(Len(File.path) - 1)] ==
        LET dir == SubSeq(File.path, 1, n)
            own == {i \in DOMAIN CfgLines(dir) : /\ CfgLines(dir)[i].name = "linelength"
                                                 /\ CfgLines(dir)[i].ok}
        IN  IF own # {} THEN CfgLines(dir)[Max(own)].val
            ELSE IF n > 0 /\ ~ NoParent(dir) THEN scope[n - 1]
            ELSE LastOf(args.options, Given("--linelength"), 80)
  IN  pc = "lines" => settings.line_length = scope[Len(File.path) - 1]
=============================================================================
