----------------------------- MODULE LintState -----------------------------
(***************************************************************************)
(* What cpplint keeps for a whole run and consults for every error it is   *)
(* about to print: _CppLintState with its filters and counters, and the    *)
(* suppressions that NOLINT comments and file-wide directives switch on.   *)
(* A category is a name; a filter is a sign and the name it begins with.   *)
(***************************************************************************)
EXTENDS Integers, Sequences, SequencesExt

CONSTANTS
  Categories,           \* _ERROR_CATEGORIES
  LegacyCategories,     \* _LEGACY_ERROR_CATEGORIES
  DefaultFilters,       \* _DEFAULT_FILTERS
  CSuppressed,          \* _DEFAULT_C_SUPPRESSED_CATEGORIES
  KernelSuppressed,     \* _DEFAULT_KERNEL_SUPPRESSED_CATEGORIES
  Beginnings,           \* Beginnings[c]: the names category.startswith accepts
  TopLevel              \* TopLevel[c]: category.split('/')[0]

Filters == [sign : STRING, name : STRING]

Signed(fs) == \A i \in DOMAIN fs : fs[i].sign \in {"+", "-"}

ASSUME CategoriesAssumption ==
  CSuppressed \cup KernelSuppressed \cup {"readability/nolint"} \subseteq Categories
ASSUME DefaultFiltersAssumption == DefaultFilters \in Seq(Filters) /\ Signed(DefaultFilters)

VARIABLES
  verbose_level,
  counting,
  quiet,
  filters,
  filters_backup,              \* _filters_backup
  error_count,
  errors_by_category,          \* a missing key counts as 0
  error_suppressions,          \* pairs of a category, or ALL, and a line
  global_error_suppressions    \* categories suppressed for every line

flagvars == <<verbose_level, counting, quiet>>
filtervars == <<filters, filters_backup>>
countvars == <<error_count, errors_by_category>>
nolintvars == <<error_suppressions, global_error_suppressions>>
statevars == <<flagvars, filtervars, countvars, nolintvars>>

ALL == "*"    \* the None key of _error_suppressions

CountKeys == Categories \cup {TopLevel[c] : c \in Categories}

StateInit ==
  /\ verbose_level = 1
  /\ counting = "total"
  /\ quiet = FALSE
  /\ filters = DefaultFilters
  /\ filters_backup = DefaultFilters
  /\ error_count = 0
  /\ errors_by_category = [k \in CountKeys |-> 0]
  /\ error_suppressions = {}
  /\ global_error_suppressions = {}

-----------------------------------------------------------------------------
(* Filters.  AddFilters raises ValueError, after appending, when any of    *)
(* the filters has no sign: Raised(fs) is that case.                       *)

Raised(fs) == ~ Signed(fs)

SetFilters(fs) == filters' = DefaultFilters \o fs

AddFilters(fs) == filters' = filters \o fs

BackupFilters == filters_backup' = filters

RestoreFilters == filters' = filters_backup

IsFiltered(category) ==
  LET is_filtered[i \in 0..Len(filters)] ==
        IF i = 0 THEN FALSE
        ELSE IF filters[i].name \in Beginnings[category] THEN filters[i].sign = "-"
        ELSE is_filtered[i - 1]
  IN  is_filtered[Len(filters)]

-----------------------------------------------------------------------------
(* NOLINT.  A marker says whether a line has a comment and for which line, *)
(* and the category between its parentheses.                               *)

ParseNolintSuppressions(marker, linenum) ==
  error_suppressions' =
    IF marker.kind # "none" /\ marker.category \in Categories \cup {ALL}
      THEN error_suppressions \cup
             {<<marker.category,
                IF marker.kind = "nextline" THEN linenum + 1 ELSE linenum>>}
      ELSE error_suppressions

UnknownNolint(marker) ==
  /\ marker.kind # "none"
  /\ marker.category \notin Categories \cup LegacyCategories \cup {ALL}

ProcessGlobalSuppresions(directives) ==
  global_error_suppressions' =
    global_error_suppressions
      \cup (IF "c" \in directives THEN CSuppressed ELSE {})
      \cup (IF "kernel" \in directives THEN KernelSuppressed ELSE {})

(* Mutant: the directives of a file hold for the files after it. *)
ResetNolintSuppressions_lines_only ==
  /\ error_suppressions' = {}
  /\ UNCHANGED global_error_suppressions

ResetNolintSuppressions ==
  /\ error_suppressions' = {}
  /\ global_error_suppressions' = {}

IsErrorSuppressedByNolint(category, linenum) ==
  \/ category \in global_error_suppressions
  \/ <<category, linenum>> \in error_suppressions
  \/ <<ALL, linenum>> \in error_suppressions

-----------------------------------------------------------------------------
ShouldPrintError(category, confidence, linenum) ==
  /\ ~ IsErrorSuppressedByNolint(category, linenum)
  /\ confidence >= verbose_level
  /\ ~ IsFiltered(category)

(* Mutant: detailed counts are put under the top level too. *)
IncrementErrorCount_top_level(category) ==
  /\ error_count' = error_count + 1
  /\ errors_by_category' =
       IF counting \in {"toplevel", "detailed"}
         THEN [errors_by_category EXCEPT ![TopLevel[category]] = @ + 1]
         ELSE errors_by_category

IncrementErrorCount(category) ==
  /\ error_count' = error_count + 1
  /\ errors_by_category' =
       CASE counting = "toplevel" -> [errors_by_category EXCEPT ![TopLevel[category]] = @ + 1]
         [] counting = "detailed" -> [errors_by_category EXCEPT ![category] = @ + 1]
         [] OTHER -> errors_by_category

Error(category, confidence, linenum) ==
  IF ShouldPrintError(category, confidence, linenum)
    THEN IncrementErrorCount(category)
    ELSE UNCHANGED countvars
=============================================================================
