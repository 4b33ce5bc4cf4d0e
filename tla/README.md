# A TLA+ model of GBMU_dmg_lib

GBMU_dmg_lib is a C++17 header library of parts for a Game Boy (DMG/CGB)
emulator: an interrupt controller, a joypad, three RAM devices, a dynamic
buffer, cycle clocks and bit operators. The repository has no CPU, no memory
bus and no threads: every class is called by an emulation loop, a CPU and a
host that live elsewhere, *in an order that the classes do not choose*. That
order is what the models of the library explore.

The repository also carries the linter it is checked with, `utils/cpplint.py`:
one sequential program whose difficulty is state that is carried along - from
character to character, line to line, file to file - and must be forgotten at the
right moment. The models of the linter explore *every short text, file and run*
over small alphabets and compare what the code carries with what a reading of the
whole says.

What the code promises under every order and every input is stated as invariants,
action properties, liveness and refinements, checked by TLC on small instances;
the safety properties of the library and of the linter's runs, and of the includes and
guards of the files it lints, are proved by TLAPS for all values of the constants.

## 1. Inventory

| Part | State | Operations | What makes it hard |
|---|---|---|---|
| `common/GB_macro.h` bit operators | none | mask, slice, inject, set/reset/test a bit, least bit by a de Bruijn product | boundaries: topmost bit, whole word, word 0; one wrong table entry |
| `common/GB_dbuffer.h` `dbuffer_t` | pointer, length, the heap | 5 constructors, 2 assignments, destructor, access | ownership through any sequence of copies and moves; `new[]` throws between free and allocate; self-assignment |
| `common/GB_clock.h` | one signed counter per device | `step`, `pay`, `is_ready`, `Action` | irregular rounds, idle devices, the clamp at 0 |
| `device/GB_interrupt.h` `InterruptController` | IE, IF, IME | request, reset, get/set of the registers, the winner | devices, CPU and program call in any order; reserved bits stand for "nothing"; read-modify-write of IF |
| `device/GB_joypad.h` `JoyPad` | pressed keys, keys at the last `step`, P14, P15 | press, unpress, `step`, get/set P1 | edges are found by sampling; one register both selects and reads a row |
| `device/GB_wram.h` `WRAM` | 32 KB buffer, SVBK | inner and physical access, SVBK | bank 0 reads as 1, window boundary, unchecked index |
| `device/GB_vram.h` `VRAM` | 16 KB buffer, VBK | inner and physical access, VBK, generated copy and move | a buffer and a register copied one after the other |
| `device/GB_oram.h` `ORAM` | 160-byte buffer | physical access, generated copy and move | unchecked index |
| `memory/GB_vaddr.h`, `GB_config.h`, `common/GB_types.h` | none | constants | - |
| `sources/*.cc` | none | all code commented out | - |
| `utils/cpplint.py`: runs | `_CppLintState` (filters, counters, verbosity), suppressions, module globals (`_line_length`, `_root`, ...), the `CPPLINT.cfg` walk | `main`, `ParseArguments`, `ProcessFile`, `ProcessConfigOverrides`, `Error`, NOLINT and file-wide directives | globals that outlive a file; filters of many sources in one list; several ways out of a file |
| `utils/cpplint.py`: text | a stack of brackets, a raw string's delimiter, the lines | removal of raw strings, comments and literals; `CloseExpression`, `ReverseCloseExpression`, `_GetTextInside` | constructs that hide each other; `<` as bracket, operator or arrow |
| `utils/cpplint.py`: names, includes, guards | `_IncludeState` | `FileInfo`, header guards, include order and repetition, include-what-you-use | nested checkouts; conditionals between includes; headers opened on the way |
| `utils/cpplint.py`: blocks and functions | `NestingState`, `_FunctionState` | `NestingState.Update`, checks of closings, namespaces, sections, function size | `#if`/`#else` restore old stacks; heads over several lines; inline assembly |
| `utils/cpplint.py`: style checks | none | patterns on a line or two | - |

Interactions. `JoyPad` calls `request_interrupt` of the controller it is linked
to. The CPU polls the controller, acknowledges (`reset_interrupt`), masks
(`set_IME_reg`), runs a handler and unmasks; the program reads and writes IE, IF,
P1, SVBK and VBK through the bus. RAM devices contain a `dbuffer_t`. All devices
share the bit operators. There are no callbacks but those of `devsync::Action`.
In the linter `main` calls `ProcessFile` for each file, which reads the
configuration, then hands the lines to `ProcessFileData`; that cleans the text,
runs the header guard check, then every line through the blocks, the size of
functions and the includes, then the checks at the end of the file. All of them
report through `Error`, which asks the suppressions and the filters.

## 2. Modules

Bytes and registers are sets of bit positions (`Bits.tla`), so the C++ `|`, `&`
and `& ~` are `\cup`, `\cap` and `\`. This is not taken for granted:
`BitMacro.tla` computes the operators of the header with integers, shifts and
the cycle table; the two agree for words of every width, by proof.

| Module | Models | Properties |
|---|---|---|
| `Bits` | the operators of `GB_macro.h` on sets | `bit_lsb` in `InterruptControllerProofs` |
| `BitMacro` | the same as the header computes them | `OperatorsMatch`, `LsbMatches` |
| `InterruptController` | `GB_interrupt.h`, one action per operation | `ImplementsLatch` |
| `InterruptLatch` | *abstract*: five sources, enables, a winner | |
| `JoyPad` | `GB_joypad.h` linked to a controller | |
| `KeyScan` | the pad, a program that scans both rows, a handler that borrows P1 | `ScanConsistent`, `LinesFollowTable` |
| `InterruptService` | pad, controller, other devices, CPU dispatch, program | `NoExtraService`, `PolledStillPending`, `WinnerIsServed` |
| `KeyEdges` | `InterruptService` with the presses between two samples | `NoSpuriousRequest`, `HeldPressIsRequested`; a comment that does not hold |
| `DBuffer` | `GB_dbuffer.h`: variables, blocks, a heap that may run out | `OneOwner`, `AllocatedIffOwned`, `BlockHoldsLength`, `ImplementsValues` |
| `ValueBuffer` | *abstract*: independent values | |
| `Clock` | `GB_clock.h` in a loop that gives cycles | `NeverAhead`, `ReadyWhenPaidOff` |
| `WRAM` | `GB_wram.h`, one device | `ImplementsBanked` |
| `BankedMemory` | *abstract*: separate banks, a fixed window on bank 0, a switched window on another one | |
| `VRAM` | `GB_vram.h`, several objects, over an instance of `DBuffer` | `ImplementsDevices` |
| `BankedDevices` | *abstract*: independent banked devices, hollow after a move | |
| `MemoryDevices` | a program that uses a `WRAM` or several `VRAM`s | both refinements |
| `LintState` | cpplint: filters, counters, suppressions, `Error` | |
| `LintRun` | cpplint: options, configuration walk, files in turn; what the checks find is data | `JudgedByOwnRules`, `FiltersRestored`, `CountsAgree`, `ReportedHonestly`, `RunEnds` |
| `Pieces` | finding and replacing, as Python's strings do | |
| `Brackets` | cpplint: the searches for the other end of an expression | |
| `Cleanse` | cpplint: raw strings, comments, elided strings, multi-line checks | |
| `Expressions` | every text through `Brackets`, with a definition of matching brackets of its own | `ExpressionsAgree` |
| `LintText` | the texts of `Expressions` through `Cleanse`, with a C++ lexer of its own | `TextAgrees`, `OpenEndsReported` |
| `Paths` | cpplint: `FileInfo`, guard names, modules | |
| `Includes` | cpplint: `_IncludeState`, include order, what is used | |
| `HeaderGuard` | cpplint: `CheckForHeaderGuard` | |
| `Nesting` | cpplint: `NestingState` and the checks that read it | |
| `FunctionSize` | cpplint: `_FunctionState`, `CheckForFunctionLengths` | |
| `LintFile` | every short file through the five modules above, as `ProcessFileData` calls them | `BlocksAgree`, `AssemblyAgrees`, `LayoutAgrees`, `FunctionSizeAgrees`, `IncludeOrderAgrees`, `HeadersAskedFor`, `NamesAgree`, `GuardAgrees` |

`JoyPad` instantiates `InterruptController` on the same variables (`IC!...`);
`KeyScan` and `InterruptService` extend `JoyPad`, `KeyEdges` extends
`InterruptService`; `VRAM` instantiates `DBuffer` (`M!...`); `MemoryDevices`
extends `WRAM` and instantiates `VRAM`. `LintRun` extends `LintState`; `LintFile`
extends `HeaderGuard`, `FunctionSize` and `Nesting`, all over `Includes` and `Paths`,
and `Nesting` uses `Brackets`; `Expressions` extends `Brackets`, and `LintText` extends
`Expressions` and `Cleanse`; `Cleanse` and `Paths` use `Pieces`. `MC*` modules hold the values of the constants
for TLC. Operators named `..._suffix` and commented "Mutant" are plausible bugs
of the definition below them; each property is known to fail for at least one.

How state corresponds to code. `reg_IE`, `reg_IF`, `reg_IME` are the fields of
`InterruptController::Registers` as stored (reserved bits included);
`pressed_key_set`, `previous_step_key_set`, `p14`, `p15` the fields of `JoyPad`;
`data` and `len` are `__data` and `__len` of every `dbuffer_t` variable, `heap`
and `allocated` the memory behind `new[]`; `counter` is `__counter` of each
device; `memory` and `SVBK`, or the `DBuffer` variables and `VBK`, are the
fields of the RAM devices. A constructor of the code is an action that brings a
variable to life where objects come and go, and `Init` where there is one object.
In the linter's modules the globals and the fields of `_CppLintState`,
`_IncludeState`, `_FunctionState` and `NestingState` have the names of the code, and
`pc` says which call of `main`, `ProcessFile` or `ProcessFileData` comes next. A text
is characters in `Expressions` and `LintText`, where identifiers of any length are one letter; a line is its
words, its indent, its comment and its include in `LintFile`; a file is the list of the
errors that the checks report, line by line, in `LintRun`. Operators that take
and return a state (`UpdatePreprocessor(state, ...)`) are methods that change it.

The properties of the linter do not repeat its algorithms. They are written over the
whole file: `Expressions` has a definition of matching brackets by counting and
`LintText` a lexer that reads a text from left to right; `LintFile` finds open blocks by
following each branch of the conditionals down to the line, and the place of an
include from the others of its group; `LintRun` decides for each error by the
rules of its own file whether it is to be shown. Where the code is a heuristic, a
property says for which inputs it is meant (`WellFormed`, `Flat`, `NoElse`,
`Lexed[n].fits`); what happens outside these is in section 6.

Variables commented "history" are not in the code; no guard but that of a
named bound reads them.

## 3. Runs

| Run | Shows |
|---|---|
| `bits` | `GB_macro.h` agrees with the sets: every 7-bit word, every slice and injected value; every 16-bit word but 0 for `bit_lsb` |
| `interrupt_controller` | the controller implements the latch, also when built with reserved bits 0 or when `NO_INTERRUPT` itself is requested |
| `key_scan` | a scan of both rows is true of each key at some time during the scan, whatever keys, samples and a P1-saving handler do in between |
| `interrupt_service` | `KeyEdges`: no more services than presses; what was polled is still pending at the acknowledge; no winner waits for ever; only a real press raises, and every press that is held raises |
| `dbuffer` | no double free, no leak, no dangling pointer, length = block; buffers are values |
| `clock` | no device works ahead of the cycles given; it is ready exactly when its last action is paid off |
| `ram` | eight banks behind two windows: WRAM0 shows bank 0, WRAMX the bank SVBK stands for and never bank 0, a write changes just the byte its window shows; every inner address inside the memory; VRAM objects are independent of each other and whole unless moved from or torn |
| `lint_text` | brackets are matched as a parser matches them, forwards and backwards; the checks see the code of the text and all of it; what a line leaves open is reported |
| `lint_file` | open blocks, assembly, sections, function sizes, includes, names and guards are judged as a reading of the whole file judges them |
| `lint_run` | every error is shown or hidden by the rules of its own file; the filters are restored; totals and exit status are those of the shown errors; the run ends |
| `key_press`, `lint_scope` | counterexamples: see section 6 |

Bounds and why they are enough.

* `bits`: 7-bit words. The operators treat all positions alike but the first and
  the last, and both ends are in every word size.
* `interrupt_controller`: register values with reserved bits 0 and 1, one and
  several sources; all indices, 5 included.
* `key_scan`: keys of both rows on the same line and on different
  lines; all four selections of P14/P15.
* `interrupt_service`: keys of both rows; IE and IF written with nothing, the joypad, and
  everything reserved; three presses (`MaxPresses`), enough for an edge before,
  during and after a dispatch; one other device of higher priority. `presses` is
  the only counter, and its bound only stops new presses.
* `dbuffer`: three variables (a source, a target, a witness), two bytes, one block
  more than variables so that a leak is not hidden by exhaustion. `ram`: of VRAM two
  objects, banks of two bytes; blocks and objects are symmetric, and no property
  of that run is a liveness property.
* `clock`: two devices, rounds of 1 and 4 cycles, prices below, at and above a
  round, 12 cycles (`MaxTime`). The run has no deadlock check because time stops
  at that bound.
* `ram`, WRAM: banks of two bytes; SVBK selecting banks 1 (as 0 and as 1), 2 and 7.

* `lint_text`: texts of up to five characters, six for comments and raw strings, on up to
  three lines (`MaxChars`, `MaxLines`), over five alphabets: brackets with `<` and
  `>`; arrows and `operator`; quotes, escapes, digits and slashes; comments; raw
  strings. The patterns of the code look at two or three characters together, so
  that five hold two constructs that meet.
* `lint_file`: up to four or five lines (`Sizes`), every sequence of the lines of one of
  fourteen themes (braces, class heads, nested namespaces, branches, assembly, sections,
  functions, tests, includes, conditional includes, used names, guards, file names); each
  theme has the lines that can disturb one check. Lengths are scaled so that a
  few lines cross them: a namespace of 3 lines for the code's 10, a class of 2
  for 24, a function of 1 and a test of 2 for 250 and 400.
* `lint_run`: up to two files (`MaxFiles`) of five - one with waivers on and before
  a line, one without, a kernel header in C, a header with a guard comment, one that
  cannot be read - under eight lists of options, six that are refused, and six trees
  of `CPPLINT.cfg` files in three directories. Two files are enough for what one
  leaves behind to meet the next.
* `lint_file` and `lint_run` have no deadlock check: a file and a run end.

Fairness. `KeyEdges` assumes `WF(SampleFresh)`: the emulation loop goes on calling
`step()`. `InterruptService` and `KeyEdges` assume `WF(Execute)`, a CPU that is between polling
and the handler goes on, `WF(WriteBack)`, a program that has read IF writes it
back, and `SF(Return)`, a handler returns although it may go through IF again and
again first (each time the return is disabled by the copy it holds). Nothing is
assumed of the host, the devices, or the program's EI. These are assumptions
about code outside this repository; the classes themselves never wait. `LintRun`
assumes `WF(Next)`: it is one sequential program that is not stopped.

## 4. Proofs

| Module | Proves, for all values of the constants |
|---|---|
| `CommonProofs` | of `BitMacro`: `OperatorsMatch` for words of every width (those of the header have 32 bits), `LsbMatches`; of `Clock`: `TypeOK`, `NeverAhead`, `ReadyWhenPaidOff`; of `Expressions`: `ExpressionsAgree` |
| `InterruptControllerProofs` | `bit_lsb` of a non-empty set is its least member; `TypeOK`; `Spec => ImplementsLatch` |
| `KeyScanProofs` | P1 reads as the table in the source; `TypeOK`, `ScanConsistent`, `LinesFollowTable` |
| `InterruptServiceProofs` | `TypeOK`, `NoExtraService`, `PolledStillPending`, of the service and of `EdgesSpec`, the one the run checks; `EdgesSpec => NoSpuriousRequest` |
| `DBufferProofs` | `TypeOK`, `OneOwner`, `AllocatedIffOwned`, `BlockHoldsLength`; `Spec => ImplementsValues` |
| `MemoryDevicesProofs` | of `WRAM`: `TypeOK` (with: every reached address is in memory), `Spec => ImplementsBanked`; of `VRAM`: `Spec => ImplementsDevices`; and all three of `DevicesSpec`, the one the run checks |
| `LintRunProofs` | `JudgedByOwnRules`, `FiltersRestored`, `CountsAgree`, `ReportedHonestly` |
| `LintFileProofs` | `GuardAgrees`, `IncludeOrderAgrees`, `HeadersAskedFor` |

The arguments:

* *Bits*. A number below 2^n is its first n digits, and a number with given digits
  exists: both by induction on n, as the powers of two and the sum of digits are recursive
  functions. Shifts move digits, the complement inverts them, `and` and `or` combine
  them place by place, so that each operator is its set. A word and its negative have no
  bit below the least bit of the word, both have that one, and above it each has what the
  other lacks; the sixteen products with the cycle number then lead to sixteen entries of
  the table. The only invariant is that the register holds a word.
* *Latch*. The search over `(IF & IE) | reserved` has the reserved range in it, so
  its least member is a real source if one is requested and enabled, else 5. The
  abstract state forgets the reserved bits, so the refinement needs no invariant.
* *Scan*. `ScanConsistent` is not inductive. The invariant adds: the histories
  contain the keys as they are now; each row that was read is true, each row that
  was not has no keys found; and while the program waits between select and read,
  P14/P15 select its row, *or* a handler runs and the byte it saved does.
* *Service*. `handled <= presses` needs an account of presses that are still on
  their way: a key down that was not sampled, a request in IF, a request the CPU has
  polled, a copy of IF the program may write back. The invariant says these
  never exceed what is left of `presses`, that a held copy of IF cannot bring back a
  joypad request that was served (the CPU acknowledges only with interrupts
  enabled, the program copies only with interrupts masked), and that the polled
  source stays requested and enabled until the acknowledge.
* *Presses*. What the next `step()` would take for newly pressed is among the keys
  pressed since the last one. Only a sample can set the joypad's bit of IF: the
  other devices have sources of their own, and the invariant of the service keeps
  what is written back from bringing a request that IF no longer has.
* *Clock*. The counter equals `min(since - owed, 0)`, the debt of the last action
  less the cycles given since; what was paid is at most what was given plus the debt.
* *WRAM*. A physical address is `bank * BANK_SIZE + offset` in exactly one way, so a
  write changes one byte of one abstract bank; the remainder of an inner address is
  its offset in its window. The selected bank is not what the code computes but
  `BankFor(SVBK)`, read off the three low bits as a set, and the proof shows that the code
  computes it and that it is one of 1 to 7; so the two windows never show the same byte. Beyond
  the refinement, each operation of the device is shown to be the one operation on banks
  that its caller is promised (`OperationsAgree`): the refinement alone would be content
  with a write to another bank. The only invariant needed is the type.
* *Buffers*. `AllocatedIffOwned` and `OneOwner` are not inductive alone: a dead
  variable must hold no block, and the owned blocks must hold what `len` says. The
  invariant states this over all variables. Every operation of the class is one of
  three changes of memory (a block is allocated, released, or moved) or two in a
  row; one lemma for each shows that it keeps the invariant, and one for each that
  it changes the value of just the variables the abstract operation names.
* *Video RAM*. The devices' buffers are those of `DBuffer`, all of one length: each step of a
  device is one or two operations of a buffer, so that the invariant of the buffers
  holds by their own proof, instantiated, and what each operation does to the values
  is cited from it. One more fact is needed, that a device has all of its bytes or none:
  without it a window of a device might lie half in memory. A device
  as the abstract specification sees it is a function of its bytes and its register; each
  step changes these for one device and leaves the bytes of the others alone.
* *Runs of the linter*. None of the four invariants is inductive alone. That an error is judged by
  the rules of its own file needs that `filters` are those rules while it is checked
  (`FiltersInv`); that, that the walk outwards has collected just the rules below its
  directory, in their order, at each line of each cfg (`ConfigInv`); and that, that what was
  parsed is what the options so far say, the last of each name (`OptionsInv`).
  For the suppressions it needs that they are those of the lines read - the `#ifndef` and
  `#endif` of the guard are read first, and then again in their turn - and the directives
  of this file alone (`NolintInv`). That the exit status is right and the right files are
  named needs that `old_errors` differs from `error_count` exactly if an error of
  this file was shown (`ReportInv`). `Inherited` and `FlattenSeq` are recursive
  functions; that they are defined, and what a step of them is, is proved in
  `LintRunProofs` from the least element of a set of numbers.

* *Guards*. The walk of `CheckForHeaderGuard` is over the whole file at once, so that the
  invariant is that the errors of a file of which no line was processed are those of
  that call. The work is in the call: the first `#ifndef` and `#define` and the last
  `#endif` are found as the code finds them, and its ways out (no guard, another name, no
  comment, a comment of the other kind) are gone through one by one.
* *Includes*. `IncludeOrderAgrees` looks back at the file: which includes were let pass, which
  of them the state still knows, and what it says of the place reached. The invariant ties
  each field of `_IncludeState` to that. An error about includes stands only on
  lines that were processed (`ReportsInv`); `include_list` holds just the includes let
  pass on lines that no `#else` has made it forget (`ListInv`), so that a line is refused
  exactly if an earlier one with its header is held (`RefusedInv`); the
  section is the last place reached in the group of includes since the last directive, and
  `last_header` the last header of that place, spelt for comparison (`SectionInv`). A
  line is then in order by comparison with that place alone. That what `#else` forgets
  is on no path to what follows is a property of the conditionals: by following each of
  them to a line, and as long as none is nested (`Flat`) the branches that end before the last `#else` are
  those that have left every path. Every line goes through the checks
  in a file without assembly, as each block then has `inline_asm = "NO"` (the type
  of `NestingState`); that is all that the proof needs of `Nesting`. The headers that are asked for
  follow from what `ListInv` and `RefusedInv` leave at the end: of the includes of the lines
  the list has all, and nothing else, whatever was refused as a repetition is on it already, so that what
  `CheckForIncludeWhatYouUse` starts from is the set that the property names, and the line it
  keeps for a header is the last one that uses it. No error of an earlier line can be mistaken for the
  one about the file's own header, as the type of the errors says that "build/include" has
  confidence 4 on every line and 5 only at the end. `Paths` and the
  consumption of a line are recursive functions; that they are defined is proved, as in
  `LintRunProofs`, from the least element of a set of numbers.
* *Expressions*. That the state is a text is the only invariant; the work is in what the
  searches find in one. They and the definition are first looked at over any finite
  ordered set of places where brackets open and close. The level of a place is the
  number of brackets open after it, and a pair is an opener with the first later
  place that brings the level back to what it was before. A stack *spells* a list of
  openers when, without its `<` or `>`, it has them in order. What a scan keeps (`Read`,
  `Waits`) is that its stack spells the openers that still wait, that no place since went
  below their levels, and that every other bracket read has its partner among those
  read. One lemma (`OneStep`) shows that a step keeps this as long as the scan goes
  on, and that when it is over, the place reached closes the bracket the scan began at, or
  nothing does; for a `<` below all brackets of the stack, that every bracket up
  to there has its partner there. It is used three times: forwards; backwards, with
  the order turned round and openers and closers exchanged, as pairs are the same
  from both ends (`MirrorShut`); and for `_GetTextInside`, over the places of one line with
  a stack of what is waited for. The rest is that the code is such a scan: line after
  line the state at the end of one is the state at the beginning of the next, what is
  put on the stack or dropped for `<` and `>` leaves what it spells alone, and what the
  way back skips is no bracket.

Assumptions of the proofs are the named `ASSUME`s of the modules: register values
are bytes, keys are among the eight, prices and rounds are positive, counters do
not start with credit, other devices use sources 0 to 3; `nullptr` is no block, and a
device that is not there is not one that is hollow. Of the linter, that its
inputs are what the program's parsers hand on: options and cfgs are lists, a value of `filter`
is a list of filters (with a sign or, the case `Raised`, without), the default filters have signs,
every file has the lists of findings of its checks, the two lines of a guard are two lines of
the file, and the categories that a directive suppresses are categories of the program
(the lists in `_DEFAULT_C_SUPPRESSED_CATEGORIES` and beside it), none of which is one of the copyright,
the only one looked for before the directives are read.

Of a file, that a line has its parts and nothing but its include if it has one
(`LinesAssumption`), that its length is a number (`SizesAssumption`), and that its setting
says what the code computes of its name: the guard of a header, and which headers may be its
own (`SettingsAssumption`, which TLC evaluates for the settings of the run). `HeadersAskedFor`
needs one more, `NamesAssumption`: that the code finds the headers of a file's module by what
their names have in common is a guess, and the theorem is about the trees on which it is right,
that is, where it reads the file's own headers and no others, where the header of the file's name
is at the place it looks, and where no other included name contains that one or is part of it. TLC
evaluates the assumption for the trees of the run: sources and headers with and without a header
to read, and sources in checkouts inside others. What the guess makes of names alone is the
subject of `NamesAgree`.

Only model-checked:

* Liveness (`HeldPressIsRequested`, `WinnerIsServed`, `RunEnds`) is beyond the prover.
* `TextAgrees` and `OpenEndsReported`, the properties of `LintText`, compare two readers of a
  text, character by character, that share no state: the proof would be an induction over the text
  for every pair of constructs, and the lexer, which is meant for TLC, is recursive.
* `BlocksAgree`, `AssemblyAgrees`, `LayoutAgrees` and `FunctionSizeAgrees` compare the stack of
  `NestingState`, which `#else` restores, with a reading of every branch from the
  beginning; their invariant would be that reading for each saved stack and each
  half-consumed line.
* `NamesAgree` is about what the names of the files that exist have in common
  (suffixes, checkouts around them): what the code finds there is a guess,
  and the property says how it does on trees that a project may have, not on all.

## 5. Plan

Order, most important behaviour first; 1 to 11 are done, with the proofs named.

1. `Bits`, `InterruptController` with `InterruptLatch`, proofs.
2. `JoyPad`; `KeyScan`, proofs.
3. `InterruptService` (composition), proofs; `KeyEdges` over it.
4. `DBuffer` with `ValueBuffer`, proofs.
5. `Clock`, proofs.
6. `WRAM` with `BankedMemory`, proofs; `VRAM` with `BankedDevices` over `DBuffer`; both in
   `MemoryDevices`.
7. `BitMacro`, proofs.
8. `LintState`, `LintRun`: what is shown of what was found, file after file.
9. `Brackets`, `Expressions`, `Cleanse`, `LintText`: what is code; `Paths`, `Includes`, `HeaderGuard`,
   `Nesting`, `FunctionSize`, `LintFile`: what is found.
10. Proofs of `NoSpuriousRequest`, of `VRAM`, of `LintRun` and of `BitMacro`.
11. Proofs of the guard, the includes and the missing headers of `LintFile`, with recursive functions in place of
    recursive operators; proof of the searches of `Brackets` for every text.
12. Next, models: a loop that drives the pad, other devices and the CPU by `Clock`;
    nested interrupts; clocks that start with credit, and 64-bit wrap-around.

## 6. Where the code and its words differ

* `GB_joypad.h:74` says the pad must raise the interrupt when a key makes the
  UNPRESSED to PRESSED change. `step()` compares two samples: a key pressed and
  released between them raises nothing (`key_press`).
* `cpplint.py:187` says a `CPPLINT.cfg` has an effect on the files of its directory and
  below, unless a nested one overrides it. Its line length (also its root and headers)
  is set while the walk goes outwards, so that the outermost wins, and is never put
  back, so that files of other directories get it too (`lint_scope`).

Read off the code and shown by no run; the properties leave these inputs out, or
do not depend on them:

* `GB_macro.h:149` documents `bit_lsb` as the index of the *most* significant bit and as 32
  for the word 0. The code returns the least one, which is what the controller needs, and 0
  for 0, which it never asks for. `LsbMatches` is about the words other than 0.
* `GB_dbuffer.h:116` says `size()` is the allocated memory size. After a copy assignment
  whose `new[]` throws there is no memory and the old size; `BlockHoldsLength` is about
  the buffers that have memory.
* `GB_joypad.h:73` says a HIGH to LOW change of a matrix line must raise the interrupt;
  selecting the row of a held key pulls a line low and raises nothing. The runs do not
  relate the row selected to the interrupt.
* `GB_interrupt.h:79` says all reserved bits of the stored registers must be 1; the
  default constructor stores 0. `ImplementsLatch` shows that it does not matter.
* `cpplint.py:3707` says the check of sections accounts for class heads over several lines. The
  last line of a class is found by counting braces from the line of its name, and if
  the brace is on a later line that is this line (`:2293`), so that the sections of such
  a class are never checked. `SectionsAreSpaced` leaves such classes out.
* `cpplint.py:4584` lists the file's own header, where it is not first, before the other headers, and
  says that a lower type after a higher one is complained about. The code has one section for
  both (`:844`) and says nothing of `d/a.h` before `d/x.h` in `d/x.cc`. `OrderAgrees` leaves out an own
  header after others.
* `cpplint.py:4719` says that the includes are reset at directives so that conditional ones are not
  warned of. A list of includes is begun at each `#if` and none is dropped at `#endif`, so
  that with nested conditionals `#else` clears another list than its own (`:767`): an include of
  the second branch is refused because the first one has it, and others are missed.
  `DuplicatesAgree` is about conditionals that are not nested.

Of the linter, where the code does something else than its comments or its user would
expect; the properties exclude these inputs by a named condition, or state what is done.

* *Options and configuration.* The unsigned filter `FOO` is documented as an example and
  raises a `ValueError`. `--headers` before `--extensions` loses the automatic
  extension. Several `filter` lines of one cfg apply in reverse order. The
  repository's own file is `cpplint.cfg`, and the code looks for `CPPLINT.cfg`. `--quiet` still
  says that a file of another extension is ignored.
* *Suppressions.* No NOLINT can suppress the error about a comment without an end, which is reported
  before any is read. An unknown category on a line of a header guard is
  reported twice, as the guard check parses these lines first.
* *Text.* A comment that begins a line and ends within another is not seen to end. `/*/`
  counts as a whole comment. `"R"` before a call is taken for a raw string. Quotes
  and `//` in block comments mislead the elision. `# define` alone raises an `IndexError`.
* *Includes.* After a header out of order its name stays the one to compare with,
  though a comment says it is reset. Within nested conditionals duplicates are also missed,
  and what the `#if` branch includes is forgotten. `ax.h` counts as including `x.h`.
* *Names.* The walk out of an old Subversion checkout never ends if `/` has a `.svn`; another
  marker in `/` costs a character of the name. An svn checkout within one of git
  is named from its own top. `-test.cc` is the likely source of a header for the
  include order and not in its module; a top-level `internal/` or `public/` is not
  recognised.
* *Blocks.* `asm ((` does not begin a block of
  assembly, nor does any asm at the top level.
* *Function size.* The declaration of a function at the beginning of a line is not counted
  as a line of the function it is in. The level of the error is a logarithm, which is undefined for a negative
  `--verbose`, and the error is never printed with a verbosity above 5.
* *Python 3.* The code calls `iteritems`, and takes a view of a dictionary for a copy; the
  model is of Python 2.

## 7. Not modelled, and why

* The CPU, the bus and the program beyond how they use the two devices: not in the
  repository. The bus mappings in `sources/` are commented out. The one of
  `wram.cc` would subtract `WRAM0_BASE_VADDR`, while `WRAM::__calc_phys_addr`
  compares with an absolute address; it is left for a model of a real bus.
* A joypad without a controller (`ic_link = nullptr`): the first new key that `step()`
  sees dereferences it, after which the program has no state.
* Nested interrupts (a handler that enables interrupts before it returns).
* Pointers that `dbuffer_t::get_data_addr` hands out; indices out of range.
* `int64_t` overflow of a clock, clocks that start with credit, access to the
  counter through `operator clk_cycle_t&`.
* `ORAM`: one `dbuffer_t`, nothing of its own. Copies of `WRAM` objects: as `VRAM`.
* Of `utils/cpplint.py`: the style and language checks, which keep no state (their errors are
  input of `LintRun`); the access of a class and `is_derived`, which nothing reads; output
  formats, Windows paths, `extra_check_functions`, and the walk that never ends (section 6).
* Tests, build files and scripts.
