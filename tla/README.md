# PackCC in TLA+

PackCC reads a grammar in PEG notation and writes a packrat parser in C. This
directory models both programs: `packcc` itself, from the text of a grammar to
the output files, and the parsers it writes, from `pcc_create` to the last call
of `pcc_parse`.

Line numbers without a file are of `src/src/c/src/generate.c`; the other C files
are in the same directory. `build.zig` compiles `src/src/c/src/*.c`;
`src/src/c/packcc.c` is the same program in a single file and is not modelled
separately.

## Inventory

| Component | State it keeps | Operations | Correct when |
| --- | --- | --- | --- |
| Run time of a generated parser (715-1827) | `ctx->pos`, `cur`, `buffer`; `lrtable` (answers, growth heads, held objects per input index); `lrstack` | `pcc_apply_rule`, the `pcc_lr_*`, `pcc_rule_set__*`, `pcc_thunk*` functions, `pcc_refill_buffer` | each rule is answered as the grammar says; memoized answers are never degraded; the LR stack, heads and pointers stay consistent; positions stay in the buffer |
| API of a generated parser (2042-2095) | the context between calls | `pcc_create`, `pcc_parse` (apply the start rule, run the actions or `PCC_ERROR`, commit, look for more), `pcc_destroy` | every call parses the input from where the last one stopped; nothing dangles after a commit; calls return |
| Rule functions (1828-2041) | one C frame for each running `pcc_evaluate_rule_*`: saved positions, thunk counts, loop counters; the chunk with thunks, captures and values | the emitted code, `pcc_do_action` | backtracking restores position and thunks exactly; actions read what was matched |
| Code generator (5-669) | `gen->label`, the reach of what was emitted | `generate_code` and one function per node type | emitted labels resolve; reach is true; the code means the expression; both compilations of a class agree |
| Output (671-2160) | two files, the footer's buffer | boilerplate, user code, footer | files are complete or removed, the footer is copied |
| Parser of the PEG notation (`parse.c`) | buffer position, line number and line start; the rule under construction with its variables, captures and codes | `parse_primary` ... `parse_rule`, `parse`, directives | backtracking leaves no trace; every legal grammar is accepted as what it says |
| Lexical matchers (`match.c`) | buffer position, line number | `match_*` | tokens end where C and PEG say; line numbers are right |
| Context (`context.c`) | rules, rule hash, error count, input buffer | `make_rulehash`, `link_references`, `verify_variables`, `verify_captures`, `commit_buffer` | names resolve to the first definition; actions see the variables and captures in front of them |
| Nodes (`node.c`) | the tree, arrays that double | create, add, destroy | every node is destroyed once |
| Utilities (`util.c`, `common.c`, `chararray.c`) | - | numbers, escapes, UTF-8, code blocks, file names | texts keep their meaning at every boundary |
| Command line (`main.c`) | - | create, parse, generate, destroy | the exit status tells the truth |
| Zig bindings (`*.zig`), `build.zig` | - | declarations | - |

How they interact: `main` creates a context, `parse` fills `ctx->rules` through
the matchers, then links and verifies them, and `generate` walks the rules. A
generated rule function calls `pcc_apply_rule` for each reference; that looks in
the memo table and calls another rule function, so the two are mutually
recursive and share `ctx`. Actions become thunks, run by `pcc_do_action` when
`pcc_parse` has its answer; error actions run at once.

Nothing here is concurrent and nothing is persisted. What is hard is the length
and depth of legal call sequences: answers read before a nested evaluation and
used after it, an evaluation that meets itself, a growth loop that re-enters the
protocol it implements, a table shifted under answers that stay, thunks that
point into chunks owned by table entries, generated gotos that must agree with
what a distant caller decided to omit; and in the translator, arrays of nodes
that outlive the attempt that made them, line numbers across backtracking, a
table that is searched without a counter, and text rewritten in its own memory.
`PROJECT.json` lists these hazards at their lines.

## Modules

| Module | Models |
| --- | --- |
| `PackratRuntime` | The run time and `pcc_parse`, for rule bodies that may do anything a rule body can do. |
| `PackratMemo` | What packrat parsing promises of results: the abstract specification that the run time implements. |
| `PackratRuntimeProofs` | The theorems about `PackratRuntime`. |
| `PackGenerate` | The code generator: what a call of `generate_code` writes, as a list of instructions. |
| `Generator` | The generator at work on a rule: the running calls of `generate_code`. |
| `GeneratorProofs` | The theorems about `Generator`, as `MCPackGenerate` states them. |
| `RuleFunction` | The C function of a rule as a compiler sees it: jumps, scopes, and what it accepts. |
| `PackratParser` | `PackratRuntime` with its bodies closed by the instructions of `PackGenerate`; the documented `while (pcc_parse(ctx, &ret));` loop around it. |
| `PackratParserProofs` | The theorems about `PackratParser`. |
| `ThunkActions` | `pcc_do_action`: what the thunks of a chunk do when they are performed. |
| `PegExpressions` | The nodes that the notation's constructs become (`parse.c`). |
| `PegSemantics` | What a grammar means: the specification generated parsers are compared with, written from the syntax section of `README.md`, with the code consulted only where that says nothing. |
| `PegLexer` | The matchers of `match.c`. |
| `PegParser` | The recursive descent of `parse.c`, with the nodes of `node.c` on a heap. |
| `RuleHash` | The table of rules of `context.c`, step by step. |
| `RuleHashProofs` | The theorems about `RuleHash`. |
| `Packcc` | A run of `packcc` as `main` sees it, with `RuleHash`: the phases, the errors counted, the output files and the exit status, for a grammar's text that may hold anything. |
| `PackccProofs` | The theorems about `Packcc`. |
| `Translation` | `Packcc` with its text closed by `PegParser`: directives, rules, linking, verification and the footer. |
| `PegText` | The functions on text: `util.c`, and UTF-8 in generated parsers. |
| `CharClass` | The two compilers for character classes and the code they write. |
| `PegTextProofs` | The theorems about `PegText`, as `MCPegText` states them. |
| `RoundProofs` | Lemmas about recursive functions of a number of rounds. |
| `MCPackratRuntime`, `MCPackratParser`, `MCPackGenerate`, `MCTranslation`, `MCPegText` | Instances for TLC, and the properties that compare a module with a reference. |

### PackratRuntime

The variables are the fields of the context, split where the code has separate
structures: `pos`, `cur`, `buf` (the buffer's length; its contents do not matter
here), `memo[index][rule]` (answers), `head[index]` (the installed growth head),
`heads[index][rule]` (the heads an entry holds), `lrstack`. `inlen` is what is
left to read. `frames`, `ctl` and `ans` are the C call stack: one frame for each
`pcc_apply_rule` that is inside `rule(ctx)`, with its local `p`, its branch
(`mode`: evaluating an involved rule, a first evaluation, or growing), its head
`h`, and the chunks the body's thunks point to.

`pcc_apply_rule` is cut at `rule(ctx)`. Up to it there is one action per branch
(`ApplyBlocked`, `ApplyInvolved`, `RecallChunk`, `RecallLR`, `ApplyFresh`); after
it one per outcome (`ReturnHeld`, `ReturnPlain`, `ReturnInvolved`,
`ReturnNoSeed`, `ReturnSeed`, `GrowAgain`, `GrowStop`); `Resume` is its end, in
the caller. `ParseCall`, `ParseReturn` and `ParseError` are `pcc_parse`. A body
between two applications may read ahead, move `cur` anywhere between its start
and the buffer's end (`Scan`), and end in failure or success: a superset of what
generated code does, so what holds here holds for every grammar.

Details kept on purpose: `pcc_rule_set__remove` does not shorten the set
(`RuleSet.last` is the rule that therefore cannot be removed); the LR answer of
an involved rule stays in the memo with the seed of its first evaluation; a head
is compared by rule only (1789); a commit shifts the table while positions in
answers stay absolute, and a failed call commits wherever the failure left
`cur`. A pointer is named by the table index of the entry that owns the object;
`Moved` renames at a commit and turns the names of freed objects into `Freed`.

Abstracted: allocation and array growth, the text, and of the contents of a chunk
all but which chunks its thunks point to.

`PackratMemo` says the same from the outside: what is `known` of a rule at a place,
how much has been read and how much consumed. What is known settles once, then
stays, but that a match may `Grow`; `Consume` hands on what is known behind the
consumed text, and nothing else. `ImplementsMemo` reads it off the run time: known
is the chunk and the end in each settled slot of the memo table (an LR answer
without a seed is not known yet), read is `pos + buf`, consumed is `pos`.

### PackGenerate, Generator and PackratParser

Instructions are the C statements that matter (`match`, `apply`, `save`/`restore`
of `p` and `n`, loop counter, gotos and labels, captures, thunks, the two returns);
a `for` loop is written with its jumps. Strings and character classes are sequences
of sets of characters, one model character for one decoded character.

A call of `generate_code` is a record: the node, `onfail`, `gen->label` as it found
it, how many operands it has behind it, and `out`: the code so far, the reach and
the label. `Opening` is what is written before the first operand (for a leaf, all);
`GoesOn` says whether the function calls itself again, and `Operand` with what;
`Continued` is the call when that has returned, with one `EmitX` for each
`generate_*_code`. A sequence and an alternate go round once for each operand, and
end early where the code does. `Generator` has the C call stack in `calls`:
`Descend` is a call for an operand, `Return` its return, `Finish` the return to
`generate`, which writes the exits (`EvaluateRule`). `MCPackratParser` compiles its
grammars by the same definitions, without the steps (`Generated`).

`PackratParser` adds the program, the input, and for each rule function its C
frame: program counter, thunks, saved variables, loop counters, and the captures
and values of its chunk. Each `Do...` action is one instruction together with the
run-time action it causes: `DoMatch` with `Scan`, `DoApply` with `BodyApply`,
`DoReturn` with `Return`. The run time knows a chunk by its owner only; what is in
it is in `made`, beside the memo table, and in `given`, beside `ans`. `evals`,
`held` and `errors` are history variables for the properties, of the call of
`pcc_parse` that runs: how often the body of each rule was entered at each place,
as a first evaluation or to grow, and how often as an involved rule.

The programs may be any that a C compiler would take (`Compiles` of `RuleFunction`,
the assumption on `Programs`; `FunctionCompiles` is the same of what the generator
writes): gotos have labels, control does not run off the end of a function,
references name rules, and a variable `p` or `n` is set in the block it is used in,
which is entered at its top only. Positions (`L(0)`, `p` and `n` of a label) and
loop counters (`Counter`) are different variables. In the run, the programs are what `Generated` makes of
grammars; TLC checks the assumption for each of them.

A chunk is its thunks, captures and values as the code has them. A leaf keeps
which captures and variables its action reads, not what they are: what they are
is found when `pcc_do_action` (`ThunkActions`) performs the chunk.
A node keeps the other chunk and the variable that gets its result. A value is
named for the action that stored it. What is undefined in C has a name of its own
(`Unwritten`); `Zeroed` is the `memset` of line 1821. An error action runs when
it is reached and fixes the strings of the captures it asks for (`Asked`).

### PegSemantics

Expressions are evaluated directly, with no memo and no labels. A rule that may
be left-recursive is read as a bounded left recursion: start from failure, let
the inner call answer with the last result, repeat while the match gets longer.
Captures, variables and `$$` are an environment that is handed on and forgotten
with an abandoned attempt. Where the documentation is silent the code decides (an
occurrence that consumes nothing ends a repetition without being counted), or
nothing is said: the value of a variable whose reference was not matched, and
`$$` before the first action of a rule, are `Undefined` and not compared.

### PegLexer, PegParser, Translation

A context is a record with the text, the position, the line bookkeeping, the
error count and the heap. A character is a string of length one; what matters of
a character is its class, so a few letters and digits stand for all. Matchers are
functions from contexts to contexts, and fail by returning the same context.
Reading ahead is not visible to them, so the whole file is in the record; where
the size of the buffer matters, in the footer, it is `BufferMax`.

In `PegParser` a node is an index into a heap that only grows; destroyed nodes
are remembered in `dead`, and `faults` notes every use of a destroyed node
(`stale`), every second destruction (`double`) and every length that would wrap
(`length`). The functions have the names of the code. `Rewound` is the
restoration of position and line at each `EXCEPTION` label.

`Packcc` is to `Translation` what `PackratRuntime` is to generated parsers. It keeps
the phases of `main`, `parse` and `generate`, and of the context only the number of
errors; an item of the grammar may be a rule of any name and count any number of
errors (`Found`). What does not depend on the text is stated once, in `Packcc`, and
used by `Translation` (`Parsed`, `OpenFile`, `FileError`, `CodeWritten`,
`CloseFiles`, `Finish`).

`Translation` gives each round of `parse`'s loop one action (`Include`,
`StringDirective`, `BadDirective`, `Rule`, `BadRule`, `EndOfRules`), each step of
the table's loops one (`ProbeTable`, `LinkReference`, `Linked`), each rule that is
verified one, and `generate` one for each thing it does with the files.
`FileError` is any failing `fopen`, `fputs` or `fgetc`: the `_e` wrappers exit at
once. The run checks that its steps are steps of `Packcc` (`ImplementsPackcc`).

### RuleHash

`names` and `refs` are the fields of the rules that matter to the table, `slots`
is the table. `entry`, `sought` and `steps` are the locals of `make_rulehash` and
`lookup_rulehash`; one action per round of a loop, so that a search that does not
end would be seen. The slot is `(Hash + steps) % Size`: the code's mask is that
remainder, as the size is a power of two. The hash function is any function.

### PegText and CharClass

Pure functions, each with the code's loop as a recursive function over bytes, or
over places from which the rest of the text is read. `MCPegText` calls one of them
in every behaviour, with an argument from `Calls`; of the arguments it assumes only
what they are (digits, bytes, units of UTF-16), so that theorems about these runs
hold for strings of every length.
`unescape_string` rewrites the string in its own memory, and the model keeps how
far it has read and written; its result is what a reader of a C string finds, the
bytes in front of the first zero. `CharClass` compiles a class to the list of tests
that the C text contains, and `Takes` evaluates them on bytes.

## Runs

| Run | Bounds | Shows |
| --- | --- | --- |
| `runtime` | 2 rules, 2 characters, depth 2, 3 answers in the table | `TypeOK`, `StackDiscipline`, `NoDangling`, `HeadScoped`, `RecallsInBuffer` for all bodies; the memo table implements `PackratMemo` (`ImplementsMemo`) |
| `parser` | about 1200 expressions as start rule on words up to 2; 5 grammars with unbounded look-ahead, captures and error actions on words up to 4; 1152 grammars `s <- u v / w; a <- u v / w` with direct left recursion, and 5 with captures in attempts that are given up, on words up to 3; 4 that pass values on words up to 4 | the first call's answer and actions are the grammar's (`FirstCallAgrees`); every memoized answer is true (`MemoSound`); as long as there is no growth head, one evaluation per rule and place (`OncePerPlace`), and in these grammars heads are made for left-recursive rules alone (`HeadsMeant`); error actions are not repeated (`ErrorsOnce`); growth stops (`GrowthBounded`); a rule goes back and captures only inside its own text (`PositionsInside`); the ends of a capture that is read are those of one match in the input, in every call (`CapturesWhole`); an action reads the results that the grammar gives it (`ValuesAgree`); every call returns (`EveryCallReturns`); the parser implements `PackratRuntime` (`ImplementsRuntime`) |
| `generate` | expressions of nesting depth up to 3, and of depth 4 whose operands are one of each reach | the functions compile (`FunctionCompiles`), the reach is true of the code (`ReachHonest`), nothing is read before it is set (`SetBeforeUse`) |
| `translate` | the printed form of every expression of depth 2 and some of depth 3, with three kinds of blanks; 19 pieces of grammars, right and wrong, in every order up to 3; 6-line grammars with every footer of up to 5 characters around a buffer of 2; a hash with collisions | an expression is parsed back as itself (`ParsesBack`); places in messages are true (`PlacesTrue`); an accepted grammar is whole (`AcceptedWhole`); actions see what may be set in front of them (`ActionsSee`); every node is destroyed, once (`NodesFreed`); files and exit status agree (`OutputsHonest`); the footer is copied (`FooterVerbatim`); the table's searches end and find (`LookupFindsFirst`, `SecondsMarked`, `SearchEnds`); the run is one of those that `Packcc` leaves open (`ImplementsPackcc`); a run ends (`Terminates`) |
| `text` | numbers up to 3 digits at 8 bits, code blocks of 6 characters, every byte, every unit of UTF-16 next to a boundary in strings of 3, every string of 3 bytes next to a boundary of UTF-8, strings that end in one or two surrogates, classes of up to 4 pieces, file names of 5 characters, with and without `-o` | `FittingNumbersExact`, `CodeBlocksKept`, `EscapesRead`, `UnescapeInside`, `DecodersAgree`, `ClassesAgree`, `OutputNames` |
| `drift`, `indirect`, `reentry`, `capture`, `result`, `generate_error`, `footer` | one grammar each, nesting depth 3, or footers that end in a carriage return | disagreements between code and documentation, below |

Why the bounds are enough. Two rules and two positions let a rule recur at the
place where it started, recur later, take part in another rule's recursion, be a
head and be involved in one; depth 2 allows a growth with a nested evaluation;
three answers allow two places and a second rule. The theorems remove these
bounds. For the parsers, words of three or four characters give a seed, two
growths and a failing one, and two calls of `pcc_parse`; the depth and memo
bounds of the parser run are never reached (deadlock is checked, and would be
reported if they were). In `generate`, three levels put each construct around and
beside each other, with operands of every reach, and a fourth around those; the
theorems remove the bound. In `translate`, three pieces
allow an error before and behind a rule, a duplicate with a user and an unused
rule, and rules whose names collide; a footer of five characters crosses the end
of the buffer with CR, LF and both. The widths of `text` reach every branch of the
functions, with a value on both sides of each comparison; the 8 bits of `size_t`
are a parameter, and the code computes its two limits from the width.

Fairness. For the parser, `WF(ParserNext)` says only that the program keeps
running: a single thread, no step waits for anything but `PCC_GETCHAR`, which is
taken to return. For the translator it is `WF(Work)`, the same without
`FileError`, which need never happen. `MCSpec` of `MCTranslation` is that
specification with one half of its fairness written out: whether a step that
parses a rule is enabled takes TLC exponential time to find, so `Busy` says it in
terms of the position. The open run time has no fairness, since its bodies may
run for ever; the functions of `text` are a single step, and the run may stop
behind it.

Properties are restricted where the code is known not to keep them. What the
parser's say of meaning is about the first call of `pcc_parse` (`pos = 0`), about
grammars without left recursion (`MemoSound`, `ErrorsOnce`) and with direct left
recursion, because `drift`, `indirect` and `reentry` show what happens beyond.
`OncePerPlace` speaks of states without growth heads, `HeadsMeant` says which
grammars those are; `GrowthBounded` counts first evaluations and growths, not the
re-evaluations of involved rules, which `reentry` shows to be unbounded.
`FunctionCompiles` is about code in which each error action is jumped to, because of
`generate_error`. `ReachHonest` speaks of code that always fails: that code which
always succeeds never jumps to `onfail` is in `FunctionCompiles`, as the label is then
omitted.
`ValuesAgree` compares `$$` only where every reference has a variable,
because of `result`; `Terminates` leaves out footers that end in a carriage
return, because of `footer`. `UnescapeInside`, `EscapesRead`, `FittingNumbersExact` and
`ClassesAgree` name the inputs they leave out, which the hazards describe.
`CapturesWhole` is about the ends of captures, because of `capture`. `EveryCallReturns`,
`ImplementsRuntime`, `PositionsInside`, `OncePerPlace`, `GrowthBounded` and
everything about the open run time cover all calls.

## Where the code and its documentation disagree

Each was also reproduced with the compiled program.

1. `drift`: the memo table is shifted at a commit (1641) and indexed by absolute
   positions (1730-1733). After the first call, an answer computed by look-ahead
   for one position is recalled at another. `s <- 'x' a / 'x'; a <- 'x' s / 'y'`
   on `xx`: the second call fails without trying anything.
2. `indirect`: an involved rule keeps the seed of its first evaluation (1787);
   it is recalled after the head has grown.
   `s <- a 'x' / b 'y'; a <- b 'x' / 'y'; b <- a 'z'` rejects `yzy`.
3. `reentry`: `pcc_rule_set__remove` (1285) does not shorten the set, so a rule
   can be re-evaluated inside its own re-evaluation without end.
4. `capture`: the string of a capture that an error action has asked for stays
   (1653) when the capture is matched again, so that later actions get an old text
   beside new positions. `s <- (< . > ('x' ~{ $1 })?)* { $1 }` on `xy` gives `x`
   three times, the last two with the positions of `y`.
5. `generate_error`: an error action after an element that always succeeds (589)
   makes a rule jump to `L0000`, which is then not emitted (2024): the generated C
   does not compile.
6. `result`: references without a variable share the static variable `null`
   (1728, 1820) as the place of their results, nested ones too.
   `s <- a; a <- 'a' { $$ = 1; } b { print $$ }; b <- 'b' { $$ = 2; }` prints 2.
7. `footer`: the loop that copies the footer (2146) keeps a carriage return at the
   end of the buffer back until it has seen what follows; at the end of the file
   it waits for ever.

Also found while modelling, and described in `hazards`: while a seed grows, a rule
the seed did not reach fails without being tried (1735). `$0s` and `$0e` (565,
1899) count from what has been committed, and not from the start of the input as
`$1s` does (1913). An error action sees zero, or uninitialised memory,
in every variable. Unescaping a string that ends in a surrogate without a partner
reads behind its end (`util.c` 281). A zero that an escape sequence says (`\0`,
`\x00`, `\u0000`) ends the literal, and what stands behind it is silently left out
(`parse.c` 141, line 6). A class with a dash at the end does not
compile for UTF-8 (177), and a range that ends in an escape means something else
with `--ascii` (94). `packcc a.c` overwrites its own input (`context.c` 6).

## Proofs

### PackratRuntimeProofs

For every set of rules, every input length, depth and memo bound:

    Invariance        Spec => []IInv
    TypeCorrect       Spec => []TypeOK
    BuffersSafe       Spec => []RecallsInBuffer
    StackDisciplined  Spec => []StackDiscipline
    HeadsScoped       Spec => []HeadScoped
    NothingDangles    Spec => []NoDangling
    KeepsPromise      Spec => ImplementsMemo

from the assumptions in `PackratRuntime`: `Start` is a rule, the bounds are
natural numbers, `None` is no object.

`IInv` is needed because none of these invariants is inductive. Its parts:

- `TypeOK`, and the buffer's bounds (`cur <= buf`, `pos + buf <= inlen`).
- `Control`: which of body, return, idle and exit goes with which call stack.
- `Slots`: what may be in a table slot. An answer at index `i` ends at or after
  `i` and not beyond what was read; its chunk is owned by `i` and points to `i`
  or later; its head is held by the entry of index `i` or of a later one.
- `Calls`: a frame starts at or after the one below it, its thunks point to its
  start or later, a growing frame has its head and a memoized match.
- `Scoped`: an installed head belongs to a frame that grows at that index.
- `AnswerOK`: the same conditions for the answer on its way to the caller.
- `Bracketed`: the LR stack is the subsequence of frames in first evaluation,
  and each has the LR answer without seed that it left in the table.

That pointers go only to the same or a later index is what makes a commit safe:
it frees a prefix, when no frame is left. That a frame's answer is untouched
while it runs (`Bracketed`, with `KeepsPromise` for those that are memoized)
is what makes reading it after `rule(ctx)` safe.

`KeepsPromise` is a refinement, with one lemma per kind of step. A call and most
exits of `pcc_apply_rule` leave what is known as it was (`ApplyLearns`); a return
settles the slot of its own frame, which `Bracketed` says still holds the LR
answer, or replaces a match by one that ends later (`ReturnLearns`, from the test
in `Grew`); a commit moves every slot by the same distance, and frees no chunk that
a moved slot knows (`CommitKeeps`, from `Slots`). The property speaks of the table's
own positions; that these are not the positions of the text after the first call
is `drift`, which no step of this specification sees.

### PackratParserProofs

For every set of rules, every set of programs that compile, and all inputs:

    ParserInvariance  ParserSpec => []ParserInv
    Implements        ParserSpec => ImplementsRuntime
    ParserSafe        ParserSpec => [](TypeOK /\ StackDiscipline /\ NoDangling
                                       /\ HeadScoped /\ RecallsInBuffer)
    Inside            ParserSpec => []PositionsInside
    CountsInvariance  ParserSpec => []CountsInv
    OnceEach          ParserSpec => []OncePerPlace
    GrowsBounded      ParserSpec => []GrowthBounded

from the assumptions of `PackratRuntime` and `ProgramsAssumption` (`Compiles`,
above). `GeneratorFunctionCompiles`, below, proves that the functions the generator
writes meet it, whatever the expression, but for rules with an error action that is
never jumped to, which no C compiler accepts (`generate_error`).

`Implements` needs more than matching actions: that an instruction which moves
`cur` is a `Scan` rests on the saved positions being between the frame's start and
the buffer's end, and that on control being where the position was saved. So
`ParserInv` is `IInv` with: one C frame for each run-time frame, each at an
instruction of its code, those below the top at a reference; and for each variable
in whose scope (`InScope`) control is, a saved position inside the frame's own text.
That a variable in scope has been set is an induction over the steps: control comes
into the block only behind its `save`. With `Implements`, the theorems about the
run time hold of every generated parser (`ParserSafe`).

`CountsInv` bounds the counters by what stands in the table (`Allowed`): no entry
accounts for no evaluation of its rule, an LR answer for the one under way, and a
settled answer that ends at `e` of a rule at `i` for `e - i + 2`. A rule is entered
afresh only where nothing stands, and leaves an LR answer there; it is entered to
grow only when its answer has just become longer. While there are no heads, a rule
is entered once at most and never as an involved one; that no head ever goes away
within a call is why this may be said of a state and not of a history.

### GeneratorProofs

For every set of expressions, however deep (under `ExpressionsAssumption`: nodes as
the parser of the notation makes them):

    GeneratingInvariant        Spec => []Generating
    GeneratorFunctionCompiles  Spec => []FunctionCompiles
    GeneratorSetsBeforeUse     Spec => []SetBeforeUse
    GeneratorReachHonest       Spec => []ReachHonest

These are about code of any nesting, and there is no induction over trees. The
generator is a machine instead, whose state is the stack of its calls, and what is
proved of the code of an expression is an invariant of that stack. `Generating` says
that each call but the innermost waits for the one above it, which has the `onfail`
and the label counter of its operand, and that what a call has written so far is
`Sound`:

- `Piece`: a stretch of code defines each of its labels once, and whatever is read
  in it is set at the top of a block of the stretch that nothing enters from
  elsewhere (`InBlock`).
- The labels it defines are those between the label counter when its call began and
  the counter now (`Own`); it jumps to those and to `onfail`. If each of its error
  actions is jumped to, all its own targets are defined, and it does not jump to
  `onfail` when it claims `ALWAYS_SUCCEED` (`Resolved`).
- `Trying`: an alternate that has operands to come has the block open that saves
  the position, and its label for the next operand owed.

The properties alone are not inductive: that a goto has its label depends on who
will define it, which is known from the stack. Each `Emit...` definition has a lemma
that puts pieces together (`JoinPieces`, `ClosePiece`, `WidenPiece`); label ranges
that follow one another are why labels stay distinct. `FunctionCompiles` follows
with the exits that `EvaluateRule` writes (`RuleCompiles`); `SetBeforeUse` by sets of
places that control does not leave (`PieceSets`).

`ReachHonest` is about what runs: code that claims `ALWAYS_FAIL` does not get to its
end. That needs more than the jumps, since the text of a loop that demands one
occurrence goes on behind the loop. `HonestlyGenerating` adds assertions at places in the manner
of Floyd (`Flow`): which loop counters may have counted at which instruction. If an
operand always fails, its loop has counted nothing, and the loop's test
does not pass (`EmitRepetitionHonest`).

The invariants quantify over sequences of any length, so TLC checks the three
properties in the run `generate`, not the invariants.

`RoundProofs` holds the facts about natural numbers and rounds that this module and
`PegTextProofs` share.

### RuleHashProofs

For every set of names, every hash function, every sequence of definitions and
lookups, and every table that is larger than the number of rules:

    LookupsRight  HashSpec => []LookupFindsFirst
    MarksRight    HashSpec => []SecondsMarked
    SearchesEnd   HashSpec => []SearchEnds

from `HashAssumption` (a hash is a natural number) and `TableAssumption` (the
table has more slots than rules; `populate_bits(4 * len) + 1` slots in the code,
the `PowerAbove` of `MCTranslation`). The parts of the invariant `HashInv`:

- `HashTyped`: types, the table's domain, and what `sought` is while entering.
- `FirstsOnly`: what is in a slot has been entered, is the first of its name, and
  is in no other slot.
- `EnteredReached`: the search for the name of an entered rule meets a rule of
  that name behind none but slots of other names. This is what lookups rest on,
  and it survives the entry of another rule because slots are never emptied.
- `PassedOthers`: what a running search has passed holds other names.
- `MarksTrue`: `ref` is -1 exactly for entered rules that are not the first.

With these, an empty slot in a search means that the name is not there
(`EmptySlotMeansNone`): otherwise the search would have met it. A search ends
because two of as many steps as there are slots never lead to the same slot
(`SlotsDistinct`, by division with remainder), each slot passed holds a rule of
its own (`FirstsOnly`), and there are fewer rules than slots (`TableNotFull`, by
the pigeonhole principle).

The proofs have one lemma per action and conjunct; `Invariance` and
`HashInvAlways` combine them.

### PackccProofs

For every grammar, whatever its items are and however many errors are found in
them, under the assumptions of `RuleHash`:

    TableUsed         PackccSpec => HashSpec
    TableRight        PackccSpec => [](LookupFindsFirst /\ SecondsMarked /\ SearchEnds)
    PackccInvariance  PackccSpec => []PackccInv
    StatusHonest      PackccSpec => []OutputsHonest

`TableUsed` is a refinement: `packcc` adds all rules before it makes the table and
looks up after. `PackccInv` is `HashInv` with what each phase guarantees: nothing is
opened before everything is verified; in `open`, `write` and `footer` there is no
error, and so at the end either both files are whole or both are the old ones; and
when no error was counted, no rule is misused (`GrammarRight`). That this makes
names distinct is `MarksTrue` of `RuleHash`: a rule that is not the first of its
name has the mark -1, which no count of references takes away. A file error ends the
program in any phase with status 2, of which nothing is said: when the grammar's own
file cannot be closed, even both files are whole.

`ImplementsPackcc` in the run `translate` says that the parser of the notation fits
into what `Packcc` leaves open, for the grammars of that run.

### PegTextProofs

For every set of calls (strings of digits, bytes or units of any length, paths of
any characters) and every width of `size_t`:

    CallInvariance    Spec => []CallInv
    NumbersExact      Spec => []FittingNumbersExact
    NamesApart        Spec => []OutputNames
    DecodersAlike     Spec => []DecodersAgree
    UnescapedInPlace  Spec => []UnescapeInside

`CallInv` says that a result is what the function makes of its argument; the work is
in what the functions make. Each is a loop, written as a recursive function on
`0 .. n`. `Iterates` says of a function of natural numbers that it holds the results
of the rounds, `RecursionExists` that there is one, by induction over their number
(`SetInduction`); from it follows that the function in the model obeys its own
definition (`NumberLoop`, `GatherLoop`, `ScanLoop`, `PlaceLoop`, `UnescapeStates`).
After that each loop has an invariant, proved round by round:

- Numbers: as long as the digits so far are worth less than `2^Width`, the loop has
  their value; a prefix is never worth more than the whole (`ValueGrows`), and at the
  largest tenth the digit is small enough (`RoundExact`).
- UTF-8: a byte that continues is a digit in base 64 (`Joined`), and `Encoded`
  writes those digits again, provided that the number needs as many bytes as it was
  read from (`ShortestBytes`). The state of the validator behind `k` bytes of a
  character holds the bits so far (`BytesScanned`), so it comes to the end of one
  exactly where a parser finds one (`CharacterScanned`), and the parser that reads
  one character after the other is always between two that the scan has passed
  (`PlacesScanned`).
- Names: the extension that gives way is the last dot with neither a dot nor a
  directory behind it (`ExtensionLast`), so that both names have the same stem.
- Unescaping: no round writes more bytes than it reads, and none that reads an
  escape sequence reads behind the terminating zero, but for a surrogate without a
  partner at the very end, which makes the string refused (`UnescapeStepWithin`,
  `LostStates`).

### Only model-checked

- What generated code means (`FirstCallAgrees`, `MemoSound`, `CapturesWhole`,
  `ValuesAgree`, `ErrorsOnce`, `HeadsMeant`): the meaning of a grammar and the
  effect of thunks are recursive over trees, of which no induction is to be had here
  (the library's take an operator, and what `PegTextProofs` does with numbers needs
  rounds that can be counted). The proofs about `PackratParser` are of any code that
  compiles, so they say nothing about these; those about the generator say that its
  code compiles, reads nothing unset and fails where it claims to always fail, not
  that it matches what the grammar says.
- The text of grammars (`PegLexer`, `PegParser`, `Translation`), for the same
  reason, and with it the refinement `ImplementsPackcc`.
- `EscapesRead`, `CodeBlocksKept` and `ClassesAgree`, which compare a loop over text
  with what the text means. They could be proved as the others of `PegText` are.
- Liveness (`EveryCallReturns`, `Terminates`). `GrowsBounded` is the part of
  termination that is a safety property.

## Not modelled

- `pcc_destroy`, which frees everything once; array growth and allocation failure
  in both programs (the wrappers exit).
- What user code does in actions, beyond reading captures and variables and
  storing `$$`. A chunk that is performed twice (a rule that matches nothing,
  applied twice at one place) starts with fresh variables in the model and with
  those of the first time in the code; the two differ only for variables that the
  grammar leaves undefined.
- The fixed text of a generated parser other than what it does; debug output
  (`PCC_DEBUG`, `dump_*`).
- Option parsing, usage and version texts of `main.c`.
- The Zig bindings and the build, which declare and list.
- `src/src/c/packcc.c`, a copy of the same program in one file.

## Plan

Done: the run time with its proofs and its abstract specification, the code
generator, generated parsers with captures and values and the proofs about all
code that compiles, the translator from text to files with the proofs of its table
of rules and of its exit status, the functions on text with the proofs of
numbers, names, UTF-8 and unescaping in place, and the generator as a machine with
the proofs of what it writes.

1. Proofs of what escape sequences say (`EscapesRead`: the bytes of
   `escape_character` first, then units of UTF-16, which `DecodersAlike` makes
   characters of), and of code blocks (`CodeBlocksKept`) by the loops over lines.
2. A run that states the new-rule divergence (1735), and the conditions on a
   grammar under which growth is right.
3. Chunks that are performed twice, with one set of variables.
