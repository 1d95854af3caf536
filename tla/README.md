# PL/I for GCC: a verification development

The repository is the front end of a PL/I compiler: a flex scanner with a
preprocessor, a bison parser that records scopes and declarations, and the glue to
GCC. The modules here model what the program does between a text and its result,
model-check it over small texts and programs, and prove the safety invariants of
every module for every text, program and size.

All paths below are relative to `src/pl1/`.

## Inventory

| Component | Files | State | Operations | Modules |
|---|---|---|---|---|
| Token based lookahead | `libpl1/src/TokenBasedLookahead.c`, `SavedToken.c`, rules of `pl1-scanner.l` | `lookahead`, `lahSaveTokensList`, `prev_token`, start condition | the rules for keywords, END, `:`, `;`; `LEXRETURNSAVEDTOKENS`; `<<EOF>>` | `KeywordLookahead`, `LookaheadScanner` |
| Scanner with preprocessor driver | `pl1-scanner.l` | the above, the stack of buffers, `includeCount`, flex's stack of conditions, `ppSaveTokensList`, `ppCollectedTokensList` | all rules, `evaluatePreprocessor`, `PP_DOLOOP`, `evaluateEOFType` | `Scanner` |
| Preprocessor statements | `libpl1/src/ppVariable.c`, `pl1pp-parser.y` | `ppCurrentContext`: variables, labels of each file, the loop, the result | one function for each statement | `PPVariables` |
| Search of `%INCLUDE` files | `libpl1/src/ppIncludeFileUtils.c` | none | `findFile`, `findEnvFile` and what they call | `IncludeSearch` |
| Set-up, messages, include list | `libpl1/src/PLIParser.c`, `PLIMessage.c`, `pl11.c` | `pl1parserparms`: options, messages, `includefilelist`; `currentIncludeFile` | the hooks of GCC, `pl1_parser`, `addIncludeFile`, `yyerror` | `Compiler` |
| Scopes, parser stack, procedure groups | `libpl1/src/parseScopeNode.c`, `parseParserStack.c`, `parseProc*.c`, actions of `pl1-parser.y` | the tree of scopes, `currentScope`, the names of each scope | `newScope`, `endScope`, `processParserStackProcedure`, `addDclDeclareElementList` | `ScopeTree` |
| Declarations and attributes | `libpl1/src/parseDclStmt.c`, `parseDclOptionList.c`, `parseMisc.c`, actions of `pl1-parser.y` | the list of elements, records of attributes that elements share | `setNewDeclareElement`, `mergeDeclareElements`, `setDclElementAttr`, `checkStructureLevels` | `Declarations` |
| Trees for GCC | `pl1tree.c` | binding levels, `current_function_decl` | `tree_code_*`, `pushlevel`, `poplevel`, `pushdecl` | `BindingLevels`, `BindingMeaning` |
| Pointer array | `libpl1/include/PtrArray.h` | one struct and its memory | all of its functions | `PtrArray` |
| Source locations, helpers, debug output, grammar, other hooks of GCC | | | | not modelled, see below |

How they interact: GCC calls `pl1_parse_file`, which runs the parser (bison), and the
parser calls `pl1lex` for each token. The scanner calls the lookahead's decision
procedures at the `;` of a statement and the preprocessor's parser (`pl1pp_parser`,
a second bison parser that reads the saved tokens) at the `;` of a preprocessor
statement. The preprocessor answers through the shared record `ppCurrentContext`
(`ppreturn->type` says what the scanner has to do next). The semantic actions of
the parser call the functions for scopes and declarations, which share one tree.
There are no threads; what interleaves are the modes of one automaton: a lookahead
may be open while an `%INCLUDE` file, the value of a variable, a skipped part or
the body of a `%DO` is read, and each mode keeps its own list or stack that another
one can leave in the wrong state. Failures are the end of the text in any mode,
statements and files that are wrong or missing, and uninitialised or null pointers.
`PROJECT.json` lists the hazards one by one, each at its line.

What makes a component correct:

* lookahead: no token lost, doubled or overtaken; a word is a keyword only where
  a statement can start; an assignment is never taken for a keyword statement;
* scanner: buffers, labels and start conditions stay in step; what a `%GOTO`
  passes has no effect; the parser gets the text that the preprocessor
  statements mean; the scanner stops;
* include files: the first file in the order of the lists is found, the list of
  files says where each was included from; GCC learns of every error;
* scopes: blocks nest, an END closes the blocks it names, every scope and every
  name is recorded once;
* declarations: each name has the attributes of the text around it and the parent
  its level says, and contradictions are reported;
* trees: what is built is what was called for, in its function and its block.

## Modules

* `KeywordLookahead`: `enable_lookahead`, `checkstmt` and `fixKeywordTokens` as
  operators on sequences of saved tokens, and the table of the keyword rules.
  The loop of `checkstmt` over a list with a counter of parentheses is stated as
  a property of the places of the list (`PLevel`, `AssignedOrLabelled`).
* `LookaheadScanner`: the scanner for programs without preprocessor statements.
  An action is a flex rule; the text is produced token by token, so a behaviour
  is any text of up to `MaxTokens` tokens. `accepted` and `last` are history.
  `TokenChannel` is its abstract specification: tokens are numbered; a channel
  keeps, passes on or delivers the next one.
* `PPVariables`: the statements of the preprocessor as operators from an
  environment (the part of `ppCurrentContext` they change) to an environment.
* `Scanner`: the whole scanner. A text is a sequence of lexemes; the lexicon
  (a constant) says which flex rule matches a lexeme, and which statement it
  stands for between `%` and `;`. `cur` and `stack` are the buffers, `conds` flex's
  stack of conditions, `ctx` the record `ppCurrentContext`, `pp`, `collected` and
  `lah` the three lists of saved tokens. The `else if` chain of
  `evaluatePreprocessor` is one action for each branch. `start = "CRASH"` is the
  use of a null or wild pointer. The value of a variable that was never assigned is
  whatever malloc returned. So is `ppreturn->type` until a statement has set it (`stale`,
  a part of the program): `StaleTypes` has every constant the scanner acts on, and
  `NONE` for the other numbers. For some of them it goes on with a string
  (`UseStaleString`) or an offset (`GotoAnywhere`, `GotoRefused`) that nobody has set,
  for one with a loop whose variable is `NULL` (`NullCompared`). An offset is one
  between two lexemes.
* `PreprocessorMeaning`: what a program means, by recursion on the program, without
  buffers, saved tokens or start conditions. `ScannerMeaning` compares.
  `ScannerClaims`: what a comment says and the scanner does not do.
* `IncludeSearch`: the search for a file, as operators. A list of directories is a
  sequence of names and separators, a file a triple of directory, name and suffix.
  For an empty name of a directory the code looks at the byte before its buffer:
  `slash` is what it finds there.
* `Compiler`: one compilation: options, input, parse, result, over the events that
  the text can cause (`%INCLUDE`, the value of a variable, messages, errors, the end
  of a text). `includefilelist` and `buffers` are the lists of the code.
* `ScopeTree`: the tree of scopes and the names in it. An action is the semantic
  action of a statement. A pointer is a number; the chain of parents is kept as a
  value because it never changes. `BlockStack` is what PL/I asks of BEGIN, PROCEDURE
  and END, and `ScopeTree` implements it seen from `currentScope`.
* `Declarations`: one DECLARE statement, read from the left as bison does. `heap`
  holds the records of attributes, because names share them; `written` is history:
  the attributes in the text that count for each name.
* `BindingLevels`: the functions of `pl1tree.c` that open and close levels.
  `calls` is history. `TreeMeaning` says what tree a list of calls means, by recursive
  functions over the positions of the list, without levels; `BindingMeaning` compares.
* `PtrArray`: the array with its memory; `PointerVector` is what it promises.
* `LookaheadScannerProofs`, `ScannerProofs`, `CompilerProofs`, `ScopeTreeProofs`,
  `DeclarationsProofs`, `BindingLevelsProofs`, `PtrArrayProofs`: the theorems.
  `FoldFacts`: what they need of folds and of numbers.
* `MCLookahead`, `MCScanner`, `MCCompiler`, `MCScopes`, `MCDeclarations`,
  `MCBindingLevels`, `MCPtrArray`: the texts, programs and files of the runs.

Names are those of the source. Definitions with a suffix such as
`AllReturned_KeepFlag` are slips: the definition as a plausible mistake would have
it. Each property is checked to fail when its slip takes the place of the
definition.

### Abstractions

A token's text, location and length are left out, and of a message only that it was
given. A preprocessor statement is one lexeme (its parts only matter to the
grammar), unless it is malformed. Expressions are constants. A position in a text
stands for an offset. Not in `Scanner`: string constants that are not closed (a
complete one is a lexeme); `%INCLUDE`d files that exist but cannot be opened are in
`Compiler`. Names are values: that labels are compared without regard to case, and
declared names with it, is left out. Memory is never short. In `Declarations` the
scale, array bounds and expressions are left out; they are replaced, never checked.

`Compiler`, `ScopeTree` and `Declarations` share no state in the model: what a
DECLARE adds to a scope is a list of names for `ScopeTree`, and a list of elements
for `Declarations`, each with the same code (`addDclDeclareElementList`) behind it.

Two callers are not in the repository. Nothing calls `tree_code_*` yet: the caller in
`BindingLevels` opens and closes functions and IFs in pairs, as the comments of
the functions ask, and gives every call arguments (the code asserts that there are
some). Nothing uses `PtrArray`: its caller constructs before use, destroys at the
end and gives the operations that check no bounds the index of an item.

## Runs

| Run | What it asks | Bound | Result |
|---|---|---|---|
| `lookahead_tokens` | queue, head, one statement, keywords only in context | every text of at most 5 of all tokens the lookahead tells apart | holds |
| `lookahead_long` | assignments, order, everything delivered | texts of at most 6 of fewer tokens | holds |
| `scanner_every` | consistency of the stacks, no effect of what is skipped, the scanner stops | every pair of 27 fragments behind 7 beginnings; what malloc left is anything behind the empty beginning, and asks for nothing or for an error behind the others | holds |
| `scanner_right` | the output is the meaning of the program, in order | up to 3 statements, an error between two, and a `%DO` with up to 2 parts in its body, in and out of a lookahead | holds |
| `scanner_two_loops` | a loop leaves nothing behind | a handful of programs | violated |
| `scopes` | the tree, its lists and its names; blocks nest | 4 scopes, 5 names, labels of one and two names, every order of statements | holds |
| `declarations` | attributes, structures, duplicates, errors | four vocabularies: 3 names in 2 parentheses with combinations of attributes; every attribute, for 2 names in one; 5 names with levels 1 to 3; levels in parentheses | holds |
| `storage_dropped` | storage alone behind a name is kept | the same statements | violated |
| `binding_levels` | trees, levels, owners of declarations | 2 functions or global variables, 7 calls in their bodies | holds |
| `compiler` | search, list of files, result, end | 3 files or values, 4 file systems, 2 environments, 2 options with lists | holds |
| `last_directory` | every directory of a list is searched | the same | violated |
| `ptr_array` | the array is a vector | 2 arrays, 2 items, up to 3 in each, from a capacity of 1 | holds |

The bounds. The lookahead looks at the first token, at the second, and at the
first `=` or `:` outside parentheses: five tokens are a keyword, an opening and a
closing parenthesis, and two that decide; longer ones add only tokens no rule
distinguishes, which the proofs confirm. Two fragments behind a beginning that
leaves the scanner in a loop, in a skipped part, with an unassigned variable or
with a variable that has the name of a keyword bring every mode to meet every
other. Programs that run for ever in the code (a `%GOTO` back that no error ends, a
value that names itself, a loop whose body sets its variable back) are not among
them. Four scopes are a root, a block in a block of the same name and a sibling of
one; five names are a procedure, its parameters and their declaration, twice over.
A name, a second one that shares its record and a third between them, in two
parentheses, is every way in which a factor meets a shared record; five elements
with three levels have a return over two levels and a level that is skipped. Seven
calls are an IF with an ELSE in a branch of another one, with a statement. A capacity of
1 with three items grows twice (1, 2, 4) and meets every boundary of it. Three
includes are one in another, and one behind it.

`scanner_right` leaves out programs for which the scanner goes wrong (below), among
them a `%DO` in an open lookahead and what malloc left when it asks for something. It
leaves out labels inside a loop: `Scanner` has them (the statement runs at once and the
rest of the body is not gathered), but nothing in the repository says what they
should do. `StatesNested` says how often a loop can be resumed, not that the right buffer
has ended. `TreeIsMeaning` is stated for functions in which every IF has its
`tree_code_if_else`. `StructuresRight` and `NamesUnique` ask nothing of structures with a level
between those of two ancestors (`LevelsMeet`): the repository does not say whose
member that element is. A level in front of a parenthesis with CELL is not used.

Deadlock is not checked where a compilation, a statement or a program really ends.

### Disagreements

Shown by a run and quoted in `PROJECT.json` under "findings":

* the body of a `%DO` is never thrown away (`scanner_two_loops`);
* the last directory of a list is never searched (`last_directory`);
* attributes of storage alone are freed (`storage_dropped`).

Others are in the models as the code has them, but no run asks for what the comments
say: `checkstmt` takes a `=` or `:` anywhere outside parentheses, not only behind the
keyword (`TokenBasedLookahead.c:86`); the end of the value of an inner variable
resumes a loop while that of an outer one is being read (`pl1-scanner.l:1078`);
tokens of a loop overtake those an open lookahead has saved (966); a `%GOTO` back
to a label met while skipping goes on behind its `%` (1588); a loop whose `%END;`
ends the text is not repeated (878); the message for a text that ends in a loop may
be built from a null pointer (1353); the type of the preprocessor's result is read
before it is set (`ppVariable.c:1045`); an END with an unknown name reads a null
pointer for its trace before its message (`parseScopeNode.c:393`); `%INCLUDE
ddname(file)` exchanges its two names (`pl1pp-parser.y:592`), which `Compiler` does too,
up to the null pointer that is read when the environment has no such name; of several `-I`
the last one counts (`pl11.c:162`), while a comment lists `-I .. -I ..`
(`ppIncludeFileUtils.c:52`); a name that shares its
record with one that is not its neighbour conflicts with itself (`parseDclStmt.c:158`);
`-pp-only` never ends for an unfinished preprocessor statement (`PLIParser.c:356`);
an array that is assigned to itself is emptied
(`PtrArray.h:154`, and so is the vector in `PointerVector`).

### Fairness

`Scanner` and `LookaheadScanner` have `WF_vars(Next)`: the parser asks for the next
token until there is none and the scanner's loop matches the next rule, so some
enabled step is taken. Nothing is assumed of which one; each state has one, but for
uninitialised values. `Compiler` has `WF_vars(Ends)`: texts are finite and are read on
to their ends, so a text that waits is gone back to and the main one ends, and
after an error of the scanner the parser asks for no more than the error token.
That a text has an error, or includes another file, is not assumed. `MaxIncludes` bounds
the includes: a file that includes itself never ends. A compilation that `crashed` has ended.

## Proofs

Every theorem is about the specification that the runs check, for all values of its
constants; no bound of a run is used. The assumptions are those of the modules:
`TokenAssumption` (tokens made up by `fixKeywordTokens`, and -1, belong to no rule);
`LexiconAssumption` and `SourcesAssumption` (texts consist of lexemes, what a
statement gives a variable is a text, and what malloc left is one of `StaleTypes`, which
leaves no number out); `NameAssumption`, `PathAssumption`,
`EnvironmentAssumption` and `FileAssumption` (names are names; between two names of a list
of directories there is a separator); `VocabularyAssumption` (levels are numbers,
attributes are in the table of `dcloption`); `ListAssumption`, `CapacityAssumption`;
and that the bounds are numbers.

**Lookahead** (`LookaheadScannerProofs`), for every set of tokens and every `MaxTokens`:

* `TypeCorrect`, `QueueOrder`, `HeadIsOpened`, `SingleStatement`: the four
  invariants of `lookahead_tokens`. None is inductive alone: the order of the
  queue needs its type, and that nothing is delivered out of turn needs that the
  queue is empty when `lookahead` is 0 and complete in `LEXRETURN`. `Inv` is
  their conjunction with those facts; one lemma per action preserves it.
* `KeywordsInContext`: an action property from `Inv`: the token delivered when a
  queue starts to be returned was opened under the same `prev_token`.
* `ImplementsChannel`: every step is a step of `TokenChannel` or a stutter.
* `AssignmentsKept`: what is delivered from the head of a queue agrees with
  `checkstmt` of the whole queue (invariant `Decided`).

**Scanner with preprocessor** (`ScannerProofs`), for every lexicon and all programs,
those that run for ever included: `TypeOKHolds`, `StatesNestedHolds`,
`LabelsPerFileHolds`, and the action property `SkippedHasNoEffectHolds`. A statement of the
preprocessor is a function of a context, so the first half shows of each function that it keeps
contexts right (`ContextOK`) and leaves the labels and the flags of the scanner alone
(`Keeps`). `SInv` adds to the three invariants what the rules need of each other: flex's
stack of conditions and the stacks of labels follow the stack of buffers (`NestInv`)
only because each start condition says what is being gathered (`StartInv`), which depends on
the flags in the context (`ContextInv`).

`DeliversInOrderHolds`: the scanner implements the order part of `TokenChannel`, so that no
token the preprocessor leaves is lost, doubled or overtaken, whatever files, values,
repetitions and lookaheads it goes through. The theorem is for the behaviours in which
the loop of a `%DO` is never read while a lookahead is active (`LoopsOutsideLookahead`): the
rule for the loop hands a token over at once (`pl1-scanner.l:966`), past those that are
saved. All programs of `scanner_right` are of that kind, its loops and lookaheads included.
`QueueInv` numbers the saved tokens from the one handed over last.

**Include files and result** (`CompilerProofs`), for all names, lists, environments and file
systems: `SearchRightHolds`, `IncludedFromHolds`, `RefnosRightHolds`, `FailsForErrorsHolds`,
`TypeOKHolds`. `SearchRight` compares two folds over a list of directories, the loop of
`findFileInDirList` and the one that says which directories the list names; both are taken apart into
states, and what relates the states is carried along. `IInv` has the chain of the
texts that wait (`Chained`), which holds until the first error of the scanner, with the
bounds and numbers of the list of files that the chain points to.

**Scopes and names** (`ScopeTreeProofs`), for all names, labels and bounds:

* `InvHolds`, `TreeShapeHolds`, `BlocksRefined`. The invariant is the types of the tree
  with `TreeShape`: where a new scope goes depends on `tail` of the current one being its
  youngest child, and that it becomes the next sibling on the chains of parents
  being sound, so the parts are inductive only together. Only `newScope` changes the
  tree; the refinement needs that the path of the current scope is the path of its
  parent with one more block.
* `NamesInvHolds`, and from it `TypeOKHolds`, `OneExplicitHolds` and `ProceduresKnownHolds`:
  every list of names has at most one explicit declaration of a name, in front of
  the implied ones, and no statement loses a name (`Grows`), so a label stays known.
  `DeclaredOrReportedHolds`: the action property of DECLARE, by induction over its names.
* `ListedOnceHolds`: the cross reference lists every scope of the tree once, after its
  parent and its older siblings. `produceXrefList` is written with recursive functions over
  the pointers. `TreeShape` makes `head` and `next` lead to younger scopes, from which it
  is proved that these functions have values. What they list is shown from the youngest
  scope back: the list from `s` on holds `s`, its younger siblings and all that is in
  them (`Part`), each once (`Ordered`), as what is in two siblings is apart.

**Declarations** (`DeclarationsProofs`), for every nesting of parentheses and any number of
names, levels and attributes: `AttributesRightHolds`, `ContradictionsFoundHolds`,
`ConflictsJustifiedHolds`, `StructuresRightHolds`, `NamesUniqueHolds`, `TypeOKHolds`. The
inductive invariant `DInv` has two parts:

* `AttributesInv`: every name has in its record what the text around it says so far
  (`AllRight`), names on two sides of an open parenthesis share no record
  (`Separate`), and if the attributes ended the parse, the text has a contradiction or names
  share a record unseen. `AllRight` is not inductive alone: `mergeDeclareElements` writes
  into records, and that it writes only into those of the names in the parentheses is
  `Separate`. Within a merge, `HeapInv` says after each round which records were given
  the factor.
* `StructuresInv`: after `checkStructureLevels` the elements are linked to the structures of
  their levels (`LevelInv`, a round for each element, and `findStructureParent` by the
  recursion it does towards earlier elements), and the scope gets no name of one
  structure twice (`AddInv`).

**Trees for GCC** (`BindingLevelsProofs`), for all names and bounds: `LevelsBalancedHolds`,
`ContextsRightHolds`, `TypeOKHolds`, `TreeIsMeaningHolds`. A block is a tree of any depth, so the inductive
invariant `BInv` says of a block that all in it, at any depth, belongs to its function
(`AllOwned`), and the types of blocks are stated at any depth in the same way; `poplevel` then moves
a block as a whole.

`TreeIsMeaningHolds`: the tree of a finished function is what its calls mean, for any
nesting of IFs. A tree says nothing of how it was reached, and the meaning is defined on
the complete list of calls, so the invariant has to say what a list means whose IFs are
still open. `MeanWith` does, with the blocks that are open (`BlocksOpen`), the IF that is
open in each (`IfsOpen`), and the blocks and statements of the branches that are closed
(`BlocksClosed`): the innermost level has what the calls in its block mean, and a level
around an IF what they meant before the IF, with the THEN when it is there (`LevelsMean`).
Which ELSE belongs to an IF depends on calls still to come, so `MInv` has this for
every list that goes on from the calls so far and completes each IF (`LevelsRead`). When
the function is finished, the branches solve the recursive equations of `TreeMeaning`
(`Solved`), and a solution is unique, because what a block means depends only on
blocks opened later (`BlockUnique`, `StatementsUnique`).

**Pointer array** (`PtrArrayProofs`), for every capacity above 0, any arrays and items:
`TypeOKHolds`, that the items fit in the memory and are set, and `VectorRefined`, that every
operation is one of `PointerVector`. The lemmas say for each operation on the struct
what it does to the items; that garbage behind the items is never shown needs the
invariant.

The functions of the program that walk through a list are folds in the models. The
induction theorems of the library cannot be used with operators, so `FoldFacts` states
induction for a set of numbers, and that a fold goes through a sequence of states,
one for each element; the rounds of a loop are then steps from one state to the next, as they
are in the code. It also says what `FlattenSeq` returns, which is a recursive function.

The inductive invariants hold on the runs as well, as far as TLC can evaluate them (not a
sequence over an infinite set, a block at any depth, or all lists of calls).

Only model-checked:

* liveness (`EverythingDelivered`, `EventuallyStops`, `CompilationEnds`), which is out of
  the prover's reach;
* `OutputIsMeaning`, which compares the scanner with a meaning of the program written with
  `RECURSIVE` operators, and holds for the programs of `scanner_right` only (others are
  the disagreements above).

## Not modelled

* Source locations: line, column and offset reach messages only. The offset a `%GOTO`
  seeks to is a place of the text in `Scanner`.
* The grammar: a generated automaton. Its semantic actions that have an effect are in
  `ScopeTree`, `Declarations` and `Compiler`; most rules have none.
* The options of a procedure, `ppAnalyseStmt`, the table of names in `pl11.c`: stored and
  printed, or never called. Expressions of the preprocessor: constants.
* `tree-convert.c` and the type hooks of `pl1tree.c`: code of GCC's tree language
  without state of this program; among them the cache of types, whose index is the
  precision.
* String helpers, logging, listings, documentation, test scripts.
