# A verification model of BuildIt

BuildIt is a C++ library for multi-stage programming.  A *staged function* is an
ordinary C++ function over two kinds of variables: `static_var`s, which have
values while the library runs, and `dyn_var`s, whose operations only build
expressions.  The library runs the staged function, again and again, once for
every way its `if`s on `dyn_var`s may go, and assembles the runs into the AST of
a *generated function*.  Passes over the AST then give gotos their
labels, make loops of them, remove copies and print.

This directory holds TLA+ modules of that process, TLC configurations that check
them on families of small programs, and proofs, checked by TLAPS, of properties
for every instance.

## The system

| component | state | operations | interacts with | what makes it right |
|---|---|---|---|---|
| extraction engine (`builder_context.cpp`, `run_states.cpp`) | the recursion of `extract_ast_from_run`; per run the answers still to give, uncommitted and cached expressions, visited tags, the deduplication map, the current block; over all runs `memoized_tags` | `add_stmt_to_current_block`, `commit_uncommitted`, `get_next_bool`, the handlers of the three exceptions, `trim_common_from_back`, the memo update | calls the staged function, is called back by `dyn_var` operations, which end a run by an exception | replayed runs repeat their ancestors; the AST does what the staged function says; every lookup finds what it dereferences; it ends |
| expressions and variables (`to_expr.h`, `dyn_var.h`, `signature_extract.h`) | the expression of every `dyn_var` | `create_expr`, `create_var_decl_stmt`, `operator bool`, `create_return_stmt` | call the engine | each operation is recorded once, in order |
| static tags (`tracer.*`, `static_var.h`, `var_snapshots.h`, `tag_factory.h`) | live `static_var`s, live `dyn_var`s, tag ids, cached hashes | make a tag, compare, hash, register and destroy variables | the engine keys all its maps by tags | equal tags mean equal futures of the run, and moments that are alike have equal tags |
| non-deterministic variables (`nd_var.h`) | values of a lattice by tag, kept over restarts | `require_val` | restart the extraction | every restart moves up; what is staged was staged with one guess |
| arena (`arena_dyn_var.h`) | chunks per type | allocate, reset | reset at the end of every run | no two live objects share a place |
| AST (`stmt.h`, `expr.h`, `var.h`, `block.h`) | the heap of statements, shared by pointers until the AST is cloned | `is_same`, `needs_splitting`, `clone` | everything | `is_same` is finer than what the generated code tells apart |
| variable naming (`var_namer.*`) | declarations by tag | merge, hoist, rename | after the clone, before the labels | one variable per tag, assigned where it was declared, declared where it is visible |
| label passes (`label_inserter.*`) | collected tags, two tables tag → label | collect, create, insert | after the names | every goto has a label that continues as the staged function does |
| loop normalizer, loop finder, if switcher, for loop finder | AST with labels and gotos | rewrite until there is no label | in that order, after the labels | same behaviour, no gotos left, they end |
| basic blocks | worklist, control-flow graph | split, connect | after the normalizer; the result is not used | — |
| redundant copy elimination (`rce.cpp`) | value maps, usage counts | substitute, purge, delete | after the loops | same behaviour, no copy left that need not be |
| loop roll | annotated statements | replace a run of statements by a loop | last | same behaviour |
| matchers, replacers | patterns, captures, matches | find all matches, replace one | used on finished ASTs | agree with the pattern; a true rule changes no value |
| C code generator | — | print | last | the text reads as the AST |
| CUDA extraction, generics, dynamic compilation, names from debug information, template machinery | — | outline, resolve types, compile, read debug information | — | not modelled, see below |

Nothing runs concurrently.  What is hard is of another kind: the staged function
is interrupted at points of its own choosing and restarted from the entry, and
everything the next run needs has to be inherited by position (cached
expressions, answers), by tag (visited and memoized statements) or by the
invocation (tag ids, guesses, the arena); statements are shared by pointers
between the blocks of several runs and changed while they are; two points of the
function may have the same tag.  Exceptions cut runs short between any two
statements, and the exception handlers themselves call code that may throw.  The
passes rewrite control flow in place, each relying on the shape the one before
it leaves, several of them repeating until nothing is left to do.
`PROJECT.json` lists the hazards with their lines.

## What is modelled

The project has three parts: what happens while the staged function runs, the
passes that make the generated function of the AST, and the tools that work on
expressions.

| module | models |
|---|---|
| `StagedProgram` | the staged function as the library sees it: a control-flow graph whose points are expression statements, declarations and branches on a `dyn_var`, each with the location (`Loc`) its tag records and the content (`what`) that `is_same` compares |
| `StagedExecution` | the abstract specification: one statement after the other, every branch decided when it is reached |
| `Extraction` | the engine.  `stack` is the C++ recursion: a frame is a `run_state` and the locals of its `extract_ast_from_run`.  `stmts` and `blocks` are the heap, a `shared_ptr` is an index, so sharing and mutation of shared statements are those of the code |
| `Forking` | the abstract specification of the exploration: walks through the staged function that fork at its conditions and are cut short where some walk has been |
| `Reexecution` | `Extraction` seen as `Forking`: which walk a run that starts over is, and what the exploration promises |
| `ExtractedFlow` | what the AST the engine returns says as a program: where each of its statements goes on |
| `TagTracking` | what tags are made of: `static_var`s and their slots, the live `dyn_var`s, the tag factory, over several runs |
| `NdExtraction` | the extraction around the engine: its runs, the `nd_var`s with the restarts they cause, and the arena the runs allocate from |
| `Blocks` | the AST of the passes: nested sequences of statements, paths to them, the traversal of `block_visitor` and the edits of `block_replacer` |
| `VarNamer`, `LoopNormalizer`, `LoopFinder`, `IfSwitcher`, `ForLoopFinder`, `DeclarationUtils` | one pass each, as operators on that AST, the last with the helpers two of them use |
| `ControlFlow` | the order in which a C++ program executes the statements of the AST, before and after the loop passes |
| `GeneratedCode` | the pipeline: clone, names, label passes, every round of the loop passes as a step, then the execution of the code beside the staged function; it composes `Extraction` with all of these and refines `StagedExecution` |
| `Expressions` | expressions with their classes, `is_same`, and the order visitors meet them in |
| `RedundantCopies`, `LoopRoll` | the optimizations of structured code |
| `Optimizer` | their phases one after the other, and the execution of the function before and after |
| `Matchers` | patterns, matching with captures, templates and replacement, on a heap of nodes since matches point into the AST |
| `CodeGenerator` | how an expression is printed, and how C++ reads the text |
| `Rewriting` | a user's program that matches, replaces and prints |
| `Strict` | a helper of the pure modules: a definition evaluated once |
| `StagedFamilies` and the `MC…` modules | the instances TLC checks |
| `…_proofs` | the theorems |

### The engine

A run (`phase = "run"`) is the execution of the staged function up to its next
call of the library:

- `CreateExpr` is `create_expr`: while catching up the next cached expression, by
  position; otherwise a new one, uncommitted.
- `Offers`/`Offered`/`Passed` are the loop of `commit_uncommitted` and the
  declaration of `create_var_decl_stmt`: which statement goes to
  `add_stmt_to_current_block` next.  That function is then exactly one of
  `SkipStmt` (catching up), `LoopBack` (a visited tag with the same statement),
  `Memoize` (a memoized one) or `AddStmt`.  `NullCopy` and `Dangling` are the two
  places where it would dereference something that is not there: no action is
  enabled then, which TLC reports as a deadlock.
- `TakeBool` and `OutOfBools` are `get_next_bool` with and without an answer left;
  `OutOfBools` includes the handler up to the first recursive call.  `Return` is
  the end of the staged function with `create_return_stmt`.
- `ReturnThen`, `ReturnElse`, `ReturnRoot` are the returns of the recursive calls.
- `TrimCommon`, `TrimSplit`, `BuildIf` are the iterations of
  `trim_common_from_back` and what follows its loop, up to the construction of
  the `if_stmt`.  `trim_ast_at_offset`, called just before, returns at once.
- `AddQueued` is `add_stmt_to_current_block` called by a handler
  (`check_for_conflicts` is false).  Where it would throw, the exception would
  leave the handler and with it the extraction: again no action is enabled, and
  `HandlersFinish` says that it does not come to this, which `reuse_aborts` refutes.
- `AppendTail` and `UpdateMemo` are the rest of the call.

A condition's `expr_stmt` becomes the condition of an `if_stmt` with the tag of the
*expression* (dedup id 0, whatever the statement's); the assignments
`trim_common_from_back` makes of a split condition are expression statements with a
variable (`var`) and a source (`what`, or `from` if the condition already was a
condition variable).

`Forking` leaves out all of this but the order in which the staged function is
explored: a walk passes statements (`Pass`), ends (`Finish`) or is cut short (`Cut`),
and a condition makes two of one, true first (`Fork`, `Turn`, `Join`).  In the code
there are no walks to go on with: both branches are run from the entry with
recorded answers and with expressions that were created before.  `Reexecution`
maps a run that is still replaying to the place its caller waits at (`NextPlace`),
uncommitted expressions to places not passed yet, and a statement that has been
created to the place it was created for (`PlacesPassed`).

### Tags, guesses and the arena

`TagTracking` stands beside the engine and fills in what a location is there.  Its
actions are the constructors, destructors and assignments of the variables, in
any order the staged function may call them: `NewStatic`, `DeferStatic`,
`Assign`, `DestroyStatic` (with the clearing of trailing nulls), `NewDyn`
(`create_block_var`: the tag is taken *before* the variable is alive),
`InitDeferred` (with the life of the temporary), `DestroyDyn`, `DestroyMoved`.
`Restart` is the next run: everything is new but the tag factory, which belongs to
the invocation.  `mark` is no variable of the code: `Remember` keeps the tag of one
moment with what was alive then, so that the properties can compare any two moments
of any two runs (`Values` is what the staged function can tell of the `static_var`s
alive then); `ordered` says whether `static_var`s have been destroyed last
first so far.  A `static_var` is its slot, since each is in the tuple once;
tags are records, so that equality of tags is equality of what they are made of,
and `NullCompared` says where the code's comparison would fail to compute it.

`NdExtraction` abstracts the engine to the tree of its runs: `pending` holds the
answers of the runs still to make, `Fork` is the `OutOfBoolsException` that makes
two of one, `Finish` the end of a run.  `Read` and `Require` create the `nd_var` of
their tag if `nd` has none; `Fail` is the `NonDeterministicFailureException`: the
value is raised and the extraction starts over with `nd` as it is.  An allocation
takes the next place of its type (`Dyn`, `Test`), a chunk more when all are full;
the ends of runs reset the arena, a failure does not.

### The passes

A block is a sequence of statements, a statement with bodies has them in `arms`, and
a path names a place.  `GeneratedCode` makes one step of each pass, and one step of
each *round* of the two that repeat: `NormalizeRound` is an iteration of
`normalizer::run`, `FindLoop` an iteration of `loop_finder::visit(stmt_block)`.
Where the C++ program would look for a jump that is not in reach (and repeat for
ever, or read behind the block), `FindLoop` is not enabled; `JumpsBack` says that
this does not happen, and deadlock would.

- `LoopNormalizer!Normalize` copies what follows the label, up to the level the
  label and its gotos have in common, behind the gotos that are outside its block,
  with new labels for the copied ones.
- `LoopFinder!VisitLabel` is `visit_label`: `EnsureBack`, `InsertContinues`,
  `InsertBreaks` at every end, `Trim` of what all ends have in common,
  `MergeCondition`, and the control guards for jumps to labels of outer loops
  (`WithGuards`).
- `IfSwitcher!SwitchIfs` and `ForLoopFinder!FindForLoops` follow their visitors,
  inner statements first or last as they do.
- What a user's statement does to a variable matters to the for loop finder alone;
  `Role` says of every content whether it declares, assigns, tests or updates one.

`Execute` then runs the code, at the end of the label passes (which is all
`feature_unstructured` generates) and at the end of the loop passes.  Branches on
the user's conditions may go either way, condition variables have the value they
were assigned (`unset` may be either), guards the one they were set to.  `shadow` is
where the staged function is; `Faithful` says that the code is, step by step, a
behaviour of `StagedExecution`.

`Optimizer` works on functions whose statements have expressions, which the engine's
model leaves opaque: assignments, calls, elements, addresses and what they point to.
`Phase1` and `Phase2` are rounds of `rce_phase1` and `rce_phase2`; `Outcomes` gives
for every input what a function has done in the order it did it and what it
returned, or that it did not end within `Fuel` steps.

### Expressions

`Matchers` keeps the AST as a heap, because a match holds pointers into it and
`replace_match` changes the AST under the matches found before.  `Find` is
`find_all_matches`, `Substitute` one `replace_match`, in the order of the matches;
`Generate` prints.  `CodeGenerator!Pieces` makes the tokens an expression is printed
as, `ReadExpr` is the expression grammar of C++ with maximal munch on the tokens.

The definitions commented `a mistake:` are small mutations of their neighbours,
kept to test that the properties notice them; nothing uses them.

## Not modelled

- In the engine a tag is a location and a dedup id: that return addresses,
  snapshots of `static_var`s and live `dyn_var`s determine the rest of the run is
  the assumption `Point` makes when two points have different locations.  When two
  points share one, the engine's deduplication is what is modelled.
- In the engine expressions are opaque: sub-expressions never are statements of their
  own, so `remove_node_from_sequence`, statements marked for deletion and the pass
  that removes them (`sub_expr_cleanup`) do not occur.  A branch creates one
  expression, its condition, just before it is asked for.
- In `TagTracking`: the cached hash and hash collisions; deferred `static_var`s
  live to the end of the run; members, arena variables and variables made outside a
  run, which have no tag.
- Annotations (but those of the loop roller), names and types.  This leaves out the
  generics, the CUDA extraction, escaping variables and the references that the
  namer turns into pointers, and of the code generator everything but expressions.
- `Memoize` shares the gotos of the memoized block where the code makes them
  anew.  Nothing changes a goto before the AST is cloned.
- The basic blocks: nothing uses them.  Dynamic compilation and debug information
  are I/O; the template machinery is computed when the library is compiled.
- Of patterns and templates: floating-point and string constants, statements and
  types.  `MeaningKept` and `ReadsBack` claim nothing once a replacement has made the
  AST cyclic (see below).

## Runs

| run | about | shows |
|---|---|---|
| `extraction` | `Extraction`, seen through `Reexecution` | `Forks`: it implements `Forking`, so every branch is taken both ways from where it was asked for and runs are cut short only where something has been created; `Explored`: in the end a statement has been created for every point the staged function reaches; `ConditionAsked`: the last statement of an interrupted run is the condition it asked about; `DepthBounded`: the recursion is no deeper than the function has branches; `TypeOK`; `ReplayAligned`: a replaying run asks for the cached expressions in the order they were made; `MemoHolds`: the block memoized for a tag the run has not visited holds it whenever it may be searched, and `MemoComplete`: no branch of a finished `if` is memoized for such a tag (both claimed of functions no two conditions of which share a tag); `CopiesVisited`: no null statement is dereferenced; `NeverAborts`: only a handler that adds copied statements could throw; `Flows`: the statements, `if`s and gotos of the result follow each other as the points of the staged function do (claimed of functions no two points of which share a tag); `Terminates`, and with deadlock checked no handler of these functions throws |
| `unstructured` | `GeneratedCode` with `feature_unstructured` | `MemoHolds`, `NeverAborts`, `Flows`, `Terminates` and `Faithful` where `Memoize` ends runs in gotos and code is shared by them |
| `structured` | `GeneratedCode` through all passes | `Faithful`: the code does what the staged function says, no more, no less, and ends when it does; `GoesOn`: it does not get into a loop without statements; `GotosHaveLabels`; `JumpsBack`: the normalizer leaves every jump where the finder looks for it; `NoGotosLeft`; `Scoped`: variables are used where they are visible |
| `tags` | `TagTracking` | `LiveTracked`, the ids in `live_dyn_vars` are those of the declared variables that are alive; `DistinctDyns`, no two of them have one tag; `TagsSound`, equal tags mean the same variables alive; `TagsRecur`, with `static_var`s destroyed last first a moment that is as an earlier one has its tag; `TypeOK`, no snapshot ends in a hole |
| `nd` | `NdExtraction` | `GuessesHold`: what was staged was staged with one guess, which allows all that was required; `GuessesGoUp`; `ArenaHolds` and `AllocatesFresh`: no two objects share a place; `Terminates`, however many restarts it takes |
| `optimizer` | `Optimizer` | `MeaningKept`: for every input the function does and returns the same before and after; `CopiesGone`: in code without labels, a copy of a variable is left only if one of the two is assigned or has its address taken |
| `rewriting` | `Rewriting` | `MatchesExact`: the matches are all instances of the pattern and nothing else; `MeaningKept`: a rule that keeps values keeps that of the function; `ReadsBack`: the text reads as the AST |
| `reuse_aborts`, `shared_if_split`, `two_exits`, `inverted`, `null_snapshot` | | the findings below |

Bounds, and why they are enough:

- *Staged functions* are whole families of control-flow graphs.  `Any3` is every graph
  of three points, each an expression or a branch with arbitrary successors (loops,
  irreducible flow and early exits included); `Chain4` four points whose branches'
  true edges form a chain; `Acyclic3`/`Acyclic4` acyclic graphs for declarations, returns and
  splitting.  Three points are enough for a loop with a branch in it, for two loops
  that cross and for a join behind an if; four for a join behind a nested one, which
  is what memoization, trimming and the memo update interact on.  A location per
  point is the well-staged case (`Distinct`); the `Shared` and `Split` families
  put two points under one tag in every position, in `Shared` in graphs whose branches
  have two different edges.  `Proper` excludes unreachable points and cycles of
  expression statements alone: such a cycle never commits anything, so the engine is never asked about a tag, and the C++ program itself runs
  for ever.  Nothing else bounds the extraction: it ends by itself.
- For the *loop passes* (`MCStructured`): the reducible graphs of `Chain4` with one or two loops
  (nested, in a row, with several ways out), every graph of three points with a loop
  that is entered in the middle (which the normalizer copies for), counting loops of
  six points with a continue, a break or a return and variables declared in the loop
  (which the for loop finder converts or must not), the splits, and declarations that
  are reached by their loop and from in front of it (`MCMerged`), of which the
  engine makes two statements under one tag that the namer must merge and hoist for
  `Scoped` and `Faithful` to hold.
- *Tags*: two slots for `static_var`s (a hole needs two), two live `dyn_var`s, two
  tags with ids, one deferred `static_var`, one place of each kind.  The theorems
  show that the bounds do not matter for what they prove.
- *Guesses and arena*: two `nd_var`s, two types, chunks of two objects, every program of
  up to three instructions and those of five that begin with a test: a restart in
  either run of a fork, with objects of the failed run in the arena, and chunks that
  fill up.
- *Copies*: functions that declare one or two copies, do one or two of some twenty
  things to them and use them afterwards, on four inputs; `Fuel` is beyond what any of
  the functions needs.  No expression of these has an assignment inside another,
  variables have one type (`Narrow` is empty) and calls change none of them (`Changes`
  is empty): what goes wrong otherwise is described below.
- *Expressions*: all of depth two over `x`, 0 and 2 and four operators and many of depth
  three for the rules, each on three inputs and in two rounds of matching; every
  operator under every other on either side for the code generator.

Deadlock is checked where nothing may stop; the end of the extraction and of the
generated function stutters explicitly (`Extracted`, `DoEnd`), and the next run of
`TagTracking` may always start.  `nd`, `optimizer` and `rewriting` do
end, and say so (`CHECK_DEADLOCK FALSE`).

Fairness is `WF_vars(Next)` for `Extraction` and `NdExtraction`: the library is one
thread that keeps executing.  No choice between actions is fair or unfair, since at
most one action is enabled while extracting.  `GeneratedCode` asks the same of the
extraction (`Extracting`) and of the generated function (`Execute`) and nothing of
the passes, whose end is a safety matter here (`JumpsBack`, no deadlock, a finite
number of rounds).  The choices of the generated code are its conditions, and no
fairness is assumed of those: a loop may run for ever in both programs, and `GoesOn`
only asks that the code goes on as long as the staged function does.

What the families do not show: no loop of the structured ones goes back to a condition
with a dedup id, so `GotosHaveLabels` says nothing of the gotos that then have no label,
and of irreducible graphs only those of three points are among them (both below).  The
extraction may abort (`reuse_aborts`, below).
`Terminates` holds for the functions of the other families, in which no handler
throws. Functions with two *conditions* under one tag may break `MemoHolds` and
`MemoComplete` (a statement is renamed after it was memoized), the second from five
points on, although the search the first protects ran off only in functions larger than
those of the runs; unstructured code with two split conditions under one tag is
not faithful, because the label of a goto is chosen among all statements with that
tag. Two different points under one tag are outside what the library promises except
where deduplication and splitting exist for them, and the runs stay within that.

## Proofs

`Extraction_proofs` proves `TypeCorrect`, `Spec => []TypeOK`, for every set of
staged functions, every location and content and both modes.  Beyond ranges, the
type invariant says that the heap is closed: the elements of every block and queue
are statements, the branches of an `if` and the memoized blocks are blocks, and a
frame that is about to trim has both branches.  It is inductive as it stands
because `Call` ties the phase of a frame to the branches it has; each action has
its lemma, on top of lemmas that a longer heap keeps what was well formed in a
shorter one.  Two facts carry most of it: `stmts` and `blocks` only ever grow, and
`TrimSplit`, the one action that changes a statement's condition in place, changes
neither its kind nor its branches.

The same module proves `CopiesCorrect`, `Spec => []CopiesVisited`.
`CopiesVisited` is not inductive; the invariant is `CInv == TypeOK /\ CopiesKept`,
where `CopiesKept` says of every frame that each copy its deduplication map counts
is in its visited map.  The two maps are inherited together by the runs of both
branches (`NewRun`), grow together (`Visit`), and only `BuildIf` takes something
out of the visited map: the tag of an if, whose dedup id is 0, while the map
counts copies from 1.

Also there is `ReplayCorrect`, `Spec => []ReplayAligned`.  That a
run which catches up meets the cached expressions in their order is a statement
about two executions, its own and that of the run it descends from, so the
invariant speaks of *histories*: the moments of the staged function from its entry
to where a run is, each following from the one before by the function's code, the
answers and the expressions.  `IInv == TypeOK /\ WaitingAligned /\ TopAligned`: every
call that waits for its branches has a history that ends where it asked
(`WaitingAligned`); the run at the top has one too, or, while it catches up, is at
a moment of the history of the call it descends from and has inherited its answers
and expressions (`TopAligned`).  `Moves` leaves a moment one successor, so
what a replaying run does next is the next moment of that history.

`Forking_proofs` proves of the abstract exploration that cutting walks short loses
nothing: `ExploredCorrect`, `Spec => []Explored`.  The invariant `NothingLost` says
that whatever may follow a place that has been passed has been passed, is where the
last walk is, or is the false branch of a condition at which a walk waits.

`ExtractionForks_proofs` proves that the engine implements it, `ForksCorrect`:
`Spec => Forks`, action by action, for every staged function and in both modes.
`IInv` of the replay is not enough: `FInv == IInv /\ TopLinked /\ CallsKnown` adds
that the uncommitted expressions are a path in the staged function from what has been
created to where the run is (`Linked`), that the condition asked about is the last
statement of the block when nothing is left uncommitted (`AskedFor`), and that a
condition an `if` will be built from has been passed and every visited statement has
the location of its tag (`Known`) — which is what makes `LoopBack` and `Memoize`
steps of `Cut`.  `ConditionCorrect` (`[]ConditionAsked`) follows from `AskedFor`, and
`ReachedCorrect` (`[]Explored`, of the engine) from the refinement and
`ExploredCorrect`.

`ExtractionDepth_proofs` proves `DepthCorrect`, `Spec => []DepthBounded`, also where
statements and conditions share tags.  `DInv == FInv /\ AllTrack /\ AskedApart /\
NewlyAsked`: every run has among its visited statements the conditions of all calls
it descends from (`Holds`), under their tags or under copies that its map counts
(`Counted`), so that coming to one of them again is a loop back; hence
the conditions at which calls wait differ (`AskedApart`), and there are no more of
them than branches.

`ExtractionMemo_proofs` proves `MemoCorrect` and `CompleteCorrect`, `Spec =>
[]MemoHolds` and `Spec => []MemoComplete`, in both modes.  Neither is inductive, and
neither is true in the middle of a run's end: statements leave the blocks they are
memoized in when branches are trimmed, and may get another dedup id when a handler adds
them again.  `MInv` says what makes up for that while the conditions have tags of their
own, in four parts:

- `Shape`: every statement has been made of a point or by the engine; a tag is visited
  once, and that of a condition has no copies, so no `if` is ever split (`NoSplit`).
- `Ownership`: the block of a call belongs to it.  Nothing is memoized in it and no
  branch of an `if` is it until the call has finished, and while its run executes it
  shares no statement (`AllOwn`, `AllUnshared`); so what a memoized block shares with
  others is never in a block that a waiting call still relies on.
- `Visits`: what a run has visited is in its block or in one of its callers', but for the
  conditions they were interrupted at, and the other way round: a run has visited every
  tag in the blocks of its callers (`AllPlaced`, `AllInherited`).
- `Memo`: a tag is memoized with a block that has it, *or it is pending*: a statement with
  the tag is in the block of the present call or of one that waits, has been trimmed or
  is queued, so it will be memoized when that call ends.  And a tag memoized in a branch
  of an `if` is pending, or the present call has that `if` still ahead of it, whose
  tags it will forget (`MemoKept`, `ArmsForgotten`).

A run that executes the staged function has visited every pending tag, by `Visits`, and
looks up none that it has visited; this is where the two theorems come from.  There is one
lemma per action on top of two for a step that changes the innermost call only
(`OuterSafe`: its callers' blocks are out of reach; `MemoTop`: no tag gets lost).

The module ends with `AbortsCorrect`, `Spec => []NeverAborts`, which puts the safety of
the engine together: `ReplayCorrect`, `ConditionCorrect`, `CopiesCorrect` and `MInv` say
that the cached expressions, the condition, the copies and the blocks that the engine
takes for granted are there, and `EInv == MInv /\ Ending` adds what the handlers may
throw.  By `Ending` a call that has ended still has to add nothing but the `goto` its run
ended in or the `if` it has built, whose tag it has erased from the visited ones, so
that `add_stmt_to_current_block` does not throw; the exception is a run that ended by
copying a memoized block in structured mode, and the finding `reuse_aborts` shows that it
does throw.  With `feature_unstructured` there is no exception.

`ExtractionFlow_proofs` proves `FlowCorrect`, `Spec => []Flows`: what the engine returns
does what the staged function does, in both modes, if no two points of the function
share a tag.  `Flows` reads the blocks of the result as a program.  A statement belongs
to the point with its tag (`At`), a goto stands for the point it goes to, and a sequence of
statements `Leads` from one place of the function to another if each of them is followed by
that of the next point (`GoesTo`).  For an `if` there must be a place `after[i]` that both
of its branches lead to; which one it is the AST does not say, so `Flows` asks for a choice
that fits all `if`s at once, those in several blocks included.  The invariant is `WInv ==
MInv /\ (PointsApart /\ stack # <<>> => \E after : Flowing(after)) /\ Flows`.  By
`Flowing` there is such a choice at every moment for the `if`s there are so far, and every
call has extracted (`Extracts`) a sequence from where it started (`StartOf`) to where it is
(`LeadsTo`): to where its run goes on, to the condition at which it waits, or to the end of
the function.  While it trims, both branches lead to the first of the trimmed statements
(`ArmsLead`), which is what `after` becomes for the `if` when `BuildIf` makes it; the other
`if`s keep their places, as no statement is ever changed (`NoSplit`, from `MInv`).  Blocks
that are neither a call's nor a branch of an `if` lead to the end of the function (`Open`);
these are the blocks that may be copied from, by `MemoComplete`, and what a copied tail
leads to is therefore what is missing in the run that copies it.  Blocks that are trimmed are
nobody else's (`ArmsOwn`).

`Flows` says that the order is right, not that the result is complete or that gotos have a
statement to go to: the former is `ReachedCorrect`, the latter `GotosHaveLabels`, which TLC
checks.  Nor does it say that there is a result; see `AbortsCorrect` and `Terminates`.

`TagTracking_proofs` proves `LiveCorrect`, `DynsCorrect` and `SoundCorrect`:
`Spec` implies `[]LiveTracked`, `[]DistinctDyns` and `[]TagsSound`, for any places,
values and bounds and for destruction in any order.  None of the three is
inductive.  The invariant `IInv` adds that no tag has two ids (`IdsDistinct`), that
every id is greater than those in its tag (`IdsOlder`), that `live_dyn_vars` is
ascending and names the declared variables in order (`LiveNamed`), that variables
of `deferred_init(value)` never share a tag with declared ones (`Apart`), and that a
remembered tag still names what it named (`MarkNamed`).  `IdsOlder` carries the
proof: the tag of a new variable holds the ids of those alive, so its id, new or
old, is greater than all of them; insertion appends (the sort never moves
anything), and no id is in the vector twice, which is why the bisection of
`remove_live_dyn_var` finds the one it should.

In the same module `TypeCorrect` (`[]TypeOK`) and `RecurCorrect` (`[]TagsRecur`) rest on
another invariant, `HInv == TypeOK /\ Solid`: as long as `static_var`s are destroyed
last first no snapshot has a hole, so it *is* the sequence of the values alive
(`Values`), and a moment with the same values, the same live `dyn_var`s and the same
place has the same tag.

`NdExtraction_proofs` proves all the safety of `NdExtraction` for any tags, types,
programs and size of the chunks: `NdTypeCorrect`, `GuessesCorrect`, `ArenaCorrect`,
`GuessesUpCorrect` and `AllocationCorrect`.  The invariant is `IInv == TypeOK /\
GuessesHold /\ ArenaHolds /\ ArenaFits`.  `GuessesHold` is kept because a value that
changes does so in `Fail` only, which forgets at once all that was read and required;
`ArenaFits`, that no type uses more places than its chunks have, is what makes an
allocation without a new chunk stay inside the last one, also when a failure has left
the arena full.

Of the constants the theorems assume only that `DeferredLoc`, `Null` and the bounds
are what they are named for, that initial values are values and `PerChunk` is
positive, that the empty tag and the absent content are no location and no content
(`NoLocAssumption`, `NoWhatAssumption`: a `tracer::tag` of the staged function has
return addresses, and a `goto` or a `return` is no statement of a user's), and of the
staged functions that they are well-formed.

Model-checked only:

- liveness (`Terminates`, `GoesOn`), which is beyond the prover;
- `Faithful`, `MeaningKept`, `ReadsBack` and the properties of the passes: their
  arguments are over trees, by induction over data and with recursive definitions,
  which it cannot do either;
- `GotosHaveLabels`, `NoGotosLeft`, `JumpsBack` and `Scoped`, which are about the AST of
  nested sequences after a pass.

`Flows` claims nothing of functions two points of which share a tag, since a tag then does
not say which point a statement is of, and the two memo properties claim nothing of
functions two conditions of which do, of which they are not true (above).  What the engine does with such functions is checked by `Faithful` and
`SplitAssigned`, and by the theorems that assume nothing about tags: `TypeCorrect`,
`CopiesCorrect`, `ReplayCorrect`, `ForksCorrect`, `ConditionCorrect` and `DepthCorrect`.

## Findings

1. `shared_if_split` — `trim_common_from_back` assigns `if1->cond` in place
   (`builder_context.cpp:106`).  `if1` may be in another block too, because
   `MemoizationException` copies pointers; that path then tests a condition
   variable that was not assigned.  It takes two conditions under one tag, the
   situation splitting is there for.
2. `null_snapshot` — `tag::operator==` (`tracer.cpp:147`) tests its own snapshot
   for null and not the other's, and then dereferences the other's.  It takes a
   `static_var` destroyed out of order and a stored tag of the same place from
   before.
3. `two_exits` — `check_last_choppable` (`loop_finder.cpp:112`) takes two gotos for
   the same statement, since gotos have no tag, and `trim_from_parents` keeps the
   first for both.  A loop with two ways out, to different outer loops, then leaves by
   one of them only.  `goto_stmt::is_same` (`stmt.h:331`), which compares a label with
   itself, would not help.
4. `inverted` — the `continue_counter` of the if switcher (`if_switcher.cpp:15`)
   returns from the very loop it is started on, so a do-while loop with a continue is
   inverted and the continue tests a condition it did not test before.
5. `reuse_aborts` — the handler of `MemoizationException` passes the statements of
   the memoized block to `add_stmt_to_current_block` (`builder_context.cpp:372`).
   A memoized block may go on through statements that the *present* run has visited
   although the run it is from had not; the call then throws a `LoopBackException`
   (`run_states.cpp:23`) out of the handler, which nothing catches, and the extraction
   is over.  `MCReuse` is a staged function of five points, each with a tag of its own,
   that does this.

### Met while modelling, without a run

These are outside what the runs check, because no comment or test says otherwise, or
because what they need is not modelled.

- `get_next_bool` throws the tag of the condition *expression*
  (`run_states.cpp:143`), without the dedup id its statement was given.  The `if`
  loses that id, and a loop back to it finds no label.
- `~static_var` clears trailing nulls only (`static_var.h:137`).  A loop that makes
  the new `static_var` before it destroys the old one leaves one more hole in every
  iteration; no tag comes back, and the extraction does not end.
- `deferred_init(value)` (`dyn_var.h:326`) moves from a temporary whose destructor
  takes the tag the two share out of `live_dyn_vars`.
- A loop that is entered in the middle from an `if` in front of it may keep a goto
  whose label is ahead of it, and the loop finder then reads behind the end of a block
  (a crash).  Two of the graphs of `Chain4` do: the branches 1 → 2 or 3, 2 → 3 or the
  end, 3 → 4 or 2, 4 → the end or 2; and 1 → 2 or 3, the expression 2 → 4, 3 → 4 or the
  end, 4 → the end or 2.  `MCLoops4` has the reducible graphs of one or two loops, and
  `MCEnteredTwice` the irreducible ones of three points, where `JumpsBack` holds.
- A variable declared in a loop and used behind a `continue` of it may end up out of
  scope.
- `side_effects_gather` (`rce.cpp:192`) does not look into the right-hand side of an
  assignment, and `Modified` models it so: past `y = (x = 5)` a copy of `x` is still
  replaced by `x`, and the function uses 5, although the comment at line 202 says that
  substitution stops when `x` is modified.
- `rce.cpp` replaces copies past calls that modify a global, past assignments to a
  member or an element of the source, and drops the conversion a copy to a narrower
  type makes.
- The loop roller keeps constants as `int`, and prints its arrays with `static`
  behind the initializer.
- Matches found in one go hold captures of nodes that earlier replacements of the
  same round have removed: what was rewritten inside them is lost, which keeps the
  meaning but not the work.  With a template that uses a capture twice
  (`a * 2` → `a + a`) one node is in the AST twice, and a later rule that wraps what
  it matches can make the AST cyclic; every visitor then runs for ever.
- A pattern of `unary_minus` matches `not_expr` (`matchers.cpp:83`); one of a
  floating-point constant with a value converts the node to an `int_const`
  (`matchers.cpp:171`); casts are never tried; a template of `var_expr` with a child
  returns the capture instead (`replacers.cpp:122`); `is_same` of two different unary
  classes asserts (`expr.h:26`).
- A sign in front of a sign is printed as one token (`- -x` as `--x`), and
  floating-point constants are printed with 15 digits and `.0` behind an exponent.

Not a finding: `label_inserter` gives a goto the last label visited with its tag,
which may be in the branch of an earlier `if`, where its comments promise one in a
parent block.  `Faithful` does not depend on it, and `normalize_loop_backedges`
repairs such gotos before loops are looked for.

## Plan

Done: the engine, tags, guesses and the arena, all passes over control flow, copy
elimination, loop roll, matchers and the printing of expressions.  What is left:

1. `ExprSequence`: `create_expr` with sub-expressions, `remove_node_from_sequence` and
   statements marked for deletion; every expression is recorded once.
2. Types and their declarators, with what the code generator prints of statements;
   then the CUDA extraction.
