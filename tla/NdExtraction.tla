---------------------------- MODULE NdExtraction ----------------------------
(***************************************************************************)
(* Extraction with non-deterministic variables                             *)
(* (src/include/builder/nd_var.h, extract_function_ast_impl) and the arena *)
(* of dyn_vars (src/include/builder/arena_dyn_var.h).  An nd_var holds a   *)
(* guess about the whole function, F until some path requires T.  A path   *)
(* that was staged with a wrong guess cannot be taken back: the extraction *)
(* starts again, and the guesses stay.                                     *)
(*                                                                         *)
(* The staged function is a sequence of instructions:                      *)
(*   read    branches at extraction time on the value of an nd_var,        *)
(*   require requires a value of it,                                       *)
(*   dyn     makes an expression, a dyn_var of some type in the arena,     *)
(*   test    branches on a dyn_var, so that both ways must be staged.      *)
(* A branch skips the next instruction on false.  An nd_var is constructed *)
(* in front of its uses.                                                   *)
(***************************************************************************)
EXTENDS Naturals, Sequences

CONSTANTS
    Tag,         \* the places of nd_vars
    Initially,   \* the value each is constructed with, TRUE for T
    Type,        \* types of dyn_vars
    TestedType,  \* the type of the dyn_vars that are tested
    PerChunk,    \* arena_objects_per_chunk
    Programs     \* the staged functions

ASSUME ConstantsAssumption ==
    /\ Initially \in [Tag -> BOOLEAN]
    /\ TestedType \in Type
    /\ PerChunk \in Nat \ {0}

Instruction ==
    [op : {"read"}, tag : Tag] \cup [op : {"require"}, tag : Tag, value : BOOLEAN]
        \cup [op : {"dyn"}, type : Type] \cup [op : {"test"}]

ASSUME ProgramsAssumption == Programs \subseteq Seq(Instruction)

VARIABLES
    program,
    nd,       \* nd_state_map: the value of each true_top that exists
    pending,  \* this attempt: the ways at tests, of the runs that have not been made
    way,      \* the ways this run has been given and has not used, bool_vector
    pc,       \* the next instruction of the run, NoRun between two runs
    read,     \* this attempt: which values were read where
    required, \* this attempt: which values were required and accepted
    chunks,   \* arena_lists[t].chunks.size()
    used,     \* arena_lists[t].used_objects
    alive     \* the objects in the arena, each a type and an index

vars == <<program, nd, pending, way, pc, read, required, chunks, used, alive>>
arena == <<chunks, used, alive>>

NoRun == 0
Start == <<>>      \* the first run has not been given any way

Init ==
    /\ program \in Programs
    /\ nd = [t \in {} |-> FALSE]
    /\ pending = <<Start>>
    /\ way = Start
    /\ pc = NoRun
    /\ read = {}
    /\ required = {}
    /\ chunks = [t \in Type |-> 0]
    /\ used = [t \in Type |-> 0]
    /\ alive = {}

At(op) == pc \in DOMAIN program /\ program[pc].op = op
Instr == program[pc]

-----------------------------------------------------------------------------
(* The arena *)

\* a mistake: a chunk is added once the last one has overflowed
IsFullLate(type) == used[type] > chunks[type] * PerChunk

IsFull(type) == used[type] = chunks[type] * PerChunk
Allocate(type) ==
    /\ chunks' = IF IsFull(type) THEN [chunks EXCEPT ![type] = @ + 1] ELSE chunks
    /\ used' = [used EXCEPT ![type] = @ + 1]
    /\ alive' = alive \cup {[type |-> type, index |-> used[type]]}

\* a mistake: the objects are forgotten without being destroyed
ForgetArena ==
    /\ used' = [t \in Type |-> 0]
    /\ UNCHANGED <<chunks, alive>>
\* a mistake: the lists of types without objects are lost
ResetUsedTypes ==
    /\ alive' = {o \in alive : o.index >= used[o.type]}
    /\ used' = [t \in {u \in Type : used[u] > 0} |-> 0]
    /\ UNCHANGED chunks

\* reset_arena: delete_objects of every type; the chunks are kept
ResetArena ==
    /\ alive' = {o \in alive : o.index >= used[o.type]}
    /\ used' = [t \in Type |-> 0]
    /\ UNCHANGED chunks

-----------------------------------------------------------------------------
(* A run of the staged function *)

StartRun ==
    /\ pc = NoRun /\ pending # <<>>
    /\ way' = Head(pending)
    /\ pc' = 1
    /\ UNCHANGED <<program, nd, pending, read, required, arena>>

\* a mistake: the value of an earlier attempt is not found
WithNewVar(tag) ==
    [t \in DOMAIN nd \cup {tag} |-> IF t # tag THEN nd[t] ELSE Initially[t]]

\* get_or_create_generator
WithVar(tag) ==
    [t \in DOMAIN nd \cup {tag} |-> IF t \in DOMAIN nd THEN nd[t] ELSE Initially[t]]
Skip(taken) == pc' = IF taken THEN pc + 1 ELSE pc + 2

Read ==
    /\ At("read")
    /\ nd' = WithVar(Instr.tag)
    /\ read' = read \cup {<<Instr.tag, nd'[Instr.tag]>>}
    /\ Skip(nd'[Instr.tag])
    /\ UNCHANGED <<program, pending, way, required, arena>>

\* true_top::check
Checks(value, e) == value \/ e = value
Require ==
    /\ At("require")
    /\ Checks(WithVar(Instr.tag)[Instr.tag], Instr.value)
    /\ nd' = WithVar(Instr.tag)
    /\ required' = required \cup {<<Instr.tag, Instr.value>>}
    /\ pc' = pc + 1
    /\ UNCHANGED <<program, pending, way, read, arena>>

\* a mistake: the run goes on after the value has been changed
RestartNot ==
    /\ UNCHANGED <<pending, way, read, required>>
    /\ pc' = pc + 1

\* NonDeterministicFailureException: the attempt and all its runs are given up,
\* and what is in the arena is left there.
Restart ==
    /\ pending' = <<Start>>
    /\ way' = Start
    /\ pc' = NoRun
    /\ read' = {}
    /\ required' = {}
\* merge of true_top keeps T, and becomes T when that is required
Fail ==
    /\ At("require")
    /\ ~Checks(WithVar(Instr.tag)[Instr.tag], Instr.value)
    /\ nd' = [WithVar(Instr.tag) EXCEPT ![Instr.tag] = IF Instr.value THEN TRUE ELSE @]
    /\ Restart
    /\ UNCHANGED <<program, arena>>

Dyn ==
    /\ At("dyn")
    /\ Allocate(Instr.type)
    /\ pc' = pc + 1
    /\ UNCHANGED <<program, nd, pending, way, read, required>>

\* get_next_bool, with a way left
Test ==
    /\ At("test") /\ way # <<>>
    /\ Allocate(TestedType)
    /\ way' = Tail(way)
    /\ Skip(Head(way))
    /\ UNCHANGED <<program, nd, pending, read, required>>

Forked == <<Append(Head(pending), TRUE), Append(Head(pending), FALSE)>> \o Tail(pending)
\* OutOfBoolsException: two runs go on from here, one each way.
Fork ==
    /\ At("test") /\ way = <<>>
    /\ ResetArena
    /\ pending' = Forked
    /\ pc' = NoRun
    /\ UNCHANGED <<program, nd, way, read, required>>

\* a mistake: a run that has been made is made again
RunsAgain == pending

\* The staged function returns.
RunsLeft == Tail(pending)
Finish ==
    /\ pc # NoRun /\ pc \notin DOMAIN program
    /\ ResetArena
    /\ pending' = RunsLeft
    /\ pc' = NoRun
    /\ UNCHANGED <<program, nd, way, read, required>>

Next == StartRun \/ Read \/ Require \/ Fail \/ Dyn \/ Test \/ Fork \/ Finish
Spec == Init /\ [][Next]_vars /\ WF_vars(Next)

-----------------------------------------------------------------------------
(* Properties *)

Extracted == pending = <<>>

TypeOK ==
    /\ program \in Seq(Instruction)
    /\ \E known \in SUBSET Tag : nd \in [known -> BOOLEAN]
    /\ pending \in Seq(Seq(BOOLEAN)) /\ way \in Seq(BOOLEAN)
    /\ pc \in Nat
    /\ pc # NoRun => pending # <<>>
    /\ read \subseteq Tag \X BOOLEAN /\ required \subseteq Tag \X BOOLEAN
    /\ chunks \in [Type -> Nat] /\ used \in [Type -> Nat]
    /\ alive \subseteq [type : Type, index : Nat]

\* What was staged was staged with one guess: on all paths of the attempt each
\* nd_var was read with the value it has, and that value is compatible with all
\* that any of the paths required.  It is what memoization relies on, too: the
\* values are not part of the static tags.
GuessesHold ==
    /\ \A r \in read : r[1] \in DOMAIN nd /\ nd[r[1]] = r[2]
    /\ \A r \in required : r[1] \in DOMAIN nd /\ Checks(nd[r[1]], r[2])

\* The state of an nd_var only goes up, from F to T, and is never forgotten.
GuessesGoUp ==
    [][\A t \in DOMAIN nd : t \in DOMAIN nd' /\ (nd[t] => nd'[t])]_vars

\* The objects of the arena are in chunks of their own type.  No two share a
\* place, and what is forgotten has been destroyed.
ArenaHolds ==
    \A o \in alive : o.index < used[o.type] /\ used[o.type] <= chunks[o.type] * PerChunk
AllocatesFresh ==
    [][\A t \in Type : used'[t] > used[t] => [type |-> t, index |-> used[t]] \notin alive]_vars

\* However often it has to start again, the extraction ends.
Terminates == <>Extracted
=============================================================================
