---------------------------- MODULE Reexecution ----------------------------
(***************************************************************************)
(* The extraction engine explores the staged function as Forking says,     *)
(* although every run starts at the entry again and replays the answers of *)
(* the runs it descends from (extract_ast_from_run, builder_context.cpp;   *)
(* get_next_bool, run_states.cpp).                                         *)
(***************************************************************************)
EXTENDS Extraction

\* The places of the statements created.  What the engine makes itself, a goto,
\* a return or an if on a condition variable, is no place of the staged function.
PlacesPassed ==
    {[loc |-> stmts[i].tag.loc, what |-> stmts[i].what] :
        i \in {j \in DOMAIN stmts : stmts[j].what # NoWhat}}

\* Where the run f, called by g, is going: a run that is catching up is where its
\* caller waits, and goes on with the last answer.
Destination(f, g) ==
    IF Head(f.given) THEN prog.code[g.pc].next ELSE prog.code[g.pc].other
NextPlace(f, g) ==
    IF f.bools # <<>> THEN Destination(f, g)
    ELSE IF f.pending # <<>> THEN Head(f.pending) ELSE f.pc

WalkOf(f, g) ==
    CASE f.phase = "run" ->
           [is |-> "going", at |-> NextPlace(f, g),
            asked |-> f.bools = <<>> /\ f.pending = <<>> /\ f.tested]
      [] f.phase = "then" -> [is |-> "true", at |-> f.pc, asked |-> TRUE]
      [] f.phase = "else" -> [is |-> "false", at |-> f.pc, asked |-> TRUE]
      [] OTHER -> [is |-> "ended", at |-> Exit, asked |-> FALSE]
Walks == [k \in DOMAIN stack |-> WalkOf(stack[k], stack[k - 1])]

F == INSTANCE Forking WITH source <- prog, walks <- Walks, passed <- PlacesPassed

\* The extraction is an exploration: every branch is extracted once for each
\* answer, in that order, from where its condition was asked for, and a run is
\* cut short only where a statement with the same content and location has been
\* created, by this run or by another one.
Forks == F!Spec

\* When the extraction is over a statement has been created for every point that
\* the staged function can reach.
Explored == F!Explored

\* The condition that leaves the block when a run asks for an answer it has not
\* been given is the one the run asks about: to<expr_stmt> finds an expression
\* statement at the end of the block, and the if gets its condition.
ConditionAsked ==
    Asks /\ ~ CatchingUp =>
        /\ ConditionLast
        /\ LET s == stmts[Last(Body)]
           IN  s.tag.loc = prog.code[top.pc].loc /\ s.what = prog.code[top.pc].what
=============================================================================
