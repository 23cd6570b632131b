------------------------------ MODULE Optimizer ------------------------------
(***************************************************************************)
(* The passes that extract_function_ast_impl ends with                     *)
(* (src/src/builder/builder_context.cpp): redundant copy elimination, if   *)
(* run_rce asks for it, and the loop roller.  The statements they are      *)
(* given have been structured; with feature_unstructured they may hold     *)
(* labels and gotos.  The code is executed before and after every pass.    *)
(***************************************************************************)
EXTENDS LoopRoll

Flow == INSTANCE ControlFlow

CONSTANTS
    Functions,  \* the bodies of functions to optimize
    Inputs,     \* initial values of all variables, a set of functions
    Pointers,   \* the variables that hold the name of another
    Narrow,     \* the variables of a type narrower than the expressions
    CallResult, \* what the functions that are called return
    Changes,    \* what they assign: a function from variables to values
    Fuel        \* bound on the statements of an execution

VARIABLES
    source,     \* the function as it was extracted
    ast,        \* the function as it is
    run_rce,
    usage, taken, \* what usage_counter has counted last
    stage

vars == <<source, ast, run_rce, usage, taken, stage>>

Init ==
    /\ source \in Functions
    /\ ast = source
    /\ run_rce \in BOOLEAN
    /\ usage = [x \in {} |-> 0]
    /\ taken = {}
    /\ stage = "extracted"

Counted == usage' = UsageCount(ast) /\ taken' = AddressTaken(ast)
CountUsage ==
    /\ stage = "extracted" /\ run_rce
    /\ Counted
    /\ stage' = "counted"
    /\ UNCHANGED <<source, ast, run_rce>>

Info(phase) == [phase |-> phase, usage |-> usage, taken |-> taken]
Phase1 ==
    /\ stage = "counted"
    /\ ast' = Phase(Info(1), ast)
    /\ stage' = "phase 1"
    /\ UNCHANGED <<source, run_rce, usage, taken>>
\* The second phase uses what was counted before the first
Phase2 ==
    /\ stage = "phase 1"
    /\ ast' = Phase(Info(2), ast)
    /\ stage' = "phase 2"
    /\ UNCHANGED <<source, run_rce, usage, taken>>
CountAgain ==
    /\ stage = "phase 2"
    /\ Counted
    /\ stage' = "counted again"
    /\ UNCHANGED <<source, ast, run_rce>>
Delete ==
    /\ stage = "counted again"
    /\ ast' = DeleteDecls(usage, ast)
    /\ stage' = "copies gone"
    /\ UNCHANGED <<source, run_rce, usage, taken>>

Roll ==
    /\ stage = IF run_rce THEN "copies gone" ELSE "extracted"
    /\ \E rolled \in {RollBlock(ast, 0)} :
         /\ ast' = rolled.block
         /\ stage' = IF rolled.raised THEN "assertion failed" ELSE "optimized"
    /\ UNCHANGED <<source, run_rce, usage, taken>>

Next == CountUsage \/ Phase1 \/ Phase2 \/ CountAgain \/ Delete \/ Roll
Spec == Init /\ [][Next]_vars

-----------------------------------------------------------------------------
(* The execution of a function: the calls it makes and what it returns      *)

Flag(b) == IF b THEN 1 ELSE 0
Converted(x, v) == IF x \in Narrow THEN v % 4 ELSE v
Stored(st, x, v) == [st EXCEPT !.env = (x :> Converted(x, v)) @@ @]

\* The value of an expression and the state behind it, from the state st
RECURSIVE Eval(_, _)
EvalAll(exprs, st) ==
    FoldLeft(LAMBDA acc, e :
                With(Eval(e, acc.st), LAMBDA r : [vals |-> Append(acc.vals, r.val), st |-> r.st]),
             [vals |-> <<>>, st |-> st], exprs)
Element(st, base, i) ==
    IF base \in Pointers THEN st.env[st.env[base]] ELSE st.env[base][i + 1]
StoredElement(st, base, i, v) ==
    IF base \in Pointers THEN Stored(st, st.env[base], v)
    ELSE [st EXCEPT !.env[base][i + 1] = v]
Eval(e, st) ==
    LET Result(val, after) == [val |-> val, st |-> after]
        l == Eval(e.kids[1], st)
        r == Eval(e.kids[2], l.st)
        target == e.kids[1]
        arguments == EvalAll(Tail(e.kids), st)
    IN  CASE e.op = "var" -> Result(st.env[e.name], st)
          [] e.op = "int" -> Result(e.value, st)
          [] e.op = "addr_of" -> Result(target.name, st)
          [] e.op = "list" -> Result([k \in DOMAIN e.kids |-> e.kids[k].value], st)
          [] e.op = "plus" -> Result(l.val + r.val, r.st)
          [] e.op = "mul" -> Result(l.val * r.val, r.st)
          [] e.op = "lt" -> Result(Flag(l.val < r.val), r.st)
          [] e.op = "sq_bkt" -> Result(Element(r.st, target.name, r.val), r.st)
          [] e.op = "assign" /\ target.op = "var" ->
                With(Eval(e.kids[2], st), LAMBDA v :
                    Result(Converted(target.name, v.val), Stored(v.st, target.name, v.val)))
          [] e.op = "assign" /\ target.op = "sq_bkt" ->
                With(Eval(e.kids[2], st), LAMBDA v :
                    With(Eval(target.kids[2], v.st), LAMBDA k :
                        Result(v.val, StoredElement(k.st, target.kids[1].name, k.val, v.val))))
          [] e.op = "call" ->
                Result(CallResult,
                       [env |-> Changes @@ arguments.st.env,
                        trace |-> Append(arguments.st.trace, <<target.name, arguments.vals>>)])

\* One line of a listing: the state behind it, and the line that comes next
Step(line, st) ==
    LET s == line.stmt
        r == Eval(s.what, st)
        tested == Eval(s.cond.what, st)
    IN  CASE s.kind = "decl" /\ s.init -> [st |-> Stored(r.st, Declared(s), r.val), next |-> line.next]
          [] s.kind = "expr" -> [st |-> r.st, next |-> line.next]
          [] s.kind = "return" ->
                [st |-> [r.st EXCEPT !.trace = Append(@, <<"return", <<r.val>>>>)], next |-> Flow!End]
          [] s.kind \in {"if", "while", "for"} ->
                [st |-> tested.st, next |-> IF tested.val = 0 THEN line.other ELSE line.next]
          [] OTHER -> [st |-> st, next |-> line.next]
RECURSIVE Execute(_, _, _, _)
Execute(listing, k, st, fuel) ==
    IF k = Flow!End THEN st.trace
    ELSE IF fuel = 0 THEN Append(st.trace, <<"goes on", <<>>>>)
    ELSE With(Step(listing[k], st), LAMBDA r : Execute(listing, r.next, r.st, fuel - 1))
Outcomes(body) ==
    With(Flow!Listing(body), LAMBDA l :
        [env \in Inputs |-> Execute(l, 1, [env |-> env, trace |-> <<>>], Fuel)])
Ends(outcome) == outcome = <<>> \/ Last(outcome)[1] # "goes on"

-----------------------------------------------------------------------------
(* Properties *)

\* With every pass the function makes the calls it made before, with the same
\* arguments, and returns the same value: no value is put where one of the
\* variables it was computed from may have changed, on any path.
MeaningKept ==
    [][ast' # ast =>
         With(<<Outcomes(ast), Outcomes(ast')>>, LAMBDA o :
            \A env \in Inputs : Ends(o[1][env]) => o[2][env] = o[1][env])]_vars

\* `substitution is stopped as soon as either of x or y are modified'
\* (rce.cpp): and not before, so that a copy of a variable remains only if one
\* of the two is assigned somewhere, or has its address taken, or anything may
\* jump to a label.
Assigned(body) ==
    {e.kids[1].name : e \in {n \in ToSet(Nodes(Contents(body))) :
                                n.op = "assign" /\ n.kids[1].op = "var"}}
CopiesGone ==
    (run_rce /\ stage = "optimized" /\ ~Has(source, "label")) =>
        \A v \in Visits(ast) :
            (v.stmt.kind = "decl" /\ v.stmt.init /\ v.stmt.what.op = "var") =>
                {Declared(v.stmt), v.stmt.what.name} \cap (Assigned(source) \cup AddressTaken(source)) # {}
=============================================================================
