---------------------------- MODULE GeneratedCode ----------------------------
(***************************************************************************)
(* The function the extraction generates, and its execution.  After the    *)
(* extraction the AST is cloned, which turns the shared statements into    *)
(* copies; the variable namer and the label passes run over it, and, if    *)
(* the code is to be structured, the passes that make loops of gotos.  The *)
(* result is then executed next to the staged function, before and after   *)
(* the loop passes.  (builder_context::extract_function_ast_impl)          *)
(***************************************************************************)
EXTENDS Extraction

CONSTANTS
    Unsplittable,   \* as in DeclarationUtils
    Role            \* as in ForLoopFinder

VARIABLES
    stage,      \* the last pass over the AST
    ast,        \* the AST, as in Blocks
    skipped,    \* labels the loop normalizer has given up
    code,       \* the listing that is executed
    at,         \* the next statement executed, End after the last
    env,        \* the condition variables: unset, or a truth value
    raised,     \* the control guards of the loop finder that are set
    shadow,     \* the point the staged function is at when it does the same
    event       \* the last statement executed, as in StagedExecution

passes == <<stage, ast, skipped>>
execution == <<code, at, env, raised, shadow, event>>
gvars == <<passes, execution>>

B == INSTANCE Blocks
Flow == INSTANCE ControlFlow
Namer == INSTANCE VarNamer
Normalizer == INSTANCE LoopNormalizer
Finder == INSTANCE LoopFinder
Switcher == INSTANCE IfSwitcher
ForFinder == INSTANCE ForLoopFinder
Source == INSTANCE StagedExecution WITH source <- prog, point <- shadow

Stages == {"extracted", "cloned", "named", "labelled", "normalized", "looped", "switched",
           "done", "running"}

-----------------------------------------------------------------------------
(* The label passes *)

\* clone: the block b as a tree; a goto still has the tag it leads to.
Tree[b \in Nat] ==
    LET node(s) == CASE s.kind = "expr" -> B!Expr(s.tag, s.what, s.var, s.from)
                     [] s.kind = "decl" -> B!Decl(s.tag, s.what, s.var, s.var = 0)
                     [] s.kind = "return" -> B!Return(s.tag)
                     [] s.kind = "goto" -> B!GotoTag(s.to)
                     [] s.kind = "if" -> B!If(s.tag, B!Cond(s.what, s.var), Tree[s.thn], Tree[s.els])
    IN  [k \in DOMAIN blocks[b] |-> node(stmts[blocks[b][k]])]

\* label_collector and label_creator put a label before every statement with
\* the tag of some goto.  label_inserter takes the one its table holds when it
\* visits the goto: structured, the last label visited before the goto;
\* unstructured, the last label of all.
Labelled(tree) ==
    LET walk == B!Walk(tree)
        gotos == {i \in DOMAIN walk : walk[i].stmt.kind = "goto"}
        labels == {i \in DOMAIN walk : \E g \in gotos : walk[g].stmt.to = walk[i].stmt.tag}
        number(i) == Cardinality({j \in labels : j <= i})
        seen(g) == {i \in labels : /\ walk[i].stmt.tag = walk[g].stmt.to
                                   /\ FeatureUnstructured \/ i < g}
        label(g) == IF seen(g) = {} THEN B!Nowhere ELSE number(Max(seen(g)))
        index(p) == CHOOSE i \in DOMAIN walk : walk[i].at = p
    IN  B!Change(tree, [p \in {walk[g].at : g \in gotos} |-> <<B!Goto(label(index(p)))>>],
                 [p \in {walk[i].at : i \in labels} |->
                     [before |-> <<B!Label(number(index(p)))>>, after |-> <<>>]])

Linked == stage \in Stages \ {"extracted", "cloned", "named"}
Gotos == {v.stmt : v \in {u \in B!Visits(ast) : u.stmt.kind = "goto"}}
AllLinked == \A g \in Gotos : g.label # B!Nowhere

-----------------------------------------------------------------------------
(* The passes *)

GInit ==
    /\ Init
    /\ stage = "extracted" /\ ast = <<>> /\ skipped = {}
    /\ code = <<>> /\ at = Flow!End /\ env = <<>> /\ raised = {}
    /\ shadow = 1 /\ event = Source!Nothing

Extracting == Extract /\ UNCHANGED gvars

Pass(from, to, result) ==
    /\ stage = from /\ stage' = to
    /\ ast' = result
    /\ UNCHANGED <<vars, skipped, execution>>

Clone == stack = <<>> /\ Pass("extracted", "cloned", Tree[1])
NameVars == Pass("cloned", "named", Namer!NameVars(ast))
InsertLabels == Pass("named", "labelled", Labelled(ast))

Unnormalized == Normalizer!Candidates(ast, skipped)
Structuring == ~ FeatureUnstructured /\ AllLinked

\* One round of normalizer::run
NormalizeRound ==
    /\ stage = "labelled" /\ Structuring /\ Unnormalized # <<>>
    /\ \E label \in {Head(Unnormalized)} :
          IF Normalizer!MustSkip(ast, label.at)
          THEN skipped' = skipped \cup {label.stmt.label} /\ UNCHANGED ast
          ELSE ast' = Normalizer!Normalize(ast, label.at) /\ UNCHANGED skipped
    /\ UNCHANGED <<vars, stage, execution>>
Normalized ==
    /\ stage = "labelled" /\ Structuring /\ Unnormalized = <<>>
    /\ Pass("labelled", "normalized", ast)

\* One round of loop_finder::visit.  When the jumps to the label are not where it
\* looks for them, the C++ program goes on for ever or reads beyond the block.
Labels == Finder!LabelPlaces(ast)
FindLoop ==
    /\ stage = "normalized" /\ Labels # {}
    /\ \E p \in {Finder!NextLabel(ast)} :
          ~ Finder!Unreachable(ast, p) /\ ast' = Finder!VisitLabel(ast, p)
    /\ UNCHANGED <<vars, stage, skipped, execution>>
LoopsFound == stage = "normalized" /\ Labels = {} /\ Pass("normalized", "looped", ast)
SwitchIfs == Pass("looped", "switched", Switcher!SwitchIfs(ast))
FindForLoops == Pass("switched", "done", ForFinder!FindForLoops(ast))

\* The code is complete after the last pass, which are the label passes for
\* unstructured code; structured code is executed there too.
Start ==
    /\ stage = "labelled" \/ stage = "done"
    /\ AllLinked
    /\ stage' = "running"
    /\ code' = Flow!Listing(ast) /\ ast' = <<>> /\ skipped' = {}
    /\ at' = IF ast = <<>> THEN Flow!End ELSE 1
    /\ env' = [v \in 1..splits |-> "unset"]
    /\ UNCHANGED <<vars, raised, shadow, event>>

-----------------------------------------------------------------------------
(* The generated function executes *)

Here == code[at]
Executes(kinds) == stage = "running" /\ at \in DOMAIN code /\ Here.stmt.kind \in kinds
SetEvent(what, taken) ==
    /\ event' = [what |-> what, taken |-> taken, turn |-> ~ event.turn]
    /\ shadow' = IF shadow = Exit THEN Exit ELSE Source!Successor(prog, shadow, taken)

UsersOwn(stmt) == stmt.kind = "expr" \/ (stmt.kind = "decl" /\ stmt.init)
Truth(value) == IF value THEN "true" ELSE "false"

\* The user's own statement, or the condition assigned to a condition variable
DoStmt ==
    /\ Executes({"expr", "decl"}) /\ UsersOwn(Here.stmt) /\ Here.stmt.from = 0
    /\ LET v == Here.stmt.var
       IN  \E taken \in IF v = 0 THEN {TRUE} ELSE BOOLEAN :
              /\ SetEvent(Here.stmt.what, taken)
              /\ env' = IF v = 0 THEN env ELSE [env EXCEPT ![v] = Truth(taken)]
    /\ at' = Here.next
    /\ UNCHANGED <<vars, passes, code, raised>>

\* A condition variable is assigned another one.
CopyVar ==
    /\ Executes({"expr"}) /\ Here.stmt.from # 0
    /\ env' = [env EXCEPT ![Here.stmt.var] = env[Here.stmt.from]]
    /\ at' = Here.next
    /\ UNCHANGED <<vars, passes, code, raised, shadow, event>>

\* A variable is declared without a value.
DeclareVar ==
    /\ Executes({"decl"}) /\ ~ Here.stmt.init
    /\ env' = [v \in DOMAIN env |-> IF v = Here.stmt.var THEN "unset" ELSE env[v]]
    /\ at' = Here.next
    /\ UNCHANGED <<vars, passes, code, raised, shadow, event>>

Tests == Executes({"if", "while", "for"})
Branch(value) ==
    at' = IF value = (Here.stmt.cond.nots % 2 = 0) THEN Here.next ELSE Here.other

\* A test of the user's condition
DoTest ==
    /\ Tests /\ Here.stmt.cond.what # NoWhat
    /\ \E taken \in BOOLEAN : SetEvent(Here.stmt.cond.what, taken) /\ Branch(taken)
    /\ UNCHANGED <<vars, passes, code, env, raised>>

\* A test of a condition variable, which may have any value when it is unset
DoTestVar ==
    /\ Tests /\ Here.stmt.cond.var # 0 /\ Here.stmt.cond.what = NoWhat
    /\ \E value \in BOOLEAN : env[Here.stmt.cond.var] \in {"unset", Truth(value)} /\ Branch(value)
    /\ UNCHANGED <<vars, passes, code, env, raised, shadow, event>>

\* A test of a control guard, or of true
DoTestGuard ==
    /\ Tests /\ Here.stmt.cond.var = 0 /\ Here.stmt.cond.what = NoWhat
    /\ Branch(Here.stmt.cond.guard = B!NoGuard \/ Here.stmt.cond.guard \in raised)
    /\ UNCHANGED <<vars, passes, code, env, raised, shadow, event>>

DoSetGuard ==
    /\ Executes({"guard"})
    /\ raised' = IF Here.stmt.value THEN raised \cup {Here.stmt.guard} ELSE raised \ {Here.stmt.guard}
    /\ at' = Here.next
    /\ UNCHANGED <<vars, passes, code, env, shadow, event>>

DoJump ==
    /\ Executes({"goto", "label", "break", "continue", "nop"})
    /\ at' = Here.next
    /\ UNCHANGED <<vars, passes, code, env, raised, shadow, event>>

\* The function ends at a return statement or behind its last statement.
DoEnd ==
    /\ stage = "running" /\ (at = Flow!End \/ Executes({"return"}))
    /\ event' = Source!Finished /\ at' = Flow!End
    /\ UNCHANGED <<vars, passes, code, env, raised, shadow>>

Passes ==
    Clone \/ NameVars \/ InsertLabels \/ NormalizeRound \/ Normalized \/ FindLoop
      \/ LoopsFound \/ SwitchIfs \/ FindForLoops
Execute ==
    DoStmt \/ CopyVar \/ DeclareVar \/ DoTest \/ DoTestVar \/ DoTestGuard \/ DoSetGuard
      \/ DoJump \/ DoEnd

GNext == Extracting \/ Passes \/ Start \/ Execute

\* The extraction and the generated function do not stop half-way.
GSpec == /\ GInit /\ [][GNext]_<<vars, gvars>>
         /\ WF_<<vars, gvars>>(Extracting)
         /\ WF_<<vars, gvars>>(Execute)

-----------------------------------------------------------------------------
(* Properties *)

\* The generated function does what the staged function says, no more and no
\* less: every path through it is a path of the staged function with the same
\* statements in the same order.  What trim_common_from_back moves, memoization
\* copies, the gotos jump to, the loop normalizer copies and the loop finder makes
\* of it must not show.
Faithful == Source!Init /\ [][Source!Next]_(Source!vars)

\* And it goes on as long as the staged function does: it does not get into a
\* loop without statements, such as a goto to itself.
GoesOn == <>(stage = "running") => WF_(Source!vars)(Source!Next)

\* Every goto gets a label: the statement it was made for is in the code, under
\* the tag the goto was made with.
GotosHaveLabels == Linked => AllLinked

\* A condition variable that is tested has been assigned since its declaration.
SplitAssigned ==
    Tests /\ Here.stmt.cond.var # 0 /\ Here.stmt.cond.what = NoWhat
        => env[Here.stmt.cond.var] # "unset"

\* The loop passes turn every goto into loops, breaks, continues and guards:
\* structured code has none left.
NoGotosLeft == stage = "done" => Gotos = {}

\* What C++ scoping asks of the generated code: a declaration is visible behind it
\* in its block and inside what follows there, that of a for loop in the loop.
\* Every variable of the user is used in the scope of its declaration, wherever
\* the passes move declarations and statements.
Declares(stmt, v) == stmt.kind = "decl" /\ stmt.var = 0 /\ stmt.tag.loc = v
Visible(decl, v, p) ==
    \/ Declares(decl.stmt, v) /\ B!Within(p, B!BlockOf(decl.at)) /\ p[Len(decl.at)] > Last(decl.at)
    \/ decl.stmt.kind = "for" /\ Declares(decl.stmt.first, v) /\ IsPrefix(decl.at, p)
Scoped ==
    stage = "done" =>
        \A use \in B!Visits(ast) : \A v \in ForFinder!UsesIn(use.stmt) :
            \E decl \in B!Visits(ast) : Visible(decl, v, use.at)

\* The loop finder finds the jumps to a label in the label's block and behind it:
\* the normalizer has left none outside, and the guarded jumps behind a loop are
\* where an outer loop looks for them.
JumpsBack ==
    stage = "normalized" /\ Labels # {} => ~ Finder!Unreachable(ast, Finder!NextLabel(ast))

\* Statements that the loop finder chops off all ends of a loop to put them behind
\* it are the same statement: of two ways out to different outer loops it must not
\* keep one.
ChopsTheSame ==
    stage = "normalized" /\ Labels # {} => ~ Finder!MergesJumps(ast, Finder!NextLabel(ast))

\* The if switcher moves the condition of a do-while loop to its front only when
\* the loop has no continue, which would pass the condition by.
NoContinueInverted ==
    stage = "looped" =>
        \A v \in B!Visits(ast) : v.stmt.kind = "if" =>
            LET ifs == [v.stmt EXCEPT !.arms = [a \in DOMAIN @ |-> Switcher!SwitchIfs(@[a])]]
            IN  Switcher!LoopInverted(ifs) # ifs => ForFinder!Continues(ifs.arms[1][1].arms[1]) = {}
=============================================================================
