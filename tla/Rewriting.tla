----------------------------- MODULE Rewriting -----------------------------
(***************************************************************************)
(* Rewriting an extracted function with patterns, as sample58 does: all    *)
(* matches of a pattern are found, then each one is replaced; then another *)
(* pattern may be used, and in the end the code is written.  The function  *)
(* is one expression under a return statement.                             *)
(***************************************************************************)
EXTENDS Matchers, CodeGenerator

CONSTANTS
    Exprs,      \* the expressions that may be returned
    Rules,      \* pairs of patterns, [from, to], that mean the same
    Inputs,     \* values of the variables
    Variables,
    MaxRounds   \* bound on the rules used one after the other

VARIABLES
    source,     \* the expression the user staged
    heap, root, \* the AST; the root is the return statement
    rule,       \* the rule in use
    matches,    \* its matches that have not been replaced yet
    rounds, stage

vars == <<source, heap, root, rule, matches, rounds, stage>>

NoRule == [from |-> Pattern("block", <<>>), to |-> Pattern("block", <<>>)]

Init ==
    /\ source \in Exprs
    /\ LET loaded == Load(<<>>, [op |-> "return", kids |-> <<source>>])
       IN  heap = loaded.heap /\ root = loaded.at
    /\ rule = NoRule
    /\ matches = <<>>
    /\ rounds = 0
    /\ stage = "extracted"

\* find_all_matches with a rule of the user
Find ==
    /\ stage = "extracted" /\ matches = <<>> /\ rounds < MaxRounds
    /\ \E r \in Rules :
         \E finds \in {Finds(heap, r.from, root)} :
             /\ rule' = r
             /\ stage' = IF FindFails(finds) THEN "failed" ELSE stage
             /\ matches' = IF FindFails(finds) THEN <<>> ELSE Matches(finds)
    /\ rounds' = rounds + 1
    /\ UNCHANGED <<source, heap, root>>

\* replace_match of the first match left
Substitute ==
    /\ matches # <<>>
    /\ heap' = ReplaceMatch(heap, root, Head(matches), rule.to)
    /\ matches' = Tail(matches)
    /\ UNCHANGED <<source, root, rule, rounds, stage>>

\* generate_code
Generate ==
    /\ stage = "extracted" /\ matches = <<>>
    /\ stage' = "generated"
    /\ UNCHANGED <<source, heap, root, rule, matches, rounds>>

Next == Find \/ Substitute \/ Generate
Spec == Init /\ [][Next]_vars

-----------------------------------------------------------------------------
(* What an expression is worth *)

Env == [Variables -> Inputs]
Flag(b) == IF b THEN 1 ELSE 0
RECURSIVE Value(_, _)
Value(e, env) ==
    LET l == Value(e.kids[1], env)
        r == Value(e.kids[2], env)
    IN  CASE e.op = "var" -> env[e.name]
          [] e.op = "int" -> e.value
          [] e.op = "unary_minus" -> -l
          [] e.op = "not" -> Flag(l = 0)
          [] e.op = "bitwise_not" -> -l - 1
          [] e.op = "plus" -> l + r
          [] e.op = "minus" -> l - r
          [] e.op = "mul" -> l * r
          [] e.op = "equals" -> Flag(l = r)
          [] e.op = "lt" -> Flag(l < r)
          [] e.op = "gte" -> Flag(l >= r)
          [] OTHER -> 0
Returned == Tree(heap, heap[root].kids[1])

\* Whether a pattern stands for an expression, with expressions for the names.
\* A name stands for one expression, wherever it is.
RECURSIVE StandsFor(_, _, _)
StandsFor(p, e, sub) ==
    /\ p.name # NoName => sub[p.name] = e
    /\ p.children # <<>> =>
         /\ DOMAIN p.children = DOMAIN e.kids
         /\ \A i \in DOMAIN p.children : StandsFor(p.children[i], e.kids[i], sub)
    /\ CASE p.type \in {"block", "expr"} -> TRUE
         [] p.type \in {"var", "var_expr"} ->
              e.op = "var" /\ (p.var_name # NoName => e.name = p.var_name)
         [] p.type = "unary_expr" -> IsUnary(e)
         [] p.type = "binary_expr" -> e.op \in BinaryOps
         [] p.type \in {"const_expr", "int"} ->
              e.op = "int" /\ (p.consts # {} => e.value \in p.consts)
         [] OTHER -> e.op = p.type
RECURSIVE Names(_)
Names(p) ==
    ({p.name} \ {NoName}) \cup UNION {Names(p.children[i]) : i \in DOMAIN p.children}
Instance(p, e) == \E sub \in [Names(p) -> Subexprs(e)] : StandsFor(p, e, sub)

\* The expression of a capture, which may be a variable itself
TreeOrVar(h, n) == IF h[n].op = "variable" THEN Var(h[n].name) ELSE Tree(h, n)

-----------------------------------------------------------------------------
(* Properties *)

\* The matches found are the expressions the pattern stands for, no more and no
\* less, and its captures say what its names stand for: a name that occurs twice
\* stands for the same expression, whatever is met in between.
MatchesExact ==
    [][(rounds' # rounds /\ stage' # "failed") =>
         LET exprs == {n \in Below(heap, root) : heap[n].op \notin {"return", "variable"}}
             found == {m \in ToSet(matches') : m.node \in exprs}
         IN  /\ {m.node : m \in found} = {n \in exprs : Instance(rule'.from, Tree(heap, n))}
             /\ \A m \in found :
                  StandsFor(rule'.from, Tree(heap, m.node),
                            [x \in DOMAIN m.captures |-> TreeOrVar(heap, m.captures[x])])]_vars

\* Rules that are true leave the function as it is, however their matches lie
\* inside each other: later ones are replaced by captures that were taken
\* before the earlier ones were replaced.
MeaningKept ==
    ~Cyclic(heap, root) => \A env \in Env : Value(Returned, env) = Value(source, env)

\* The text of the code is read as the AST it was written for
ReadsBack == (stage = "generated" /\ ~Cyclic(heap, root)) => ReadBack(Returned)
=============================================================================
