------------------------------ MODULE Matchers ------------------------------
(***************************************************************************)
(* Patterns, matches and replacements of src/src/blocks/matchers.cpp and   *)
(* replacers.cpp.  They work on the nodes of the AST in place and keep     *)
(* pointers to them, so the AST is a heap here: a sequence of nodes, each  *)
(* an expression whose operands are the numbers of their nodes.            *)
(***************************************************************************)
EXTENDS Expressions, FiniteSets, TLC

-----------------------------------------------------------------------------
(* The heap *)

\* A variable is one node, the operand of every var_expr that uses it
Variable(x) == [op |-> "variable", name |-> x, kids |-> <<>>]
Alloc(heap, node) == [heap |-> Append(heap, node), at |-> Len(heap) + 1]
VariableNode(heap, x) ==
    LET found == {n \in DOMAIN heap : heap[n] = Variable(x)}
    IN  IF found = {} THEN Alloc(heap, Variable(x))
        ELSE [heap |-> heap, at |-> CHOOSE n \in found : TRUE]

\* The heap with an expression added to it, its operands first in their order,
\* and where it is.  A capture is there already.
Capture(n) == [op |-> "capture", at |-> n, kids |-> <<>>]
RECURSIVE Load(_, _), LoadAll(_, _)
Load(heap, e) ==
    CASE e.op = "capture" -> [heap |-> heap, at |-> e.at]
      [] e.op = "var" /\ e.kids = <<>> ->
            With(VariableNode(heap, e.name),
                 LAMBDA v : Alloc(v.heap, [op |-> "var", kids |-> <<v.at>>]))
      [] OTHER -> With(LoadAll(heap, e.kids), LAMBDA k : Alloc(k.heap, [e EXCEPT !.kids = k.kids]))
LoadAll(heap, es) ==
    IF es = <<>> THEN [heap |-> heap, kids |-> <<>>]
    ELSE With(Load(heap, Head(es)), LAMBDA first :
         With(LoadAll(first.heap, Tail(es)), LAMBDA others :
              [heap |-> others.heap, kids |-> <<first.at>> \o others.kids]))

\* The expression at a node
RECURSIVE Tree(_, _)
Tree(heap, n) ==
    IF heap[n].op = "var" THEN Var(heap[heap[n].kids[1]].name)
    ELSE [heap[n] EXCEPT !.kids = [i \in DOMAIN @ |-> Tree(heap, @[i])]]

\* The nodes below a node, itself included, and whether one is below itself
RECURSIVE Closure(_, _)
Closure(heap, ns) ==
    LET more == ns \cup UNION {ToSet(heap[n].kids) : n \in ns}
    IN  IF more = ns THEN ns ELSE Closure(heap, more)
Below(heap, n) == Closure(heap, {n})
Cyclic(heap, root) ==
    \E n \in Below(heap, root) : \E k \in ToSet(heap[n].kids) : n \in Below(heap, k)

\* The nodes as a block_visitor meets them that looks at the operands first
RECURSIVE Visited(_, _)
Visited(heap, n) ==
    Append(FlattenSeq([i \in DOMAIN heap[n].kids |-> Visited(heap, heap[n].kids[i])]), n)

-----------------------------------------------------------------------------
(* Patterns: a node type, the name of a capture or NoName, the patterns of  *)
(* the operands or none, and the constant or variable asked for, if any.    *)

NoName == ""
Pattern(type, children) ==
    [type |-> type, name |-> NoName, children |-> children, consts |-> {}, var_name |-> NoName]
Named(p, name) == [p EXCEPT !.name = name]
AnyExpr(name) == Named(Pattern("expr", <<>>), name)
Whole(type, name) == Named(Pattern(type, <<>>), name)       \* whatever its operands are
BinaryPattern(type, p, q) == Pattern(type, <<p, q>>)
IntOf(n) == [Pattern("int", <<>>) EXCEPT !.consts = {n}]
VarNamed(x) == [Pattern("var", <<>>) EXCEPT !.var_name = x]

\* The tests on the node itself
VarFits(p, heap, node) ==
    /\ node.op \in {"variable", "var"}
    /\ p.var_name # NoName =>
         p.var_name = (IF node.op = "var" THEN heap[node.kids[1]].name ELSE node.name)
CallFits(p, node) ==
    node.op = "call" /\ (p.children # <<>> => Len(p.children) = Len(node.kids))
Fits(p, heap, node) ==
    CASE p.type = "block" -> TRUE
      [] p.type = "expr" -> node.op \notin {"variable", "return"}
      [] p.type = "var" -> VarFits(p, heap, node)
      [] p.type = "var_expr" -> node.op = "var"
      [] p.type = "unary_expr" -> IsUnary(node)
      [] p.type = "binary_expr" -> node.op \in BinaryOps
      \* check_unary is given not_expr here
      [] p.type = "unary_minus" -> node.op = "not"
      [] p.type = "const_expr" -> node.op = "int"
      [] p.type = "int" -> node.op = "int" /\ (p.consts # {} => node.value \in p.consts)
      [] p.type = "call" -> CallFits(p, node)
      [] OTHER -> node.op = p.type

\* Variables are the same like var_exprs of them; no variable is an expression
Compared(heap, n, m) ==
    IF heap[n].op = "variable" THEN When(heap[m] = heap[n])
    ELSE IF heap[m].op = "variable" THEN "different"
    ELSE IsSame(Tree(heap, n), Tree(heap, m))

\* a mistake: a name that has a capture is not compared with it
BindAgain(heap, p, n, m) ==
    IF p.name = NoName THEN m ELSE [m EXCEPT !.captures = (p.name :> n) @@ @]

\* The capture of a named pattern, a variable when it is a var
Bind(heap, p, n, m) ==
    LET captured == IF p.type = "var" /\ heap[n].op = "var" THEN heap[n].kids[1] ELSE n
    IN  IF p.name = NoName THEN m
        ELSE IF p.name \in DOMAIN m.captures
        THEN [m EXCEPT !.verdict = Compared(heap, captured, m.captures[p.name])]
        ELSE [m EXCEPT !.captures = @ @@ (p.name :> captured)]

\* check_match
RECURSIVE Check(_, _, _, _), CheckAll(_, _, _, _)
Check(heap, p, n, captures) ==
    IF ~Fits(p, heap, heap[n]) THEN [verdict |-> "different", captures |-> captures]
    ELSE With(CheckAll(heap, p.children, heap[n].kids, captures), LAMBDA m :
              IF m.verdict # "same" THEN m ELSE Bind(heap, p, n, m))
CheckAll(heap, ps, ns, captures) ==
    IF ps = <<>> THEN [verdict |-> "same", captures |-> captures]
    ELSE With(Check(heap, Head(ps), Head(ns), captures), LAMBDA m :
              IF m.verdict # "same" THEN m
              ELSE CheckAll(heap, Tail(ps), Tail(ns), m.captures))

\* find_all_matches; it fails when a comparison fails.  The visitor has no visit
\* for casts, so these are never tried.
NoCaptures == [x \in {} |-> 0]
Finds(heap, p, root) ==
    With(SelectSeq(Visited(heap, root), LAMBDA n : heap[n].op # "cast"), LAMBDA ns :
         [i \in DOMAIN ns |-> [node |-> ns[i], check |-> Check(heap, p, ns[i], NoCaptures)]])
Matches(finds) ==
    LET same == SelectSeq(finds, LAMBDA f : f.check.verdict = "same")
    IN  [i \in DOMAIN same |-> [node |-> same[i].node, captures |-> same[i].check.captures]]
FindFails(finds) == \E i \in DOMAIN finds : finds[i].check.verdict = "fails"

-----------------------------------------------------------------------------
(* Replacements *)

\* create_ast: captures are used in place, not copied.  A capture that is a
\* variable gets a var_expr where an expression is expected.  Patterns without
\* operands stand for their capture, and so does var_expr, whatever operand it
\* has.
RECURSIVE Created(_, _, _)
Created(heap, p, captures) ==
    LET Kid(q) ==
            LET made == Created(heap, q, captures)
            IN  IF made.op = "variable" \/ (made.op = "capture" /\ heap[made.at].op = "variable")
                THEN [op |-> "var", kids |-> <<made>>] ELSE made
    IN  IF p.consts # {} THEN IntConst(CHOOSE n \in p.consts : TRUE)
        ELSE IF p.var_name # NoName THEN Variable(p.var_name)
        ELSE IF p.children = <<>> \/ p.type = "var_expr" THEN Capture(captures[p.name])
        ELSE [op |-> p.type, kids |-> [i \in DOMAIN p.children |-> Kid(p.children[i])]]

\* block_replacer with to_replace: the operands of every node are rewritten in
\* place, one after the other, and one that is `old' becomes `new'.
RECURSIVE Replace(_, _, _, _), ReplaceFrom(_, _, _, _, _)
Replace(heap, n, old, new) == ReplaceFrom(heap, n, 1, old, new)
ReplaceFrom(heap, n, i, old, new) ==
    IF i > Len(heap[n].kids) THEN heap
    ELSE LET kid == heap[n].kids[i]
         IN  With(Replace(heap, kid, old, new), LAMBDA inside :
                  ReplaceFrom([inside EXCEPT ![n].kids[i] = IF kid = old THEN new ELSE kid],
                              n, i + 1, old, new))
ReplaceMatch(heap, root, match, p) ==
    With(Load(heap, Created(heap, p, match.captures)), LAMBDA made :
         Replace(made.heap, root, match.node, made.at))
=============================================================================
