----------------------------- MODULE MCRewriting -----------------------------
EXTENDS Rewriting

x == Var("x")
a == AnyExpr("a")
b == AnyExpr("b")
Both(type, q, r) == BinaryPattern(type, q, r)

MCInputs == {-1, 0, 2}
MCVariables == {"x"}

\* Rules that drop, swap, double and wrap what they match
MCRules ==
    {[from |-> Both("plus", a, IntOf(0)), to |-> a],
     [from |-> Both("minus", a, a), to |-> IntOf(0)],
     [from |-> Both("equals", a, a), to |-> IntOf(1)],
     [from |-> Named(Both("plus", a, b), "c"), to |-> Both("plus", b, a)],
     [from |-> Both("mul", a, IntOf(2)), to |-> Both("plus", a, a)],
     [from |-> Both("mul", a, Both("plus", a, b)),
      to |-> Both("plus", Both("mul", a, a), Both("mul", a, b))],
     [from |-> Pattern("bitwise_not", <<Pattern("bitwise_not", <<a>>)>>), to |-> a],
     [from |-> Both("minus", Whole("binary_expr", "a"),
                             Whole("bitwise_not", "b")),
      to |-> Both("plus", a, Pattern("unary_minus", <<b>>))],
     [from |-> Both("mul", Whole("unary_expr", "a"), IntOf(0)), to |-> IntOf(0)],
     [from |-> Pattern("call", <<Whole("var_expr", "a"), b>>),
      to |-> Pattern("call", <<a, b>>)],
     [from |-> Both("lt", Whole("var", "v"),
                          Whole("const_expr", "b")),
      to |-> Pattern("not", <<Both("gte", Whole("var", "v"), b)>>)]}

\* Expressions of the integer operators, for what rewriting makes of them
Leaves == {x, IntConst(0), IntConst(2)}
Ops == {"plus", "minus", "mul", "equals"}
Over(S, T) == {Binary(op, l, r) : op \in Ops, l \in S, r \in T}
Small == Leaves \cup {Unary("bitwise_not", x)} \cup Over(Leaves, Leaves)
         \cup {Binary("lt", x, IntConst(2))}
Rewritten ==
    Small \cup Over(Small, {x, IntConst(2)}) \cup Over({x, IntConst(2)}, Small)
      \cup Over(Over({x}, {x}), Over({x}, {x})) \cup {Unary("bitwise_not", e) : e \in Small}

\* Every operator under every other, on either side, for the code generator.  A
\* sign in front of the same sign is left out: the two are written as one token.
InArithmetic(e) ==
    {Unary(op, e) : op \in UnaryOps} \cup {Cast("int", e), Call(x, <<e>>), Call(x, <<x, e>>), Index(x, e)}
      \cup {Binary(op, e, x) : op \in BinaryOps} \cup {Binary(op, x, e) : op \in BinaryOps}
      \cup {Assign(x, e)}
Accessed(e) == {Star(e), Member(e, "m"), Member(Star(e), "m"), Index(e, x), Call(e, <<x>>)}
Operands == InArithmetic(x) \cup Accessed(x) \cup {Call(x, <<>>), [IntConst(2) EXCEPT !.long = TRUE]}
Glued(e) ==
    e.op \in {"unary_minus", "addr_of"} /\ (e.kids[1].op = e.op \/ e.kids[1] = IntConst(-2))
Printed ==
    {e \in UNION {InArithmetic(operand) \cup Accessed(operand) : operand \in Operands}
              \cup InArithmetic(IntConst(-2)) : ~ Glued(e)}

MCExprs == Rewritten \cup Printed
=============================================================================
