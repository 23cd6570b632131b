----------------------------- MODULE MCOptimizer -----------------------------
EXTENDS Optimizer

x == Var("x")
y == Var("y")
t == Var("t")
u == Var("u")
p == Var("p")
buf == Var("buf")
one == IntConst(1)
Plus(a, b) == Binary("plus", a, b)
Less(a, b) == Binary("lt", a, b)
Set(v, e) == Do(Assign(v, e))
Inc(v) == Set(v, Plus(v, one))
Use(e) == Do(Call(Var("use"), <<e>>))
When1(c, thn, els) == If(NoTag, Cond(c, 0), thn, els)
Loop(c, body) == While(Cond(c, 0), body)
CountTo(i, n, body) ==
    For(NoTag, Declare(i.name, IntConst(0)), Cond(Less(i, IntConst(n)), 0), Inc(i), body)
Deref(a) == Star(a)

Row(roll, at, n) == Rolled(roll, Assign(Index(buf, IntConst(at)), Plus(Index(buf, IntConst(at)), IntConst(n))))

MCInputs ==
    {[v \in {"x", "y", "t", "u", "v", "w", "z", "q", "r", "i", "p"} |-> 
        CASE v = "x" -> a [] v = "y" -> b [] OTHER -> 0] @@ ("buf" :> <<4, 5, 6>>) :
     a \in {0, 2}, b \in {0, 1}}
MCPointers == {"p"}

First == {Declare("t", e) : e \in {x, Plus(x, one), Call(Var("use"), <<x>>)}}
Second ==
    {<<Declare("u", e)>> : e \in {t, Plus(t, one), IntConst(3)}}
    \cup {<<Declare("u", x), Declare("p", Unary("addr_of", v)), Set(Deref(p), IntConst(9))>> : v \in {x, t}}
Middle ==
    {<<Set(x, IntConst(5))>>, <<Set(t, IntConst(7))>>, <<Use(u)>>, <<Set(y, u)>>,
     <<When1(y, <<Set(x, IntConst(5))>>, <<>>)>>,
     <<When1(y, <<Use(t)>>, <<Set(x, t), DeclareOnly("w")>>)>>,
     <<Loop(Less(x, IntConst(3)), <<Use(t), Inc(x)>>)>>,
     <<Loop(Less(t, IntConst(3)), <<Declare("v", t), Inc(t), Use(Var("v"))>>)>>,
     <<CountTo(Var("i"), 2, <<Declare("z", u), Use(Plus(Var("z"), Var("i"))), Inc(x)>>)>>,
     <<Label(1), Use(t), Inc(x), When1(Less(x, IntConst(3)), <<Goto(1)>>, <<>>)>>,
     <<When1(y, <<Goto(2)>>, <<>>), Declare("q", x), Label(2), Use(t)>>,
     <<Row("a", 0, 2), Row("a", 1, 3), Use(t)>>,
     <<Loop(Less(x, one), <<Row("b", 2, 0), Row("b", 2, 3), Row("c", 0, 1), Row("d", 1, 1), Inc(x)>>),
       Use(Index(buf, IntConst(2))), Use(Index(buf, one))>>}
Between ==
    {<<>>, <<Set(x, IntConst(5))>>, <<Set(t, IntConst(7))>>, <<Use(u)>>, <<Label(3)>>}
End == {<<ReturnOf(t)>>, <<ReturnOf(Plus(t, u))>>, <<Use(u)>>,
        <<Declare("r", Plus(t, u)), ReturnOf(Var("r"))>>}
Middles ==
    {<<m, n>> \in Middle \X (Between \cup {k \in Middle : k[1].kind = "expr"}) : m # n}
MCFunctions ==
    {<<f>> \o s \o m[1] \o m[2] \o e : f \in First, s \in Second, m \in Middles, e \in End}

MCNone == {}
MCNothing == [v \in {} |-> 0]
=============================================================================
