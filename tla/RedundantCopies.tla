--------------------------- MODULE RedundantCopies ---------------------------
(***************************************************************************)
(* Redundant copy elimination (src/src/blocks/rce.cpp) on statements whose *)
(* contents are expressions.  Its two phases walk through the function in  *)
(* the same way: they remember the value of each declared variable that    *)
(* can stand for it, forget values when something may have changed them,   *)
(* and put the values that are left in place of the variables.             *)
(***************************************************************************)
EXTENDS Blocks, Expressions, FiniteSets, TLC

\* Statements of Blocks with an expression as their content; a variable is
\* known by its name.
Declare(x, e) == Decl([NoTag EXCEPT !.loc = x], e, 0, TRUE)
DeclareOnly(x) == [Declare(x, IntConst(0)) EXCEPT !.init = FALSE]
Do(e) == Expr(NoTag, e, 0, 0)
ReturnOf(e) == [kind |-> "return", tag |-> NoTag, what |-> e, arms |-> <<>>]
Declared(decl) == decl.tag.loc

\* The expressions of a statement itself, and of all the statements of a block
RECURSIVE Own(_)
Own(s) ==
    CASE s.kind = "decl" -> IF s.init THEN <<s.what>> ELSE <<>>
      [] s.kind \in {"expr", "return"} -> <<s.what>>
      [] s.kind \in {"if", "while"} -> <<s.cond.what>>
      [] s.kind = "for" -> Own(s.first) \o <<s.cond.what>> \o Own(s.update)
      [] OTHER -> <<>>
RECURSIVE Contents(_)
Contents(block) ==
    FlattenSeq([i \in DOMAIN block |->
        Own(block[i]) \o FlattenSeq([a \in DOMAIN block[i].arms |-> Contents(block[i].arms[a])])])
Nodes(exprs) == FlattenSeq([i \in DOMAIN exprs |-> Postorder(exprs[i])])

-----------------------------------------------------------------------------
(* usage_counter *)

UsageOf(ast, x) == Len(SelectSeq(Nodes(Contents(ast)), LAMBDA e : e.op = "var" /\ e.name = x))
UsageCount(ast) ==
    [x \in UNION {Uses(e) : e \in ToSet(Contents(ast))} |-> UsageOf(ast, x)]
AddressTaken(ast) ==
    {e.kids[1].name : e \in {n \in ToSet(Nodes(Contents(ast))) :
                                n.op = "addr_of" /\ n.kids[1].op = "var"}}

-----------------------------------------------------------------------------
(* What makes a value be forgotten *)

HasSideEffects(e) == \E s \in Subexprs(e) : s.op \in {"assign", "call"}

\* side_effects_gather does not look inside an assignment
RECURSIVE Modified(_)
Modified(e) ==
    IF e.op # "assign" THEN UNION {Modified(e.kids[i]) : i \in DOMAIN e.kids}
    ELSE IF e.kids[1].op = "var" THEN {e.kids[1].name} ELSE {}

NoValues == [x \in {} |-> IntConst(0)]
Purge(phase, values, exprs) ==
    LET modified == UNION {Modified(e) : e \in ToSet(exprs)}
    IN  IF phase = 1
        THEN IF \E e \in ToSet(exprs) : HasSideEffects(e) THEN NoValues ELSE values
        ELSE Restrict(values, {x \in DOMAIN values : ({x} \cup Uses(values[x])) \cap modified = {}})

-----------------------------------------------------------------------------
(* phase1_visitor and phase2_visitor.  `info' is what has been counted      *)
(* before the phase: [phase, usage, taken].                                 *)

RECURSIVE Substituted(_, _)
Substituted(e, values) ==
    IF e.op = "var" /\ e.name \in DOMAIN values THEN values[e.name]
    ELSE [e EXCEPT !.kids = [i \in DOMAIN @ |-> Substituted(@[i], values)]]

\* a mistake: both phases are for variables with a single use
StandsInOnce(info, x, e) ==
    /\ x \in DOMAIN info.usage /\ info.usage[x] <= 1
    /\ ({x} \cup Uses(e)) \cap info.taken = {} /\ ~HasSideEffects(e)
    /\ info.phase = 2 => e.op = "var"

\* Whether e can stand for the variable x it is the first value of
StandsIn(info, x, e) ==
    IF info.phase = 1
    THEN /\ x \in DOMAIN info.usage /\ info.usage[x] <= 1
         /\ x \notin info.taken /\ ~HasSideEffects(e)
    ELSE e.op = "var" /\ {x, e.name} \cap info.taken = {}

\* a mistake: the body of a loop is not looked at before its condition
LooksAtCond(s) == Own(s)

\* What is executed between the beginning of a statement and any expression in it
LooksAt(s) ==
    CASE s.kind = "while" -> Own(s) \o Contents(s.arms[1])
      [] s.kind = "for" -> <<s.cond.what>> \o Own(s.update) \o Contents(s.arms[1])
      [] OTHER -> Own(s)

\* A statement, with values put in, and the values known behind it
RECURSIVE Visit(_, _, _)
VisitBlock(info, block, values) ==
    FoldLeft(LAMBDA acc, s :
                With(Visit(info, s, acc.values),
                     LAMBDA v : [block |-> Append(acc.block, v.stmt), values |-> v.values]),
             [block |-> <<>>, values |-> values], block)
Visit(info, s, values) ==
    LET first == Visit(info, s.first, values)
        known == Purge(info.phase, IF s.kind = "for" THEN first.values ELSE values, LooksAt(s))
        what == Substituted(s.what, known)
        cond == [s.cond EXCEPT !.what = Substituted(@, known)]
        thn == VisitBlock(info, s.arms[1], known)
        els == VisitBlock(info, s.arms[2], thn.values)
        Result(stmt, vs) == [stmt |-> stmt, values |-> vs]
    IN  CASE s.kind = "label" -> Result(s, NoValues)
          [] s.kind = "decl" /\ s.init ->
                Result([s EXCEPT !.what = what],
                       IF StandsIn(info, Declared(s), what) THEN (Declared(s) :> what) @@ known
                       ELSE known)
          [] s.kind \in {"expr", "return"} -> Result([s EXCEPT !.what = what], known)
          [] s.kind = "if" ->
                Result([s EXCEPT !.cond = cond, !.arms = <<thn.block, els.block>>], els.values)
          [] s.kind = "while" ->
                Result([s EXCEPT !.cond = cond, !.arms = <<thn.block>>], thn.values)
          [] s.kind = "for" ->
                Result([s EXCEPT !.first = first.stmt, !.cond = cond, !.arms = <<thn.block>>,
                                 !.update = [@ EXCEPT !.what = Substituted(@, known)]],
                       thn.values)
          [] OTHER -> Result(s, values)

Phase(info, ast) == VisitBlock(info, ast, NoValues).block

-----------------------------------------------------------------------------
(* decl_deleter: only the declarations in blocks, not the one of a for      *)

Unused(usage, s) ==
    /\ s.kind = "decl" /\ Declared(s) \notin DOMAIN usage
    /\ s.init => ~HasSideEffects(s.what)
RECURSIVE DeleteDecls(_, _)
DeleteDecls(usage, block) ==
    LET kept == SelectSeq(block, LAMBDA s : ~Unused(usage, s))
    IN  [i \in DOMAIN kept |->
            [kept[i] EXCEPT !.arms = [a \in DOMAIN @ |-> DeleteDecls(usage, @[a])]]]
=============================================================================
