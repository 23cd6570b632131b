------------------------------- MODULE Blocks -------------------------------
(***************************************************************************)
(* The AST of the generated function as the passes of src/src/blocks see   *)
(* it: nested blocks of statements.  The AST has been cloned, so it is a   *)
(* tree, and a statement is known by its position in it.                   *)
(*                                                                         *)
(* A block is a sequence of statements; the blocks inside a statement are  *)
(* its `arms'.  A position is a sequence that leads to a statement:        *)
(* <<i, a, j>> is the j-th statement of the a-th arm of the i-th statement.*)
(***************************************************************************)
EXTENDS Naturals, Sequences, SequencesExt, Strict

NoLoc == "no location"
NoTag == [loc |-> NoLoc, dedup |-> 0]       \* an empty static_offset

\* A condition: the user's `what', a condition variable `var', a control guard
\* of the loop finder, or none of them (a constant true); under so many `nots'.
NoWhat == "nothing"
NoGuard == <<>>
Cond(what, var) == [what |-> what, var |-> var, guard |-> NoGuard, nots |-> 0]
GuardCond(guard) == [what |-> NoWhat, var |-> 0, guard |-> guard, nots |-> 0]
Always == Cond(NoWhat, 0)
Not(cond) == [cond EXCEPT !.nots = @ + 1]

\* Statements of the user have a content `what', or concern a condition
\* variable `var' that trim_common_from_back made, which is assigned its
\* condition or another such variable, `from'.  `init' says whether a
\* declaration has an initial value.
Expr(tag, what, var, from) ==
    [kind |-> "expr", tag |-> tag, what |-> what, var |-> var, from |-> from, arms |-> <<>>]
Decl(tag, what, var, init) ==
    [kind |-> "decl", tag |-> tag, what |-> what, var |-> var, from |-> 0, init |-> init,
     arms |-> <<>>]
Return(tag) == [kind |-> "return", tag |-> tag, arms |-> <<>>]
If(tag, cond, thn, els) == [kind |-> "if", tag |-> tag, cond |-> cond, arms |-> <<thn, els>>]
While(cond, body) == [kind |-> "while", tag |-> NoTag, cond |-> cond, arms |-> <<body>>]
For(tag, first, cond, update, body) ==
    [kind |-> "for", tag |-> tag, first |-> first, cond |-> cond, update |-> update,
     arms |-> <<body>>]
Label(l) == [kind |-> "label", tag |-> NoTag, label |-> l, arms |-> <<>>]
\* A goto leads to the tag `to' until it is given its label.
Nowhere == 0
Goto(l) == [kind |-> "goto", tag |-> NoTag, to |-> NoTag, label |-> l, arms |-> <<>>]
GotoTag(t) == [Goto(Nowhere) EXCEPT !.to = t]
Nop == [kind |-> "nop", tag |-> NoTag, arms |-> <<>>]      \* without an effect
Break == [kind |-> "break", tag |-> NoTag, arms |-> <<>>]
Continue == [kind |-> "continue", tag |-> NoTag, arms |-> <<>>]
\* A control guard is set or reset; it is declared with the value FALSE.
SetGuard(guard, value) ==
    [kind |-> "guard", tag |-> NoTag, guard |-> guard, value |-> value, arms |-> <<>>]

-----------------------------------------------------------------------------
(* Positions *)

BlockOf(p) == Front(p)              \* the position of the block p is in
Within(p, block) == IsStrictPrefix(block, p)

\* The block at a position, <<>> for the whole AST
RECURSIVE BlockAt(_, _)
BlockAt(ast, block) ==
    IF block = <<>> THEN ast
    ELSE BlockAt(ast[block[1]].arms[block[2]], SubSeq(block, 3, Len(block)))
StmtAt(ast, p) == BlockAt(ast, BlockOf(p))[Last(p)]

\* All statements with their positions, in the order of a block_visitor
RECURSIVE WalkFrom(_, _)
WalkFrom(ast, block) ==
    FlattenSeq([i \in DOMAIN ast |->
        LET p == Append(block, i)
        IN  <<[at |-> p, stmt |-> ast[i]]>> \o
            FlattenSeq([a \in DOMAIN ast[i].arms |-> WalkFrom(ast[i].arms[a], Append(p, a))])])
Walk(ast) == WalkFrom(ast, <<>>)
Visits(ast) == ToSet(Walk(ast))

\* The AST with changes at some positions of it: `edits' replaces statements,
\* each by a sequence of statements, `around' puts some before and after one.
RECURSIVE ChangeFrom(_, _, _, _)
ChangeFrom(ast, edits, around, block) ==
    FlattenSeq([i \in DOMAIN ast |->
        LET p == Append(block, i)
            kept == [ast[i] EXCEPT !.arms =
                        [a \in DOMAIN @ |-> ChangeFrom(@[a], edits, around, Append(p, a))]]
        IN  IF p \in DOMAIN edits THEN edits[p]
            ELSE IF p \in DOMAIN around THEN around[p].before \o <<kept>> \o around[p].after
            ELSE <<kept>>])
NoChange == [p \in {} |-> <<>>]
Change(ast, edits, around) ==
    With(<<ast, edits, around>>, LAMBDA v : ChangeFrom(v[1], v[2], v[3], <<>>))
Edit(ast, edits) == Change(ast, edits, NoChange)

-----------------------------------------------------------------------------
(* What the visitors of the passes look for *)

GotosTo(ast, l) == {v.at : v \in {u \in Visits(ast) : u.stmt.kind = "goto" /\ u.stmt.label = l}}
JumpsTo(stmt, l) == GotosTo(<<stmt>>, l) # {}
Has(ast, kind) == \E v \in Visits(ast) : v.stmt.kind = kind
IsKind(ast, kind) == ast # <<>> /\ Last(ast).kind = kind

\* The variable of a declaration, and the declarations of an AST, one for each
\* variable
Variable(decl) == <<decl.tag.loc, decl.var>>
Declarations(ast) ==
    FoldLeft(LAMBDA ds, v :
                IF v.stmt.kind # "decl" \/ \E d \in ToSet(ds) : Variable(d) = Variable(v.stmt)
                THEN ds ELSE Append(ds, v.stmt),
             <<>>, Walk(ast))
=============================================================================
