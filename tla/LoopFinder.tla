------------------------------ MODULE LoopFinder ------------------------------
(***************************************************************************)
(* The loop finder (src/src/blocks/loop_finder.cpp): from the inside out,  *)
(* and in a block from the last label to the first, a label becomes a      *)
(* while loop of the statements up to the last one that jumps to it.       *)
(* Jumps to the label become the end of the loop's body or a continue,     *)
(* every other end of the body a break.  Jumps out of the loop to other    *)
(* labels set a control guard, and are made behind the loop.               *)
(***************************************************************************)
EXTENDS Blocks

\* A block that is to end in a break is marked, which the code does by a list
\* of pointers, `parents': "end" by ensure_back_has_goto, whose blocks come
\* first in the list, "jump" by insert_breaks.
Mark(by) == [kind |-> "mark", tag |-> NoTag, by |-> by, arms |-> <<>>]
IsGotoTo(stmt, l) == stmt.kind = "goto" /\ stmt.label = l
EndsInGotoTo(block, l) == block # <<>> /\ IsGotoTo(Last(block), l)

\* ensure_back_has_goto: an end of the body that jumps back just ends, any other
\* one leaves the loop.
RECURSIVE EnsureBack(_, _)
EnsureBack(block, l) ==
    IF IsKind(block, "if")
    THEN Append(Front(block), [Last(block) EXCEPT !.arms =
                                  [a \in DOMAIN @ |-> EnsureBack(@[a], l)]])
    ELSE IF EndsInGotoTo(block, l) THEN Front(block)
    ELSE Append(block, Mark("end"))

\* a mistake: ifs are not looked into
InsertContinuesTop(block, l) ==
    IF EndsInGotoTo(block, l) THEN Append(Front(block), Continue) ELSE block

\* insert_continues, which looks into ifs only
RECURSIVE InsertContinues(_, _)
InsertContinues(block, l) ==
    LET inner == [i \in DOMAIN block |->
                    IF block[i].kind # "if" THEN block[i]
                    ELSE [block[i] EXCEPT !.arms = [a \in DOMAIN @ |-> InsertContinues(@[a], l)]]]
    IN  IF EndsInGotoTo(block, l) THEN Append(Front(inner), Continue) ELSE inner

\* insert_breaks: blocks that end in a goto elsewhere
RECURSIVE InsertBreaks(_)
InsertBreaks(block) ==
    LET inner == [i \in DOMAIN block |->
                    IF block[i].kind # "if" THEN block[i]
                    ELSE [block[i] EXCEPT !.arms = [a \in DOMAIN @ |-> InsertBreaks(@[a])]]]
    IN  IF IsKind(block, "goto") THEN Append(inner, Mark("jump")) ELSE inner

-----------------------------------------------------------------------------
(* trim_from_parents *)

\* The marks, in the order of the parents
Marks(body) ==
    LET by(kind) == SelectSeq(Walk(body), LAMBDA v : v.stmt.kind = "mark" /\ v.stmt.by = kind)
    IN  by("end") \o by("jump")

BeforeMark(p) == Append(BlockOf(p), Last(p) - 1)

\* All ends have a statement, with one tag, and the first has no continue.
LastStatements(body) ==
    LET marks == Marks(body)
    IN  [i \in DOMAIN marks |-> StmtAt(body, BeforeMark(marks[i].at))]
Choppable(body) ==
    LET marks == Marks(body)
    IN  /\ \A i \in DOMAIN marks : Last(marks[i].at) > 1
        /\ LET last == LastStatements(body)
           IN  /\ ~ Has(<<last[1]>>, "continue")
               /\ \A i \in DOMAIN last : last[i].tag = last[1].tag

\* The body without what is common to all ends, and that
RECURSIVE Trim(_, _)
Trim(body, trimmed) ==
    IF Marks(body) = <<>> \/ ~ Choppable(body) THEN [body |-> body, trimmed |-> trimmed]
    ELSE LET last == {BeforeMark(m.at) : m \in ToSet(Marks(body))}
         IN  With(<<Edit(body, [p \in last |-> <<>>]), <<LastStatements(body)[1]>> \o trimmed>>,
                  LAMBDA v : Trim(v[1], v[2]))

\* a mistake: the breaks are forgotten
WithBreaksNone(body) == Edit(body, [p \in {m.at : m \in ToSet(Marks(body))} |-> <<>>])

WithBreaks(body) == Edit(body, [p \in {m.at : m \in ToSet(Marks(body))} |-> <<Break>>])

-----------------------------------------------------------------------------
(* merge_condition_with_loop *)

\* body[1] is read even if there is none.
MergeCondition(body) ==
    LET stmt == body[1]
        thn == stmt.arms[1]
        els == stmt.arms[2]
    IN  IF stmt.kind # "if" THEN While(Always, body)
        ELSE IF Len(body) = 1 /\ els = <<Break>> THEN While(stmt.cond, thn)
        ELSE IF Len(body) = 1 /\ thn = <<Break>> THEN While(Not(stmt.cond), els)
        ELSE IF thn = <<Break>> THEN While(Not(stmt.cond), Tail(body))
        ELSE While(Always, body)

-----------------------------------------------------------------------------
(* outer_jump_finder: jumps that are left in the loop of the label l *)

OuterJumps(body) == SelectSeq(Walk(body), LAMBDA v : v.stmt.kind = "goto")
Guard(l, i) == <<l, i>>

Guarded(body, l) ==
    LET jumps == OuterJumps(body)
        index(p) == CHOOSE i \in DOMAIN jumps : jumps[i].at = p
    IN  [i \in DOMAIN jumps |-> SetGuard(Guard(l, i), FALSE)] \o
        Edit(body, [p \in {j.at : j \in ToSet(jumps)} |->
                       <<SetGuard(Guard(l, index(p)), TRUE)>>])
GuardDecls(body, l) == [i \in DOMAIN OuterJumps(body) |-> SetGuard(Guard(l, i), FALSE)]
GuardedJumps(body, l) ==
    LET jumps == OuterJumps(body)
    IN  [i \in DOMAIN jumps |->
            If(NoTag, GuardCond(Guard(l, i)), <<jumps[i].stmt>>, <<>>)]

-----------------------------------------------------------------------------
(* visit_label *)

JumpsIn(block, l) == {i \in DOMAIN block : JumpsTo(block[i], l)}

\* The loop for the label l, of the statements `stmts', and what comes with it.
\* (The finder visits the body once more, which has no label any more.)
Ends(stmts, l) ==
    With(EnsureBack(stmts, l), LAMBDA ends : With(InsertContinues(ends, l), InsertBreaks))
WithGuards(loop, l) ==
    With(loop.arms[1], LAMBDA body :
        GuardDecls(body, l) \o <<[loop EXCEPT !.arms = <<Guarded(body, l)>>]>>
          \o GuardedJumps(body, l))
MakeLoop(stmts, l) ==
    With(Ends(stmts, l), LAMBDA ends :
        With(Trim(ends, <<>>), LAMBDA cut :
            With(WithBreaks(cut.body), LAMBDA body :
                With(MergeCondition(body), LAMBDA loop : WithGuards(loop, l) \o cut.trimmed))))

\* The labels of an AST, and the one visited next: the last one of a block without
\* labels inside it.  Blocks that are not nested do not meet, any one will do.
LabelPlaces(ast) == {v.at : v \in {u \in Visits(ast) : u.stmt.kind = "label"}}
NextLabel(ast) ==
    CHOOSE p \in LabelPlaces(ast) :
        \A q \in LabelPlaces(ast) :
            \/ Len(q) < Len(p)
            \/ Len(q) = Len(p) /\ (BlockOf(q) = BlockOf(p) => Last(q) <= Last(p))

\* The AST without the label at p: with a loop, or nothing when nothing jumps
\* there
VisitLabel(ast, p) ==
    LET block == BlockAt(ast, BlockOf(p))
        l == block[Last(p)].label
        last == Max({Last(p)} \cup JumpsIn(block, l))
        made == IF JumpsIn(block, l) = {} THEN <<>>
                ELSE With(SubSeq(block, Last(p) + 1, last), LAMBDA stmts : MakeLoop(stmts, l))
    IN  Edit(ast, [q \in {Append(BlockOf(p), i) : i \in Last(p)..last} |->
                      IF q = p THEN made ELSE <<>>])

\* The ends of the loop of the label at p that are chopped as one are not all the
\* same: they jump to different labels.
MergesJumps(ast, p) ==
    LET block == BlockAt(ast, BlockOf(p))
        l == block[Last(p)].label
        jumps == JumpsIn(block, l)
        ends == Ends(SubSeq(block, Last(p) + 1, Max(jumps)), l)
        last == LastStatements(ends)
    IN  /\ jumps # {} /\ Marks(ends) # <<>> /\ Choppable(ends)
        /\ \E i, j \in DOMAIN last : /\ last[i].kind = "goto" /\ last[j].kind = "goto"
                                     /\ last[i].label # last[j].label

\* visit_label looks for the jumps to its label in the block of the label.  When
\* they are outside it keeps the label, and the loop in visit finds it again;
\* when they are before the label, the iteration runs off the end of the block.
Unreachable(ast, p) ==
    LET l == StmtAt(ast, p).label
        after == {q \in GotosTo(ast, l) : Within(q, BlockOf(p)) /\ q[Len(p)] > Last(p)}
    IN  GotosTo(ast, l) # {} /\ after = {}
=============================================================================
