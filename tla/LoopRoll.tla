------------------------------ MODULE LoopRoll ------------------------------
(***************************************************************************)
(* The loop roller (src/src/blocks/loop_roll.cpp): statements in a row that *)
(* the user annotated with the same roll become a for loop over the first  *)
(* of them, in which every constant is an element of an array.  An         *)
(* annotated statement is an expression statement with a field `roll'.     *)
(***************************************************************************)
EXTENDS RedundantCopies

NoRoll == "no roll"
Rolled(roll, e) == [kind |-> "expr", tag |-> NoTag, what |-> e, roll |-> roll, arms |-> <<>>]
RollOf(s) == IF "roll" \in DOMAIN s THEN s.roll ELSE NoRoll

\* constant_expr_finder, and constant_replacer, which meets them in the same order
Constants(e) ==
    LET ints == SelectSeq(Postorder(e), LAMBDA s : s.op = "int")
    IN  [i \in DOMAIN ints |-> ints[i].value]
RECURSIVE WithConstants(_, _)
WithConstants(e, new) ==
    LET before(i) == Len(FlattenSeq([k \in 1..(i - 1) |-> Constants(e.kids[k])]))
        part(i) == SubSeq(new, before(i) + 1, before(i) + Len(Constants(e.kids[i])))
    IN  IF e.op = "int" THEN new[1]
        ELSE [e EXCEPT !.kids = [i \in DOMAIN @ |-> WithConstants(@[i], part(i))]]

\* The rolls of a block, and the last one that the search comes to: behind a
\* roll it goes on after the statement that ended it.
EndOfRoll(block, i) ==
    LET rest == {k \in (i + 1)..Len(block) : RollOf(block[k]) # RollOf(block[i])}
    IN  IF rest = {} THEN Len(block) + 1 ELSE CHOOSE k \in rest : \A j \in rest : k <= j
RECURSIVE LastRoll(_, _, _)
LastRoll(block, i, last) ==
    IF i > Len(block) THEN last
    ELSE IF RollOf(block[i]) = NoRoll THEN LastRoll(block, i + 1, last)
    ELSE LastRoll(block, EndOfRoll(block, i) + 1, i)

\* Whether a constant is the number of its statement
Counts(column) == \A k \in DOMAIN column : column[k] = k - 1

\* process_match on the statements from..to; unique_counter names the variables
RollUp(block, from, to, counter) ==
    LET constants == [k \in from..to |-> Constants(block[k].what)]
        n == to - from + 1
        column(c) == [k \in 1..n |-> constants[from + k - 1][c]]
        columns == DOMAIN constants[from]
        arrays == SelectSeq([c \in columns |-> c], LAMBDA c : ~Counts(column(c)))
        numbered(prefix, k) == prefix \o ToString(counter + k - 1)
        array(c) == numbered("roll_var_", CHOOSE k \in DOMAIN arrays : arrays[k] = c)
        index == Var(numbered("index_var_", Len(arrays) + 1))
        element(c) == IF Counts(column(c)) THEN index ELSE Index(Var(array(c)), index)
        ListOf(c) == [op |-> "list", kids |-> [k \in 1..n |-> IntConst(column(c)[k])]]
    IN  [block |->
            SubSeq(block, 1, from - 1)
              \o [k \in DOMAIN arrays |-> Declare(array(arrays[k]), ListOf(arrays[k]))]
              \o <<For(NoTag, Declare(index.name, IntConst(0)),
                       Cond(Binary("lt", index, IntConst(n)), 0),
                       Do(Assign(index, Binary("plus", index, IntConst(1)))),
                       <<Rolled(RollOf(block[from]),
                                WithConstants(block[from].what, [c \in columns |-> element(c)]))>>)>>
              \o SubSeq(block, to + 1, Len(block)),
         counter |-> counter + Len(arrays) + 1,
         \* the statements of a roll are assumed to have as many constants
         raised |-> \E k \in from..to : DOMAIN constants[k] # columns]

\* loop_roll_finder::visit(stmt_block), with the blocks inside first
RECURSIVE RollBlock(_, _), RollAll(_)
RollArms(s, counter) ==
    FoldLeft(LAMBDA acc, arm :
                With(RollBlock(arm, acc.counter),
                     LAMBDA r : [arms |-> Append(acc.arms, r.block), counter |-> r.counter,
                                 raised |-> acc.raised \/ r.raised]),
             [arms |-> <<>>, counter |-> counter, raised |-> FALSE], s.arms)
RollBlock(block, counter) ==
    RollAll(FoldLeft(LAMBDA acc, s :
                With(RollArms(s, acc.counter),
                     LAMBDA r : [block |-> Append(acc.block, [s EXCEPT !.arms = r.arms]),
                                 counter |-> r.counter, raised |-> acc.raised \/ r.raised]),
             [block |-> <<>>, counter |-> counter, raised |-> FALSE], block))
RollAll(acc) ==
    LET i == LastRoll(acc.block, 1, 0)
        next == RollUp(acc.block, i, EndOfRoll(acc.block, i) - 1, acc.counter)
    IN  IF i = 0 \/ acc.raised THEN acc ELSE RollAll(next)
=============================================================================
