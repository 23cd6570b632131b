------------------------------ MODULE IfSwitcher ------------------------------
(***************************************************************************)
(* The if switcher (src/src/blocks/if_switcher.cpp): an if with statements *)
(* in its else branch only is turned round, and a do-while loop under an   *)
(* if of its own condition becomes a while loop.                           *)
(***************************************************************************)
EXTENDS Blocks

TurnedRound(ifs) ==
    IF ifs.arms[1] = <<>> /\ ifs.arms[2] # <<>>
    THEN If(ifs.tag, Not(ifs.cond), ifs.arms[2], <<>>) ELSE ifs

\* if (c) while (1) { ...; if (! c) break; }
IsDoWhile(body, cond) ==
    /\ IsKind(body, "if")
    /\ Last(body).cond = Not(cond)
    /\ Last(body).arms = <<<<Break>>, <<>>>>

\* fix_loop_inversion.  continue_counter is sent to the loop itself, whose visit
\* returns at once: that the loop has no continue is not checked.
LoopInverted(ifs) ==
    LET loop == ifs.arms[1][1]
    IN  IF /\ Len(ifs.arms[1]) = 1 /\ ifs.arms[2] = <<>>
           /\ loop.kind = "while" /\ loop.cond = Always
           /\ IsDoWhile(loop.arms[1], ifs.cond)
        THEN While(ifs.cond, Front(loop.arms[1])) ELSE ifs

RECURSIVE SwitchIfs(_)
SwitchIfs(block) ==
    LET turned(stmt) == IF stmt.kind = "if" THEN TurnedRound(stmt) ELSE stmt
        inner(stmt) == [stmt EXCEPT !.arms = [a \in DOMAIN @ |-> SwitchIfs(@[a])]]
    IN  [i \in DOMAIN block |->
            LET stmt == inner(turned(block[i]))
            IN  IF stmt.kind = "if" THEN LoopInverted(stmt) ELSE stmt]
=============================================================================
