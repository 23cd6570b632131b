--------------------------- MODULE StagedExecution ---------------------------
(***************************************************************************)
(* What the generated function promises: it does, statement by statement,  *)
(* what the staged function says, every dyn_var condition being decided    *)
(* when the generated function runs.  `event' is the last thing done: the  *)
(* statement executed and, for a branch, the value its condition had; its  *)
(* `turn' flips with every statement, so that doing the same thing twice   *)
(* is not doing it once.                                                   *)
(***************************************************************************)
EXTENDS StagedProgram

VARIABLES
    source,     \* the staged function
    point,      \* where it is
    event       \* the last statement executed

Nothing == [what |-> "nothing", taken |-> TRUE, turn |-> FALSE]
Finished == [what |-> "end", taken |-> TRUE, turn |-> FALSE]

Successor(p, i, taken) ==
    IF p.code[i].op = "branch" /\ ~ taken THEN p.code[i].other ELSE p.code[i].next

Init == source \in Program /\ point = 1 /\ event = Nothing

\* Only a branch has a value.
Execute ==
    /\ point # Exit
    /\ \E taken \in IF source.code[point].op = "branch" THEN BOOLEAN ELSE {TRUE} :
          /\ event' = [what |-> source.code[point].what, taken |-> taken, turn |-> ~ event.turn]
          /\ point' = Successor(source, point, taken)
    /\ UNCHANGED source

Finish == point = Exit /\ event' = Finished /\ UNCHANGED <<source, point>>

Next == Execute \/ Finish
vars == <<source, point, event>>

Spec == Init /\ [][Next]_vars /\ WF_vars(Next)
=============================================================================
