---------------------------- MODULE ExtractedFlow ----------------------------
(***************************************************************************)
(* The order of the extracted statements: read as a program, what          *)
(* extract_ast_from_run returns (builder_context.cpp) goes on from every   *)
(* statement to what the staged function goes on to from the point the     *)
(* statement was made for.                                                 *)
(***************************************************************************)
EXTENDS Extraction

\* The tags tell all points apart, as the static_vars are there to ensure.
PointsApart ==
    \A p, q \in DOMAIN prog.code : prog.code[p].loc = prog.code[q].loc => p = q
PlacesOf == {Exit} \cup DOMAIN prog.code

\* Where the staged function is when it comes to a statement; a goto stands for the
\* point it goes to.
PointAt(loc) == CHOOSE p \in DOMAIN prog.code : prog.code[p].loc = loc
At(s) == CASE s.kind = "return" -> Exit
           [] s.kind = "goto" -> PointAt(s.to.loc)
           [] OTHER -> PointAt(s.tag.loc)

\* Where the statements q begin if the place p comes after them
Enters(q, p) == IF q = <<>> THEN p ELSE At(stmts[Head(q)])

\* The statement i does what its point does and goes on to p; after[j] is the place
\* behind the if j.
GoesTo(i, p, after) ==
    LET s == stmts[i]
        point == prog.code[At(s)]
    IN  CASE s.kind \in {"goto", "return"} -> TRUE
          [] s.kind = "if" -> after[i] = p
          [] OTHER -> s.what = point.what /\ point.op # "branch" /\ point.next = p

\* So do the statements q, one after the other
FlowsTo(q, p, after) ==
    \A k \in DOMAIN q :
        GoesTo(q[k], IF k = Len(q) THEN p ELSE At(stmts[q[k + 1]]), after)

\* They lead from one place of the staged function to another
Leads(q, from, to, after) == FlowsTo(q, to, after) /\ Enters(q, to) = from

\* The branches of the if i begin where its condition leads to and join behind it.
Branching(i, after) ==
    LET s == stmts[i]
        point == prog.code[At(s)]
    IN  /\ s.what = point.what /\ point.op = "branch"
        /\ Leads(blocks[s.thn], point.next, after[i], after)
        /\ Leads(blocks[s.els], point.other, after[i], after)
Ifs == {i \in DOMAIN stmts : stmts[i].kind = "if"}

\* When the extraction is over its statements do what the staged function does, in
\* every order the function does them, whatever has been copied from other runs and
\* whatever trim_common_from_back has moved: there is a place behind every if that
\* both of its branches lead to, and from the first statement to the last each one is
\* followed by the statement, or the goto to the statement, of the point that follows.
Flows ==
    stack = <<>> /\ PointsApart =>
       \E after \in [Ifs -> PlacesOf] :
          /\ Leads(blocks[1], 1, Exit, after)
          /\ \A i \in Ifs : Branching(i, after)
=============================================================================
