------------------------------ MODULE Forking ------------------------------
(***************************************************************************)
(* What the extraction engine promises, without the way it keeps it: the   *)
(* staged function is walked from its entry; a walk that meets a condition *)
(* waits while two walks go on from there, first with the answer true,     *)
(* then with the answer false; a walk ends at the end of the function or,  *)
(* cut short, at a statement that some walk has passed.  There is no       *)
(* running again and no catching up: a walk just begins where it is split  *)
(* off.                                                                    *)
(***************************************************************************)
EXTENDS StagedProgram, SequencesExt

VARIABLES
    source,     \* the staged function
    walks,      \* the walks under way, each split off from the one before it
    passed      \* the places passed

vars == <<source, walks, passed>>

\* What is seen of a point: points of one place cannot be told apart.
Place(i) == [loc |-> source.code[i].loc, what |-> source.code[i].what]

Walk == [is : {"going", "true", "false", "ended"},  \* true: its true branch is walked
         at : 0..Len(source.code),      \* the point it is about to pass
         asked : BOOLEAN]               \* has passed, and asks for the answer

StartAt(i) == [is |-> "going", at |-> i, asked |-> FALSE]
Ended == [is |-> "ended", at |-> Exit, asked |-> FALSE]

Init ==
    /\ source \in Program
    /\ walks = <<StartAt(1)>>
    /\ passed = {}

last == Last(walks)
Going == walks # <<>> /\ last.is = "going"
Meets == Going /\ ~ last.asked /\ last.at # Exit
IsBranch(i) == source.code[i].op = "branch"
Becomes(w) == walks' = [walks EXCEPT ![Len(walks)] = w]

\* A statement is passed.
Pass ==
    /\ Meets
    /\ passed' = passed \cup {Place(last.at)}
    /\ Becomes(IF IsBranch(last.at) THEN [last EXCEPT !.asked = TRUE]
               ELSE StartAt(source.code[last.at].next))
    /\ UNCHANGED source

\* The walk is cut short: from here on some walk has been.
Cut ==
    /\ Meets /\ Place(last.at) \in passed
    /\ Becomes(Ended)
    /\ UNCHANGED <<source, passed>>

\* The end of the function
Finish ==
    /\ Going /\ last.at = Exit
    /\ Becomes(Ended)
    /\ UNCHANGED <<source, passed>>

\* A condition: the true branch is walked.
Fork ==
    /\ Going /\ last.asked
    /\ walks' = Append([walks EXCEPT ![Len(walks)].is = "true"],
                       StartAt(source.code[last.at].next))
    /\ UNCHANGED <<source, passed>>

HasEnded == walks # <<>> /\ last.is = "ended"
waiting == walks[Len(walks) - 1]

\* The false branch
Turn ==
    /\ HasEnded /\ Len(walks) > 1 /\ waiting.is = "true"
    /\ walks' = SubSeq(walks, 1, Len(walks) - 2) \o
                  <<[waiting EXCEPT !.is = "false"], StartAt(source.code[waiting.at].other)>>
    /\ UNCHANGED <<source, passed>>

\* Both branches have been walked.
Join ==
    /\ HasEnded /\ Len(walks) > 1 /\ waiting.is = "false"
    /\ walks' = Append(SubSeq(walks, 1, Len(walks) - 2), Ended)
    /\ UNCHANGED <<source, passed>>

Done ==
    /\ HasEnded /\ Len(walks) = 1
    /\ walks' = <<>>
    /\ UNCHANGED <<source, passed>>

Next == Pass \/ Cut \/ Finish \/ Fork \/ Turn \/ Join \/ Done
Spec == Init /\ [][Next]_vars

-----------------------------------------------------------------------------
TypeOK ==
    /\ source \in Program
    /\ walks \in Seq(Walk)
    /\ passed \subseteq [loc : Loc, what : What]

\* No two points are taken for one another.
PlacesApart ==
    \A i, j \in DOMAIN source.code : Place(i) = Place(j) => i = j

\* Whatever a point that has been passed may go on to has been passed.
Passed(i) == i = Exit \/ Place(i) \in passed
Successors(i) == {source.code[i].next} \cup (IF IsBranch(i) THEN {source.code[i].other} ELSE {})

\* In the end every point that the staged function can reach has been passed,
\* although most walks are cut short.
Explored ==
    walks = <<>> /\ PlacesApart =>
        /\ Passed(1)
        /\ \A i \in DOMAIN source.code : Passed(i) => \A j \in Successors(i) : Passed(j)
=============================================================================
