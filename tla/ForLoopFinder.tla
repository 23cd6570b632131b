----------------------------- MODULE ForLoopFinder -----------------------------
(***************************************************************************)
(* The for loop finder (src/src/blocks/for_loop_finder.cpp): a while loop  *)
(* on v < n, right behind a declaration of v or an assignment to it, every *)
(* end of whose body updates v alike, becomes a for loop.                  *)
(***************************************************************************)
EXTENDS DeclarationUtils

CONSTANT
    Role    \* what the user's contents are to this pass: `is' an "assign" (v = ..),
            \* an "update" (v = v + ..), "below" (v < ..) or "plain", with the
            \* variable `var' and the variables `uses' that occur in it

\* A variable is known by the location of its declaration.
Users(stmt) == stmt.kind \in {"expr", "decl"} /\ stmt.var = 0
Is(stmt, kinds) == stmt.kind = "expr" /\ Users(stmt) /\ Role[stmt.what].is \in kinds
IsUpdate(stmt, v) == Is(stmt, {"update"}) /\ Role[stmt.what].var = v

\* The variable that the statement before the loop declares or assigns
Starts(stmt, v) ==
    /\ Users(stmt)
    /\ \/ stmt.kind = "decl" /\ stmt.tag.loc = v
       \/ Is(stmt, {"assign", "update"}) /\ Role[stmt.what].var = v
IsBelow(cond, v) ==
    /\ cond.nots = 0 /\ cond.what # NoWhat
    /\ Role[cond.what].is = "below" /\ Role[cond.what].var = v

\* var_use_finder: an assignment made of a declaration also has its variable
UsedBy(what) == IF what = NoWhat THEN {} ELSE Role[what].uses
OfUser(stmt) ==
    UsedBy(stmt.what) \cup IF Is(stmt, {"assign"}) THEN {Role[stmt.what].var} ELSE {}
UsesInSimple(stmt) ==
    IF Users(stmt) /\ (stmt.kind = "expr" \/ stmt.init) THEN OfUser(stmt) ELSE {}
UsesIn(stmt) ==
    CASE stmt.kind \in {"if", "while"} -> UsedBy(stmt.cond.what)
      [] stmt.kind = "for" ->
            UsedBy(stmt.cond.what) \cup UsesInSimple(stmt.first) \cup UsesInSimple(stmt.update)
      [] OTHER -> UsesInSimple(stmt)
UsesOf(block) == UNION {UsesIn(v.stmt) : v \in Visits(block)}

-----------------------------------------------------------------------------
(* Where the loop's body updates v *)

\* is_last_update: every end of the block updates v or leaves the loop
RECURSIVE EndsInUpdates(_, _)
EndsInUpdates(block, v) ==
    /\ block # <<>>
    /\ \/ IsKind(block, "break")
       \/ IsUpdate(Last(block), v)
       \/ IsKind(block, "if") /\ \A a \in {1, 2} : EndsInUpdates(Last(block).arms[a], v)

\* The positions of these updates
RECURSIVE LastUpdates(_, _, _)
LastUpdates(block, v, at) ==
    LET p == Append(at, Len(block))
    IN  IF IsUpdate(Last(block), v) THEN {p}
        ELSE IF IsKind(block, "if")
        THEN UNION {LastUpdates(Last(block).arms[a], v, Append(p, a)) : a \in {1, 2}}
        ELSE {}

\* continue_blocks, as the loop finder has left them: the continues that belong
\* to this loop, each the last statement of its block
RECURSIVE ContinuesFrom(_, _)
ContinuesFrom(block, at) ==
    UNION {LET p == Append(at, i)
           IN  IF block[i].kind = "continue" THEN {p}
               ELSE IF block[i].kind # "if" THEN {}
               ELSE UNION {ContinuesFrom(block[i].arms[a], Append(p, a)) : a \in {1, 2}} :
           i \in DOMAIN block}
Continues(body) == ContinuesFrom(body, <<>>)
BeforeContinue(p) == Append(BlockOf(p), Last(p) - 1)
UpdatesContinues(body, v) ==
    \A p \in Continues(body) : Last(p) > 1 /\ IsUpdate(StmtAt(body, BeforeContinue(p)), v)

UpdatePlaces(body, v) == LastUpdates(body, v, <<>>) \cup {BeforeContinue(p) : p \in Continues(body)}
Updates(body, v) == {StmtAt(body, p).what : p \in UpdatePlaces(body, v)}

\* Declarations in the body of variables the update uses
ToHoist(body, v) ==
    SelectSeq(Declarations(body),
              LAMBDA d : \E w \in Updates(body, v) : Users(d) /\ d.tag.loc \in UsedBy(w))

-----------------------------------------------------------------------------
(* The loop at i in a block, behind a statement about the variable v *)

Convertible(block, i, v) ==
    /\ i > 1 /\ block[i].kind = "while"
    /\ Starts(block[i - 1], v) /\ IsBelow(block[i].cond, v)
    /\ EndsInUpdates(block[i].arms[1], v)
    /\ UpdatesContinues(block[i].arms[1], v)
    /\ Cardinality(Updates(block[i].arms[1], v)) <= 1
    /\ \A d \in ToSet(ToHoist(block[i].arms[1], v)) : Splittable(d)

\* The declaration stays in front of the loop if its variable is used behind it.
UsedAfter(block, i, v) == v \in UsesOf(SubSeq(block, i + 1, Len(block)))

ForLoop(block, i, v) ==
    LET body == block[i].arms[1]
        start == block[i - 1]
        hoisted == ToHoist(body, v)
        stays == start.kind = "decl" /\ UsedAfter(block, i, v)
        update == IF Updates(body, v) = {} THEN Nop
                  ELSE Expr(NoTag, CHOOSE w \in Updates(body, v) : TRUE, 0, 0)
        stripped == Edit(body, [p \in UpdatePlaces(body, v) |-> <<>>])
    IN  SubSeq(block, 1, i - 2)
          \o [k \in DOMAIN hoisted |-> Hoisted(hoisted[k])]
          \o (IF stays THEN <<start>> ELSE <<>>)
          \o <<For(start.tag, IF stays THEN Nop ELSE start, block[i].cond, update,
                   SplitDeclarations(stripped, hoisted))>>
          \o SubSeq(block, i + 1, Len(block))

Variables == {Role[w].var : w \in DOMAIN Role}

\* for_loop_finder::visit(stmt_block): the loops of a block, the first one first,
\* and then those inside
RECURSIVE FindForLoops(_)
FindForLoops(block) ==
    LET found == {i \in DOMAIN block : \E v \in Variables : Convertible(block, i, v)}
        first == Min(found)
        inner(stmt) == [stmt EXCEPT !.arms = [a \in DOMAIN @ |-> FindForLoops(@[a])]]
    IN  IF found # {}
        THEN FindForLoops(ForLoop(block, first, CHOOSE v \in Variables : Convertible(block, first, v)))
        ELSE [i \in DOMAIN block |-> inner(block[i])]
=============================================================================
