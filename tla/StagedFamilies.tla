--------------------------- MODULE StagedFamilies ---------------------------
(***************************************************************************)
(* Staged functions for TLC: families of control-flow graphs over a few    *)
(* points, every member of which is checked.                               *)
(***************************************************************************)
EXTENDS Naturals, Sequences, SequencesExt, TLC

Name == <<"a", "b", "c", "d", "e", "f">>

\* The points a graph may have, going on to the points `to' and `other'
Node(ops, to, other) ==
    [op : ops \cap {"expr", "decl"}, next : to, other : {0}]
    \cup [op : ops \cap {"branch"}, next : to, other : other]

Upto(n) == [i \in 1..n |-> i]

\* Every point is reachable, and on every cycle there is a declaration or a
\* branch: a staged loop of expression statements alone commits nothing, so
\* add_stmt_to_current_block never sees its tags again and the C++ program
\* itself loops.
Proper(g) ==
    LET Expr == {i \in DOMAIN g : g[i].op = "expr"}
    IN  /\ \A R \in SUBSET (DOMAIN g) :
              1 \in R /\ (\A i \in R : {g[i].next, g[i].other} \subseteq R \cup {0})
                => R = DOMAIN g
        /\ \A C \in SUBSET Expr \ {{}} : \E i \in C : g[i].next \notin C

\* Loops: an edge to a point that dominates its start leads back to the head of a
\* loop; a graph is reducible if it has no cycle without such an edge, as are those
\* of programs without goto.
Edges(g) == UNION {{<<i, g[i].next>>, <<i, g[i].other>>} : i \in DOMAIN g} \ ((DOMAIN g) \X {0})
ReachedBy(g, from, edges) ==
    FoldLeft(LAMBDA R, k : R \cup {e[2] : e \in {d \in edges : d[1] \in R}}, from, Upto(Len(g)))
Dominates(g, h, i) ==
    i = h \/ i \notin ReachedBy(g, {1} \ {h}, {e \in Edges(g) : h \notin {e[1], e[2]}})
BackEdges(g) == {e \in Edges(g) : Dominates(g, e[2], e[1])}
LoopHeads(g) == {e[2] : e \in BackEdges(g)}
Reducible(g) ==
    LET forward == Edges(g) \ BackEdges(g)
    IN  \A i \in DOMAIN g :
            i \notin ReachedBy(g, {e[2] : e \in {d \in forward : d[1] = i}}, forward)

\* All graphs of three points; four points where the next edges of branches
\* make a chain; the acyclic ones of three and of four points.
Any3 == {g \in [1..3 -> Node({"expr", "branch"}, 0..3, 0..3)] : Proper(g)}
Chain4 ==
    LET At(next) == Node({"expr"}, 0..4, {0}) \cup Node({"branch"}, {next}, (0..4) \ {next})
    IN  {g \in At(2) \X At(3) \X At(4) \X At(0) : Proper(g)}
Acyclic3(ops) ==
    LET At(to) == Node(ops, to, to)
    IN  {g \in At({0, 2, 3}) \X At({0, 3}) \X At({0}) : Proper(g)}
Acyclic4(ops) ==
    LET At(to) == Node(ops, to, to)
    IN  {g \in At({0, 2, 3, 4}) \X At({0, 3, 4}) \X At({0, 4}) \X At({0}) : Proper(g)}

\* The graph g with the locations loc, every point with a content of its own
Staged(g, loc, returns) ==
    [code |-> [i \in DOMAIN g |-> [op |-> g[i].op, loc |-> loc[i], what |-> Name[i],
                                   next |-> g[i].next, other |-> g[i].other]],
     returns |-> returns]

\* Contents that mean something to the for loop finder; a declaration has its
\* content as its location.
Plain(uses) == [is |-> "plain", var |-> "", uses |-> uses]
About(i, is, uses) == [is |-> is, var |-> i, uses |-> uses]
MCRole ==
    [w \in {Name[i] : i \in DOMAIN Name} |-> Plain({})] @@
    ("int i" :> Plain({}) @@ "i = 0" :> About("int i", "assign", {}) @@
     "i < n" :> About("int i", "below", {"int i"}) @@
     "i++" :> About("int i", "update", {"int i"}) @@
     "i += j" :> About("int i", "update", {"int i", "int j"}) @@
     "int j" :> Plain({"int i"}) @@ "use i" :> Plain({"int i"}) @@ "use j" :> Plain({"int j"}))

MCWhat == DOMAIN MCRole
Again(point) == [point EXCEPT !.loc = @ \o " again"]      \* at another place
MCLoc == MCWhat \cup {w \o " again" : w \in MCWhat}

\* The functions made of graphs with the locations of their points
StagedAs(located) == {Staged(l[1], l[2], FALSE) : l \in located}

\* Well staged: the static_vars tell all points apart.
Distinct == (Any3 \cup Chain4) \X {Name}
MCReturning == {Staged(g, Name, TRUE) : g \in Acyclic3({"expr", "decl", "branch"})}

\* Two points share a tag: one has to be deduplicated or split.
TwoWays(g) == \A i \in DOMAIN g : g[i].op = "branch" => g[i].next # g[i].other
Shared == {g \in Any3 : TwoWays(g)} \X {<<"a", "a", "b">>, <<"a", "b", "a">>, <<"a", "b", "b">>}
SharedExprs ==
    {l \in Shared : \A i, j \in 1..3 : i # j /\ l[2][i] = l[2][j] => l[1][i].op = "expr"}

\* Two conditions share a tag, on different paths.
Split3 == Acyclic3({"branch"}) \X {<<"a", "b", "b">>}
Split4 == Acyclic4({"branch"}) \X {<<"a", "b", "c", "c">>}
MCSplit4 == StagedAs(Split4)

\* if (a ? b : (c ? d : e)) f, with b, d and e under one tag: the condition
\* variable of one split is assigned to that of another.
MCSplitTwice ==
    {Staged(<<[op |-> "branch", next |-> 2, other |-> 3],
              [op |-> "branch", next |-> 6, other |-> 0],
              [op |-> "branch", next |-> 4, other |-> 5],
              [op |-> "branch", next |-> 6, other |-> 0],
              [op |-> "branch", next |-> 6, other |-> 0],
              [op |-> "expr",   next |-> 0, other |-> 0]>>,
            <<"a", "b", "c", "b", "b", "f">>, FALSE)}

\* Counting loops:
\*   1: int i;   or   i = 0;
\*   2: if (! (i < n)) goto 5;
\*   3: a;   or   int j;   or   if (! b) goto 2, 4, 5 or 6
\*   4: i++;   or   i += j;  goto 2
\*   5: use i;   or a;
\*   6: i++;   or   i += j;   or   c;  goto 2
Does(op, what, next, other) ==
    [op |-> op, loc |-> what, what |-> what, next |-> next, other |-> other]
MCCounting ==
    {[code |-> code, returns |-> FALSE] : code \in
        {Does("decl", "int i", 2, 0)}
          \X {Does("branch", "i < n", 3, 5)}
          \X ({Does("expr", "a", 4, 0), Does("decl", "int j", 4, 0)}
                \cup {Does("branch", "b", 4, other) : other \in {2, 5, 6}})
          \X {Does("expr", "i++", 2, 0), Does("expr", "i += j", 2, 0)}
          \X {Does("expr", "use i", 0, 0), Does("expr", "d", 0, 0)}
          \X {Again(Does("expr", w, 2, 0)) : w \in {"i++", "i += j", "c"}}}

\* Point 3 declares j if it is used later.
MCCountingScoped ==
    {p \in MCCounting :
        "int j" \notin {p.code[3].what} => "i += j" \notin {p.code[4].what, p.code[6].what}}

\* if (a) again: { b; if (c) goto again; d; if (a) goto again; }
MCInverted ==
    {[code |-> <<Does("branch", "a", 2, 0), Does("expr", "b", 3, 0), Does("branch", "c", 2, 4),
                 Does("expr", "d", 5, 0), Again(Does("branch", "a", 2, 0))>>,
      returns |-> FALSE]}

\* Graphs of structured programs, with at most two loops, and loops that are entered
\* in the middle, which the normalizer has to copy for: if (a) b; if (c) goto b;
MCLoops4 ==
    {Staged(g, Name, FALSE) : g \in {h \in Chain4 : Cardinality(LoopHeads(h)) \in {1, 2} /\ Reducible(h)}}
EnteredTwice(ops) ==
    {g \in [1..3 -> Node(ops, 0..3, 0..3)] : /\ \A e \in Edges(g) : e[2] # 1
                                            /\ Proper(g) /\ ~ Reducible(g)}
MCEnteredTwice == {Staged(g, Name, FALSE) : g \in EnteredTwice({"expr", "decl", "branch"})}

\* a: a; d: d; b: if (! b) goto b; if (c) goto d; goto a;
\* Three loops, and behind the innermost one two ways, to either of the outer ones
MCTwoExits ==
    {Staged(<<[op |-> "expr", next |-> 4, other |-> 0], [op |-> "branch", next |-> 3, other |-> 2],
              [op |-> "branch", next |-> 4, other |-> 1], [op |-> "expr", next |-> 2, other |-> 0]>>,
            Name, FALSE)}

\* if (a) goto e; if (d) { if (c) return; } b: b; e: if (e); goto b;
\* A loop that is entered at both of its statements: a run reuses what another run
\* extracted from b on, although it has visited e.
MCReuse ==
    {Staged(<<[op |-> "branch", next |-> 5, other |-> 4], [op |-> "expr", next |-> 5, other |-> 0],
              [op |-> "branch", next |-> 0, other |-> 2], [op |-> "branch", next |-> 3, other |-> 2],
              [op |-> "branch", next |-> 2, other |-> 2]>>,
            Name, FALSE)}

\* A declaration that is reached in two ways, by the loop and from in front of it:
\*   1: if (a) goto 3;
\*   2: if (! b) goto out;
\*   3: int i;
\*   4: use i;   or   if (! c) goto 3;
\*   5: use i;   or   d;   goto 2 or out
MCMerged ==
    {p \in {[code |-> code, returns |-> FALSE] : code \in
         {Does("branch", "a", 3, 2)}
           \X {Does("branch", "b", 3, 0)}
           \X {Does("decl", "int i", 4, 0)}
           \X ({Again(Does("expr", "use i", 5, 0))} \cup {Does("branch", "c", 5, 3)})
           \X {Does("expr", w, next, 0) : w \in {"use i", "d"}, next \in {0, 2}}} : Proper(p.code)}
MCStructured ==
    MCLoops4 \cup MCEnteredTwice \cup MCCountingScoped \cup StagedAs(Split3)
      \cup MCSplitTwice \cup MCMerged \cup MCReturning

MCAll == MCReturning \cup StagedAs(Distinct \cup Shared \cup Split3 \cup Split4)
MCFaithfulUnstructured == MCReturning \cup StagedAs(Distinct \cup SharedExprs)
=============================================================================
