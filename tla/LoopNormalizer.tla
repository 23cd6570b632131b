---------------------------- MODULE LoopNormalizer ----------------------------
(***************************************************************************)
(* The loop normalizer (src/src/blocks/loop_normalizer.cpp).  The loop     *)
(* finder wants every goto in the block of its label or inside it; the     *)
(* extraction may leave them in sibling scopes.  The normalizer takes one  *)
(* such label after the other, copies what follows the label to every goto *)
(* outside of its block, and lets the copy go on to a new label in a       *)
(* common parent.                                                          *)
(***************************************************************************)
EXTENDS DeclarationUtils

(* find_candidate *)

\* a mistake: those in the next block around the label's
LocalGotosParent(ast, p) ==
    {g \in GotosTo(ast, StmtAt(ast, p).label) : Len(p) = 1 \/ Within(g, BlockOf(BlockOf(BlockOf(p))))}

LocalGotos(ast, p) == {g \in GotosTo(ast, StmtAt(ast, p).label) : Within(g, BlockOf(p))}
ExternalGotos(ast, p) == GotosTo(ast, StmtAt(ast, p).label) \ LocalGotos(ast, p)

\* Labels with a goto outside of their block, in the order of the visitor
Candidates(ast, skipped) ==
    SelectSeq(Walk(ast), LAMBDA v : /\ v.stmt.kind = "label"
                                    /\ v.stmt.label \notin skipped
                                    /\ ExternalGotos(ast, v.at) # {})

\* The blocks around the position p are at the levels 0 .. Level(p).
Level(p) == (Len(p) - 1) \div 2
BlockAtLevel(p, n) == SubSeq(p, 1, 2 * n)

\* The innermost block around that of the label with all the gotos
CommonLevel(ast, p) ==
    Max({0} \cup {n \in 0..(Level(p) - 1) : \A g \in GotosTo(ast, StmtAt(ast, p).label) :
                                                Within(g, BlockAtLevel(p, n))})

-----------------------------------------------------------------------------
(* normalize *)

\* What is executed after the label, out to the common parent: the rest of one
\* block after the other, until a goto or a return
Leaving(stmt) == stmt.kind \in {"goto", "return"}
RestOfBlock(ast, p, n) ==
    LET block == BlockAt(ast, BlockAtLevel(p, n)) IN SubSeq(block, p[2 * n + 1] + 1, Len(block))
Continuations(ast, p) ==
    FlattenSeq([i \in 1..(Level(p) - CommonLevel(ast, p)) |-> RestOfBlock(ast, p, Level(p) + 1 - i)])
Source(ast, p) ==
    LET all == Continuations(ast, p)
        stops == {i \in DOMAIN all : Leaving(all[i])}
    IN  IF stops = {} THEN all ELSE SubSeq(all, 1, Min(stops))
FallsThrough(source) == \A i \in DOMAIN source : ~ Leaving(source[i])

\* copied_label_rewriter: a copy gets labels of its own, from the number
\* `entry' on, which is the label for `target'.  A goto follows if its label
\* is the target or has been passed on the way to the goto.
Renamed(copy, target, entry) ==
    LET walk == Walk(copy)
        labels == {i \in DOMAIN walk : walk[i].stmt.kind = "label"}
        number(i) == entry + Cardinality({j \in labels : j <= i})
        passed(i) == {j \in labels : j < i /\ walk[j].stmt.label = walk[i].stmt.label}
        renamed(i) == IF i \in labels THEN Label(number(i))
                      ELSE IF walk[i].stmt.label = target THEN Goto(entry)
                      ELSE IF passed(i) # {} THEN Goto(number(Max(passed(i))))
                      ELSE walk[i].stmt
        index(p) == CHOOSE i \in DOMAIN walk : walk[i].at = p
    IN  Edit(copy, [p \in {walk[i].at : i \in {j \in DOMAIN walk :
                             walk[j].stmt.kind \in {"label", "goto"}}} |-> <<renamed(index(p))>>])

NewLabel(ast) == 1 + Max({0} \cup {v.stmt.label : v \in {u \in Visits(ast) : u.stmt.kind = "label"}})
LabelCount(ast) == Cardinality({v \in Visits(ast) : v.stmt.kind = "label"})

\* In the order of the visitor
Earlier(ast, p, g) ==
    LET walk == Walk(ast)
        index(q) == CHOOSE i \in DOMAIN walk : walk[i].at = q
    IN  index(p) < index(g)

\* A copy of the source instead of the goto g, under the labels from `entry' on
CopyAt(source, target, entry, back) ==
    <<Label(entry)>> \o Renamed(source, target, entry)
                     \o IF FallsThrough(source) THEN <<Goto(back)>> ELSE <<>>

\* One round of normalizer::run for the label at p
Normalize(ast, p) ==
    LET target == StmtAt(ast, p).label
        level == CommonLevel(ast, p)
        source == Source(ast, p)
        decls == Declarations(source)
        copied == SplitDeclarations(source, decls)
        split == SplitDeclarations(ast, decls)
        label == (CHOOSE v \in Visits(split) : v.stmt = Label(target)).at
        owner == SubSeq(label, 1, 2 * level + 1)
        jumps == ExternalGotos(split, label)
        back == NewLabel(ast)
        entry(g) == back + 1 + (1 + LabelCount(copied)) *
                        Cardinality({h \in jumps : Earlier(split, h, g)})
    IN  Change(split,
               [g \in jumps |-> CopyAt(copied, target, entry(g), back)],
               [q \in {owner} |-> [before |-> [i \in DOMAIN decls |-> Hoisted(decls[i])],
                                   after |-> <<Label(back)>>]])

\* A label whose continuation has a declaration that cannot be split is skipped.
MustSkip(ast, p) ==
    LET decls == Declarations(Source(ast, p)) IN \E i \in DOMAIN decls : ~ Splittable(decls[i])
=============================================================================
