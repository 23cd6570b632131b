------------------------------ MODULE ControlFlow ------------------------------
(***************************************************************************)
(* How a C++ compiler understands the nested statements of the AST: the    *)
(* order in which they are executed.                                       *)
(***************************************************************************)
EXTENDS Blocks

End == 0        \* behind the last statement

\* The number of entries of a block in the listing
RECURSIVE Size(_)
Size(block) ==
    FoldLeft(LAMBDA n, stmt : n + (IF stmt.kind = "for" THEN 3 ELSE 1)
                                + FoldLeft(LAMBDA m, arm : m + Size(arm), 0, stmt.arms), 0, block)

Line(stmt, next, other) == <<[stmt |-> stmt, next |-> next, other |-> other]>>

\* The listing of a block from `first' on: control goes from each entry to
\* `next', or to `other' when a condition is false.  `after' is where it goes
\* behind the block, `out' and `again' where a break and a continue lead.
RECURSIVE Lines(_, _, _, _, _)
Lines(block, first, after, out, again) ==
    LET start(k) == first + Size(SubSeq(block, 1, k - 1))
        next(k) == IF k = Len(block) THEN after ELSE start(k + 1)
        enter(arm, p, else) == IF arm = <<>> THEN else ELSE p
        lines(k) ==
            LET s == block[k]
                p == start(k)
                thn == s.arms[1]
                els == s.arms[2]
            IN  CASE s.kind = "if" ->
                        Line(s, enter(thn, p + 1, next(k)), enter(els, p + 1 + Size(thn), next(k)))
                          \o Lines(thn, p + 1, next(k), out, again)
                          \o Lines(els, p + 1 + Size(thn), next(k), out, again)
                  [] s.kind = "while" ->
                        Line(s, enter(thn, p + 1, p), next(k)) \o Lines(thn, p + 1, p, next(k), p)
                  [] s.kind = "for" ->
                        Line(s.first, p + 1, p + 1) \o Line(s, enter(thn, p + 3, p + 2), next(k))
                          \o Line(s.update, p + 1, p + 1)
                          \o Lines(thn, p + 3, p + 2, next(k), p + 2)
                  [] s.kind = "break" -> Line(s, out, out)
                  [] s.kind = "continue" -> Line(s, again, again)
                  [] OTHER -> Line(s, next(k), next(k))
    IN  FlattenSeq([k \in DOMAIN block |-> lines(k)])

\* The listing of an AST: a goto leads to its label.
Listing(ast) ==
    LET lines == Lines(ast, 1, End, End, End)
        target(l) == CHOOSE k \in DOMAIN lines : lines[k].stmt = Label(l)
    IN  [k \in DOMAIN lines |-> IF lines[k].stmt.kind # "goto" THEN lines[k]
                                ELSE [lines[k] EXCEPT !.next = target(lines[k].stmt.label)]]
=============================================================================
