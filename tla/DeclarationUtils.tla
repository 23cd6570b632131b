--------------------------- MODULE DeclarationUtils ---------------------------
(***************************************************************************)
(* Declarations that are taken apart (src/src/blocks/declaration_utils.cpp, *)
(* and the same in loop_normalizer.cpp): the variable is declared without  *)
(* a value elsewhere, and the declaration becomes an assignment.           *)
(***************************************************************************)
EXTENDS Blocks

CONSTANT
    Unsplittable    \* contents of declarations that must stay whole: extern,
                    \* static, typedef, const, reference, array, function type

Splittable(decl) == decl.what \notin Unsplittable
Hoisted(decl) == [decl EXCEPT !.init = FALSE]

SplitDeclaration(decl) ==
    IF decl.init THEN <<Expr(decl.tag, decl.what, decl.var, 0)>> ELSE <<>>

SplitDeclarations(ast, decls) ==
    LET split == {v \in Visits(ast) : /\ v.stmt.kind = "decl"
                                      /\ \E d \in ToSet(decls) : Variable(d) = Variable(v.stmt)}
    IN  Edit(ast, [p \in {v.at : v \in split} |-> SplitDeclaration(StmtAt(ast, p))])
=============================================================================
