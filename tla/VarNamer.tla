------------------------------- MODULE VarNamer -------------------------------
(***************************************************************************)
(* The variable namer (src/src/blocks/var_namer.cpp): declarations with    *)
(* one tag, which the extraction made on different paths, become           *)
(* assignments to one variable, declared at the top.                       *)
(***************************************************************************)
EXTENDS Blocks

DeclsOf(ast) == SelectSeq(Walk(ast), LAMBDA v : v.stmt.kind = "decl")

\* Positions in DeclsOf that are not the first of their variable
Repeated(decls) ==
    {i \in DOMAIN decls : \E j \in 1..(i - 1) : Variable(decls[j].stmt) = Variable(decls[i].stmt)}

\* var_hoister: a declaration of a variable that is hoisted becomes an
\* assignment, or a mere mention of the variable
Flattened(decl) ==
    IF decl.init THEN Expr(decl.tag, decl.what, decl.var, 0) ELSE Nop

\* The variables to hoist, in the order of their second declarations
ToHoist(ast) ==
    LET decls == DeclsOf(ast)
        again(i) == Variable(decls[i].stmt)
        second == {i \in Repeated(decls) : \A j \in Repeated(decls) : j < i => again(j) # again(i)}
    IN  [k \in 1..Cardinality(second) |->
            decls[CHOOSE i \in second : Cardinality({j \in second : j <= i}) = k].stmt]

NameVarsInPlace(ast) ==     \* a mistake: declared where the first declaration was
    LET decls == DeclsOf(ast)
    IN  Edit(ast, [p \in {decls[i].at : i \in Repeated(decls)} |-> <<Flattened(StmtAt(ast, p))>>])
NameVars(ast) ==
    LET hoisted == ToHoist(ast)
        flat == {v.at : v \in {u \in Visits(ast) : u.stmt.kind = "decl" /\
                    \E i \in DOMAIN hoisted : Variable(hoisted[i]) = Variable(u.stmt)}}
    IN  [i \in DOMAIN hoisted |-> [hoisted[i] EXCEPT !.init = FALSE]]
          \o Edit(ast, [p \in flat |-> <<Flattened(StmtAt(ast, p))>>])
=============================================================================
