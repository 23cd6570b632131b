---------------------------- MODULE StagedProgram ----------------------------
(***************************************************************************)
(* What the extraction engine sees of the user's staged function: a finite *)
(* control-flow graph of points.  A point is a place of the C++ source     *)
(* together with the values of the static_vars there, which is what decides *)
(* how the run goes on; the library runs the function from point 1 and is  *)
(* called back at every point:                                             *)
(*   "expr"    an expression statement: create_expr (to_expr.h)            *)
(*   "decl"    the declaration of a dyn_var: create_var_decl_stmt          *)
(*   "branch"  an `if' on a dyn_var: a condition expression is created,    *)
(*             then operator bool asks get_next_bool which way to go       *)
(* Loc is what a static tag records of a point (the return addresses and   *)
(* the snapshot of the live static_vars, tracer.h): two points with one    *)
(* Loc are told apart only by `what', the content that is_same compares.   *)
(***************************************************************************)
EXTENDS Naturals, Sequences

CONSTANTS
    Loc,        \* what a tag can record of a point
    What,       \* the contents of expressions and declarations
    Programs    \* the staged functions considered

Exit == 0       \* the staged function returns

Ops == {"expr", "decl", "branch"}

\* `other' is where a branch goes when its condition is false.
Point == [op : Ops, loc : Loc, what : What, next : Nat, other : Nat]

Program == {p \in [code : Seq(Point), returns : BOOLEAN] :
              /\ Len(p.code) > 0
              /\ \A i \in DOMAIN p.code :
                    {p.code[i].next, p.code[i].other} \subseteq 0..Len(p.code)}

ASSUME ProgramsAssumption == Programs \subseteq Program
=============================================================================
