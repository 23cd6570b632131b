---------------------------- MODULE Expressions ----------------------------
(***************************************************************************)
(* The expressions of the AST (src/include/blocks/expr.h) as trees: an     *)
(* operator, named after its class, and the operands.  A variable is known *)
(* by its name: is_same of var compares static tags, and var_namer gives   *)
(* variables of one tag one name.                                          *)
(***************************************************************************)
EXTENDS Integers, Sequences, SequencesExt, Functions, Strict

UnaryOps == {"not", "unary_minus", "bitwise_not", "addr_of"}      \* and cast
ArithmeticOps == {"plus", "minus", "mul", "div", "mod", "lshift", "rshift"}
LogicOps == {"and", "bitwise_and", "or", "bitwise_or", "bitwise_xor"}
ComparisonOps == {"lt", "gt", "lte", "gte", "equals", "ne"}
BinaryOps == ArithmeticOps \cup LogicOps \cup ComparisonOps

Var(x) == [op |-> "var", name |-> x, kids |-> <<>>]
\* `long' is is_64bit
IntConst(n) == [op |-> "int", value |-> n, long |-> FALSE, kids |-> <<>>]
Unary(op, e) == [op |-> op, kids |-> <<e>>]
Binary(op, l, r) == [op |-> op, kids |-> <<l, r>>]
Cast(type, e) == [op |-> "cast", type |-> type, kids |-> <<e>>]
Assign(target, e) == [op |-> "assign", kids |-> <<target, e>>]
\* `star' is the metadata deref_is_star that the operator * leaves
Index(e, i) == [op |-> "sq_bkt", star |-> FALSE, kids |-> <<e, i>>]
Star(e) == [op |-> "sq_bkt", star |-> TRUE, kids |-> <<e, IntConst(0)>>]
Member(e, m) == [op |-> "member", member |-> m, kids |-> <<e>>]
Call(f, args) == [op |-> "call", kids |-> <<f>> \o args]

IsUnary(e) == e.op \in UnaryOps \cup {"cast"}
IsStar(e) == e.op = "sq_bkt" /\ e.star /\ e.kids[2].op = "int" /\ e.kids[2].value = 0

\* All sub-expressions, operands first, as the visitors that call
\* block_visitor::visit before they look at a node meet them
RECURSIVE Postorder(_)
Postorder(e) ==
    Append(FlattenSeq([i \in DOMAIN e.kids |-> Postorder(e.kids[i])]), e)
Subexprs(e) == ToSet(Postorder(e))
Uses(e) == {s.name : s \in {u \in Subexprs(e) : u.op = "var"}}

-----------------------------------------------------------------------------
(* is_same: `same', `different', or `fails' where an assertion does; kids   *)
(* are the verdicts on the operands.                                       *)

\* The first verdict that is not `same' decides
Decides(verdicts) == SelectInSeq(verdicts, LAMBDA v : v # "same")
Verdict(verdicts) == IF Decides(verdicts) = 0 THEN "same" ELSE verdicts[Decides(verdicts)]
When(same) == IF same THEN "same" ELSE "different"

\* The is_same of not, unary_minus and bitwise_not accepts any unary
\* expression, and then converts it to their own class
UnaryIsSame(a, b, kids) ==
    IF ~IsUnary(b) THEN "different" ELSE IF a.op # b.op THEN "fails" ELSE kids[1]
AddrOfIsSame(a, b, kids) ==
    IF b.op # "addr_of" THEN "different" ELSE kids[1]
CastIsSame(a, b, kids) ==
    IF b.op # "cast" THEN "different" ELSE Verdict(<<kids[1], When(a.type = b.type)>>)
BinaryIsSame(a, b, kids) ==
    IF b.op # a.op THEN "different" ELSE Verdict(<<kids[1], kids[2]>>)
VarIsSame(a, b) == When(b.op = "var" /\ a.name = b.name)
\* a mistake: the value is not compared either
IntIsSameAny(a, b) == When(b.op = "int")
\* The width is not compared
IntIsSame(a, b) == When(b.op = "int" /\ a.value = b.value)
AssignIsSame(a, b, kids) ==
    IF b.op # "assign" THEN "different" ELSE Verdict(<<kids[1], kids[2]>>)
\* The metadata is not compared
IndexIsSame(a, b, kids) ==
    IF b.op # "sq_bkt" THEN "different" ELSE Verdict(<<kids[1], kids[2]>>)
CallIsSame(a, b, kids) ==
    IF b.op # "call" THEN "different"
    ELSE IF Len(a.kids) # Len(b.kids) THEN Verdict(<<kids[1], "different">>)
    ELSE Verdict(kids)
MemberIsSame(a, b, kids) ==
    IF b.op # "member" THEN "different"
    ELSE Verdict(<<kids[1], When(a.member = b.member)>>)

RECURSIVE IsSame(_, _)
IsSame(a, b) ==
    LET kids == [i \in DOMAIN a.kids \cap DOMAIN b.kids |-> IsSame(a.kids[i], b.kids[i])]
    IN  CASE a.op = "var" -> VarIsSame(a, b)
          [] a.op = "int" -> IntIsSame(a, b)
          [] a.op = "assign" -> AssignIsSame(a, b, kids)
          [] a.op = "sq_bkt" -> IndexIsSame(a, b, kids)
          [] a.op = "call" -> CallIsSame(a, b, kids)
          [] a.op = "member" -> MemberIsSame(a, b, kids)
          [] a.op = "addr_of" -> AddrOfIsSame(a, b, kids)
          [] a.op = "cast" -> CastIsSame(a, b, kids)
          [] IsUnary(a) -> UnaryIsSame(a, b, kids)
          [] a.op \in BinaryOps -> BinaryIsSame(a, b, kids)
=============================================================================
