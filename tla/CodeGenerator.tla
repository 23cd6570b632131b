--------------------------- MODULE CodeGenerator ---------------------------
(***************************************************************************)
(* How c_code_generator writes an expression.  The text is a sequence of   *)
(* pieces, each a token of C or a space, so that what a space keeps apart  *)
(* and what grows together without one can be told.                        *)
(***************************************************************************)
EXTENDS Expressions, TLC

LevelOf(ops, level) == [op \in ops |-> level]
Level ==
    LevelOf({"var", "int"}, 0) @@ LevelOf({"call", "sq_bkt", "member"}, 2)
    @@ LevelOf(UnaryOps \cup {"cast"}, 3) @@ LevelOf({"mul", "div", "mod"}, 5)
    @@ LevelOf({"plus", "minus"}, 6) @@ LevelOf({"lshift", "rshift"}, 7)
    @@ LevelOf({"lt", "lte", "gt", "gte"}, 9) @@ LevelOf({"equals", "ne"}, 10)
    @@ LevelOf({"bitwise_and"}, 11) @@ LevelOf({"bitwise_xor"}, 12)
    @@ LevelOf({"bitwise_or"}, 13) @@ LevelOf({"and"}, 14) @@ LevelOf({"or"}, 15)
    @@ LevelOf({"assign"}, 16)
RightAssoc == {3, 16}
Precedence(e) == IF IsStar(e) THEN 3 ELSE Level[e.op]

\* a mistake: operands of the same precedence are never bracketed
NeedsBracketLoose(parent, child, is_left) == Precedence(child) > Precedence(parent)

\* expr_needs_bracket
NeedsBracket(parent, child, is_left) ==
    \/ Precedence(child) > Precedence(parent)
    \/ /\ Precedence(child) = Precedence(parent)
       /\ (Precedence(child) \in RightAssoc) = is_left

UnarySign == "not" :> "!" @@ "unary_minus" :> "-" @@ "bitwise_not" :> "~" @@ "addr_of" :> "&"
BinarySign ==
    "and" :> "&&" @@ "bitwise_and" :> "&" @@ "or" :> "||" @@ "bitwise_or" :> "|"
    @@ "bitwise_xor" :> "^" @@ "plus" :> "+" @@ "minus" :> "-" @@ "mul" :> "*" @@ "div" :> "/"
    @@ "lt" :> "<" @@ "gt" :> ">" @@ "lte" :> "<=" @@ "gte" :> ">=" @@ "lshift" :> "<<"
    @@ "rshift" :> ">>" @@ "equals" :> "==" @@ "ne" :> "!=" @@ "mod" :> "%" @@ "assign" :> "="

\* A negative constant is written with its sign
IntPieces(e) ==
    LET digits(n) == <<ToString(n) \o IF e.long THEN "ll" ELSE "">>
    IN  IF e.value < 0 THEN <<"-">> \o digits(-e.value) ELSE digits(e.value)

Commas(args) ==
    FlattenSeq([i \in DOMAIN args |-> (IF i = 1 THEN <<>> ELSE <<",", " ">>) \o args[i]])

\* A call f(a, b), an index p[i] or the dereference *p, and the member p.m,
\* which is p->m when the parent is a dereference
CallPieces(f, args) == f \o <<"(">> \o Commas(args) \o <<")">>
IndexPieces(e, base, index) ==
    IF IsStar(e) THEN <<"*">> \o base ELSE base \o <<"[">> \o index \o <<"]">>

RECURSIVE Pieces(_)
Pieces(e) ==
    LET Child(child, is_left) ==
            IF NeedsBracket(e, child, is_left) THEN <<"(">> \o Pieces(child) \o <<")">>
            ELSE Pieces(child)
        First == Child(e.kids[1], TRUE)
    IN  CASE e.op = "var" -> <<e.name>>
          [] e.op = "int" -> IntPieces(e)
          [] e.op \in UnaryOps -> <<UnarySign[e.op]>> \o Child(e.kids[1], FALSE)
          [] e.op = "cast" -> <<"(", e.type, ")">> \o Child(e.kids[1], FALSE)
          [] e.op \in DOMAIN BinarySign ->
                First \o <<" ", BinarySign[e.op], " ">> \o Child(e.kids[2], FALSE)
          [] e.op = "call" -> CallPieces(First, [i \in 1..Len(e.kids) - 1 |-> Pieces(e.kids[i + 1])])
          [] e.op = "sq_bkt" -> IndexPieces(e, First, Pieces(e.kids[2]))
          [] e.op = "member" /\ IsStar(e.kids[1]) ->
                Child(e.kids[1].kids[1], TRUE) \o <<"->", e.member>>
          [] e.op = "member" -> First \o <<".", e.member>>

-----------------------------------------------------------------------------
(* How a compiler reads the text: the longest tokens first, then the       *)
(* grammar of C.  This does not look at the levels above.                  *)

Grown == {<<"-", "-">>, <<"&", "&">>}       \* pieces that make one token
Tokens(pieces) ==
    LET Take(read, piece) ==
            IF piece = " " THEN [tokens |-> read.tokens, apart |-> TRUE]
            ELSE IF ~read.apart /\ <<Last(read.tokens), piece>> \in Grown
            THEN [tokens |-> Append(Front(read.tokens), Last(read.tokens) \o piece),
                  apart |-> FALSE]
            ELSE [tokens |-> Append(read.tokens, piece), apart |-> FALSE]
    IN  FoldLeft(Take, [tokens |-> <<>>, apart |-> TRUE], pieces).tokens

\* The operators of two operands, those that bind most first
Grammar == <<{"mul", "div", "mod"}, {"plus", "minus"}, {"lshift", "rshift"},
             {"lt", "gt", "lte", "gte"}, {"equals", "ne"}, {"bitwise_and"}, {"bitwise_xor"},
             {"bitwise_or"}, {"and"}, {"or"}>>
Loosest == Len(Grammar)

Unreadable == [op |-> "unreadable", kids |-> <<>>]
Numbers == [text \in {ToString(n) : n \in 0..9} |-> CHOOSE n \in 0..9 : ToString(n) = text]
LongNumbers == [text \in {n \o "ll" : n \in DOMAIN Numbers} |->
                    Numbers[CHOOSE n \in DOMAIN Numbers : n \o "ll" = text]]
TypeNames == {"int", "float"}
Punctuation == {"(", ")", "[", "]", ",", ".", "->", "--", "!", "~"}
               \cup {BinarySign[op] : op \in DOMAIN BinarySign}
Follows(tokens, t) == tokens # <<>> /\ Head(tokens) = t
Read(e, rest) == [e |-> e, rest |-> rest]
\* What was read, if the token t follows it
Closed(read, t) ==
    IF Follows(read.rest, t) THEN Read(read.e, Tail(read.rest)) ELSE Read(Unreadable, <<>>)

RECURSIVE ReadExpr(_), ReadLevel(_, _), ReadMore(_, _), ReadUnary(_), ReadPostfix(_), ReadArgs(_)
ReadExpr(tokens) ==
    LET l == ReadLevel(Loosest, tokens)
        r == ReadExpr(Tail(l.rest))
    IN  IF Follows(l.rest, "=") /\ l.e.op \in {"var", "sq_bkt", "member"}
        THEN Read(Assign(l.e, r.e), r.rest) ELSE l
ReadLevel(level, tokens) ==
    IF level = 0 THEN ReadUnary(tokens) ELSE ReadMore(level, ReadLevel(level - 1, tokens))
\* One level is read from left to right
ReadMore(level, l) ==
    LET ops == {op \in Grammar[level] : Follows(l.rest, BinarySign[op])}
        r == ReadLevel(level - 1, Tail(l.rest))
    IN  IF ops = {} THEN l
        ELSE ReadMore(level, Read(Binary(CHOOSE op \in ops : TRUE, l.e, r.e), r.rest))
ReadUnary(tokens) ==
    LET signs == {op \in UnaryOps : Follows(tokens, UnarySign[op])}
        operand == ReadUnary(Tail(tokens))
        cast == ReadUnary(SubSeq(tokens, 4, Len(tokens)))
    IN  IF signs # {} THEN Read(Unary(CHOOSE op \in signs : TRUE, operand.e), operand.rest)
        ELSE IF Follows(tokens, "*") THEN Read(Star(operand.e), operand.rest)
        ELSE IF Follows(tokens, "(") /\ tokens[2] \in TypeNames
        THEN Read(Cast(tokens[2], cast.e), cast.rest)
        ELSE IF Follows(tokens, "(") THEN ReadPostfix(Closed(ReadExpr(Tail(tokens)), ")"))
        ELSE IF tokens = <<>> \/ Head(tokens) \in Punctuation THEN Read(Unreadable, <<>>)
        ELSE ReadPostfix(Read(
                IF Head(tokens) \in DOMAIN Numbers THEN IntConst(Numbers[Head(tokens)])
                ELSE IF Head(tokens) \in DOMAIN LongNumbers
                THEN [IntConst(LongNumbers[Head(tokens)]) EXCEPT !.long = TRUE]
                ELSE Var(Head(tokens)), Tail(tokens)))
ReadPostfix(l) ==
    LET inside == Tail(l.rest)
        index == Closed(ReadExpr(inside), "]")
        args == ReadArgs(inside)
    IN  IF Follows(l.rest, "[") THEN ReadPostfix(Read(Index(l.e, index.e), index.rest))
        ELSE IF Follows(l.rest, "(") THEN ReadPostfix(Read(Call(l.e, args.e), args.rest))
        ELSE IF Follows(l.rest, ".") THEN ReadPostfix(Read(Member(l.e, inside[1]), Tail(inside)))
        ELSE IF Follows(l.rest, "->")
        THEN ReadPostfix(Read(Member(Star(l.e), inside[1]), Tail(inside)))
        ELSE l
ReadArgs(tokens) ==
    LET arg == ReadExpr(tokens)
        others == ReadArgs(Tail(arg.rest))
    IN  IF Follows(tokens, ")") THEN Read(<<>>, Tail(tokens))
        ELSE IF Follows(arg.rest, ",") THEN Read(<<arg.e>> \o others.e, others.rest)
        ELSE Read(<<arg.e>>, Closed(arg, ")").rest)

\* What the text of an expression should be read as: C has no negative
\* constants
RECURSIVE Meant(_)
Meant(e) ==
    IF e.op = "int" /\ e.value < 0 THEN Unary("unary_minus", [e EXCEPT !.value = -@])
    ELSE [e EXCEPT !.kids = [i \in DOMAIN @ |-> Meant(@[i])]]
ReadBack(e) == ReadExpr(Tokens(Pieces(e))) = Read(Meant(e), <<>>)
=============================================================================
