----------------------- MODULE ExtractionMemo_proofs -----------------------
(***************************************************************************)
(* What memoized_tags says of the statements extracted so far, for staged  *)
(* functions no two conditions of which share a tag.  A tag is memoized    *)
(* with a block that has a statement with it, except while the statement   *)
(* is on its way from one block to another: trimmed from a branch, popped  *)
(* as a condition, about to be added.  Where it is then, a run that is     *)
(* executing the staged function has visited it, and looks up no tag it    *)
(* has visited.                                                            *)
(***************************************************************************)
EXTENDS ExtractionDepth_proofs

\* Every statement has been made of a point of the staged function, or by the engine.
\* No condition is a condition variable, since no if has been split.
IsOf(s, p) == s.tag.loc = prog.code[p].loc /\ s.what = prog.code[p].what
FromPoint(s) ==
    /\ s.var = 0 /\ s.from = 0
    /\ s.kind \in {"expr", "decl"} =>
          \E p \in DOMAIN prog.code : IsOf(s, p) /\ s.kind = StmtAt(p).kind
    /\ s.kind = "if" => \E p \in Branches : IsOf(s, p)
AllMade == \A i \in DOMAIN stmts : FromPoint(stmts[i])

\* A call that waits for its branches was interrupted at a condition.
Waiting(f) == f.phase \in {"then", "else", "trim"}
Interrupted(f) ==
    Waiting(f) =>
       /\ f.pc \in Branches /\ f.ifTag = StmtAt(f.pc).tag
       /\ f.cond = [what |-> prog.code[f.pc].what, var |-> 0]

\* Statements are queued, trimmed and memoized only when the branches are there.
Idle(f) ==
    /\ f.phase # "add" => f.queue = <<>>
    /\ Live(f) \/ f.phase = "memo" => f.tail = <<>>
    /\ f.phase # "memo" => f.cursor = 1

\* A tag is visited once, and a condition is the only statement with its tag.
Once(f) == \A v, w \in f.visited : v.tag = w.tag => v = w
Uncopied(f) ==
    Live(f) => \A v \in f.visited : \A p \in Branches :
                  v.tag.loc = prog.code[p].loc => v.tag.dedup = 0

Sound(f) == Interrupted(f) /\ Idle(f) /\ Once(f) /\ Uncopied(f)
AllSound == \A k \in 1..Len(stack) : Sound(stack[k])

\* The block of a call is its own.  Until the call has finished no tag is memoized in
\* it, and while the staged function executes it shares no statement.
Owns(k) ==
    LET b == stack[k].block
    IN  /\ \A j \in 1..Len(stack) : /\ stack[j].block = b => j = k
                                    /\ b \notin {stack[j].thn, stack[j].els}
        /\ \A i \in DOMAIN stmts : b \notin {stmts[i].thn, stmts[i].els}
        /\ \A t \in DOMAIN memo : memo[t] = b => k = Len(stack) /\ top.phase = "memo"
AllOwn == \A k \in 1..Len(stack) : Owns(k)

Elsewhere(i, b) ==
    \/ \E c \in DOMAIN blocks \ {b} : i \in ToSet(blocks[c])
    \/ i \in ToSet(top.queue) \cup ToSet(top.tail)
Unshared(k) ==
    LET b == stack[k].block
    IN  Live(stack[k]) => \A i \in ToSet(blocks[b]) : ~ Elsewhere(i, b)
AllUnshared == \A k \in 1..Len(stack) : Unshared(k)

\* The statements a call has visited are in its block or in one of its callers', but
\* for the condition the call was interrupted at; and the other way round.
Marks(f) == TagsOf(f.block) \cup (IF Waiting(f) THEN {f.ifTag} ELSE {})
Placed(v, f) ==
    \/ v.stmt \in ToSet(blocks[f.block]) /\ stmts[v.stmt].tag = v.tag
    \/ Waiting(f) /\ f.ifTag = v.tag
AllPlaced ==
    \A k \in 1..Len(stack) : \A v \in stack[k].visited : \E j \in 1..k : Placed(v, stack[j])

Tags(f) == {v.tag : v \in f.visited}
Inherited(k) == Live(stack[k]) => \A j \in 1..k : Marks(stack[j]) \subseteq Tags(stack[k])
AllInherited == \A k \in 1..Len(stack) : Inherited(k)

\* The innermost call f has yet to memoize t: a statement with the tag is in its block
\* or is about to be.
Due(f, t) ==
    \/ f.phase # "memo" /\ t \in Marks(f)
    \/ \E i \in ToSet(f.tail) : stmts[i].tag = t
    \/ /\ f.phase = "add" /\ f.queue # <<>> /\ stmts[Head(f.queue)].tag = t
       /\ t \notin Tags(f)
    \/ /\ f.phase = "memo"
       /\ \E n \in f.cursor..Len(blocks[f.block]) : stmts[blocks[f.block][n]].tag = t
Pending(t) == Due(top, t) \/ \E k \in 1..(Len(stack) - 1) : t \in Marks(stack[k])
MemoKept == \A t \in DOMAIN memo \ {NoTag} : t \in TagsOf(memo[t]) \/ Pending(t)

\* The innermost call f has yet to find the if i, and to forget the tags in its branches.
Coming(f, i) ==
    \/ f.phase = "add" /\ i \in ToSet(f.queue) \cup ToSet(blocks[f.block])
    \/ f.phase = "memo" /\ \E n \in f.cursor..Len(blocks[f.block]) : blocks[f.block][n] = i
ArmsForgotten ==
    ~ FeatureUnstructured =>
       \A t \in DOMAIN memo \ {NoTag}, i \in DOMAIN stmts :
          stmts[i].kind = "if" /\ memo[t] \in {stmts[i].thn, stmts[i].els} =>
             Pending(t) \/ Coming(top, i)

\* Holds while functions whose conditions are apart are extracted
Shape == AllMade /\ AllSound
Ownership == AllOwn /\ AllUnshared
Visits == AllPlaced /\ AllInherited
Memo == MemoKept /\ ArmsForgotten
Apart ==
    /\ DInv /\ ConditionsApart /\ stack # <<>>
    /\ Shape /\ Ownership /\ Visits /\ Memo

\* The inductive invariant
MInv == DInv /\ (ConditionsApart /\ stack # <<>> => Apart)

-----------------------------------------------------------------------------
(* The elements of sequences *)

LEMMA ElementsAppend ==
    ASSUME NEW S, NEW q \in Seq(S), NEW e
    PROVE  ToSet(Append(q, e)) = ToSet(q) \cup {e}
<1>1. PICK r : r = Append(q, e)
  OBVIOUS
<1>2. /\ Len(q) \in Nat /\ DOMAIN q = 1..Len(q) /\ DOMAIN r = 1..(Len(q) + 1)
      /\ r[Len(q) + 1] = e /\ \A i \in 1..Len(q) : r[i] = q[i]
  BY <1>1
<1>3. \A i \in 1..(Len(q) + 1) : i \in 1..Len(q) \/ i = Len(q) + 1
  BY <1>2
<1>4. Len(q) + 1 \in DOMAIN r /\ \A i \in DOMAIN q : i \in DOMAIN r
  BY <1>2
<1>5. ToSet(r) \subseteq ToSet(q) \cup {e}
  BY <1>2, <1>3 DEF ToSet
<1>6. ToSet(q) \cup {e} \subseteq ToSet(r)
  BY <1>2, <1>4 DEF ToSet
<1> QED
  BY <1>1, <1>5, <1>6

LEMMA ElementsJoin ==
    ASSUME NEW S, NEW q \in Seq(S), NEW r \in Seq(S)
    PROVE  ToSet(q \o r) = ToSet(q) \cup ToSet(r)
<1>1. PICK u : u = q \o r
  OBVIOUS
<1>2. /\ Len(q) \in Nat /\ Len(r) \in Nat /\ DOMAIN q = 1..Len(q) /\ DOMAIN r = 1..Len(r)
      /\ DOMAIN u = 1..(Len(q) + Len(r))
      /\ \A i \in 1..Len(q) : u[i] = q[i] /\ \A j \in 1..Len(r) : u[Len(q) + j] = r[j]
  BY <1>1
<1>3. ASSUME NEW i \in DOMAIN u PROVE u[i] \in ToSet(q) \cup ToSet(r)
  <2>1. CASE i \in 1..Len(q)
    BY <1>2, <2>1 DEF ToSet
  <2>2. CASE i \notin 1..Len(q)
    <3>1. PICK j \in 1..Len(r) : i = Len(q) + j
      <4>1. i - Len(q) \in 1..Len(r) /\ i = Len(q) + (i - Len(q))
        BY <1>2, <2>2
      <4> QED
        BY <4>1
    <3>2. u[i] = r[j]
      <4>1. \A k \in 1..Len(r) : u[Len(q) + k] = r[k]
        BY <1>1
      <4> QED
        BY <3>1, <4>1
    <3> QED
      BY <1>2, <3>2 DEF ToSet
  <2> QED
    BY <2>1, <2>2
<1>4. ASSUME NEW i \in DOMAIN q PROVE q[i] \in ToSet(u)
  <2>1. i \in DOMAIN u /\ u[i] = q[i]
    BY <1>1, <1>2
  <2> QED
    BY <2>1 DEF ToSet
<1>5. ASSUME NEW j \in DOMAIN r PROVE r[j] \in ToSet(u)
  <2>1. Len(q) + j \in DOMAIN u /\ u[Len(q) + j] = r[j]
    BY <1>1, <1>2
  <2> QED
    BY <2>1 DEF ToSet
<1>6. ToSet(u) \subseteq ToSet(q) \cup ToSet(r)
  BY <1>3 DEF ToSet
<1>7. ToSet(q) \subseteq ToSet(u)
  BY <1>4 DEF ToSet
<1>8. ToSet(r) \subseteq ToSet(u)
  BY <1>5 DEF ToSet
<1> QED
  BY <1>1, <1>6, <1>7, <1>8

LEMMA ElementsOne == \A e : ToSet(<<e>>) = {e}
<1>1. \A e : DOMAIN <<e>> = {1} /\ <<e>>[1] = e
  OBVIOUS
<1> QED
  BY <1>1 DEF ToSet

LEMMA ElementsNone == ToSet(<<>>) = {}
BY DEF ToSet

LEMMA ElementsFront ==
    ASSUME NEW S, NEW q \in Seq(S), q # <<>>
    PROVE  /\ ToSet(q) = ToSet(Front(q)) \cup {Last(q)} /\ Front(q) \in Seq(S)
           /\ Last(q) \in S
<1>1. PICK r : r = Front(q)
  BY Zenon
<1>2. PICK n \in Nat : Len(q) = n + 1 /\ DOMAIN q = 1..(n + 1)
  <2>1. Len(q) \in Nat \ {0} /\ DOMAIN q = 1..Len(q)
    BY EmptySeq
  <2>2. Len(q) - 1 \in Nat /\ Len(q) = (Len(q) - 1) + 1
    BY <2>1
  <2> QED
    BY <2>1, <2>2
<1>3. DOMAIN r = 1..n /\ \A i \in 1..n : r[i] = q[i]
  BY <1>1, <1>2 DEF Front
<1>4. \A i \in 1..(n + 1) : i \in 1..n \/ i = n + 1
  OBVIOUS
<1>5. \A i \in 1..n : i \in 1..(n + 1)
  OBVIOUS
<1>6. Last(q) = q[n + 1] /\ n + 1 \in DOMAIN q
  BY <1>2 DEF Last
<1>7. ToSet(q) \subseteq ToSet(r) \cup {Last(q)}
  BY <1>2, <1>3, <1>4, <1>6 DEF ToSet
<1>8. ToSet(r) \cup {Last(q)} \subseteq ToSet(q)
  BY <1>2, <1>3, <1>5, <1>6 DEF ToSet
<1> QED
  BY <1>1, <1>7, <1>8, FrontType, LastType

LEMMA ElementsTail ==
    ASSUME NEW S, NEW q \in Seq(S), q # <<>>
    PROVE  ToSet(q) = ToSet(Tail(q)) \cup {Head(q)} /\ Tail(q) \in Seq(S) /\ Head(q) \in S
<1>1. PICK r : r = Tail(q)
  OBVIOUS
<1>2. /\ r \in Seq(S) /\ Len(q) = Len(r) + 1 /\ Len(r) \in Nat /\ Head(q) = q[1]
      /\ \A i \in 1..Len(r) : r[i] = q[i + 1]
  BY <1>1, Shortened
<1>3. DOMAIN q = 1..(Len(r) + 1) /\ DOMAIN r = 1..Len(r)
  BY <1>2
<1>4. ASSUME NEW i \in DOMAIN q PROVE q[i] \in ToSet(r) \cup {q[1]}
  <2>1. CASE i # 1
    <3>1. PICK j \in DOMAIN r : i = j + 1
      <4>1. i - 1 \in DOMAIN r /\ i = (i - 1) + 1
        BY <1>2, <1>3, <2>1
      <4> QED
        BY <4>1
    <3> QED
      BY <1>2, <1>3, <3>1 DEF ToSet
  <2> QED
    BY <2>1
<1>5. \A j \in DOMAIN r : r[j] = q[j + 1] /\ j + 1 \in DOMAIN q
  BY <1>2, <1>3
<1>6. 1 \in DOMAIN q
  BY <1>2, <1>3
<1>7. ToSet(q) \subseteq ToSet(r) \cup {q[1]}
  BY <1>4 DEF ToSet
<1>8. ToSet(r) \cup {q[1]} \subseteq ToSet(q)
  BY <1>5, <1>6 DEF ToSet
<1>9. q[1] \in S
  BY <1>6
<1> QED
  BY <1>1, <1>2, <1>7, <1>8, <1>9

LEMMA ElementsSub ==
    ASSUME NEW S, NEW q \in Seq(S), NEW m \in 1..Len(q)
    PROVE  ToSet(SubSeq(q, m, Len(q))) \subseteq ToSet(q) /\ SubSeq(q, m, Len(q)) \in Seq(S)
<1>1. PICK r : r = SubSeq(q, m, Len(q))
  OBVIOUS
<1>2. Len(q) \in Nat /\ DOMAIN q = 1..Len(q) /\ m \in Nat /\ 1 <= m
  OBVIOUS
<1>3. \A i \in DOMAIN r : i \in 1..(Len(q) - m + 1) /\ r[i] = q[m + i - 1]
  BY <1>1, <1>2
<1>4. \A i \in 1..(Len(q) - m + 1) : m + i - 1 \in DOMAIN q
  BY <1>2
<1>5. ToSet(r) \subseteq ToSet(q)
  BY <1>3, <1>4 DEF ToSet
<1>6. r \in Seq(S)
  BY <1>1, <1>2, SubSeqProperties
<1> QED
  BY <1>1, <1>5, <1>6

LEMMA ElementsType ==
    ASSUME NEW S, NEW q \in Seq(S)
    PROVE  ToSet(q) \subseteq S
BY DEF ToSet

-----------------------------------------------------------------------------
(* The heap and the calls *)

LEMMA HeapAt ==
    ASSUME TypeOK
    PROVE  /\ Len(stmts) \in Nat /\ DOMAIN stmts = 1..Len(stmts) /\ stmts \in Seq(Stmt)
           /\ Len(blocks) \in Nat /\ DOMAIN blocks = 1..Len(blocks)
           /\ \A i \in DOMAIN stmts : stmts[i] \in Stmt /\ stmts[i].tag \in Tag
           /\ \A b \in DOMAIN blocks : /\ blocks[b] \in Seq(DOMAIN stmts)
                                       /\ ToSet(blocks[b]) \subseteq DOMAIN stmts
           /\ \A t \in DOMAIN memo : memo[t] \in DOMAIN blocks /\ t \in Tag
<1>1. stmts \in Seq(Stmt) /\ blocks \in Seq(Seq(DOMAIN stmts))
  BY DEF TypeOK, HeapOK
<1>2. \A i \in DOMAIN stmts : stmts[i] \in Stmt
  BY <1>1, ElementOfSeq, LenProperties
<1>3. \A i \in DOMAIN stmts : stmts[i].tag \in Tag
  BY <1>2 DEF Stmt
<1>4. \A b \in DOMAIN blocks : blocks[b] \in Seq(DOMAIN stmts)
  BY <1>1, ElementOfSeq, LenProperties
<1>5. \A b \in DOMAIN blocks : ToSet(blocks[b]) \subseteq DOMAIN stmts
  BY <1>4, ElementsType
<1>6. \A t \in DOMAIN memo : memo[t] \in DOMAIN blocks /\ t \in Tag
  BY DEF TypeOK, MemoOK
<1> QED
  BY <1>1, <1>2, <1>3, <1>4, <1>5, <1>6, LenProperties

LEMMA InnerAt ==
    ASSUME Apart
    PROVE  /\ TypeOK /\ IInv /\ FInv /\ DInv /\ ConditionsApart /\ stack # <<>>
           /\ stack \in Seq(Call) /\ Len(stack) \in Nat \ {0} /\ Len(stack) \in 1..Len(stack)
           /\ top = stack[Len(stack)] /\ top \in Frame /\ top \in Call /\ Sound(top)
           /\ top.block \in DOMAIN blocks /\ Body \in Seq(DOMAIN stmts)
           /\ top.queue \in Seq(DOMAIN stmts) /\ top.tail \in Seq(DOMAIN stmts)
           /\ top.visited \subseteq [tag : Tag, stmt : DOMAIN stmts]
<1>1. FInv /\ IInv /\ TypeOK /\ DInv /\ stack # <<>>
  BY DEF Apart, DInv, FInv, IInv
<1>2. /\ Len(stack) \in Nat \ {0} /\ stack \in Seq(Call) /\ top = stack[Len(stack)]
      /\ top \in Frame /\ top \in Call
  BY <1>1, TopAt
<1>3. Len(stack) \in 1..Len(stack)
  BY <1>2
<1>4. Sound(top)
  BY <1>2, <1>3 DEF Apart, Shape, AllSound
<1>5. top.block \in DOMAIN blocks
  BY <1>2, Fields
<1>6. Body \in Seq(DOMAIN stmts)
  BY <1>1, <1>5, HeapAt DEF Body
<1> QED
  BY <1>1, <1>2, <1>3, <1>4, <1>5, <1>6, Fields DEF Apart

\* A statement may move when it is queued or trimmed, or in a block that the innermost
\* call may change or that has been memoized.
Movable(b) == b \in {top.block, top.thn, top.els} \/ \E t \in DOMAIN memo : memo[t] = b
Loose(i) ==
    \/ i \in ToSet(top.queue) \cup ToSet(top.tail)
    \/ \E b \in DOMAIN blocks : Movable(b) /\ i \in ToSet(blocks[b])

\* What the calls that wait for their branches own is out of reach.
LEMMA OuterAt ==
    ASSUME Apart, NEW k \in 1..(Len(stack) - 1)
    PROVE  /\ k \in 1..Len(stack) /\ stack[k] \in Frame /\ Live(stack[k])
           /\ stack[k].phase \in {"then", "else"} /\ Waiting(stack[k]) /\ Sound(stack[k])
           /\ stack[k].block \in DOMAIN blocks /\ ~ Movable(stack[k].block)
           /\ \A i \in ToSet(blocks[stack[k].block]) :
                 i \in DOMAIN stmts /\ ~ Loose(i) /\ ~ Elsewhere(i, stack[k].block)
<1>1. /\ DInv /\ TypeOK /\ stack \in Seq(Call) /\ Len(stack) \in Nat \ {0}
      /\ top = stack[Len(stack)] /\ Len(stack) \in 1..Len(stack)
  BY InnerAt
<1>2. k \in 1..Len(stack) /\ k # Len(stack)
  BY <1>1
<1>3. stack[k] \in Frame /\ Live(stack[k]) /\ stack[k].phase # "run"
  BY <1>1, WaitsOn
<1>4. stack[k].phase \in {"then", "else"} /\ Waiting(stack[k])
  BY <1>3 DEF Live, Waiting
<1>5. PICK b : b = stack[k].block
  OBVIOUS
<1>6. b \in DOMAIN blocks
  BY <1>3, <1>5, Fields
<1>7. Owns(k) /\ Unshared(k) /\ Sound(stack[k])
  BY <1>2 DEF Apart, Ownership, AllOwn, AllUnshared, Shape, AllSound
<1>8. ~ Movable(b)
  BY <1>1, <1>2, <1>5, <1>7 DEF Owns, Movable
<1>9. ASSUME NEW i \in ToSet(blocks[b]) PROVE i \in DOMAIN stmts /\ ~ Loose(i) /\ ~ Elsewhere(i, b)
  <2>1. i \in DOMAIN stmts
    BY <1>1, <1>6, HeapAt
  <2>2. ~ Elsewhere(i, b)
    BY <1>3, <1>5, <1>7 DEF Unshared
  <2>3. ~ Loose(i)
    BY <1>8, <2>2 DEF Loose, Elsewhere
  <2> QED
    BY <2>1, <2>2, <2>3
<1> QED
  BY <1>2, <1>3, <1>4, <1>5, <1>6, <1>7, <1>8, <1>9

\* A step that changes the innermost call to g
LEMMA InnerSet ==
    ASSUME Apart, NEW g, stack' = SetTop(g)
    PROVE  /\ stack' # <<>> /\ top' = g /\ Len(stack') = Len(stack) /\ stack'[Len(stack)] = g
           /\ \A k \in 1..(Len(stack) - 1) : stack'[k] = stack[k]
           /\ \A k \in 1..Len(stack) : k = Len(stack) \/ k \in 1..(Len(stack) - 1)
           /\ \A k \in 1..(Len(stack) - 1) : k \in 1..Len(stack) /\ k # Len(stack)
<1>1. IInv /\ stack # <<>> /\ Len(stack) \in Nat \ {0} /\ stack \in Seq(Call)
  BY InnerAt
<1>2. stack' # <<>> /\ top' = g
  BY <1>1, NewTop
<1> QED
  BY <1>1, <1>2 DEF SetTop

-----------------------------------------------------------------------------
(* What steps leave alone *)

\* The block b keeps its statements, their tags, and has them for itself.
BlockKept(b) ==
    /\ blocks'[b] = blocks[b]
    /\ \A i \in ToSet(blocks[b]) : stmts'[i].tag = stmts[i].tag /\ ~ Elsewhere(i, b)'
OuterKept ==
    \A k \in 1..(Len(stack) - 1) : \E b : b = stack[k].block /\ BlockKept(b)

LEMMA OuterSafe ==
    ASSUME Apart, NEW g, top' = g,
           \A c \in DOMAIN blocks : ~ Movable(c) => blocks'[c] = blocks[c],
           \A i \in DOMAIN stmts : i \notin ToSet(top.queue) => stmts'[i].tag = stmts[i].tag,
           \A i \in DOMAIN stmts : \A c \in DOMAIN blocks' :
              i \in ToSet(blocks'[c]) =>
                 Loose(i) \/ (c \in DOMAIN blocks /\ i \in ToSet(blocks[c])),
           \A i \in DOMAIN stmts : i \in ToSet(g.queue) \cup ToSet(g.tail) => Loose(i)
    PROVE  OuterKept
<1> SUFFICES ASSUME NEW k \in 1..(Len(stack) - 1)
             PROVE  \E b : b = stack[k].block /\ BlockKept(b)
  BY DEF OuterKept
<1>1. PICK b : b = stack[k].block
  OBVIOUS
<1>2. /\ b \in DOMAIN blocks /\ ~ Movable(b)
      /\ \A i \in ToSet(blocks[b]) : i \in DOMAIN stmts /\ ~ Loose(i) /\ ~ Elsewhere(i, b)
  BY <1>1, OuterAt
<1>3. blocks'[b] = blocks[b]
  BY <1>2
<1>4. ASSUME NEW i \in ToSet(blocks[b]) PROVE stmts'[i].tag = stmts[i].tag /\ ~ Elsewhere(i, b)'
  <2>1. i \in DOMAIN stmts /\ ~ Loose(i) /\ ~ Elsewhere(i, b)
    BY <1>2
  <2>2. stmts'[i].tag = stmts[i].tag
    BY <2>1 DEF Loose
  <2>3. i \notin ToSet(top'.queue) \cup ToSet(top'.tail)
    BY <2>1
  <2>4. \A c \in DOMAIN blocks' \ {b} : i \notin ToSet(blocks'[c])
    BY <2>1 DEF Elsewhere
  <2> QED
    BY <2>2, <2>3, <2>4 DEF Elsewhere
<1> QED
  BY <1>1, <1>3, <1>4 DEF BlockKept

\* A call that changes to g as its callers see it
Alike(f, g) ==
    /\ g.block = f.block /\ g.visited = f.visited /\ g.ifTag = f.ifTag
    /\ Waiting(g) <=> Waiting(f)
    /\ Live(g) => Live(f)

LEMMA MarksKept ==
    ASSUME NEW f, NEW g, Alike(f, g), NEW b, b = f.block, BlockKept(b)
    PROVE  Marks(g)' = Marks(f) /\ \A v : Placed(v, f) => Placed(v, g)'
<1>1. g.block = b /\ g.ifTag = f.ifTag /\ (Waiting(g) <=> Waiting(f))
  BY DEF Alike
<1>2. blocks'[b] = blocks[b] /\ \A i \in ToSet(blocks[b]) : stmts'[i].tag = stmts[i].tag
  BY DEF BlockKept
<1>3. TagsOf(b)' = TagsOf(b)
  BY <1>2 DEF TagsOf
<1>4. Marks(g)' = Marks(f)
  BY <1>1, <1>3 DEF Marks, Waiting
<1>5. ASSUME NEW v, Placed(v, f) PROVE Placed(v, g)'
  BY <1>1, <1>2, <1>5 DEF Placed, Waiting
<1> QED
  BY <1>4, <1>5

\* The n outermost calls look alike and keep their blocks.
LEMMA OuterVisits ==
    ASSUME Apart, NEW n \in Nat, n <= Len(stack),
           \A k \in 1..n : \E b : b = stack[k].block /\ BlockKept(b),
           \A k \in 1..n : \E g : g = stack'[k] /\ Alike(stack[k], g)
    PROVE  \A k \in 1..n :
              /\ Marks(stack[k])' = Marks(stack[k])
              /\ \A v \in stack'[k].visited : \E j \in 1..k : Placed(v, stack[j])'
              /\ Inherited(k)'
<1>1. Len(stack) \in Nat
  BY InnerAt
<1>2. ASSUME NEW k \in 1..n
      PROVE  /\ Marks(stack[k])' = Marks(stack[k])
             /\ \A v : Placed(v, stack[k]) => Placed(v, stack[k])'
             /\ stack'[k].visited = stack[k].visited /\ (Live(stack'[k]) => Live(stack[k]))
  <2>1. PICK f : f = stack[k]
    OBVIOUS
  <2>2. PICK g : g = stack'[k] /\ Alike(f, g)
    BY <2>1
  <2>3. PICK b : b = f.block /\ BlockKept(b)
    BY <2>1
  <2>4. Marks(g)' = Marks(f) /\ \A v : Placed(v, f) => Placed(v, g)'
    BY <2>2, <2>3, MarksKept
  <2>5. Marks(stack[k])' = Marks(g)' /\ \A v : Placed(v, stack[k])' <=> Placed(v, g)'
    BY <2>2 DEF Marks, Placed, Waiting
  <2> QED
    BY <2>1, <2>2, <2>4, <2>5 DEF Alike
<1>3. ASSUME NEW k \in 1..n, NEW v \in stack'[k].visited PROVE \E j \in 1..k : Placed(v, stack[j])'
  <2>1. k \in 1..Len(stack) /\ \A j \in 1..k : j \in 1..n
    BY <1>1
  <2>2. PICK j \in 1..k : Placed(v, stack[j])
    BY <1>2, <2>1 DEF Apart, Visits, AllPlaced
  <2> QED
    BY <1>2, <2>1, <2>2
<1>4. ASSUME NEW k \in 1..n PROVE Inherited(k)'
  <2>1. k \in 1..Len(stack) /\ \A j \in 1..k : j \in 1..n
    BY <1>1
  <2>2. Inherited(k)
    BY <2>1 DEF Apart, Visits, AllInherited
  <2> SUFFICES ASSUME Live(stack'[k]), NEW j \in 1..k PROVE Marks(stack[j])' \subseteq Tags(stack'[k])
    BY DEF Inherited, Live, Tags
  <2>3. Marks(stack[j])' = Marks(stack[j]) /\ Live(stack[k]) /\ stack'[k].visited = stack[k].visited
    BY <1>2, <2>1
  <2>4. Marks(stack[j]) \subseteq Tags(stack[k])
    BY <2>2, <2>3 DEF Inherited
  <2> QED
    BY <2>3, <2>4 DEF Tags
<1> QED
  BY <1>2, <1>3, <1>4

-----------------------------------------------------------------------------
(* Steps of the innermost call *)

LEMMA SoundSame ==
    ASSUME prog' = prog PROVE \A f : Sound(f)' <=> Sound(f)
BY DEF Sound, Interrupted, Idle, Once, Uncopied, Waiting, Live, Branches, StmtAt, Statement, NoTag,
       NoLoc

LEMMA ShapeTop ==
    ASSUME Apart, prog' = prog, NEW g, stack' = SetTop(g), Sound(g), AllMade'
    PROVE  Shape'
<1>1. Len(stack') = Len(stack) /\ \A f : Sound(f)' <=> Sound(f)
  BY InnerSet, SoundSame
<1>2. ASSUME NEW k \in 1..Len(stack') PROVE Sound(stack[k])'
  <2>1. PICK f : f = stack'[k]
    OBVIOUS
  <2>2. Sound(f)
    BY <1>1, <2>1, InnerSet, OuterAt
  <2>3. Sound(f)'
    BY <1>1, <2>2
  <2> QED
    BY <2>1, <2>3 DEF Sound, Interrupted, Idle, Once, Uncopied, Waiting, Live
<1> QED
  BY <1>2 DEF Shape, AllSound

\* Blocks stay whose they are.
LEMMA OwnTop ==
    ASSUME Apart, NEW g, stack' = SetTop(g),
           g.block = top.block, g.thn = top.thn, g.els = top.els,
           top.phase = "memo" => g.phase = "memo",
           \A i \in DOMAIN stmts' :
              \/ {stmts'[i].thn, stmts'[i].els} \subseteq {0, top.thn, top.els}
              \/ /\ i \in DOMAIN stmts
                 /\ stmts'[i].thn = stmts[i].thn /\ stmts'[i].els = stmts[i].els,
           \A t \in DOMAIN memo' :
              \/ t \in DOMAIN memo /\ memo'[t] = memo[t]
              \/ memo'[t] = top.block /\ g.phase = "memo"
              \/ \E i \in DOMAIN stmts : memo'[t] \in {stmts[i].thn, stmts[i].els}
    PROVE  AllOwn'
<1>1. /\ Len(stack') = Len(stack) /\ top' = g /\ Len(stack) \in 1..Len(stack)
      /\ top = stack[Len(stack)] /\ TypeOK
      /\ \A k \in 1..Len(stack) : stack'[k] = IF k = Len(stack) THEN g ELSE stack[k]
  BY InnerSet, InnerAt
<1>2. \A k \in 1..Len(stack) : /\ stack'[k].block = stack[k].block /\ stack'[k].thn = stack[k].thn
                               /\ stack'[k].els = stack[k].els
  BY <1>1
<1> SUFFICES ASSUME NEW k \in 1..Len(stack) PROVE Owns(k)'
  BY <1>1 DEF AllOwn
<1>3. PICK b : b = stack[k].block
  OBVIOUS
<1>4. b \in DOMAIN blocks /\ b # 0
  <2>1. stack[k] \in Frame
    BY <1>1, InnerSet, OuterAt, InnerAt
  <2>2. b \in DOMAIN blocks
    BY <1>3, <2>1, Fields
  <2> QED
    BY <1>1, <2>2, HeapAt
<1>5. /\ \A j \in 1..Len(stack) : /\ stack[j].block = b => j = k
                                  /\ b \notin {stack[j].thn, stack[j].els}
      /\ \A i \in DOMAIN stmts : b \notin {stmts[i].thn, stmts[i].els}
      /\ \A t \in DOMAIN memo : memo[t] = b => k = Len(stack) /\ top.phase = "memo"
  BY <1>3 DEF Apart, Ownership, AllOwn, Owns
<1>6. \A i \in DOMAIN stmts' : b \notin {stmts'[i].thn, stmts'[i].els}
  BY <1>1, <1>4, <1>5
<1>7. ASSUME NEW t \in DOMAIN memo', memo'[t] = b PROVE k = Len(stack) /\ g.phase = "memo"
  <2>1. CASE t \in DOMAIN memo /\ memo'[t] = memo[t]
    BY <1>5, <1>7, <2>1
  <2>2. CASE memo'[t] = top.block /\ g.phase = "memo"
    BY <1>1, <1>5, <1>7, <2>2
  <2>3. CASE \E i \in DOMAIN stmts : memo'[t] \in {stmts[i].thn, stmts[i].els}
    BY <1>5, <1>7, <2>3
  <2> QED
    BY <2>1, <2>2, <2>3
<1> QED
  BY <1>1, <1>2, <1>3, <1>5, <1>6, <1>7 DEF Owns

LEMMA UnsharedTop ==
    ASSUME Apart, NEW g, stack' = SetTop(g), OuterKept,
           Live(g) => \E b : b = g.block /\ \A i \in ToSet(blocks'[b]) : ~ Elsewhere(i, b)'
    PROVE  AllUnshared'
<1>1. Len(stack') = Len(stack) /\ stack'[Len(stack)] = g
  BY InnerSet
<1> SUFFICES ASSUME NEW k \in 1..Len(stack) PROVE Unshared(k)'
  BY <1>1 DEF AllUnshared
<1>2. CASE k = Len(stack)
  <2> SUFFICES ASSUME Live(g) PROVE Unshared(k)'
    BY <1>1, <1>2 DEF Unshared, Live
  <2>1. PICK b : b = g.block /\ \A i \in ToSet(blocks'[b]) : ~ Elsewhere(i, b)'
    OBVIOUS
  <2>2. stack'[k].block = b
    BY <1>1, <1>2, <2>1
  <2> QED
    BY <2>1, <2>2 DEF Unshared, Elsewhere
<1>3. CASE k # Len(stack)
  <2>1. k \in 1..(Len(stack) - 1) /\ stack'[k] = stack[k]
    BY <1>3, InnerSet
  <2>2. PICK b : b = stack[k].block /\ BlockKept(b)
    BY <2>1 DEF OuterKept
  <2>3. stack'[k].block = b /\ \A i \in ToSet(blocks'[b]) : ~ Elsewhere(i, b)'
    BY <2>1, <2>2 DEF BlockKept
  <2> QED
    BY <2>3 DEF Unshared, Elsewhere
<1> QED
  BY <1>2, <1>3

LEMMA OuterSame ==
    ASSUME Apart, NEW g, stack' = SetTop(g), OuterKept
    PROVE  \A k \in 1..(Len(stack) - 1) :
              /\ Marks(stack[k])' = Marks(stack[k])
              /\ \A v \in stack'[k].visited : \E j \in 1..k : Placed(v, stack[j])'
              /\ Inherited(k)'
<1>1. PICK n : n = Len(stack) - 1
  OBVIOUS
<1>2. n \in Nat /\ n <= Len(stack)
  BY <1>1, InnerAt
<1>3. \A k \in 1..n : \E b : b = stack[k].block /\ BlockKept(b)
  BY <1>1 DEF OuterKept
<1>4. \A k \in 1..n : \E f : f = stack'[k] /\ Alike(stack[k], f)
  BY <1>1, InnerSet DEF Alike
<1> QED
  BY <1>1, <1>2, <1>3, <1>4, OuterVisits

LEMMA VisitsTop ==
    ASSUME Apart, NEW g, stack' = SetTop(g), OuterKept,
           \A v \in g.visited : Placed(v, g)' \/ (v \in top.visited /\ ~ Placed(v, top)),
           Live(g) => Live(top) /\ Tags(top) \subseteq Tags(g) /\ Marks(g)' \subseteq Tags(g)
    PROVE  Visits'
<1>1. /\ Len(stack') = Len(stack) /\ stack'[Len(stack)] = g /\ top = stack[Len(stack)]
      /\ Len(stack) \in 1..Len(stack)
      /\ \A k \in 1..Len(stack) : k = Len(stack) \/ k \in 1..(Len(stack) - 1)
      /\ \A k \in 1..(Len(stack) - 1) : k \in 1..Len(stack)
  BY InnerSet, InnerAt
<1>2. \A k \in 1..(Len(stack) - 1) :
         /\ Marks(stack[k])' = Marks(stack[k])
         /\ \A v \in stack'[k].visited : \E j \in 1..k : Placed(v, stack[j])'
         /\ Inherited(k)'
  BY OuterSame
<1>3. \A k \in 1..(Len(stack) - 1) : \A v : Placed(v, stack[k]) => Placed(v, stack[k])'
  <2> SUFFICES ASSUME NEW k \in 1..(Len(stack) - 1), NEW v, Placed(v, stack[k])
               PROVE  Placed(v, stack[k])'
    OBVIOUS
  <2>1. PICK f : f = stack[k] /\ f = stack'[k]
    BY InnerSet
  <2>2. PICK b : b = f.block /\ BlockKept(b)
    BY <2>1 DEF OuterKept
  <2>3. Alike(f, f)
    BY DEF Alike
  <2>4. Placed(v, f)'
    BY <2>1, <2>2, <2>3, MarksKept
  <2> QED
    BY <2>1, <2>4 DEF Placed, Waiting
<1>4. ASSUME NEW v \in g.visited PROVE \E j \in 1..Len(stack) : Placed(v, stack[j])'
  <2>1. CASE Placed(v, g)'
    <3>1. Placed(v, stack[Len(stack)])'
      BY <1>1, <2>1 DEF Placed, Waiting
    <3>2. \E j \in 1..Len(stack) : j = Len(stack)
      BY <1>1
    <3>3. PICK j \in 1..Len(stack) : j = Len(stack)
      BY <3>2
    <3>4. Placed(v, stack[j])'
      BY <1>1, <2>1, <3>3 DEF Placed, Waiting
    <3> QED
      BY <3>4
  <2>2. CASE v \in top.visited /\ ~ Placed(v, top)
    <3>1. PICK j \in 1..Len(stack) : Placed(v, stack[j])
      BY <1>1, <2>2 DEF Apart, Visits, AllPlaced
    <3>2. j \in 1..(Len(stack) - 1)
      BY <1>1, <2>2, <3>1
    <3> QED
      BY <1>3, <3>1, <3>2
  <2> QED
    BY <2>1, <2>2
<1>5. AllPlaced'
  <2> SUFFICES ASSUME NEW k \in 1..Len(stack), NEW v \in stack'[k].visited
               PROVE  \E j \in 1..k : Placed(v, stack[j])'
    BY <1>1 DEF AllPlaced
  <2> QED
    BY <1>1, <1>2, <1>4
<1>6. AllInherited'
  <2> SUFFICES ASSUME NEW k \in 1..Len(stack) PROVE Inherited(k)'
    BY <1>1 DEF AllInherited
  <2>1. CASE k = Len(stack)
    <3> SUFFICES ASSUME Live(g), NEW j \in 1..k PROVE Marks(stack[j])' \subseteq Tags(g)
      BY <1>1, <2>1 DEF Inherited, Live, Tags
    <3>1. CASE j = Len(stack)
      <4>1. Marks(stack[j])' = Marks(g)'
        BY <1>1, <3>1 DEF Marks, Waiting
      <4> QED
        BY <4>1
    <3>2. CASE j # Len(stack)
      <4>1. j \in 1..(Len(stack) - 1)
        BY <1>1, <2>1, <3>2
      <4>2. Marks(stack[j]) \subseteq Tags(top)
        BY <1>1, <2>1 DEF Apart, Visits, AllInherited, Inherited
      <4> QED
        BY <1>2, <4>1, <4>2
    <3> QED
      BY <3>1, <3>2
  <2>2. CASE k # Len(stack)
    BY <1>1, <1>2, <2>2
  <2> QED
    BY <2>1, <2>2
<1> QED
  BY <1>5, <1>6 DEF Visits

LEMMA PendingTop ==
    ASSUME Apart, NEW g, stack' = SetTop(g), OuterKept
    PROVE  /\ \A t : Due(g, t)' => Pending(t)'
           /\ \A t : (\E k \in 1..(Len(stack) - 1) : t \in Marks(stack[k])) => Pending(t)'
           /\ \A t : Pending(t) /\ ~ Due(top, t) => Pending(t)'
<1>1. top' = g /\ Len(stack') = Len(stack)
  BY InnerSet
<1>2. \A k \in 1..(Len(stack) - 1) : Marks(stack[k])' = Marks(stack[k])
  BY OuterSame
<1>3. \A t : Due(g, t)' => Pending(t)'
  BY <1>1 DEF Pending, Due, Marks, Waiting, Tags
<1>4. \A t : (\E k \in 1..(Len(stack) - 1) : t \in Marks(stack[k])) => Pending(t)'
  BY <1>1, <1>2 DEF Pending
<1> QED
  BY <1>3, <1>4 DEF Pending

\* No tag gets lost.
LEMMA MemoTop ==
    ASSUME Apart, NEW g, stack' = SetTop(g), OuterKept, memo' = memo,
           \A t : Due(top, t) => Pending(t)',
           \A b \in DOMAIN blocks : \A t \in TagsOf(b) : t \in TagsOf(b)' \/ Pending(t)',
           \A i \in DOMAIN stmts' : stmts'[i].kind = "if" =>
              \/ Coming(g, i)'
              \/ /\ i \in DOMAIN stmts /\ stmts[i].kind = "if"
                 /\ stmts'[i].thn = stmts[i].thn /\ stmts'[i].els = stmts[i].els
                 /\ Coming(top, i) => Coming(g, i)'
    PROVE  Memo'
<1>1. TypeOK /\ top' = g
  BY InnerAt, InnerSet
<1>2. \A t : Pending(t) => Pending(t)'
  BY PendingTop
<1>3. ASSUME NEW t \in DOMAIN memo \ {NoTag} PROVE t \in TagsOf(memo[t])' \/ Pending(t)'
  <2>1. PICK b : b = memo[t]
    OBVIOUS
  <2>2. b \in DOMAIN blocks /\ memo'[t] = b
    BY <1>1, <2>1, HeapAt
  <2>3. t \in TagsOf(b) \/ Pending(t)
    BY <2>1 DEF Apart, Memo, MemoKept
  <2>4. t \in TagsOf(b)' \/ Pending(t)'
    BY <1>2, <2>2, <2>3
  <2> QED
    BY <2>2, <2>4 DEF TagsOf
<1>4. MemoKept'
  BY <1>3 DEF MemoKept, NoTag, NoLoc
<1>5. ArmsForgotten'
  <2> SUFFICES ASSUME ~ FeatureUnstructured, NEW t \in DOMAIN memo \ {NoTag}, NEW i \in DOMAIN stmts',
                      stmts'[i].kind = "if", memo[t] \in {stmts'[i].thn, stmts'[i].els}
               PROVE  Pending(t)' \/ Coming(g, i)'
    <3>1. \A i : Coming(g, i)' <=> Coming(top, i)'
      BY <1>1 DEF Coming
    <3> QED
      BY <3>1 DEF ArmsForgotten, NoTag, NoLoc
  <2>1. CASE ~ Coming(g, i)'
    <3>1. /\ i \in DOMAIN stmts /\ stmts[i].kind = "if" /\ ~ Coming(top, i)
          /\ memo[t] \in {stmts[i].thn, stmts[i].els}
      BY <2>1
    <3>2. Pending(t)
      BY <3>1 DEF Apart, Memo, ArmsForgotten
    <3> QED
      BY <1>2, <3>2
  <2> QED
    BY <2>1
<1> QED
  BY <1>4, <1>5 DEF Memo

-----------------------------------------------------------------------------
(* Steps that leave the blocks alone *)

LEMMA FromPointSame ==
    ASSUME prog' = prog PROVE \A s : FromPoint(s)' <=> FromPoint(s)
BY DEF FromPoint, IsOf, Branches, StmtAt, Statement, NoTag, NoLoc

LEMMA TagsSame ==
    ASSUME TypeOK, NEW b \in DOMAIN blocks, blocks'[b] = blocks[b],
           \A i \in DOMAIN stmts : stmts'[i].tag = stmts[i].tag
    PROVE  TagsOf(b)' = TagsOf(b)
<1>1. \A i \in ToSet(blocks[b]) : stmts'[i].tag = stmts[i].tag
  BY HeapAt
<1> QED
  BY <1>1 DEF TagsOf

\* A statement is created, or none.
NewStmt(s) == s \in Stmt /\ s.kind # "if" /\ s.thn = 0 /\ s.els = 0 /\ FromPoint(s)
Creates1(s) == stmts' = Append(stmts, s) /\ NewStmt(s)

LEMMA CreatedOne ==
    ASSUME Apart, NEW s, Creates1(s)
    PROVE  /\ \A i \in DOMAIN stmts : i \in DOMAIN stmts' /\ stmts'[i] = stmts[i]
           /\ \A i \in DOMAIN stmts' : i \in DOMAIN stmts \/ i = Len(stmts) + 1
           /\ Len(stmts) + 1 \notin DOMAIN stmts /\ stmts'[Len(stmts) + 1] = s
           /\ Len(stmts) + 1 \in DOMAIN stmts'
<1>1. stmts \in Seq(Stmt) /\ Len(stmts) \in Nat /\ DOMAIN stmts = 1..Len(stmts) /\ s \in Stmt
  BY InnerAt, HeapAt DEF Creates1, NewStmt
<1>2. stmts' = Append(stmts, s)
  BY DEF Creates1
<1> QED
  BY <1>1, <1>2

LEMMA HeapSame ==
    ASSUME Apart, prog' = prog, stmts' = stmts \/ \E s : Creates1(s)
    PROVE  /\ \A i \in DOMAIN stmts : i \in DOMAIN stmts' /\ stmts'[i] = stmts[i]
           /\ \A i \in DOMAIN stmts' : i \notin DOMAIN stmts =>
                 stmts'[i].kind # "if" /\ stmts'[i].thn = 0 /\ stmts'[i].els = 0
           /\ AllMade'
<1>1. \A i \in DOMAIN stmts : FromPoint(stmts[i])
  BY DEF Apart, Shape, AllMade
<1>2. \A s : FromPoint(s)' <=> FromPoint(s)
  BY FromPointSame
<1>3. CASE stmts' = stmts
  <2>1. AllMade'
    BY <1>1, <1>2, <1>3 DEF AllMade
  <2> QED
    BY <1>3, <2>1
<1>4. CASE \E s : Creates1(s)
  <2>1. PICK s : Creates1(s)
    BY <1>4
  <2>2. /\ \A i \in DOMAIN stmts : i \in DOMAIN stmts' /\ stmts'[i] = stmts[i]
        /\ \A i \in DOMAIN stmts' : i \in DOMAIN stmts \/ i = Len(stmts) + 1
        /\ stmts'[Len(stmts) + 1] = s
    BY <2>1, CreatedOne
  <2>3. FromPoint(s) /\ s.kind # "if" /\ s.thn = 0 /\ s.els = 0
    BY <2>1 DEF Creates1, NewStmt
  <2>4. \A i \in DOMAIN stmts' : FromPoint(stmts'[i])
    BY <1>1, <2>2, <2>3
  <2>5. AllMade'
    BY <1>2, <2>4 DEF AllMade
  <2> QED
    BY <2>2, <2>3, <2>5
<1> QED
  BY <1>3, <1>4

\* The innermost run goes on or ends, with statements that exist.
LEMMA RunStep ==
    ASSUME Apart, In("run"), prog' = prog, memo' = memo, blocks' = blocks,
           stmts' = stmts \/ \E s : Creates1(s), NEW g, stack' = SetTop(g),
           g.visited = top.visited, g.block = top.block, g.thn = top.thn, g.els = top.els,
           g.tail = top.tail, g.cursor = top.cursor,
           (g.phase = "run" /\ g.queue = top.queue) \/ g.phase = "add",
           \A i \in DOMAIN stmts : i \in ToSet(g.queue) => Loose(i)
    PROVE  Shape' /\ Ownership' /\ Visits' /\ Memo'
<1>1. /\ TypeOK /\ top \in Frame /\ Sound(top) /\ top.block \in DOMAIN blocks /\ top.phase = "run"
      /\ top = stack[Len(stack)] /\ Len(stack) \in 1..Len(stack)
  BY InnerAt DEF In
<1>2. /\ \A i \in DOMAIN stmts : i \in DOMAIN stmts' /\ stmts'[i] = stmts[i]
      /\ \A i \in DOMAIN stmts' : i \notin DOMAIN stmts =>
            stmts'[i].kind # "if" /\ stmts'[i].thn = 0 /\ stmts'[i].els = 0
      /\ AllMade'
  BY HeapSame
<1>3. Live(top) /\ ~ Waiting(top) /\ ~ Waiting(g) /\ g.phase # "memo" /\ top' = g
      /\ (Live(g) => g.queue = top.queue)
  BY <1>1, InnerSet DEF Live, Waiting
<1>4. top.queue = <<>> /\ top.tail = <<>> /\ top.cursor = 1 /\ Once(top) /\ Uncopied(top)
  BY <1>1, <1>3 DEF Sound, Idle
<1>5. Sound(g)
  BY <1>3, <1>4 DEF Sound, Interrupted, Idle, Once, Uncopied, Live
<1>6. Shape'
  BY <1>2, <1>5, ShapeTop
<1>7. OuterKept
  <2>1. \A i \in DOMAIN stmts : i \in ToSet(g.queue) \cup ToSet(g.tail) => Loose(i)
    BY DEF Loose
  <2> QED
    BY <1>2, <1>3, <2>1, OuterSafe
<1>8. AllOwn'
  BY <1>1, <1>2, OwnTop
<1>9. AllUnshared'
  <2> SUFFICES ASSUME Live(g) PROVE \E b : b = g.block /\ \A i \in ToSet(blocks'[b]) : ~ Elsewhere(i, b)'
    BY <1>7, UnsharedTop
  <2>1. PICK b : b = top.block
    OBVIOUS
  <2>2. \A i \in ToSet(blocks[b]) : ~ Elsewhere(i, b)
    BY <1>1, <1>3, <2>1 DEF Apart, Ownership, AllUnshared, Unshared
  <2>3. \A i \in ToSet(blocks[b]) : ~ Elsewhere(i, b)'
    BY <1>3, <1>4, <2>2 DEF Elsewhere
  <2> QED
    BY <2>1, <2>3
<1>10. Marks(g)' = Marks(top) /\ Marks(top) \subseteq Tags(top) /\ Tags(g) = Tags(top)
  <2>1. PICK b \in DOMAIN blocks : b = top.block
    BY <1>1
  <2>2. TagsOf(b)' = TagsOf(b)
    BY <1>1, <1>2, TagsSame
  <2>3. Marks(g)' = TagsOf(b)' /\ Marks(top) = TagsOf(b)
    BY <1>3, <2>1 DEF Marks, Waiting
  <2>4. Inherited(Len(stack))
    BY <1>1 DEF Apart, Visits, AllInherited
  <2>5. Marks(top) \subseteq Tags(top)
    BY <1>1, <1>3, <2>4 DEF Inherited
  <2> QED
    BY <2>2, <2>3, <2>5 DEF Tags
<1>11. Visits'
  <2>1. ASSUME NEW v, Placed(v, top) PROVE Placed(v, g)'
    <3>1. v.stmt \in ToSet(blocks[top.block]) /\ stmts[v.stmt].tag = v.tag
      BY <1>3, <2>1 DEF Placed
    <3>2. v.stmt \in DOMAIN stmts
      BY <1>1, <3>1, HeapAt
    <3> QED
      BY <1>2, <3>1, <3>2 DEF Placed
  <2> QED
    BY <1>3, <1>7, <1>10, <2>1, VisitsTop
<1>12. Memo'
  <2>1. ASSUME NEW t, Due(top, t) PROVE Pending(t)'
    <3>1. t \in Marks(top)
      BY <1>1, <1>4, <2>1, ElementsNone DEF Due
    <3>2. Due(g, t)'
      BY <1>3, <1>10, <3>1 DEF Due, Marks, Waiting
    <3> QED
      BY <1>7, <3>2, PendingTop
  <2>2. \A b \in DOMAIN blocks : TagsOf(b)' = TagsOf(b)
    BY <1>1, <1>2, TagsSame
  <2>3. \A i : ~ Coming(top, i)
    BY <1>1 DEF Coming
  <2> QED
    BY <1>2, <1>7, <2>1, <2>2, <2>3, MemoTop
<1> QED
  BY <1>6, <1>8, <1>9, <1>11, <1>12 DEF Ownership

LEMMA GoingMemo ==
    Apart /\ (CreateExpr \/ SkipStmt \/ TakeBool) => Shape' /\ Ownership' /\ Visits' /\ Memo'
<1> SUFFICES ASSUME Apart, CreateExpr \/ SkipStmt \/ TakeBool
             PROVE  Shape' /\ Ownership' /\ Visits' /\ Memo'
  OBVIOUS
<1>1. /\ In("run") /\ UNCHANGED <<prog, memo, stmts, blocks>>
      /\ top \in Frame /\ top.phase = "run"
  BY InnerAt DEF CreateExpr, Creates, SkipStmt, Offers, TakeBool, Asks, In
<1>2. \E g : /\ stack' = SetTop(g) /\ g.visited = top.visited /\ g.block = top.block
             /\ g.thn = top.thn /\ g.els = top.els /\ g.tail = top.tail
             /\ g.cursor = top.cursor /\ g.phase = "run" /\ g.queue = top.queue
  <2>1. CASE CreateExpr
    <3> DEFINE p == IF Op = "expr" THEN prog.code[top.pc].next ELSE top.pc
               f == [top EXCEPT !.tested = (Op = "branch"), !.pc = p]
               g == IF CatchingUp THEN [f EXCEPT !.used = @ + 1]
                    ELSE [f EXCEPT !.pending = Append(@, top.pc), !.exprs = Append(@, top.pc)]
    <3>1. stack' = SetTop(g)
      BY <1>1, <2>1 DEF CreateExpr, Frame
    <3>2. /\ g.visited = top.visited /\ g.block = top.block /\ g.thn = top.thn /\ g.els = top.els
          /\ g.tail = top.tail /\ g.cursor = top.cursor /\ g.phase = "run" /\ g.queue = top.queue
      BY <1>1 DEF Frame
    <3> HIDE DEF g
    <3> QED
      BY <3>1, <3>2
  <2>2. CASE SkipStmt
    <3>1. stack' = SetTop(Passed)
      BY <2>2 DEF SkipStmt
    <3>2. LET g == Passed
          IN  /\ g.visited = top.visited /\ g.block = top.block /\ g.thn = top.thn /\ g.els = top.els
              /\ g.tail = top.tail /\ g.cursor = top.cursor /\ g.phase = "run" /\ g.queue = top.queue
      BY <1>1 DEF Passed, Frame
    <3> QED
      BY <3>1, <3>2
  <2>3. CASE TakeBool
    <3> DEFINE p == IF Last(top.bools) THEN prog.code[top.pc].next ELSE prog.code[top.pc].other
               g == [top EXCEPT !.bools = Front(top.bools), !.tested = FALSE, !.pc = p]
    <3>1. stack' = SetTop(g)
      BY <1>1, <2>3 DEF TakeBool, Frame
    <3>2. /\ g.visited = top.visited /\ g.block = top.block /\ g.thn = top.thn /\ g.els = top.els
          /\ g.tail = top.tail /\ g.cursor = top.cursor /\ g.phase = "run" /\ g.queue = top.queue
      BY <1>1 DEF Frame
    <3> HIDE DEF g
    <3> QED
      BY <3>1, <3>2
  <2> QED
    BY <2>1, <2>2, <2>3
<1>3. \A i : i \in ToSet(top.queue) => Loose(i)
  BY DEF Loose
<1> QED
  BY <1>1, <1>2, <1>3, RunStep

\* A handler ends the run with the statements q.
LEMMA EndWithMemo ==
    ASSUME Apart, In("run"), UNCHANGED <<prog, memo, blocks>>,
           stmts' = stmts \/ \E s : Creates1(s), NEW q, EndWith(q),
           \A i \in DOMAIN stmts : i \in ToSet(q) => Loose(i)
    PROVE  Shape' /\ Ownership' /\ Visits' /\ Memo'
<1>1. PICK g : g = [top EXCEPT !.phase = "add", !.pending = <<>>, !.queue = q]
  OBVIOUS
<1>2. stack' = SetTop(g)
  BY <1>1 DEF EndWith
<1>3. /\ g.phase = "add" /\ g.visited = top.visited /\ g.block = top.block /\ g.thn = top.thn
      /\ g.els = top.els /\ g.tail = top.tail /\ g.cursor = top.cursor /\ g.queue = q
  <2>1. top \in Frame
    BY InnerAt
  <2> QED
    BY <1>1, <2>1 DEF Frame
<1> QED
  BY <1>2, <1>3, RunStep

LEMMA EndWithGotoMemo ==
    ASSUME Apart, In("run"), UNCHANGED <<prog, memo, blocks>>, NEW t \in Tag, EndWithGoto(t)
    PROVE  Shape' /\ Ownership' /\ Visits' /\ Memo'
<1>1. stmts' = Append(stmts, Goto(t)) /\ EndWith(<<Len(stmts) + 1>>)
  BY DEF EndWithGoto
<1>2. Creates1(Goto(t))
  <2>1. Goto(t) \in Stmt /\ Goto(t).kind # "if"
    BY InnerAt, GotoType DEF TypeOK
  <2>2. /\ Goto(t).kind = "goto" /\ Goto(t).thn = 0 /\ Goto(t).els = 0
        /\ Goto(t).var = 0 /\ Goto(t).from = 0
    BY DEF Goto, Statement
  <2> QED
    BY <1>1, <2>1, <2>2 DEF Creates1, NewStmt, FromPoint
<1>3. \A i \in DOMAIN stmts : i \notin ToSet(<<Len(stmts) + 1>>)
  <2>1. Len(stmts) + 1 \notin DOMAIN stmts
    BY <1>2, CreatedOne
  <2> QED
    BY <2>1, ElementsOne
<1> QED
  BY <1>1, <1>2, <1>3, EndWithMemo

LEMMA CutMemo ==
    Apart /\ (LoopBack \/ Memoize) => Shape' /\ Ownership' /\ Visits' /\ Memo'
<1> SUFFICES ASSUME Apart, LoopBack \/ Memoize PROVE Shape' /\ Ownership' /\ Visits' /\ Memo'
  OBVIOUS
<1>1. /\ Offers /\ In("run") /\ UNCHANGED <<prog, memo, blocks>> /\ TypeOK /\ top \in Frame
  BY InnerAt DEF LoopBack, Memoize, IsNew, Offers
<1>2. Offered.tag \in Tag
  BY <1>1, OfferedType DEF Stmt
<1>3. CASE LoopBack
  <2>1. LoopTarget(Offered) \in Tag /\ EndWithGoto(LoopTarget(Offered))
    BY <1>1, <1>2, <1>3, LoopTargetType DEF LoopBack
  <2> QED
    BY <1>1, <2>1, EndWithGotoMemo
<1>4. CASE Memoize
  <2>1. StoredAs \in Tag
    BY <1>1, <1>2, StoredTagType DEF StoredAs
  <2>2. CASE FeatureUnstructured
    BY <1>1, <1>4, <2>1, <2>2, EndWithGotoMemo DEF Memoize
  <2>3. CASE ~ FeatureUnstructured
    <3>1. PICK b : b = memo[StoredAs]
      OBVIOUS
    <3>2. PICK k : k = FirstPlace(b, StoredAs)
      OBVIOUS
    <3>3. stmts' = stmts /\ EndWith(SubSeq(blocks[b], k, Len(blocks[b])))
      BY <1>4, <2>3, <3>1, <3>2 DEF Memoize
    <3>4. StoredAs \in DOMAIN memo /\ Places(b, StoredAs) # {}
      BY <1>4, <3>1 DEF Memoize, Reusable, Dangling
    <3>5. b \in DOMAIN blocks /\ Movable(b)
      BY <1>1, <3>1, <3>4, HeapAt DEF Movable
    <3>6. blocks[b] \in Seq(DOMAIN stmts)
      BY <1>1, <3>5, HeapAt
    <3>7. k \in 1..Len(blocks[b])
      BY <3>2, <3>4, <3>6, FirstPlaceType, LenProperties DEF Places
    <3>8. ToSet(SubSeq(blocks[b], k, Len(blocks[b]))) \subseteq ToSet(blocks[b])
      BY <3>6, <3>7, ElementsSub
    <3>9. \A i \in DOMAIN stmts : i \in ToSet(SubSeq(blocks[b], k, Len(blocks[b]))) => Loose(i)
      BY <3>5, <3>8 DEF Loose
    <3> QED
      BY <1>1, <3>3, <3>9, EndWithMemo
  <2> QED
    BY <2>2, <2>3
<1> QED
  BY <1>3, <1>4

-----------------------------------------------------------------------------
(* A statement is pushed *)

LEMMA PushAt ==
    ASSUME Apart, NEW i, blocks' = Push(i)
    PROVE  /\ DOMAIN blocks' = DOMAIN blocks
           /\ \A c \in DOMAIN blocks : c # top.block => blocks'[c] = blocks[c]
           /\ ToSet(blocks'[top.block]) = ToSet(Body) \cup {i}
<1>1. top.block \in DOMAIN blocks /\ Body \in Seq(DOMAIN stmts)
  BY InnerAt
<1>2. /\ DOMAIN blocks' = DOMAIN blocks
      /\ \A c \in DOMAIN blocks : c # top.block => blocks'[c] = blocks[c]
      /\ blocks'[top.block] = Append(Body, i)
  BY <1>1 DEF Push, Body
<1> QED
  BY <1>1, <1>2, ElementsAppend

\* A new statement s, of a tag the run has not visited
LEMMA PushStep ==
    ASSUME Apart, In("run"), prog' = prog, memo' = memo, NEW s, Creates1(s),
           NEW n, n = Len(stmts) + 1, blocks' = Push(n), s.tag \notin Tags(top),
           NEW g, stack' = SetTop(g),
           g.visited = top.visited \cup {[tag |-> s.tag, stmt |-> n]},
           g.block = top.block, g.thn = top.thn, g.els = top.els,
           g.tail = top.tail, g.queue = top.queue, g.cursor = top.cursor,
           \/ /\ g.phase = "run"
              /\ \A p \in Branches : s.tag.loc = prog.code[p].loc => s.tag.dedup = 0
           \/ g.phase = "add"
    PROVE  Shape' /\ Ownership' /\ Visits' /\ Memo'
<1>1. /\ TypeOK /\ top \in Frame /\ Sound(top) /\ top.block \in DOMAIN blocks /\ top.phase = "run"
      /\ top = stack[Len(stack)] /\ Len(stack) \in 1..Len(stack)
  BY InnerAt DEF In
<1>2. /\ \A i \in DOMAIN stmts : i \in DOMAIN stmts' /\ stmts'[i] = stmts[i]
      /\ \A i \in DOMAIN stmts' : i \notin DOMAIN stmts =>
            stmts'[i].kind # "if" /\ stmts'[i].thn = 0 /\ stmts'[i].els = 0
      /\ AllMade'
  BY HeapSame
<1>3. Live(top) /\ ~ Waiting(top) /\ ~ Waiting(g) /\ g.phase # "memo" /\ top' = g
  BY <1>1, InnerSet DEF Live, Waiting
<1>4. top.queue = <<>> /\ top.tail = <<>> /\ top.cursor = 1 /\ Once(top) /\ Uncopied(top)
  BY <1>1, <1>3 DEF Sound, Idle
<1>5. n \notin DOMAIN stmts /\ stmts'[n] = s
  BY CreatedOne
<1>6. /\ DOMAIN blocks' = DOMAIN blocks
      /\ \A c \in DOMAIN blocks : c # top.block => blocks'[c] = blocks[c]
      /\ ToSet(blocks'[top.block]) = ToSet(Body) \cup {n}
  BY PushAt
<1>7. PICK w : w = [tag |-> s.tag, stmt |-> n]
  OBVIOUS
<1>8. w.tag = s.tag /\ w.stmt = n /\ g.visited = top.visited \cup {w}
  BY <1>7
<1>9. Sound(g)
  <2>1. \A v \in top.visited : v.tag # w.tag
    BY <1>8 DEF Tags
  <2>2. Once(g)
    BY <1>4, <1>8, <2>1 DEF Once
  <2>3. Uncopied(g)
    BY <1>3, <1>4, <1>8 DEF Uncopied, Live
  <2> QED
    BY <1>3, <1>4, <2>2, <2>3 DEF Sound, Interrupted, Idle
<1>10. Shape'
  BY <1>2, <1>9, ShapeTop
<1>11. OuterKept
  <2>1. \A c \in DOMAIN blocks : ~ Movable(c) => blocks'[c] = blocks[c]
    BY <1>6 DEF Movable
  <2>2. ASSUME NEW i \in DOMAIN stmts, NEW c \in DOMAIN blocks', i \in ToSet(blocks'[c])
        PROVE  c \in DOMAIN blocks /\ i \in ToSet(blocks[c])
    BY <1>5, <1>6, <2>2 DEF Body
  <2>3. \A i \in DOMAIN stmts : i \in ToSet(g.queue) \cup ToSet(g.tail) => Loose(i)
    BY DEF Loose
  <2> QED
    BY <1>2, <1>3, <2>1, <2>2, <2>3, OuterSafe
<1>12. AllOwn'
  BY <1>1, <1>2, OwnTop
<1>13. AllUnshared'
  <2>1. PICK b : b = top.block
    OBVIOUS
  <2>2. \A i \in ToSet(blocks[b]) : ~ Elsewhere(i, b)
    BY <1>1, <1>3, <2>1 DEF Apart, Ownership, AllUnshared, Unshared
  <2>3. ASSUME NEW i \in ToSet(blocks'[b]) PROVE ~ Elsewhere(i, b)'
    <3>1. i \notin ToSet(top'.queue) \cup ToSet(top'.tail)
      BY <1>3, <1>4, ElementsNone
    <3>2. \A c \in DOMAIN blocks' \ {b} : i \notin ToSet(blocks'[c])
      <4>1. CASE i \in ToSet(blocks[b])
        BY <1>6, <2>1, <2>2, <4>1 DEF Elsewhere
      <4>2. CASE i = n
        BY <1>1, <1>5, <1>6, <2>1, <4>2, HeapAt
      <4> QED
        BY <1>6, <2>1, <4>1, <4>2 DEF Body
    <3> QED
      BY <3>1, <3>2 DEF Elsewhere
  <2> QED
    BY <1>11, <2>1, <2>3, UnsharedTop
<1>14. \A b \in DOMAIN blocks :
          TagsOf(b)' = TagsOf(b) \cup (IF b = top.block THEN {s.tag} ELSE {})
  <2> SUFFICES ASSUME NEW b \in DOMAIN blocks
               PROVE  TagsOf(b)' = TagsOf(b) \cup (IF b = top.block THEN {s.tag} ELSE {})
    OBVIOUS
  <2>1. ToSet(blocks[b]) \subseteq DOMAIN stmts
    BY <1>1, HeapAt
  <2>2. CASE b = top.block
    <3>1. \A i \in ToSet(blocks[b]) : stmts'[i].tag = stmts[i].tag
      BY <1>2, <2>1
    <3>2. ToSet(blocks'[b]) = ToSet(blocks[b]) \cup {n} /\ stmts'[n].tag = s.tag
      BY <1>5, <1>6, <2>2 DEF Body
    <3> QED
      BY <2>2, <3>1, <3>2 DEF TagsOf
  <2>3. CASE b # top.block
    BY <1>1, <1>2, <1>6, <2>3, TagsSame
  <2> QED
    BY <2>2, <2>3
<1>15. Marks(g)' = Marks(top) \cup {s.tag} /\ Marks(top) \subseteq Tags(top)
  <2>1. PICK b \in DOMAIN blocks : b = top.block
    BY <1>1
  <2>2. Marks(g)' = TagsOf(b)' /\ Marks(top) = TagsOf(b)
    BY <1>3, <2>1 DEF Marks, Waiting
  <2>3. Inherited(Len(stack))
    BY <1>1 DEF Apart, Visits, AllInherited
  <2>4. Marks(top) \subseteq Tags(top)
    BY <1>1, <1>3, <2>3 DEF Inherited
  <2> QED
    BY <1>14, <2>1, <2>2, <2>4
<1>16. Visits'
  <2>1. ASSUME NEW v, Placed(v, top) PROVE Placed(v, g)'
    <3>1. v.stmt \in ToSet(Body) /\ stmts[v.stmt].tag = v.tag
      BY <1>3, <2>1 DEF Placed, Body
    <3>2. v.stmt \in DOMAIN stmts
      BY <1>1, <3>1, HeapAt DEF Body
    <3> QED
      BY <1>2, <1>6, <3>1, <3>2 DEF Placed
  <2>2. Placed(w, g)'
    BY <1>5, <1>6, <1>8 DEF Placed
  <2>3. Tags(g) = Tags(top) \cup {s.tag}
    BY <1>8 DEF Tags
  <2>4. \A v \in g.visited : Placed(v, g)' \/ (v \in top.visited /\ ~ Placed(v, top))
    BY <1>8, <2>1, <2>2
  <2> QED
    BY <1>3, <1>11, <1>15, <2>3, <2>4, VisitsTop
<1>17. Memo'
  <2>1. ASSUME NEW t, Due(top, t) PROVE Pending(t)'
    <3>1. t \in Marks(top)
      BY <1>1, <1>4, <2>1, ElementsNone DEF Due
    <3>2. Due(g, t)'
      BY <1>3, <1>15, <3>1 DEF Due, Marks, Waiting
    <3> QED
      BY <1>11, <3>2, PendingTop
  <2>2. \A i : ~ Coming(top, i)
    BY <1>1 DEF Coming
  <2> QED
    BY <1>2, <1>11, <1>14, <2>1, <2>2, MemoTop
<1> QED
  BY <1>10, <1>12, <1>13, <1>16, <1>17 DEF Ownership

\* No statement has the tag of a condition but the condition itself.
LEMMA ConditionAlone ==
    ASSUME ConditionsApart, NEW p \in DOMAIN prog.code, NEW q \in Branches,
           prog.code[p].loc = prog.code[q].loc
    PROVE  p = q
BY DEF ConditionsApart, Branches

\* A visited statement with the tag of a condition is the condition.
LEMMA ConditionVisited ==
    ASSUME Apart, Live(top), NEW q \in Branches, NEW v \in top.visited,
           v.tag.loc = prog.code[q].loc
    PROVE  Made(stmts[v.stmt], q)
<1>1. /\ TypeOK /\ FInv /\ DInv /\ stack # <<>> /\ v.stmt \in DOMAIN stmts /\ ConditionsApart
      /\ top = stack[Len(stack)] /\ Len(stack) \in 1..Len(stack)
  BY InnerAt
<1>2. Counted(top)
  BY <1>1 DEF DInv, AllTrack, Tracks
<1>3. stmts[v.stmt].kind \in {"expr", "decl"} /\ stmts[v.stmt].tag.loc = v.tag.loc
  BY <1>1, <1>2, TopIsKnown DEF Counted, Known
<1>4. FromPoint(stmts[v.stmt])
  BY <1>1 DEF Apart, Shape, AllMade
<1>5. PICK p \in DOMAIN prog.code :
         IsOf(stmts[v.stmt], p) /\ stmts[v.stmt].kind = StmtAt(p).kind
  BY <1>3, <1>4 DEF FromPoint
<1>6. p = q
  BY <1>1, <1>3, <1>5, ConditionAlone DEF IsOf
<1>7. StmtAt(q).what = prog.code[q].what /\ StmtAt(q).var = 0 /\ StmtAt(q).from = 0
  BY DEF StmtAt, Statement
<1> QED
  BY <1>4, <1>5, <1>6, <1>7 DEF Made, SameContent, FromPoint, IsOf

LEMMA AddStmtMemo == Apart /\ AddStmt => Shape' /\ Ownership' /\ Visits' /\ Memo'
<1> SUFFICES ASSUME Apart, AddStmt PROVE Shape' /\ Ownership' /\ Visits' /\ Memo'
  OBVIOUS
<1>1. PICK n : n = Len(stmts) + 1
  OBVIOUS
<1>2. PICK s : s = [Offered EXCEPT !.tag = StoredAs]
  OBVIOUS
<1>3. PICK g : g = Visit(Passed, n, Offered)
  OBVIOUS
<1>4. /\ Offers /\ ~ CatchingUp /\ prog' = prog /\ memo' = memo /\ stack' = SetTop(g)
      /\ stmts' = Append(stmts, s) /\ blocks' = Push(n)
      /\ ~ NullCopy(Offered) /\ ~ LoopsBack(Offered)
  BY <1>1, <1>2, <1>3 DEF AddStmt, IsNew
<1>5. /\ TypeOK /\ FInv /\ DInv /\ ConditionsApart /\ stack # <<>> /\ top \in Frame /\ In("run")
      /\ Len(stack) \in 1..Len(stack) /\ top = stack[Len(stack)] /\ top.phase = "run"
  BY <1>4, InnerAt DEF Offers, In
<1>6. PICK p \in DOMAIN prog.code : Offered = StmtAt(p) /\ Offered.tag \in Tag
  BY <1>4, <1>5, OfferedAt
<1>7. /\ Offered \in Stmt /\ StoredAs \in Tag /\ StoredAs.loc = Offered.tag.loc
      /\ StmtAt(p).tag = [loc |-> prog.code[p].loc, dedup |-> 0]
      /\ StmtAt(p).tag # NoTag /\ StmtAt(p).kind \in {"expr", "decl"}
  BY <1>4, <1>5, <1>6, OfferedType, StoredTagType, StoredLoc, PointTag DEF StoredAs
<1>8. Live(top) /\ Counted(top)
  BY <1>5 DEF Live, DInv, AllTrack, Tracks
<1>9. /\ ~ IsVisited(StoredAs)
      /\ StoredAs = IF Seen(Offered) THEN Copy(Offered.tag, Copies(Offered.tag)) ELSE Offered.tag
  BY <1>4, <1>5, <1>6, <1>8, StoredUnvisited DEF StoredAs
<1>10. /\ s \in Stmt /\ s.kind = StmtAt(p).kind /\ s.tag = StoredAs /\ s.what = StmtAt(p).what
       /\ s.var = StmtAt(p).var /\ s.from = StmtAt(p).from
       /\ s.thn = StmtAt(p).thn /\ s.els = StmtAt(p).els
  BY <1>2, <1>6, <1>7, SetStmtTag DEF Stmt
<1>11. /\ StmtAt(p).what = prog.code[p].what /\ StmtAt(p).var = 0 /\ StmtAt(p).from = 0
       /\ StmtAt(p).thn = 0 /\ StmtAt(p).els = 0
  BY DEF StmtAt, Statement
<1>12. s.tag.loc = prog.code[p].loc
  BY <1>6, <1>7, <1>10
<1>13. Creates1(s)
  <2>1. IsOf(s, p) /\ s.kind \in {"expr", "decl"} /\ s.kind # "if"
    BY <1>7, <1>10, <1>11, <1>12 DEF IsOf
  <2>2. FromPoint(s)
    BY <1>10, <1>11, <2>1 DEF FromPoint
  <2> QED
    BY <1>4, <1>10, <1>11, <2>1, <2>2 DEF Creates1, NewStmt
<1>14. ASSUME NEW q \in Branches, s.tag.loc = prog.code[q].loc PROVE s.tag.dedup = 0
  <2>1. p = q
    BY <1>5, <1>12, <1>14, ConditionAlone
  <2>2. ~ Seen(Offered)
    <3> SUFFICES ASSUME Seen(Offered) PROVE FALSE
      OBVIOUS
    <3>1. PICK v \in top.visited : v.tag = Offered.tag
      BY DEF Seen, IsVisited
    <3>2. v.tag.loc = prog.code[q].loc
      BY <1>6, <1>7, <2>1, <3>1
    <3>3. Made(stmts[v.stmt], p)
      BY <1>8, <2>1, <3>2, ConditionVisited
    <3>4. VisitedAs(Offered.tag) = stmts[v.stmt] /\ IsVisited(Offered.tag)
      BY <1>8, <3>1, VisitedOnce
    <3>5. SameTag(Offered)
      BY <1>6, <1>7, <3>3, <3>4 DEF SameTag, SameAsVisited, Same, Made
    <3> QED
      BY <1>4, <3>5 DEF LoopsBack
  <2> QED
    BY <1>6, <1>7, <1>9, <1>10, <2>2
<1>15. /\ g.visited = top.visited \cup {[tag |-> s.tag, stmt |-> n]} /\ g.phase = "run"
       /\ g.block = top.block /\ g.thn = top.thn /\ g.els = top.els
       /\ g.tail = top.tail /\ g.queue = top.queue /\ g.cursor = top.cursor
  <2>1. PICK f : f = Passed
    OBVIOUS
  <2>2. /\ f \in Frame /\ f.visited = top.visited /\ f.phase = "run"
        /\ f.block = top.block /\ f.thn = top.thn /\ f.els = top.els
        /\ f.tail = top.tail /\ f.queue = top.queue /\ f.cursor = top.cursor
    <3>1. f \in Frame
      BY <1>4, <1>5, <2>1, PassedFrame
    <3> QED
      BY <1>5, <2>1, <3>1 DEF Passed, Frame
  <2>3. PICK t : t = StoredAs
    OBVIOUS
  <2>4. /\ g.visited = {v \in f.visited : v.tag # t} \cup {[tag |-> t, stmt |-> n]}
        /\ g.phase = f.phase /\ g.block = f.block /\ g.thn = f.thn /\ g.els = f.els
        /\ g.tail = f.tail /\ g.queue = f.queue /\ g.cursor = f.cursor
    BY <1>3, <2>1, <2>2, <2>3 DEF Visit, Frame, StoredAs
  <2>5. {v \in top.visited : v.tag # t} = top.visited
    BY <1>9, <2>3 DEF IsVisited
  <2> QED
    BY <1>10, <2>2, <2>3, <2>4, <2>5
<1>16. s.tag \notin Tags(top)
  BY <1>9, <1>10 DEF Tags, IsVisited
<1> QED
  BY <1>1, <1>4, <1>5, <1>13, <1>14, <1>15, <1>16, PushStep

LEMMA ReturnMemo == Apart /\ Return => Shape' /\ Ownership' /\ Visits' /\ Memo'
<1> SUFFICES ASSUME Apart, Return PROVE Shape' /\ Ownership' /\ Visits' /\ Memo'
  OBVIOUS
<1>1. PICK n : n = Len(stmts) + 1
  OBVIOUS
<1>2. PICK s : s = Statement("return", Copy(NoTag, uniques + 1), NoWhat, 0)
  OBVIOUS
<1>3. PICK f : f = [top EXCEPT !.phase = "add"]
  OBVIOUS
<1>4. /\ TypeOK /\ FInv /\ DInv /\ stack # <<>> /\ top \in Frame /\ In("run") /\ prog' = prog
      /\ memo' = memo /\ top.phase = "run"
      /\ top = stack[Len(stack)] /\ Len(stack) \in 1..Len(stack)
  BY InnerAt DEF Return, In
<1>5. /\ f.visited = top.visited /\ f.block = top.block /\ f.thn = top.thn /\ f.els = top.els
      /\ f.tail = top.tail /\ f.queue = top.queue /\ f.cursor = top.cursor /\ f.phase = "add"
      /\ DOMAIN f = DOMAIN top
  BY <1>3, <1>4 DEF Frame
<1>6. CASE prog.returns /\ ~ CatchingUp
  <2>1. stmts' = Append(stmts, s) /\ blocks' = Push(n) /\ stack' = SetTop(Visit(f, n, s))
    BY <1>1, <1>2, <1>3, <1>6 DEF Return
  <2>2. /\ s.kind = "return" /\ s.tag.loc = NoLoc /\ s.tag \in Tag /\ s.var = 0 /\ s.from = 0
        /\ s.thn = 0 /\ s.els = 0
    <3>1. PICK u \in Nat : u = uniques + 1
      BY <1>4 DEF TypeOK
    <3>2. s.tag = [loc |-> NoLoc, dedup |-> u]
      BY <1>2, <3>1 DEF Statement, Copy, NoTag
    <3> QED
      BY <1>2, <3>2 DEF Statement, Tag
  <2>3. Creates1(s)
    <3>1. s \in Stmt
      <4>1. Len(blocks) \in Nat
        BY <1>4, HeapAt
      <4>2. NoTag \in Tag
        BY DEF NoTag, Tag
      <4> QED
        BY <1>2, <2>2, <4>1, <4>2 DEF Statement, Stmt
    <3> QED
      BY <2>1, <2>2, <3>1 DEF Creates1, NewStmt, FromPoint
  <2>4. s.tag \notin Tags(top)
    <3> SUFFICES ASSUME NEW v \in top.visited, v.tag = s.tag PROVE FALSE
      BY DEF Tags
    <3>1. Counted(top) /\ v.stmt \in DOMAIN stmts
      BY <1>4, Fields DEF Live, DInv, AllTrack, Tracks
    <3>2. stmts[v.stmt].kind \in {"expr", "decl"} /\ stmts[v.stmt].tag.loc = NoLoc
      BY <1>4, <2>2, <3>1, TopIsKnown DEF Counted, Known
    <3>3. FromPoint(stmts[v.stmt])
      BY <3>1 DEF Apart, Shape, AllMade
    <3>4. PICK p \in DOMAIN prog.code : prog.code[p].loc = NoLoc
      BY <3>2, <3>3 DEF FromPoint, IsOf
    <3>5. prog.code[p].loc \in Loc
      BY <1>4, PointType DEF TypeOK, Point
    <3> QED
      BY <3>4, <3>5, NoLocAssumption
  <2>5. PICK g : g = Visit(f, n, s)
    OBVIOUS
  <2>6. /\ g.visited = top.visited \cup {[tag |-> s.tag, stmt |-> n]} /\ g.phase = "add"
        /\ g.block = top.block /\ g.thn = top.thn /\ g.els = top.els
        /\ g.tail = top.tail /\ g.queue = top.queue /\ g.cursor = top.cursor
    <3>1. StoredTag(s) = s.tag
      BY <2>4 DEF StoredTag, Seen, IsVisited, Tags
    <3>2. PICK t : t = s.tag
      OBVIOUS
    <3>3. /\ g.visited = {v \in f.visited : v.tag # t} \cup {[tag |-> t, stmt |-> n]}
          /\ g.phase = f.phase /\ g.block = f.block /\ g.thn = f.thn /\ g.els = f.els
          /\ g.tail = f.tail /\ g.queue = f.queue /\ g.cursor = f.cursor
      BY <1>3, <1>4, <1>5, <2>5, <3>1, <3>2, SMTT(30) DEF Visit, Frame
    <3>4. {v \in top.visited : v.tag # t} = top.visited
      BY <2>4, <3>2 DEF Tags
    <3> QED
      BY <1>5, <3>2, <3>3, <3>4
  <2> QED
    BY <1>1, <1>4, <2>1, <2>3, <2>4, <2>5, <2>6, PushStep
<1>7. CASE ~ (prog.returns /\ ~ CatchingUp)
  <2>1. stack' = SetTop(f) /\ stmts' = stmts /\ blocks' = blocks
    BY <1>3, <1>7 DEF Return
  <2>2. \A i \in DOMAIN stmts : i \in ToSet(f.queue) => Loose(i)
    BY <1>5 DEF Loose
  <2> QED
    BY <1>4, <1>5, <2>1, <2>2, RunStep
<1> QED
  BY <1>6, <1>7

-----------------------------------------------------------------------------
(* Runs start and return *)

LEMMA CallsShape ==
    ASSUME Apart, prog' = prog, stmts' = stmts, \A k \in 1..Len(stack') : Sound(stack'[k])
    PROVE  Shape'
<1>1. AllMade' /\ \A f : Sound(f)' <=> Sound(f)
  BY HeapSame, SoundSame
<1>2. ASSUME NEW k \in 1..Len(stack') PROVE Sound(stack[k])'
  <2>1. PICK f : f = stack'[k]
    OBVIOUS
  <2>2. Sound(f)'
    BY <1>1, <2>1
  <2> QED
    BY <2>1, <2>2 DEF Sound, Interrupted, Idle, Once, Uncopied, Waiting, Live
<1> QED
  BY <1>1, <1>2 DEF Shape, AllSound

LEMMA CallsMemo ==
    ASSUME Apart, memo' = memo, stmts' = stmts, \A t : Pending(t) => Pending(t)',
           \A b \in DOMAIN blocks : \A t \in TagsOf(b) : t \in TagsOf(b)' \/ Pending(t)',
           \A i \in DOMAIN stmts : ~ Coming(top, i)
    PROVE  Memo'
<1>1. ASSUME NEW t \in DOMAIN memo \ {NoTag} PROVE t \in TagsOf(memo[t])' \/ Pending(t)'
  <2>1. PICK b : b = memo[t]
    OBVIOUS
  <2>2. b \in DOMAIN blocks /\ memo'[t] = b
    BY <2>1, InnerAt, HeapAt
  <2>3. t \in TagsOf(b) \/ Pending(t)
    BY <2>1 DEF Apart, Memo, MemoKept
  <2>4. t \in TagsOf(b)' \/ Pending(t)'
    BY <2>2, <2>3
  <2> QED
    BY <2>2, <2>4 DEF TagsOf
<1>2. MemoKept'
  BY <1>1 DEF MemoKept, NoTag, NoLoc
<1>3. ArmsForgotten'
  <2> SUFFICES ASSUME ~ FeatureUnstructured, NEW t \in DOMAIN memo \ {NoTag}, NEW i \in DOMAIN stmts,
                      stmts[i].kind = "if", memo[t] \in {stmts[i].thn, stmts[i].els}
               PROVE  Pending(t)'
    BY DEF ArmsForgotten, NoTag, NoLoc
  <2> QED
    BY DEF Apart, Memo, ArmsForgotten
<1> QED
  BY <1>2, <1>3 DEF Memo

\* The n outermost calls stay, the next one is f and has started a run, into a new block.
Forked(n, f, run) ==
    /\ Len(stack') = n + 2 /\ stack'[n + 1] = f /\ stack'[n + 2] = run /\ top' = run
    /\ \A k \in 1..n : stack'[k] = stack[k]
    /\ f.block = stack[n + 1].block /\ f.phase \in {"then", "else"}
    /\ f.thn \in 0..Len(blocks) /\ f.els \in 0..Len(blocks)
    /\ run.phase = "run" /\ run.visited = f.visited /\ run.block = Len(blocks) + 1
    /\ run.thn = 0 /\ run.els = 0 /\ run.queue = <<>> /\ run.tail = <<>> /\ run.cursor = 1
    /\ Len(blocks) + 1 \in DOMAIN blocks' /\ blocks'[Len(blocks) + 1] = <<>>

LEMMA ForkShape ==
    ASSUME Apart, prog' = prog, stmts' = stmts, NEW n \in Nat, n < Len(stack),
           NEW f, NEW run, Forked(n, f, run), Sound(f)
    PROVE  Shape'
<1>1. Sound(run)
  <2>1. Once(f) /\ Uncopied(f) /\ Live(f)
    BY DEF Sound, Live, Forked
  <2>2. Once(run) /\ Uncopied(run)
    BY <2>1 DEF Once, Uncopied, Forked
  <2> QED
    BY <2>2 DEF Sound, Interrupted, Idle, Waiting, Forked
<1>2. ASSUME NEW k \in 1..Len(stack') PROVE Sound(stack'[k])
  <2>1. CASE k \in 1..n
    <3>1. k \in 1..(Len(stack) - 1)
      BY <2>1, InnerAt
    <3> QED
      BY <2>1, <3>1, OuterAt DEF Forked
  <2>2. CASE k \notin 1..n
    <3>1. k = n + 1 \/ k = n + 2
      BY <2>2 DEF Forked
    <3> QED
      BY <1>1, <3>1 DEF Forked
  <2> QED
    BY <2>1, <2>2
<1> QED
  BY <1>2, CallsShape

LEMMA ForkOwn ==
    ASSUME Apart, stmts' = stmts, memo' = memo, NEW n \in Nat, n < Len(stack),
           NEW f, NEW run, Forked(n, f, run),
           \A k \in 1..(n + 1) : stack[k].block \notin {f.thn, f.els},
           \A k \in 1..(n + 1) : \A t \in DOMAIN memo : memo[t] # stack[k].block
    PROVE  AllOwn'
<1>1. TypeOK /\ stack \in Seq(Call) /\ Len(stack) \in Nat
  BY InnerAt
<1>2. /\ Len(blocks) \in Nat /\ DOMAIN blocks = 1..Len(blocks)
      /\ \A t \in DOMAIN memo : memo[t] \in DOMAIN blocks
      /\ \A i \in DOMAIN stmts : stmts[i] \in Stmt
  BY <1>1, HeapAt
<1>3. \A k \in 1..(n + 1) : k \in 1..Len(stack) /\ stack[k] \in Frame
  <2>1. \A k \in 1..(n + 1) : k \in 1..Len(stack)
    BY <1>1
  <2>2. \A k \in 1..Len(stack) : stack[k] \in Frame
    BY <1>1 DEF Call
  <2> QED
    BY <2>1, <2>2
<1>4. \A k \in 1..(n + 1) : /\ stack[k].block \in 1..Len(blocks)
                            /\ stack[k].thn \in 0..Len(blocks) /\ stack[k].els \in 0..Len(blocks)
  BY <1>2, <1>3, Fields
<1>5. PICK m : m = Len(blocks) + 1
  OBVIOUS
<1>6. \A c \in 0..Len(blocks) : c # m
  BY <1>2, <1>5
<1>7. ASSUME NEW j \in 1..(n + 2)
      PROVE  \/ /\ j \in 1..(n + 1) /\ stack'[j].block = stack[j].block
                /\ \/ j # n + 1 /\ stack'[j].thn = stack[j].thn /\ stack'[j].els = stack[j].els
                   \/ j = n + 1 /\ stack'[j].thn = f.thn /\ stack'[j].els = f.els
             \/ /\ j = n + 2 /\ stack'[j].block = m /\ stack'[j].thn = 0 /\ stack'[j].els = 0
  <2>1. j \in 1..n \/ j = n + 1 \/ j = n + 2
    OBVIOUS
  <2>2. \A k \in 1..n : k \in 1..(n + 1) /\ k # n + 1
    OBVIOUS
  <2>3. n + 1 \in 1..(n + 1)
    OBVIOUS
  <2> QED
    BY <1>5, <2>1, <2>2, <2>3 DEF Forked
<1>8. ASSUME NEW j \in 1..(n + 2)
      PROVE  stack'[j].thn \in 0..Len(blocks) /\ stack'[j].els \in 0..Len(blocks)
  <2>1. CASE j \in 1..(n + 1) /\ stack'[j].thn = stack[j].thn /\ stack'[j].els = stack[j].els
    <3>1. stack[j].thn \in 0..Len(blocks) /\ stack[j].els \in 0..Len(blocks)
      BY <1>4, <2>1
    <3> QED
      BY <2>1, <3>1
  <2>2. CASE stack'[j].thn = f.thn /\ stack'[j].els = f.els
    BY <2>2 DEF Forked
  <2>3. CASE stack'[j].thn = 0 /\ stack'[j].els = 0
    <3>1. 0 \in 0..Len(blocks)
      BY <1>2
    <3> QED
      BY <2>3, <3>1
  <2> QED
    BY <1>7, <2>1, <2>2, <2>3
<1> SUFFICES ASSUME NEW k \in 1..(n + 2) PROVE Owns(k)'
  BY DEF AllOwn, Forked
<1>9. CASE k \in 1..(n + 1)
  <2>1. PICK b : b = stack[k].block
    OBVIOUS
  <2>2. stack'[k].block = b /\ b \in 1..Len(blocks) /\ b # m /\ b # 0
    BY <1>2, <1>4, <1>6, <1>7, <1>9, <2>1
  <2>3. /\ \A j \in 1..Len(stack) : /\ stack[j].block = b => j = k
                                    /\ b \notin {stack[j].thn, stack[j].els}
        /\ \A i \in DOMAIN stmts : b \notin {stmts[i].thn, stmts[i].els}
    BY <1>3, <1>9, <2>1 DEF Apart, Ownership, AllOwn, Owns
  <2>4. \A j \in 1..(n + 2) : /\ stack'[j].block = b => j = k
                              /\ b \notin {stack'[j].thn, stack'[j].els}
    BY <1>3, <1>7, <1>9, <2>1, <2>2, <2>3
  <2>5. \A t \in DOMAIN memo : memo[t] # b
    BY <1>9, <2>1
  <2> QED
    BY <2>2, <2>3, <2>4, <2>5 DEF Owns, Forked
<1>10. CASE k \notin 1..(n + 1)
  <2>1. k = n + 2 /\ stack'[k].block = m
    BY <1>7, <1>10
  <2>2. \A j \in 1..(n + 2) : /\ stack'[j].block = m => j = k
                              /\ m \notin {stack'[j].thn, stack'[j].els}
    <3>1. ASSUME NEW j \in 1..(n + 2), stack'[j].block = m PROVE j = k
      <4>1. CASE j \in 1..(n + 1)
        <5>1. stack'[j].block = stack[j].block /\ stack[j].block \in 0..Len(blocks)
          BY <1>2, <1>4, <1>7, <4>1
        <5> QED
          BY <1>6, <3>1, <5>1
      <4>2. CASE j \notin 1..(n + 1)
        BY <1>7, <2>1, <4>2
      <4> QED
        BY <4>1, <4>2
    <3> QED
      BY <1>6, <1>8, <3>1
  <2>3. \A i \in DOMAIN stmts : m \notin {stmts[i].thn, stmts[i].els}
    BY <1>2, <1>6 DEF Stmt
  <2>4. \A t \in DOMAIN memo : memo[t] # m
    BY <1>2, <1>6
  <2> QED
    BY <2>1, <2>2, <2>3, <2>4 DEF Owns, Forked
<1> QED
  BY <1>9, <1>10

\* The runs that wait look alike or are as their callers leave them, and keep their blocks.
LEMMA ForkUnshared ==
    ASSUME Apart, NEW n \in Nat, n < Len(stack), NEW f, NEW run, Forked(n, f, run), OuterKept,
           \E b : b = f.block /\ \A i \in ToSet(blocks'[b]) : ~ Elsewhere(i, b)'
    PROVE  AllUnshared'
<1> SUFFICES ASSUME NEW k \in 1..(n + 2) PROVE Unshared(k)'
  BY DEF AllUnshared, Forked
<1>1. CASE k \in 1..n
  <2>1. k \in 1..(Len(stack) - 1) /\ stack'[k] = stack[k]
    BY <1>1, InnerAt DEF Forked
  <2>2. PICK b : b = stack[k].block /\ BlockKept(b)
    BY <2>1 DEF OuterKept
  <2>3. stack'[k].block = b /\ \A i \in ToSet(blocks'[b]) : ~ Elsewhere(i, b)'
    BY <2>1, <2>2 DEF BlockKept
  <2> QED
    BY <2>3 DEF Unshared, Elsewhere
<1>2. CASE k = n + 1
  <2>1. PICK b : b = f.block /\ \A i \in ToSet(blocks'[b]) : ~ Elsewhere(i, b)'
    OBVIOUS
  <2>2. stack'[k].block = b
    BY <1>2, <2>1 DEF Forked
  <2> QED
    BY <2>1, <2>2 DEF Unshared, Elsewhere
<1>3. CASE k = n + 2
  <2>1. ToSet(blocks'[stack'[k].block]) = {}
    BY <1>3, ElementsNone DEF Forked
  <2> QED
    BY <2>1 DEF Unshared
<1> QED
  BY <1>1, <1>2, <1>3

\* The run inherits what the call that starts it has visited.
LEMMA ForkVisits ==
    ASSUME NEW n \in Nat, NEW f, NEW run, Forked(n, f, run),
           \A k \in 1..(n + 1) :
              /\ \A v \in stack'[k].visited : \E j \in 1..k : Placed(v, stack[j])'
              /\ Inherited(k)'
    PROVE  Visits'
<1>1. \A k \in 1..(n + 2) : k \in 1..(n + 1) \/ k = n + 2
  OBVIOUS
<1>2. n + 1 \in 1..(n + 1) /\ \A j \in 1..(n + 1) : j \in 1..(n + 2)
  OBVIOUS
<1>3. AllPlaced'
  <2> SUFFICES ASSUME NEW k \in 1..(n + 2), NEW v \in stack'[k].visited
               PROVE  \E j \in 1..k : Placed(v, stack[j])'
    BY DEF AllPlaced, Forked
  <2>1. CASE k \in 1..(n + 1)
    BY <2>1
  <2>2. CASE k = n + 2
    <3>1. v \in stack'[n + 1].visited
      BY <2>2 DEF Forked
    <3>2. \E j \in 1..(n + 1) : Placed(v, stack[j])'
      BY <1>2, <3>1
    <3> QED
      BY <1>2, <2>2, <3>2
  <2> QED
    BY <1>1, <2>1, <2>2
<1>4. AllInherited'
  <2> SUFFICES ASSUME NEW k \in 1..(n + 2) PROVE Inherited(k)'
    BY DEF AllInherited, Forked
  <2>1. CASE k \in 1..(n + 1)
    BY <2>1
  <2>2. CASE k = n + 2
    <3> SUFFICES ASSUME NEW j \in 1..k PROVE Marks(stack[j])' \subseteq Tags(stack'[k])
      BY DEF Inherited, Live, Tags
    <3>1. Tags(stack'[k]) = Tags(stack'[n + 1])
      BY <2>2 DEF Tags, Forked
    <3>2. CASE j \in 1..(n + 1)
      <4>1. Inherited(n + 1)' /\ Live(stack'[n + 1])
        BY <1>2 DEF Forked, Live
      <4>2. Marks(stack[j])' \subseteq Tags(stack'[n + 1])
        BY <3>2, <4>1 DEF Inherited, Live, Tags
      <4> QED
        BY <3>1, <4>2
    <3>3. CASE j = n + 2
      <4>1. ToSet(blocks'[stack'[j].block]) = {} /\ ~ Waiting(stack'[j])
        BY <3>3, ElementsNone DEF Forked, Waiting
      <4>2. Marks(stack[j])' = {}
        BY <4>1 DEF Marks, TagsOf, Waiting
      <4> QED
        BY <4>2
    <3> QED
      BY <1>1, <2>2, <3>2, <3>3
  <2> QED
    BY <1>1, <2>1, <2>2
<1> QED
  BY <1>3, <1>4 DEF Visits

\* The n outermost calls stay; the next one changes from h to f.
LEMMA CallsVisits ==
    ASSUME Apart, OuterKept, NEW n \in Nat, n < Len(stack), \A k \in 1..n : stack'[k] = stack[k],
           NEW h, h = stack[n + 1], NEW f, f = stack'[n + 1], f.visited = h.visited,
           \A v : Placed(v, h) => Placed(v, f)',
           Live(f) => Live(h) /\ Marks(f)' \subseteq Tags(h)
    PROVE  /\ \A k \in 1..(n + 1) :
                 /\ \A v \in stack'[k].visited : \E j \in 1..k : Placed(v, stack[j])'
                 /\ Inherited(k)'
           /\ \A k \in 1..n : Marks(stack[k])' = Marks(stack[k])
<1>1. Len(stack) \in Nat /\ n <= Len(stack) /\ n + 1 \in 1..Len(stack)
      /\ \A k \in 1..n : k \in 1..(Len(stack) - 1)
  BY InnerAt
<1>2. \A k \in 1..n : \E b : b = stack[k].block /\ BlockKept(b)
  BY <1>1 DEF OuterKept
<1>3. \A k \in 1..n : \E g : g = stack'[k] /\ Alike(stack[k], g)
  BY DEF Alike
<1>4. \A k \in 1..n :
         /\ Marks(stack[k])' = Marks(stack[k])
         /\ \A v \in stack'[k].visited : \E j \in 1..k : Placed(v, stack[j])'
         /\ Inherited(k)'
  BY <1>1, <1>2, <1>3, OuterVisits
<1>5. ASSUME NEW k \in 1..n, NEW v, Placed(v, stack[k]) PROVE Placed(v, stack[k])'
  <2>1. PICK g : g = stack[k] /\ g = stack'[k]
    OBVIOUS
  <2>2. PICK b : b = g.block /\ BlockKept(b)
    BY <1>2, <2>1
  <2>3. Alike(g, g)
    BY DEF Alike
  <2>4. Placed(v, g)'
    BY <1>5, <2>1, <2>2, <2>3, MarksKept
  <2> QED
    BY <2>1, <2>4 DEF Placed, Waiting
<1>6. \A k \in 1..(n + 1) : k \in 1..n \/ k = n + 1
  OBVIOUS
<1>7. ASSUME NEW v \in f.visited PROVE \E j \in 1..(n + 1) : Placed(v, stack[j])'
  <2>1. PICK j \in 1..(n + 1) : Placed(v, stack[j])
    BY <1>1 DEF Apart, Visits, AllPlaced
  <2>2. Placed(v, stack[j])'
    <3>1. CASE j \in 1..n
      BY <1>5, <2>1, <3>1
    <3>2. CASE j = n + 1
      <4>1. Placed(v, f)'
        BY <2>1, <3>2
      <4> QED
        BY <3>2, <4>1 DEF Placed, Waiting
    <3> QED
      BY <1>6, <3>1, <3>2
  <2> QED
    BY <2>2
<1>8. Inherited(n + 1)'
  <2> SUFFICES ASSUME Live(f), NEW j \in 1..(n + 1) PROVE Marks(stack[j])' \subseteq Tags(f)
    BY DEF Inherited, Live, Tags
  <2>1. Tags(f) = Tags(h)
    BY DEF Tags
  <2>2. CASE j \in 1..n
    <3>1. Inherited(n + 1)
      BY <1>1 DEF Apart, Visits, AllInherited
    <3>2. Marks(stack[j]) \subseteq Tags(h)
      BY <3>1 DEF Inherited
    <3> QED
      BY <1>4, <2>1, <2>2, <3>2
  <2>3. CASE j = n + 1
    <3>1. Marks(stack[j])' = Marks(f)'
      BY <2>3 DEF Marks, Waiting
    <3> QED
      BY <2>1, <3>1
  <2> QED
    BY <1>6, <2>2, <2>3
<1> QED
  BY <1>4, <1>6, <1>7, <1>8

\* The condition a run is interrupted at leaves the block.
LEMMA ConditionPopped ==
    ASSUME Apart, Asks, ~ CatchingUp, NEW c, c = Last(Body)
    PROVE  /\ top.pc \in Branches /\ Body # <<>> /\ c \in DOMAIN stmts
           /\ stmts[c].tag = StmtAt(top.pc).tag /\ stmts[c].var = 0
           /\ stmts[c].what = prog.code[top.pc].what
<1>1. /\ FInv /\ TypeOK /\ In("run") /\ top.tested /\ top.pending = <<>> /\ Op = "branch"
      /\ Body \in Seq(DOMAIN stmts) /\ Sound(top) /\ top.phase = "run"
      /\ top = stack[Len(stack)] /\ Len(stack) \in 1..Len(stack)
  BY InnerAt DEF Asks, In
<1>2. /\ top.pc \in DOMAIN prog.code /\ prog.code[top.pc].op = "branch"
      /\ Body # <<>> /\ MadeOf(stmts[c], top.pc)
  BY <1>1, RunAt DEF AskedFor, Body
<1>3. c \in DOMAIN stmts /\ c \in ToSet(Body)
  BY <1>1, <1>2, ElementsFront
<1>4. FromPoint(stmts[c]) /\ stmts[c].tag \in Tag
  BY <1>1, <1>3, HeapAt DEF Apart, Shape, AllMade
<1>5. PICK q \in Branches : q = top.pc
  BY <1>2 DEF Branches
<1>6. stmts[c].tag \in Tags(top)
  <2>1. Inherited(Len(stack)) /\ Live(top)
    BY <1>1 DEF Apart, Visits, AllInherited, Live
  <2>2. Marks(top) \subseteq Tags(top)
    BY <1>1, <2>1 DEF Inherited
  <2>3. stmts[c].tag \in Marks(top)
    BY <1>3 DEF Marks, TagsOf, Body
  <2> QED
    BY <2>2, <2>3
<1>7. stmts[c].tag.dedup = 0
  <2>1. PICK v \in top.visited : v.tag = stmts[c].tag
    BY <1>6 DEF Tags
  <2>2. Uncopied(top) /\ Live(top)
    BY <1>1 DEF Sound, Live
  <2> QED
    BY <1>2, <1>5, <2>1, <2>2 DEF Uncopied, MadeOf
<1>8. stmts[c].tag = [loc |-> prog.code[top.pc].loc, dedup |-> 0]
  BY <1>2, <1>4, <1>7 DEF MadeOf, Tag
<1>9. StmtAt(top.pc).tag = [loc |-> prog.code[top.pc].loc, dedup |-> 0]
  BY <1>1, <1>2, PointTag
<1> QED
  BY <1>2, <1>3, <1>4, <1>5, <1>8, <1>9 DEF FromPoint, MadeOf
LEMMA OutOfBoolsMemo == Apart /\ OutOfBools => Shape' /\ Ownership' /\ Visits' /\ Memo'
<1> SUFFICES ASSUME Apart, OutOfBools PROVE Shape' /\ Ownership' /\ Visits' /\ Memo'
  OBVIOUS
<1>1. PICK n : n = Len(stack) - 1
  OBVIOUS
<1>2. PICK c : c = Last(Body)
  OBVIOUS
<1>3. PICK s : s = stmts[c]
  OBVIOUS
<1>4. PICK f : f = [top EXCEPT !.phase = "then", !.ifTag = StmtAt(top.pc).tag,
                               !.cond = [what |-> s.what, var |-> s.var]]
  OBVIOUS
<1>5. PICK run : run = NewRun(Answers(f, TRUE), f, Len(blocks) + 1)
  OBVIOUS
<1>6. /\ Asks /\ ~ CatchingUp /\ prog' = prog /\ memo' = memo /\ stmts' = stmts
      /\ blocks' = Append([blocks EXCEPT ![top.block] = Front(@)], <<>>)
      /\ stack' = Append(SetTop(f), run)
  BY <1>2, <1>3, <1>4, <1>5 DEF OutOfBools
<1>7. /\ TypeOK /\ stack \in Seq(Call) /\ top \in Frame /\ Sound(top) /\ top.phase = "run"
      /\ top.block \in DOMAIN blocks /\ top = stack[Len(stack)] /\ Len(stack) \in 1..Len(stack)
      /\ Len(stack) \in Nat \ {0} /\ Body \in Seq(DOMAIN stmts) /\ Live(top) /\ ~ Waiting(top)
  BY <1>6, InnerAt DEF Asks, In, Live, Waiting
<1>8. /\ top.pc \in Branches /\ Body # <<>> /\ c \in DOMAIN stmts /\ s.var = 0
      /\ s.tag = StmtAt(top.pc).tag /\ s.what = prog.code[top.pc].what
  BY <1>2, <1>3, <1>6, ConditionPopped
<1>9. /\ f.phase = "then" /\ f.pc = top.pc /\ f.ifTag = s.tag /\ f.visited = top.visited
      /\ f.cond = [what |-> prog.code[top.pc].what, var |-> 0] /\ f.block = top.block
      /\ f.thn = top.thn /\ f.els = top.els /\ f.queue = top.queue /\ f.tail = top.tail
      /\ f.cursor = top.cursor
  BY <1>4, <1>7, <1>8 DEF Frame
<1>10. /\ n \in Nat /\ n < Len(stack) /\ n + 1 = Len(stack) /\ Len(stack') = n + 2
       /\ \A k \in 1..n : stack'[k] = stack[k]
       /\ stack'[n + 1] = f /\ stack'[n + 2] = run /\ top' = run
  <2>1. /\ n \in Nat /\ n < Len(stack) /\ n + 1 = Len(stack) /\ Len(stack') = n + 2
        /\ stack'[n + 1] = f /\ stack'[n + 2] = run
        /\ \A k \in 1..n : stack'[k] = stack[k]
    BY <1>1, <1>6, <1>7 DEF SetTop
  <2> QED
    BY <1>1, <1>6, <1>7, <2>1 DEF top, Last, SetTop
<1>11. /\ run.phase = "run" /\ run.visited = f.visited /\ run.block = Len(blocks) + 1
       /\ run.thn = 0 /\ run.els = 0 /\ run.queue = <<>> /\ run.tail = <<>> /\ run.cursor = 1
  BY <1>5 DEF NewRun
<1>12. /\ Len(blocks) + 1 \in DOMAIN blocks' /\ blocks'[Len(blocks) + 1] = <<>>
       /\ \A d \in DOMAIN blocks' : d \in DOMAIN blocks \/ d = Len(blocks) + 1
       /\ \A d \in DOMAIN blocks : d \in DOMAIN blocks'
       /\ \A d \in DOMAIN blocks : d # top.block => blocks'[d] = blocks[d]
       /\ ToSet(Body) = ToSet(blocks'[top.block]) \cup {c}
  <2>1. /\ Len(blocks) + 1 \in DOMAIN blocks' /\ blocks'[Len(blocks) + 1] = <<>>
        /\ \A d \in DOMAIN blocks' : d \in DOMAIN blocks \/ d = Len(blocks) + 1
        /\ \A d \in DOMAIN blocks : d \in DOMAIN blocks'
        /\ \A d \in DOMAIN blocks : d # top.block => blocks'[d] = blocks[d]
        /\ blocks'[top.block] = Front(Body)
    <3>1. blocks \in Seq(Seq(DOMAIN stmts))
      BY <1>7 DEF TypeOK, HeapOK
    <3>2. PICK q : q = [blocks EXCEPT ![top.block] = Front(@)]
      OBVIOUS
    <3>3. /\ Len(q) = Len(blocks) /\ Len(blocks) \in Nat /\ DOMAIN q = 1..Len(blocks)
          /\ DOMAIN blocks = 1..Len(blocks)
          /\ \A d \in DOMAIN blocks : q[d] = IF d = top.block THEN Front(Body) ELSE blocks[d]
      BY <1>7, <3>1, <3>2 DEF Body
    <3>4. /\ Len(blocks) + 1 \in DOMAIN blocks' /\ blocks'[Len(blocks) + 1] = <<>>
          /\ DOMAIN blocks' = 1..(Len(blocks) + 1) /\ \A d \in DOMAIN blocks : blocks'[d] = q[d]
      BY <1>6, <3>2, <3>3
    <3> QED
      BY <1>7, <3>3, <3>4
  <2>2. ToSet(Body) = ToSet(Front(Body)) \cup {c}
    BY <1>2, <1>7, <1>8, ElementsFront
  <2> QED
    BY <2>1, <2>2
<1>13. Forked(n, f, run)
  <2>1. top.thn \in 0..Len(blocks) /\ top.els \in 0..Len(blocks)
    BY <1>7, Fields
  <2> QED
    BY <1>9, <1>10, <1>11, <1>12, <1>7, <2>1 DEF Forked
<1>14. Sound(f)
  <2>1. Interrupted(f)
    BY <1>8, <1>9 DEF Interrupted
  <2>2. Idle(f)
    BY <1>7, <1>9 DEF Sound, Idle, Live
  <2>3. Once(f) /\ Uncopied(f)
    BY <1>7, <1>9 DEF Sound, Once, Uncopied
  <2> QED
    BY <2>1, <2>2, <2>3 DEF Sound
<1>15. Shape'
  BY <1>6, <1>10, <1>13, <1>14, ForkShape
<1>16. AllOwn'
  <2>1. \A k \in 1..(n + 1) : k \in 1..Len(stack)
    BY <1>10
  <2>2. \A k \in 1..(n + 1) : /\ stack[k].block \notin {f.thn, f.els}
                              /\ \A t \in DOMAIN memo : memo[t] # stack[k].block
    BY <1>7, <1>9, <2>1 DEF Apart, Ownership, AllOwn, Owns
  <2> QED
    BY <1>6, <1>10, <1>13, <2>2, ForkOwn
<1>17. OuterKept
  <2>1. \A d \in DOMAIN blocks : ~ Movable(d) => blocks'[d] = blocks[d]
    BY <1>12 DEF Movable
  <2>2. \A i \in DOMAIN stmts : \A d \in DOMAIN blocks' :
           i \in ToSet(blocks'[d]) => d \in DOMAIN blocks /\ i \in ToSet(blocks[d])
    BY <1>7, <1>12, ElementsNone DEF Body
  <2>3. ToSet(run.queue) \cup ToSet(run.tail) = {}
    BY <1>11, ElementsNone
  <2> QED
    BY <1>6, <1>10, <2>1, <2>2, <2>3, OuterSafe
<1>18. AllUnshared'
  <2>1. PICK b : b = top.block
    OBVIOUS
  <2>2. \A i \in ToSet(blocks[b]) : ~ Elsewhere(i, b)
    BY <1>7, <2>1 DEF Apart, Ownership, AllUnshared, Unshared
  <2>3. ASSUME NEW i \in ToSet(blocks'[b]) PROVE ~ Elsewhere(i, b)'
    <3>1. i \notin ToSet(top'.queue) \cup ToSet(top'.tail)
      BY <1>10, <1>11, ElementsNone
    <3>2. i \in ToSet(blocks[b])
      BY <1>12, <2>1 DEF Body
    <3>3. \A d \in DOMAIN blocks' \ {b} : i \notin ToSet(blocks'[d])
      BY <1>12, <2>1, <2>2, <3>2, ElementsNone DEF Elsewhere
    <3> QED
      BY <3>1, <3>3 DEF Elsewhere
  <2> QED
    BY <1>9, <1>10, <1>13, <1>17, <2>1, <2>3, ForkUnshared
<1>19. Marks(f)' = Marks(top)
  <2>1. PICK b : b = top.block
    OBVIOUS
  <2>2. TagsOf(b) = TagsOf(b)' \cup {s.tag}
    BY <1>3, <1>6, <1>12, <2>1 DEF TagsOf, Body
  <2>3. Marks(top) = TagsOf(b)
    BY <1>7, <2>1 DEF Marks
  <2>4. Marks(f)' = TagsOf(b)' \cup {s.tag}
    BY <1>9, <2>1 DEF Marks, Waiting
  <2> QED
    BY <2>2, <2>3, <2>4
<1>20. /\ \A k \in 1..(n + 1) : /\ \A v \in stack'[k].visited : \E j \in 1..k : Placed(v, stack[j])'
                                /\ Inherited(k)'
       /\ \A k \in 1..n : Marks(stack[k])' = Marks(stack[k])
  <2>1. ASSUME NEW v, Placed(v, top) PROVE Placed(v, f)'
    <3>1. v.stmt \in ToSet(Body) /\ stmts[v.stmt].tag = v.tag
      BY <1>7, <2>1 DEF Placed, Body
    <3>2. CASE v.stmt = c
      BY <1>3, <1>9, <3>1, <3>2 DEF Placed, Waiting
    <3>3. CASE v.stmt # c
      BY <1>6, <1>9, <1>12, <3>1, <3>3 DEF Placed
    <3> QED
      BY <3>2, <3>3
  <2>2. Marks(top) \subseteq Tags(top)
    BY <1>7 DEF Apart, Visits, AllInherited, Inherited
  <2> QED
    BY <1>7, <1>9, <1>10, <1>17, <1>19, <2>1, <2>2, CallsVisits
<1>21. Visits'
  BY <1>10, <1>13, <1>20, ForkVisits
<1>22. ASSUME NEW t, Pending(t) PROVE Pending(t)'
  <2>1. CASE Due(top, t)
    <3>1. t \in Marks(top)
      BY <1>7, <2>1, ElementsNone DEF Due, Sound, Idle
    <3>2. t \in Marks(stack[n + 1])'
      BY <1>10, <1>19, <3>1 DEF Marks, Waiting
    <3>3. n + 1 \in 1..(Len(stack') - 1)
      BY <1>10
    <3> QED
      BY <3>2, <3>3 DEF Pending
  <2>2. CASE \E k \in 1..n : t \in Marks(stack[k])
    <3>1. PICK k \in 1..n : t \in Marks(stack[k])'
      BY <1>20, <2>2
    <3>2. k \in 1..(Len(stack') - 1)
      BY <1>10
    <3> QED
      BY <3>1, <3>2 DEF Pending
  <2> QED
    BY <1>1, <1>22, <2>1, <2>2 DEF Pending
<1>23. ASSUME NEW b \in DOMAIN blocks, NEW t \in TagsOf(b) PROVE t \in TagsOf(b)' \/ Pending(t)'
  <2>1. CASE b = top.block
    <3>1. Due(top, t)
      BY <1>7, <2>1 DEF Due, Marks
    <3> QED
      BY <1>22, <3>1 DEF Pending
  <2>2. CASE b # top.block
    BY <1>6, <1>12, <2>2 DEF TagsOf
  <2> QED
    BY <2>1, <2>2
<1>24. \A i : ~ Coming(top, i)
  BY <1>7 DEF Coming
<1>25. Memo'
  BY <1>6, <1>22, <1>23, <1>24, CallsMemo
<1> QED
  BY <1>15, <1>16, <1>18, <1>21, <1>25 DEF Ownership
\* A call has returned its block: nothing is left to be memoized, and its caller is the
\* innermost of those that wait.
LEMMA ReturnedAt ==
    ASSUME Apart, Finished, Len(stack) > 1, NEW n, n = Len(stack) - 2, NEW h, h = caller
    PROVE  /\ n \in Nat /\ n < Len(stack) /\ n + 1 \in 1..(Len(stack) - 1) /\ n + 2 = Len(stack)
           /\ n + 1 = Len(stack) - 1 /\ h = stack[n + 1] /\ h \in Frame /\ Live(h) /\ Sound(h)
           /\ h.phase \in {"then", "else"} /\ Waiting(h) /\ h.block \in DOMAIN blocks
           /\ h.queue = <<>> /\ h.tail = <<>> /\ h.cursor = 1
           /\ \A t : ~ Due(top, t)
           /\ \A i : ~ Coming(top, i)
           /\ \A k \in 1..(n + 1) : /\ stack[k].block \notin {top.block, h.thn, h.els}
                                    /\ stack[k].block \in DOMAIN blocks
                                    /\ \A t \in DOMAIN memo : memo[t] # stack[k].block
                                    /\ \A i \in DOMAIN stmts :
                                          stack[k].block \notin {stmts[i].thn, stmts[i].els}
<1>1. /\ Len(stack) \in Nat /\ top = stack[Len(stack)] /\ Len(stack) \in 1..Len(stack)
      /\ TypeOK /\ top \in Frame /\ Sound(top) /\ Body \in Seq(DOMAIN stmts)
  BY InnerAt
<1>2. /\ n \in Nat /\ n < Len(stack) /\ n + 1 \in 1..(Len(stack) - 1) /\ n + 2 = Len(stack)
      /\ n + 1 = Len(stack) - 1 /\ h = stack[n + 1] /\ n + 1 \in 1..Len(stack)
  BY <1>1 DEF caller
<1>3. /\ h \in Frame /\ Live(h) /\ Sound(h) /\ h.phase \in {"then", "else"} /\ Waiting(h)
      /\ h.block \in DOMAIN blocks
  BY <1>2, OuterAt
<1>4. h.queue = <<>> /\ h.tail = <<>> /\ h.cursor = 1
  BY <1>3 DEF Sound, Idle
<1>5. top.phase = "memo" /\ top.cursor > Len(Body) /\ top.tail = <<>> /\ top.cursor \in Nat
  BY <1>1, Fields DEF Finished, In, Sound, Idle
<1>6. \A m \in top.cursor..Len(Body) : FALSE
  BY <1>1, <1>5, LenProperties
<1>7. \A t : ~ Due(top, t)
  BY <1>5, <1>6, ElementsNone DEF Due, Body
<1>8. \A i : ~ Coming(top, i)
  BY <1>5, <1>6 DEF Coming, Body
<1>9. ASSUME NEW k \in 1..(n + 1)
      PROVE  /\ stack[k].block \notin {top.block, h.thn, h.els} /\ stack[k].block \in DOMAIN blocks
             /\ \A t \in DOMAIN memo : memo[t] # stack[k].block
             /\ \A i \in DOMAIN stmts : stack[k].block \notin {stmts[i].thn, stmts[i].els}
  <2>1. k \in 1..(Len(stack) - 1) /\ k \in 1..Len(stack) /\ k # Len(stack)
    BY <1>2
  <2>2. Owns(k) /\ stack[k].block \in DOMAIN blocks
    BY <2>1, OuterAt DEF Apart, Ownership, AllOwn
  <2> QED
    BY <1>1, <1>2, <2>1, <2>2 DEF Owns
<1> QED
  BY <1>2, <1>3, <1>4, <1>7, <1>8, <1>9

\* What has been pending is so still when the innermost of the calls that wait changes from
\* h to f.
LEMMA ReturnedMemo ==
    ASSUME Apart, memo' = memo, stmts' = stmts, \A b \in DOMAIN blocks : blocks'[b] = blocks[b],
           NEW n \in Nat, n + 1 = Len(stack) - 1, NEW h, h = stack[n + 1], NEW f,
           Marks(f)' = Marks(h), \A k \in 1..n : Marks(stack[k])' = Marks(stack[k]),
           \A t : ~ Due(top, t), \A i : ~ Coming(top, i),
           \A t \in Marks(f)' : Pending(t)',
           \A t : (\E k \in 1..n : t \in Marks(stack[k])') => Pending(t)'
    PROVE  Memo'
<1>1. ASSUME NEW t, Pending(t) PROVE Pending(t)'
  <2>1. PICK k \in 1..(n + 1) : t \in Marks(stack[k])
    BY <1>1 DEF Pending
  <2>2. k \in 1..n \/ k = n + 1
    OBVIOUS
  <2>3. CASE k \in 1..n
    BY <2>1, <2>3
  <2>4. CASE k = n + 1
    BY <2>1, <2>4
  <2> QED
    BY <2>2, <2>3, <2>4
<1>2. \A b \in DOMAIN blocks : TagsOf(b)' = TagsOf(b)
  BY DEF TagsOf
<1> QED
  BY <1>1, <1>2, CallsMemo

LEMMA ReturnThenMemo == Apart /\ ReturnThen => Shape' /\ Ownership' /\ Visits' /\ Memo'
<1> SUFFICES ASSUME Apart, ReturnThen PROVE Shape' /\ Ownership' /\ Visits' /\ Memo'
  OBVIOUS
<1>1. PICK n : n = Len(stack) - 2
  OBVIOUS
<1>2. PICK h : h = caller
  OBVIOUS
<1>3. PICK f : f = [h EXCEPT !.phase = "else", !.thn = top.block]
  OBVIOUS
<1>4. PICK run : run = NewRun(Answers(f, FALSE), f, Len(blocks) + 1)
  OBVIOUS
<1>5. /\ Finished /\ Len(stack) > 1 /\ prog' = prog /\ memo' = memo /\ stmts' = stmts
      /\ blocks' = Append(blocks, <<>>) /\ h.phase = "then"
      /\ stack' = SubSeq(stack, 1, n) \o <<f, run>>
  BY <1>1, <1>2, <1>3, <1>4 DEF ReturnThen
<1>6. /\ TypeOK /\ stack \in Seq(Call) /\ top \in Frame /\ top.block \in DOMAIN blocks
  BY InnerAt
<1>7. /\ n \in Nat /\ n < Len(stack) /\ n + 1 \in 1..(Len(stack) - 1) /\ n + 2 = Len(stack)
      /\ n + 1 = Len(stack) - 1 /\ h = stack[n + 1] /\ h \in Frame /\ Live(h) /\ Sound(h)
      /\ Waiting(h) /\ h.block \in DOMAIN blocks
      /\ h.queue = <<>> /\ h.tail = <<>> /\ h.cursor = 1
      /\ (\A t : ~ Due(top, t)) /\ (\A i : ~ Coming(top, i))
  BY <1>1, <1>2, <1>5, ReturnedAt
<1>8. /\ f.phase = "else" /\ f.pc = h.pc /\ f.ifTag = h.ifTag /\ f.cond = h.cond
      /\ f.visited = h.visited /\ f.block = h.block /\ f.thn = top.block /\ f.els = h.els
      /\ f.queue = <<>> /\ f.tail = <<>> /\ f.cursor = 1
  BY <1>3, <1>7 DEF Frame
<1>9. /\ run.phase = "run" /\ run.visited = f.visited /\ run.block = Len(blocks) + 1
      /\ run.thn = 0 /\ run.els = 0 /\ run.queue = <<>> /\ run.tail = <<>> /\ run.cursor = 1
  BY <1>4 DEF NewRun
<1>10. /\ Len(stack') = n + 2 /\ stack'[n + 1] = f /\ stack'[n + 2] = run /\ top' = run
       /\ \A k \in 1..n : stack'[k] = stack[k]
  <2>1. PICK q : q = SubSeq(stack, 1, n)
    OBVIOUS
  <2>2. /\ q \in Seq(Call) /\ Len(q) = n /\ n \in Nat
        /\ \A k \in 1..n : q[k] = stack[k]
    BY <1>6, <1>7, <2>1, Cut
  <2>3. stack' = q \o <<f, run>>
    BY <1>5, <2>1
  <2>4. /\ Len(stack') = n + 2 /\ stack'[n + 1] = f /\ stack'[n + 2] = run
        /\ \A k \in 1..n : stack'[k] = stack[k]
    <3>1. PICK r : r = <<f, run>>
      OBVIOUS
    <3>2. /\ q \in Seq(Call \cup {f, run}) /\ r \in Seq(Call \cup {f, run})
          /\ Len(r) = 2 /\ r[1] = f /\ r[2] = run
      BY <2>2, <3>1
    <3>3. /\ Len(stack') = Len(q) + Len(r) /\ \A i \in 1..Len(q) : stack'[i] = q[i]
          /\ \A i \in 1..Len(r) : stack'[Len(q) + i] = r[i]
      BY <2>3, <3>1, <3>2, Joined
    <3> QED
      BY <2>2, <3>2, <3>3
  <2>5. top' = run
    BY <2>4 DEF top, Last
  <2> QED
    BY <2>4, <2>5
<1>11. /\ Len(blocks) + 1 \in DOMAIN blocks' /\ blocks'[Len(blocks) + 1] = <<>>
       /\ \A d \in DOMAIN blocks' : d \in DOMAIN blocks \/ d = Len(blocks) + 1
       /\ \A d \in DOMAIN blocks : d \in DOMAIN blocks' /\ blocks'[d] = blocks[d]
  <2>1. blocks \in Seq(Seq(DOMAIN stmts))
    BY <1>6 DEF TypeOK, HeapOK
  <2> QED
    BY <1>5, <2>1
<1>12. Forked(n, f, run)
  <2>1. top.block \in 0..Len(blocks)
    <3>1. DOMAIN blocks = 1..Len(blocks) /\ Len(blocks) \in Nat
      BY <1>6, HeapAt
    <3> QED
      BY <1>6, <3>1
  <2>2. h.els \in 0..Len(blocks)
    BY <1>7, Fields
  <2> QED
    BY <1>7, <1>8, <1>9, <1>10, <1>11, <2>1, <2>2 DEF Forked
<1>13. Sound(f)
  <2>1. Interrupted(f)
    BY <1>7, <1>8 DEF Sound, Interrupted
  <2>2. Once(f) /\ Uncopied(f)
    BY <1>7, <1>8 DEF Sound, Once, Uncopied
  <2> QED
    BY <1>8, <2>1, <2>2 DEF Sound, Idle
<1>14. Shape'
  BY <1>5, <1>7, <1>12, <1>13, ForkShape
<1>15. AllOwn'
  <2>1. \A k \in 1..(n + 1) : /\ stack[k].block \notin {top.block, h.thn, h.els}
                              /\ \A t \in DOMAIN memo : memo[t] # stack[k].block
    BY <1>1, <1>2, <1>5, ReturnedAt
  <2>2. \A k \in 1..(n + 1) : stack[k].block \notin {f.thn, f.els}
    BY <1>8, <2>1
  <2> QED
    BY <1>5, <1>7, <1>12, <2>1, <2>2, ForkOwn
<1>16. OuterKept
  <2>1. \A i \in DOMAIN stmts : \A d \in DOMAIN blocks' :
           i \in ToSet(blocks'[d]) => d \in DOMAIN blocks /\ i \in ToSet(blocks[d])
    BY <1>11, ElementsNone
  <2>2. ToSet(run.queue) \cup ToSet(run.tail) = {}
    BY <1>9, ElementsNone
  <2> QED
    BY <1>5, <1>10, <1>11, <2>1, <2>2, OuterSafe
<1>17. PICK b : b = h.block /\ BlockKept(b)
  BY <1>7, <1>16 DEF OuterKept
<1>18. AllUnshared'
  <2>1. \A i \in ToSet(blocks'[b]) : ~ Elsewhere(i, b)'
    BY <1>17 DEF BlockKept
  <2> QED
    BY <1>7, <1>8, <1>12, <1>16, <1>17, <2>1, ForkUnshared
<1>19. Marks(f)' = Marks(h) /\ \A v : Placed(v, h) => Placed(v, f)'
  <2>1. Alike(h, f)
    BY <1>7, <1>8 DEF Alike, Waiting
  <2> QED
    BY <1>17, <2>1, MarksKept
<1>20. /\ \A k \in 1..(n + 1) : /\ \A v \in stack'[k].visited : \E j \in 1..k : Placed(v, stack[j])'
                                /\ Inherited(k)'
       /\ \A k \in 1..n : Marks(stack[k])' = Marks(stack[k])
  <2>1. Marks(h) \subseteq Tags(h)
    <3>1. n + 1 \in 1..Len(stack)
      BY <1>7
    <3>2. n + 1 \in 1..(n + 1)
      BY <1>7
    <3> QED
      BY <1>7, <3>1, <3>2 DEF Apart, Visits, AllInherited, Inherited
  <2> QED
    BY <1>7, <1>8, <1>10, <1>16, <1>19, <2>1, CallsVisits
<1>21. Visits'
  BY <1>7, <1>12, <1>20, ForkVisits
<1>22. Memo'
  <2>1. \A k \in 1..(n + 1) : k \in 1..(Len(stack') - 1)
    BY <1>7, <1>10
  <2>2. ASSUME NEW t \in Marks(f)' PROVE Pending(t)'
    <3>1. t \in Marks(stack[n + 1])'
      BY <1>10, <2>2 DEF Marks, Waiting
    <3>2. n + 1 \in 1..(Len(stack') - 1)
      BY <1>7, <1>10
    <3> QED
      BY <3>1, <3>2 DEF Pending
  <2>3. \A t : (\E k \in 1..n : t \in Marks(stack[k])') => Pending(t)'
    <3>1. \A k \in 1..n : k \in 1..(Len(stack') - 1)
      BY <1>7, <1>10
    <3> QED
      BY <3>1 DEF Pending
  <2> QED
    BY <1>5, <1>7, <1>11, <1>19, <1>20, <2>2, <2>3, ReturnedMemo
<1> QED
  BY <1>14, <1>15, <1>18, <1>21, <1>22 DEF Ownership

LEMMA ReturnElseMemo == Apart /\ ReturnElse => Shape' /\ Ownership' /\ Visits' /\ Memo'
<1> SUFFICES ASSUME Apart, ReturnElse PROVE Shape' /\ Ownership' /\ Visits' /\ Memo'
  OBVIOUS
<1>1. PICK n : n = Len(stack) - 2
  OBVIOUS
<1>2. PICK h : h = caller
  OBVIOUS
<1>3. PICK f : f = [h EXCEPT !.phase = "trim", !.els = top.block]
  OBVIOUS
<1>4. /\ Finished /\ Len(stack) > 1 /\ prog' = prog /\ memo' = memo /\ stmts' = stmts
      /\ blocks' = blocks /\ stack' = Append(SubSeq(stack, 1, n), f)
  BY <1>1, <1>2, <1>3 DEF ReturnElse
<1>5. TypeOK /\ stack \in Seq(Call)
  BY InnerAt
<1>6. /\ n \in Nat /\ n < Len(stack) /\ n + 1 \in 1..(Len(stack) - 1) /\ n + 2 = Len(stack)
      /\ n + 1 = Len(stack) - 1 /\ h = stack[n + 1] /\ h \in Frame /\ Live(h) /\ Sound(h)
      /\ Waiting(h) /\ h.block \in DOMAIN blocks
      /\ h.queue = <<>> /\ h.tail = <<>> /\ h.cursor = 1
      /\ (\A t : ~ Due(top, t)) /\ (\A i : ~ Coming(top, i))
  BY <1>1, <1>2, <1>4, ReturnedAt
<1>7. /\ f.phase = "trim" /\ f.pc = h.pc /\ f.ifTag = h.ifTag /\ f.cond = h.cond
      /\ f.visited = h.visited /\ f.block = h.block /\ f.thn = h.thn /\ f.els = top.block
      /\ f.queue = <<>> /\ f.tail = <<>> /\ f.cursor = 1
  BY <1>3, <1>6 DEF Frame
<1>8. ~ Live(f) /\ Waiting(f)
  BY <1>7 DEF Live, Waiting
<1>9. /\ Len(stack') = n + 1 /\ stack'[n + 1] = f /\ top' = f
      /\ \A k \in 1..n : stack'[k] = stack[k]
  <2>1. /\ SubSeq(stack, 1, n) \in Seq(Call) /\ Len(SubSeq(stack, 1, n)) = n
        /\ \A k \in 1..n : SubSeq(stack, 1, n)[k] = stack[k]
    BY <1>5, <1>6, Cut
  <2>2. /\ Len(stack') = n + 1 /\ stack'[n + 1] = f /\ \A k \in 1..n : stack'[k] = stack[k]
    BY <1>4, <1>6, <2>1
  <2> QED
    BY <2>2 DEF top, Last
<1>10. \A k \in 1..(n + 1) : k \in 1..n \/ k = n + 1
  BY <1>6
<1>11. Sound(f)
  <2>1. Interrupted(f)
    BY <1>6, <1>7 DEF Sound, Interrupted
  <2>2. Once(f) /\ Uncopied(f)
    BY <1>6, <1>7, <1>8 DEF Sound, Once, Uncopied
  <2> QED
    BY <1>7, <2>1, <2>2 DEF Sound, Idle
<1>12. Shape'
  <2>1. \A k \in 1..n : k \in 1..(Len(stack) - 1)
    BY <1>6
  <2>2. \A k \in 1..(n + 1) : Sound(stack'[k])
    BY <1>9, <1>10, <1>11, <2>1, OuterAt
  <2> QED
    BY <1>4, <1>9, <2>2, CallsShape
<1>13. AllOwn'
  <2> SUFFICES ASSUME NEW k \in 1..(n + 1) PROVE Owns(k)'
    BY <1>9 DEF AllOwn
  <2>1. PICK b : b = stack[k].block
    OBVIOUS
  <2>2. stack'[k].block = b
    BY <1>6, <1>7, <1>9, <1>10, <2>1
  <2>3. /\ b \notin {top.block, h.thn, h.els} /\ \A t \in DOMAIN memo : memo[t] # b
        /\ \A i \in DOMAIN stmts : b \notin {stmts[i].thn, stmts[i].els}
    BY <1>1, <1>2, <1>4, <2>1, ReturnedAt
  <2>4. \A j \in 1..(n + 1) : j \in 1..Len(stack)
    BY <1>6
  <2>5. \A j \in 1..Len(stack) : /\ stack[j].block = b => j = k
                                 /\ b \notin {stack[j].thn, stack[j].els}
    BY <2>1, <2>4 DEF Apart, Ownership, AllOwn, Owns
  <2>6. \A j \in 1..(n + 1) : /\ stack'[j].block = b => j = k
                              /\ b \notin {stack'[j].thn, stack'[j].els}
    BY <1>6, <1>7, <1>9, <1>10, <2>3, <2>4, <2>5
  <2> QED
    BY <1>4, <1>9, <2>2, <2>3, <2>6 DEF Owns
<1>14. OuterKept
  <2>1. ToSet(f.queue) \cup ToSet(f.tail) = {}
    BY <1>7, ElementsNone
  <2> QED
    BY <1>4, <1>9, <2>1, OuterSafe
<1>15. AllUnshared'
  <2> SUFFICES ASSUME NEW k \in 1..(n + 1) PROVE Unshared(k)'
    BY <1>9 DEF AllUnshared
  <2>1. CASE k \in 1..n
    <3>1. k \in 1..(Len(stack) - 1) /\ stack'[k] = stack[k]
      BY <1>6, <1>9, <2>1
    <3>2. PICK b : b = stack[k].block /\ BlockKept(b)
      BY <1>14, <3>1 DEF OuterKept
    <3>3. stack'[k].block = b /\ \A i \in ToSet(blocks'[b]) : ~ Elsewhere(i, b)'
      BY <3>1, <3>2 DEF BlockKept
    <3> QED
      BY <3>3 DEF Unshared, Elsewhere
  <2>2. CASE k = n + 1
    BY <1>8, <1>9, <2>2 DEF Unshared, Live
  <2> QED
    BY <1>10, <2>1, <2>2
<1>16. PICK b : b = h.block /\ BlockKept(b)
  BY <1>6, <1>14 DEF OuterKept
<1>17. Marks(f)' = Marks(h) /\ \A v : Placed(v, h) => Placed(v, f)'
  <2>1. Alike(h, f)
    BY <1>6, <1>7, <1>8 DEF Alike
  <2> QED
    BY <1>16, <2>1, MarksKept
<1>18. /\ \A k \in 1..(n + 1) : /\ \A v \in stack'[k].visited : \E j \in 1..k : Placed(v, stack[j])'
                                /\ Inherited(k)'
       /\ \A k \in 1..n : Marks(stack[k])' = Marks(stack[k])
  BY <1>6, <1>7, <1>8, <1>9, <1>14, <1>17, CallsVisits
<1>19. Visits'
  BY <1>9, <1>18 DEF Visits, AllPlaced, AllInherited
<1>20. Memo'
  <2>1. ASSUME NEW t \in Marks(f)' PROVE Pending(t)'
    <3>1. Due(top, t)'
      BY <1>7, <1>9, <2>1 DEF Due, Marks, Waiting
    <3> QED
      BY <3>1 DEF Pending
  <2>2. \A t : (\E k \in 1..n : t \in Marks(stack[k])') => Pending(t)'
    <3>1. \A k \in 1..n : k \in 1..(Len(stack') - 1)
      BY <1>6, <1>9
    <3> QED
      BY <3>1 DEF Pending
  <2> QED
    BY <1>4, <1>6, <1>17, <1>18, <2>1, <2>2, ReturnedMemo
<1> QED
  BY <1>12, <1>13, <1>15, <1>19, <1>20 DEF Ownership
-----------------------------------------------------------------------------
(* The branches of an if *)

LEMMA TrimAt ==
    ASSUME Apart, In("trim")
    PROVE  /\ TypeOK /\ top \in Frame /\ Sound(top) /\ top.phase = "trim" /\ Waiting(top) /\ ~ Live(top)
           /\ top.block \in DOMAIN blocks /\ top.thn \in DOMAIN blocks /\ top.els \in DOMAIN blocks
           /\ top.block # top.thn /\ top.block # top.els
           /\ top = stack[Len(stack)] /\ Len(stack) \in 1..Len(stack)
           /\ top.queue = <<>> /\ top.queue \in Seq(DOMAIN stmts) /\ top.tail \in Seq(DOMAIN stmts)
           /\ top.cursor = 1
           /\ \A i : ~ Coming(top, i)
           /\ \A t : Due(top, t) => t \in Marks(top) \/ \E i \in ToSet(top.tail) : stmts[i].tag = t
<1>1. /\ TypeOK /\ top \in Call /\ top \in Frame /\ Sound(top) /\ top.phase = "trim"
      /\ top.block \in DOMAIN blocks /\ top = stack[Len(stack)] /\ Len(stack) \in 1..Len(stack)
      /\ top.queue \in Seq(DOMAIN stmts) /\ top.tail \in Seq(DOMAIN stmts)
  BY InnerAt DEF In
<1>2. top.thn \in DOMAIN blocks /\ top.els \in DOMAIN blocks
  <2>1. top.thn # 0 /\ top.els # 0
    BY <1>1 DEF Call
  <2>2. top.thn \in 0..Len(blocks) /\ top.els \in 0..Len(blocks)
    BY <1>1, Fields
  <2>3. DOMAIN blocks = 1..Len(blocks) /\ Len(blocks) \in Nat
    BY <1>1, HeapAt
  <2> QED
    BY <2>1, <2>2, <2>3
<1>3. top.block # top.thn /\ top.block # top.els
  BY <1>1 DEF Apart, Ownership, AllOwn, Owns
<1>4. Waiting(top) /\ ~ Live(top) /\ top.queue = <<>> /\ top.cursor = 1
  BY <1>1 DEF Waiting, Live, Sound, Idle
<1>5. \A i : ~ Coming(top, i)
  BY <1>1 DEF Coming
<1>6. \A t : Due(top, t) => t \in Marks(top) \/ \E i \in ToSet(top.tail) : stmts[i].tag = t
  BY <1>1 DEF Due
<1> QED
  BY <1>1, <1>2, <1>3, <1>4, <1>5, <1>6

\* The branches change to a and b, the innermost call to g; what leaves the branches comes
\* behind the if.
Trims(a, b, g) ==
    /\ blocks' = WithArms(a, b)
    /\ ToSet(a) \subseteq ToSet(blocks[top.thn]) /\ ToSet(b) \subseteq ToSet(blocks[top.els])
    /\ \A i \in DOMAIN stmts : i \in DOMAIN stmts' /\ stmts'[i] = stmts[i]
    /\ \A i \in DOMAIN stmts' : i \notin DOMAIN stmts =>
          {stmts'[i].thn, stmts'[i].els} \subseteq {0, top.thn, top.els} /\ Coming(g, i)'
    /\ stack' = SetTop(g) /\ g.phase \in {"trim", "add"}
    /\ g.block = top.block /\ g.thn = top.thn /\ g.els = top.els
    /\ \A i \in DOMAIN stmts : i \in ToSet(g.queue) \cup ToSet(g.tail) => Loose(i)
    /\ ToSet(top.tail) \subseteq ToSet(g.tail)
    /\ \A i \in ToSet(blocks[top.thn]) :
          i \in ToSet(a) \/ \E j \in ToSet(g.tail) : stmts'[j].tag = stmts[i].tag
    /\ \A i \in ToSet(blocks[top.els]) :
          i \in ToSet(b) \/ \E j \in ToSet(g.tail) : stmts'[j].tag = stmts[i].tag
    /\ \A t \in Marks(top) : Due(g, t)'
    /\ \A v \in g.visited : Placed(v, g)' \/ (v \in top.visited /\ ~ Placed(v, top))

LEMMA TrimStep ==
    ASSUME Apart, In("trim"), prog' = prog, memo' = memo, AllMade',
           NEW a, NEW b, NEW g, Trims(a, b, g), Sound(g)
    PROVE  Shape' /\ Ownership' /\ Visits' /\ Memo'
<1>0. Trims(a, b, g)
  OBVIOUS
<1> USE <1>0 DEF Trims
<1>1. /\ TypeOK /\ top.phase = "trim" /\ ~ Live(g) /\ top' = g
      /\ top.tail \in Seq(DOMAIN stmts)
      /\ (\A i : ~ Coming(top, i))
      /\ \A t : Due(top, t) => t \in Marks(top) \/ \E i \in ToSet(top.tail) : stmts[i].tag = t
  BY TrimAt, InnerSet DEF Live
<1>2. /\ DOMAIN blocks' = DOMAIN blocks
      /\ \A c \in DOMAIN blocks :
            blocks'[c] = IF c = top.thn THEN a ELSE IF c = top.els THEN b ELSE blocks[c]
  BY DEF WithArms
<1>3. Shape'
  BY ShapeTop
<1>4. OuterKept
  <2>1. \A c \in DOMAIN blocks : ~ Movable(c) => blocks'[c] = blocks[c]
    BY <1>2 DEF Movable
  <2>2. \A i \in DOMAIN stmts : \A c \in DOMAIN blocks' :
           i \in ToSet(blocks'[c]) => c \in DOMAIN blocks /\ i \in ToSet(blocks[c])
    BY <1>2
  <2> QED
    BY <1>1, <2>1, <2>2, OuterSafe
<1>5. AllOwn'
  BY <1>1, OwnTop
<1>6. AllUnshared'
  BY <1>1, <1>4, UnsharedTop
<1>7. Visits'
  BY <1>1, <1>4, VisitsTop
<1>8. \A t : Due(g, t)' => Pending(t)'
  BY <1>4, PendingTop
<1>9. \A t : (\E j \in ToSet(g.tail) : stmts'[j].tag = t) => Pending(t)'
  BY <1>8 DEF Due
<1>10. ASSUME NEW t, Due(top, t) PROVE Pending(t)'
  <2>1. CASE t \in Marks(top)
    BY <1>8, <2>1
  <2>2. CASE \E i \in ToSet(top.tail) : stmts[i].tag = t
    <3>1. PICK i \in ToSet(top.tail) : stmts[i].tag = t
      BY <2>2
    <3>2. i \in DOMAIN stmts
      BY <1>1, <3>1, ElementsType
    <3> QED
      BY <1>9, <3>1, <3>2
  <2> QED
    BY <1>1, <1>10, <2>1, <2>2
<1>11. ASSUME NEW c \in DOMAIN blocks, NEW t \in TagsOf(c) PROVE t \in TagsOf(c)' \/ Pending(t)'
  <2>1. PICK i \in ToSet(blocks[c]) : stmts[i].tag = t
    BY <1>11 DEF TagsOf
  <2>2. i \in DOMAIN stmts
    BY <1>1, <2>1, HeapAt
  <2>3. CASE i \in ToSet(blocks'[c])
    BY <2>1, <2>2, <2>3 DEF TagsOf
  <2>4. CASE i \notin ToSet(blocks'[c])
    <3>1. \E j \in ToSet(g.tail) : stmts'[j].tag = t
      BY <1>2, <2>1, <2>4
    <3> QED
      BY <1>9, <3>1
  <2> QED
    BY <2>3, <2>4
<1>12. Memo'
  BY <1>1, <1>4, <1>10, <1>11, MemoTop
<1> QED
  BY <1>3, <1>5, <1>6, <1>7, <1>12 DEF Ownership

LEMMA TrimCommonMemo == Apart /\ TrimCommon => Shape' /\ Ownership' /\ Visits' /\ Memo'
<1> SUFFICES ASSUME Apart, TrimCommon PROVE Shape' /\ Ownership' /\ Visits' /\ Memo'
  OBVIOUS
<1>1. PICK i : i = Last(blocks[top.thn])
  OBVIOUS
<1>2. PICK j : j = Last(blocks[top.els])
  OBVIOUS
<1>3. PICK a : a = Front(blocks[top.thn])
  OBVIOUS
<1>4. PICK b : b = Front(blocks[top.els])
  OBVIOUS
<1>5. PICK q : q = <<i>> \o top.tail
  OBVIOUS
<1>6. PICK g : g = [top EXCEPT !.tail = q]
  OBVIOUS
<1>7. /\ BothArms /\ In("trim") /\ prog' = prog /\ memo' = memo /\ stmts' = stmts
      /\ stmts[i].tag = stmts[j].tag /\ blocks' = WithArms(a, b)
  BY <1>1, <1>2, <1>3, <1>4 DEF TrimCommon, Common, BothArms, BackThen, BackElse
<1>8. stack' = SetTop(g)
  <2>1. top \in Frame
    BY InnerAt
  <2> QED
    BY <1>1, <1>5, <1>6, <2>1 DEF TrimCommon, Frame
<1>9. /\ TypeOK /\ top \in Frame /\ Sound(top) /\ top.phase = "trim" /\ Waiting(top) /\ ~ Live(top)
      /\ top.block \in DOMAIN blocks /\ top.block # top.thn /\ top.block # top.els
      /\ top.queue = <<>> /\ top.tail \in Seq(DOMAIN stmts)
  BY <1>7, TrimAt
<1>10. /\ g.phase = top.phase /\ g.block = top.block /\ g.thn = top.thn /\ g.els = top.els
       /\ g.visited = top.visited /\ g.queue = top.queue /\ g.tail = q /\ g.cursor = top.cursor
       /\ g.pc = top.pc /\ g.ifTag = top.ifTag /\ g.cond = top.cond
  BY <1>6, <1>9 DEF Frame
<1>11. /\ top.thn \in DOMAIN blocks /\ top.els \in DOMAIN blocks /\ i \in DOMAIN stmts
       /\ ToSet(blocks[top.thn]) = ToSet(a) \cup {i} /\ ToSet(blocks[top.els]) = ToSet(b) \cup {j}
  BY <1>1, <1>2, <1>3, <1>4, <1>7, <1>9, ArmsType, ElementsFront
<1>12. ToSet(q) = {i} \cup ToSet(top.tail)
  <2>1. PICK S : S = DOMAIN stmts
    OBVIOUS
  <2>2. PICK u : u = top.tail
    OBVIOUS
  <2>3. i \in S /\ u \in Seq(S) /\ <<i>> \in Seq(S)
    BY <1>9, <1>11, <2>1, <2>2
  <2>4. ToSet(<<i>> \o u) = ToSet(<<i>>) \cup ToSet(u)
    BY <2>3, ElementsJoin, ZenonT(60)
  <2> QED
    BY <1>5, <2>2, <2>4, ElementsOne
<1>13. Sound(g)
  <2>1. Interrupted(g) /\ Once(g) /\ Uncopied(g)
    BY <1>9, <1>10 DEF Sound, Interrupted, Once, Uncopied, Live, Waiting
  <2>2. Idle(g)
    BY <1>9, <1>10 DEF Sound, Idle, Live
  <2> QED
    BY <2>1, <2>2 DEF Sound
<1>14. AllMade'
  BY <1>7, HeapSame
<1>15. \A k \in DOMAIN stmts : k \in ToSet(g.queue) \cup ToSet(g.tail) => Loose(k)
  <2>1. Loose(i)
    BY <1>11 DEF Loose, Movable
  <2> QED
    BY <1>10, <1>12, <2>1 DEF Loose
<1>16. PICK c : c = top.block /\ c = g.block
  BY <1>10
<1>17. ASSUME NEW t \in Marks(top) PROVE Due(g, t)'
  <2>1. TagsOf(c)' = TagsOf(c)
    BY <1>7, <1>9, <1>16 DEF TagsOf, WithArms
  <2>2. Marks(top) = TagsOf(c) \cup {top.ifTag}
    BY <1>9, <1>16 DEF Marks
  <2>3. Marks(g)' = TagsOf(c)' \cup {g.ifTag}
    BY <1>9, <1>10, <1>16 DEF Marks, Waiting
  <2>4. t \in Marks(g)'
    BY <1>10, <2>1, <2>2, <2>3
  <2> QED
    BY <1>9, <1>10, <2>4 DEF Due, Marks, Waiting
<1>18. ASSUME NEW v, Placed(v, top) PROVE Placed(v, g)'
  <2>1. blocks'[c] = blocks[c]
    BY <1>7, <1>9, <1>16 DEF WithArms
  <2>2. (v.stmt \in ToSet(blocks[c]) /\ stmts[v.stmt].tag = v.tag) \/ top.ifTag = v.tag
    BY <1>16, <1>18 DEF Placed
  <2>3. (v.stmt \in ToSet(blocks'[c]) /\ stmts'[v.stmt].tag = v.tag) \/ g.ifTag = v.tag
    BY <1>7, <1>10, <2>1, <2>2
  <2> QED
    BY <1>9, <1>10, <1>16, <2>3 DEF Placed, Waiting
<1>19. ToSet(top.tail) \subseteq ToSet(g.tail)
  BY <1>10, <1>12
<1>20. \A k \in ToSet(blocks[top.thn]) :
          k \in ToSet(a) \/ \E m \in ToSet(g.tail) : stmts'[m].tag = stmts[k].tag
  BY <1>7, <1>10, <1>11, <1>12
<1>21. \A k \in ToSet(blocks[top.els]) :
          k \in ToSet(b) \/ \E m \in ToSet(g.tail) : stmts'[m].tag = stmts[k].tag
  BY <1>7, <1>10, <1>11, <1>12
<1>22. \A v \in g.visited : Placed(v, g)' \/ (v \in top.visited /\ ~ Placed(v, top))
  BY <1>10, <1>18
<1>23. Trims(a, b, g)
  BY <1>7, <1>8, <1>9, <1>10, <1>11, <1>15, <1>17, <1>19, <1>20, <1>21, <1>22 DEF Trims
<1> QED
  BY <1>7, <1>13, <1>14, <1>23, TrimStep

\* An if is made of one condition: two ifs with the same tag have the same.
LEMMA NoSplit == Apart => ~ Split
<1> SUFFICES ASSUME Apart, Split PROVE FALSE
  OBVIOUS
<1>1. PICK i : i = Last(blocks[top.thn])
  OBVIOUS
<1>2. PICK j : j = Last(blocks[top.els])
  OBVIOUS
<1>3. /\ BothArms /\ stmts[i].kind = "if" /\ stmts[j].kind = "if" /\ stmts[i].tag = stmts[j].tag
      /\ ~ SameContent(stmts[i], stmts[j])
  BY <1>1, <1>2 DEF Split, NeedsSplitting, BackThen, BackElse
<1>4. TypeOK /\ ConditionsApart
  BY InnerAt
<1>5. i \in DOMAIN stmts /\ j \in DOMAIN stmts
  BY <1>1, <1>2, <1>3, <1>4, ArmsType
<1>6. FromPoint(stmts[i]) /\ FromPoint(stmts[j])
  BY <1>5 DEF Apart, Shape, AllMade
<1>7. PICK p \in Branches : IsOf(stmts[i], p)
  BY <1>3, <1>6 DEF FromPoint
<1>8. PICK q \in Branches : IsOf(stmts[j], q)
  BY <1>3, <1>6 DEF FromPoint
<1>9. p = q
  <2>1. p \in DOMAIN prog.code /\ prog.code[p].loc = prog.code[q].loc
    BY <1>3, <1>7, <1>8 DEF IsOf, Branches
  <2> QED
    BY <1>4, <2>1, ConditionAlone
<1>10. SameContent(stmts[i], stmts[j])
  BY <1>6, <1>7, <1>8, <1>9 DEF FromPoint, IsOf, SameContent
<1> QED
  BY <1>3, <1>10

LEMMA BuildIfMemo == Apart /\ BuildIf => Shape' /\ Ownership' /\ Visits' /\ Memo'
<1> SUFFICES ASSUME Apart, BuildIf PROVE Shape' /\ Ownership' /\ Visits' /\ Memo'
  OBVIOUS
<1>1. PICK i : i = Len(stmts) + 1
  OBVIOUS
<1>2. PICK s : s = If(top.ifTag, top.cond, top.thn, top.els)
  OBVIOUS
<1>3. PICK a : a = IF EmptiesThen THEN <<>> ELSE blocks[top.thn]
  OBVIOUS
<1>4. PICK b : b = IF EmptiesElse THEN <<>> ELSE blocks[top.els]
  OBVIOUS
<1>5. PICK x : x = IF EmptiesThen THEN blocks[top.thn] ELSE <<>>
  OBVIOUS
<1>6. PICK y : y = IF EmptiesElse THEN blocks[top.els] ELSE <<>>
  OBVIOUS
<1>7. PICK q : q = Append(top.queue, i)
  OBVIOUS
<1>8. PICK r : r = x \o y \o top.tail
  OBVIOUS
<1>9. PICK w : w = {v \in top.visited : v.tag # top.ifTag}
  OBVIOUS
<1>10. PICK g : g = [top EXCEPT !.phase = "add", !.visited = w, !.queue = q, !.tail = r]
  OBVIOUS
<1>11. /\ In("trim") /\ prog' = prog /\ memo' = memo /\ blocks' = WithArms(a, b)
       /\ stmts' = Append(stmts, s)
  BY <1>2, <1>3, <1>4 DEF BuildIf
<1>12. /\ TypeOK /\ top \in Frame /\ Sound(top) /\ top.phase = "trim" /\ Waiting(top)
       /\ top.block \in DOMAIN blocks /\ top.thn \in DOMAIN blocks /\ top.els \in DOMAIN blocks
       /\ top.block # top.thn /\ top.block # top.els
       /\ top.queue = <<>> /\ top.tail \in Seq(DOMAIN stmts) /\ top.cursor = 1
  BY <1>11, TrimAt
<1>13. stack' = SetTop(g)
  BY <1>1, <1>5, <1>6, <1>7, <1>8, <1>9, <1>10, <1>12 DEF BuildIf, Frame
<1>14. /\ g.phase = "add" /\ g.block = top.block /\ g.thn = top.thn /\ g.els = top.els
       /\ g.visited = w /\ g.queue = q /\ g.tail = r /\ g.cursor = top.cursor
  BY <1>10, <1>12 DEF Frame
<1>15. /\ i \notin DOMAIN stmts /\ stmts'[i] = s
       /\ \A k \in DOMAIN stmts : k \in DOMAIN stmts' /\ stmts'[k] = stmts[k]
       /\ \A k \in DOMAIN stmts' : k \in DOMAIN stmts \/ k = i
  <2>1. Len(stmts) \in Nat /\ DOMAIN stmts = 1..Len(stmts) /\ stmts \in Seq(Stmt)
    BY <1>12, HeapAt
  <2> QED
    BY <1>1, <1>11, <2>1
<1>16. q = <<i>> /\ Head(q) = i /\ q # <<>> /\ ToSet(q) = {i}
  <2>1. q = <<i>>
    BY <1>7, <1>12
  <2> QED
    BY <2>1, ElementsOne
<1>17. /\ ToSet(x) \subseteq ToSet(blocks[top.thn]) /\ ToSet(y) \subseteq ToSet(blocks[top.els])
       /\ ToSet(a) \subseteq ToSet(blocks[top.thn]) /\ ToSet(b) \subseteq ToSet(blocks[top.els])
       /\ ToSet(blocks[top.thn]) \subseteq ToSet(a) \cup ToSet(x)
       /\ ToSet(blocks[top.els]) \subseteq ToSet(b) \cup ToSet(y)
       /\ x \in Seq(DOMAIN stmts) /\ y \in Seq(DOMAIN stmts)
  <2>1. blocks[top.thn] \in Seq(DOMAIN stmts) /\ blocks[top.els] \in Seq(DOMAIN stmts)
    BY <1>12, HeapAt
  <2>2. <<>> \in Seq(DOMAIN stmts)
    OBVIOUS
  <2>3. /\ ToSet(x) \subseteq ToSet(blocks[top.thn]) /\ ToSet(a) \subseteq ToSet(blocks[top.thn])
        /\ ToSet(blocks[top.thn]) \subseteq ToSet(a) \cup ToSet(x) /\ x \in Seq(DOMAIN stmts)
    <3>1. CASE EmptiesThen
      BY <1>3, <1>5, <2>1, <3>1, ElementsNone
    <3>2. CASE ~ EmptiesThen
      BY <1>3, <1>5, <2>2, <3>2, ElementsNone
    <3> QED
      BY <3>1, <3>2
  <2>4. /\ ToSet(y) \subseteq ToSet(blocks[top.els]) /\ ToSet(b) \subseteq ToSet(blocks[top.els])
        /\ ToSet(blocks[top.els]) \subseteq ToSet(b) \cup ToSet(y) /\ y \in Seq(DOMAIN stmts)
    <3>1. CASE EmptiesElse
      BY <1>4, <1>6, <2>1, <3>1, ElementsNone
    <3>2. CASE ~ EmptiesElse
      BY <1>4, <1>6, <2>2, <3>2, ElementsNone
    <3> QED
      BY <3>1, <3>2
  <2> QED
    BY <2>3, <2>4
<1>18. ToSet(r) = ToSet(x) \cup ToSet(y) \cup ToSet(top.tail)
  <2>1. PICK S : S = DOMAIN stmts
    OBVIOUS
  <2>2. PICK u : u = top.tail
    OBVIOUS
  <2>3. x \in Seq(S) /\ y \in Seq(S) /\ u \in Seq(S)
    BY <1>12, <1>17, <2>1, <2>2
  <2>4. PICK z : z = x \o y
    OBVIOUS
  <2>5. z \in Seq(S)
    BY <2>3, <2>4
  <2>6. ToSet(x \o y) = ToSet(x) \cup ToSet(y)
    BY <2>3, ElementsJoin
  <2>7. ToSet(z \o u) = ToSet(z) \cup ToSet(u)
    BY <2>3, <2>5, ElementsJoin
  <2> QED
    BY <1>8, <2>2, <2>4, <2>6, <2>7
<1>19. /\ s.kind = "if" /\ s.tag = top.ifTag /\ s.thn = top.thn /\ s.els = top.els
       /\ FromPoint(s)
  <2>1. /\ s.kind = "if" /\ s.tag = top.ifTag /\ s.thn = top.thn /\ s.els = top.els
        /\ s.what = top.cond.what /\ s.var = top.cond.var /\ s.from = 0
    BY <1>2 DEF If, Statement
  <2>2. /\ top.pc \in Branches /\ top.ifTag = StmtAt(top.pc).tag
        /\ top.cond.what = prog.code[top.pc].what /\ top.cond.var = 0
    BY <1>12 DEF Sound, Interrupted
  <2>3. StmtAt(top.pc).tag.loc = prog.code[top.pc].loc
    BY DEF StmtAt, Statement
  <2>4. IsOf(s, top.pc)
    BY <2>1, <2>2, <2>3 DEF IsOf
  <2> QED
    BY <2>1, <2>2, <2>4 DEF FromPoint
<1>20. AllMade'
  <2>1. \A k \in DOMAIN stmts' : FromPoint(stmts'[k])
    BY <1>15, <1>19 DEF Apart, Shape, AllMade
  <2>2. \A z : FromPoint(z)' <=> FromPoint(z)
    BY <1>11, FromPointSame
  <2> QED
    BY <2>1, <2>2 DEF AllMade
<1>21. Sound(g)
  <2>1. Interrupted(g) /\ Uncopied(g)
    BY <1>14 DEF Interrupted, Uncopied, Live, Waiting
  <2>2. Once(g)
    BY <1>9, <1>12, <1>14 DEF Sound, Once
  <2>3. Idle(g)
    BY <1>12, <1>14 DEF Idle, Live
  <2> QED
    BY <2>1, <2>2, <2>3 DEF Sound
<1>22. \A k \in DOMAIN stmts' : k \notin DOMAIN stmts =>
          {stmts'[k].thn, stmts'[k].els} \subseteq {0, top.thn, top.els} /\ Coming(g, k)'
  BY <1>14, <1>15, <1>16, <1>19 DEF Coming
<1>23. \A k \in DOMAIN stmts : k \in ToSet(g.queue) \cup ToSet(g.tail) => Loose(k)
  BY <1>12, <1>14, <1>15, <1>16, <1>17, <1>18 DEF Loose, Movable
<1>24. PICK c : c = top.block /\ c = g.block
  BY <1>14
<1>25. blocks'[c] = blocks[c] /\ TagsOf(c)' = TagsOf(c) /\ ToSet(blocks[c]) \subseteq DOMAIN stmts
  <2>1. blocks'[c] = blocks[c]
    BY <1>11, <1>12, <1>24 DEF WithArms
  <2>2. ToSet(blocks[c]) \subseteq DOMAIN stmts
    BY <1>12, <1>24, HeapAt
  <2> QED
    BY <1>15, <2>1, <2>2 DEF TagsOf
<1>26. ASSUME NEW t \in Marks(top) PROVE Due(g, t)'
  <2>1. CASE t = top.ifTag
    <3>1. t \notin Tags(g)
      BY <1>9, <1>14, <2>1 DEF Tags
    <3> QED
      BY <1>14, <1>15, <1>16, <1>19, <2>1, <3>1 DEF Due, Tags
  <2>2. CASE t # top.ifTag
    <3>1. t \in TagsOf(c)
      BY <1>24, <2>2 DEF Marks
    <3>2. t \in Marks(g)'
      BY <1>24, <1>25, <3>1 DEF Marks
    <3> QED
      BY <1>14, <3>2 DEF Due, Marks, Waiting
  <2> QED
    BY <2>1, <2>2
<1>27. ASSUME NEW v \in g.visited, Placed(v, top) PROVE Placed(v, g)'
  <2>1. v.stmt \in ToSet(blocks[c]) /\ stmts[v.stmt].tag = v.tag
    BY <1>9, <1>14, <1>24, <1>27 DEF Placed
  <2> QED
    BY <1>15, <1>24, <1>25, <2>1 DEF Placed
<1>28. \A v \in g.visited : Placed(v, g)' \/ (v \in top.visited /\ ~ Placed(v, top))
  BY <1>9, <1>14, <1>27
<1>29. \A k \in ToSet(blocks[top.thn]) :
          k \in ToSet(a) \/ \E m \in ToSet(g.tail) : stmts'[m].tag = stmts[k].tag
  <2>1. ToSet(blocks[top.thn]) \subseteq DOMAIN stmts
    BY <1>12, HeapAt
  <2> QED
    BY <1>14, <1>15, <1>17, <1>18, <2>1
<1>30. \A k \in ToSet(blocks[top.els]) :
          k \in ToSet(b) \/ \E m \in ToSet(g.tail) : stmts'[m].tag = stmts[k].tag
  <2>1. ToSet(blocks[top.els]) \subseteq DOMAIN stmts
    BY <1>12, HeapAt
  <2> QED
    BY <1>14, <1>15, <1>17, <1>18, <2>1
<1>31. ToSet(top.tail) \subseteq ToSet(g.tail)
  BY <1>14, <1>18
<1>32. Trims(a, b, g)
  BY <1>11, <1>13, <1>14, <1>15, <1>17, <1>22, <1>23, <1>26, <1>28, <1>29, <1>30, <1>31 DEF Trims
<1> QED
  BY <1>11, <1>20, <1>21, <1>32, TrimStep
-----------------------------------------------------------------------------
(* The end of a run *)

\* A statement is queued that the call has visited: it is not the one visited.
LEMMA QueuedApart ==
    ASSUME Once(top), ~ LoopsBack(Queued), Seen(Queued), NEW v \in top.visited,
           v.tag = Queued.tag
    PROVE  v.stmt # Head(top.queue)
<1> SUFFICES ASSUME v.stmt = Head(top.queue) PROVE FALSE
  OBVIOUS
<1>1. (CHOOSE w \in top.visited : w.tag = Queued.tag) = v
  BY DEF Once
<1>2. VisitedAs(Queued.tag) = Queued /\ IsVisited(Queued.tag)
  BY <1>1 DEF VisitedAs, Queued, IsVisited
<1>3. Same(Queued, Queued)
  BY DEF Same, SameContent, SameArms
<1> QED
  BY <1>2, <1>3 DEF LoopsBack, SameTag, SameAsVisited

LEMMA AddQueuedMemo == Apart /\ AddQueued => Shape' /\ Ownership' /\ Visits' /\ Memo'
<1> SUFFICES ASSUME Apart, AddQueued PROVE Shape' /\ Ownership' /\ Visits' /\ Memo'
  OBVIOUS
<1>1. PICK i : i = Head(top.queue)
  OBVIOUS
<1>2. PICK s : s = stmts[i]
  OBVIOUS
<1>3. PICK t : t = StoredTag(s)
  OBVIOUS
<1>4. PICK q : q = Tail(top.queue)
  OBVIOUS
<1>5. PICK h : h = Visit(top, i, s)
  OBVIOUS
<1>6. PICK g : g = [h EXCEPT !.queue = Tail(h.queue)]
  OBVIOUS
<1>7. /\ HasQueued /\ ~ LoopsBack(s) /\ prog' = prog /\ memo' = memo /\ s = Queued
      /\ stmts' = [stmts EXCEPT ![i].tag = t] /\ blocks' = Push(i) /\ stack' = SetTop(g)
  BY <1>1, <1>2, <1>3, <1>5, <1>6 DEF AddQueued, Queued
<1>8. /\ TypeOK /\ top \in Frame /\ Sound(top) /\ top.phase = "add" /\ top.queue # <<>>
      /\ top.block \in DOMAIN blocks /\ top = stack[Len(stack)] /\ Len(stack) \in 1..Len(stack)
      /\ top.queue \in Seq(DOMAIN stmts) /\ ~ Live(top) /\ ~ Waiting(top)
      /\ Body \in Seq(DOMAIN stmts)
  BY <1>7, InnerAt DEF HasQueued, In, Live, Waiting
<1>9. /\ ToSet(top.queue) = ToSet(q) \cup {i} /\ i \in DOMAIN stmts
  BY <1>1, <1>4, <1>8, ElementsTail
<1>10. s.tag \in Tag /\ t.loc = s.tag.loc /\ s \in Stmt
  BY <1>2, <1>3, <1>8, <1>9, HeapAt, StoredLoc
<1>11. /\ DOMAIN stmts' = DOMAIN stmts /\ stmts'[i] = [s EXCEPT !.tag = t]
       /\ \A k \in DOMAIN stmts : k # i => stmts'[k] = stmts[k]
  <2>1. PICK r : r = [s EXCEPT !.tag = t]
    OBVIOUS
  <2>2. stmts' = [stmts EXCEPT ![i] = r]
    BY <1>2, <1>7, <2>1
  <2> QED
    BY <1>9, <2>1, <2>2
<1>12. /\ stmts'[i].tag = t /\ stmts'[i].kind = s.kind /\ stmts'[i].what = s.what
       /\ stmts'[i].var = s.var /\ stmts'[i].from = s.from
       /\ stmts'[i].thn = s.thn /\ stmts'[i].els = s.els
  BY <1>10, <1>11 DEF Stmt
<1>13. /\ g.phase = "add" /\ g.block = top.block /\ g.thn = top.thn /\ g.els = top.els
       /\ g.queue = q /\ g.tail = top.tail /\ g.cursor = top.cursor
       /\ g.visited = {v \in top.visited : v.tag # t} \cup {[tag |-> t, stmt |-> i]}
  <2>1. /\ h.phase = "add" /\ h.block = top.block /\ h.thn = top.thn /\ h.els = top.els
        /\ h.queue = top.queue /\ h.tail = top.tail /\ h.cursor = top.cursor
        /\ h.visited = {v \in top.visited : v.tag # t} \cup {[tag |-> t, stmt |-> i]}
        /\ DOMAIN h = DOMAIN top
    BY <1>3, <1>5, <1>8 DEF Visit, Frame
  <2> QED
    BY <1>4, <1>6, <1>8, <2>1 DEF Frame
<1>14. ~ Live(g) /\ ~ Waiting(g) /\ top' = g
  BY <1>7, <1>13, InnerSet DEF Live, Waiting
<1>15. /\ DOMAIN blocks' = DOMAIN blocks
       /\ \A c \in DOMAIN blocks : c # top.block => blocks'[c] = blocks[c]
       /\ ToSet(blocks'[top.block]) = ToSet(Body) \cup {i}
  BY <1>7, PushAt
<1>16. \A c \in DOMAIN blocks : ToSet(blocks[c]) \subseteq ToSet(blocks'[c])
  BY <1>15 DEF Body
<1>17. Shape'
  <2>1. ASSUME NEW k \in DOMAIN stmts' PROVE FromPoint(stmts'[k])
    <3>1. FromPoint(stmts[k]) /\ k \in DOMAIN stmts
      BY <1>11 DEF Apart, Shape, AllMade
    <3>2. CASE k = i
      BY <1>2, <1>10, <1>12, <3>1, <3>2 DEF FromPoint, IsOf
    <3> QED
      BY <1>11, <3>1, <3>2
  <2>2. \A z : FromPoint(z)' <=> FromPoint(z)
    BY <1>7, FromPointSame
  <2>3. AllMade'
    BY <2>1, <2>2 DEF AllMade
  <2>4. Sound(g)
    <3>1. Interrupted(g) /\ Uncopied(g)
      BY <1>14 DEF Interrupted, Uncopied
    <3>2. Idle(g)
      BY <1>8, <1>13, <1>14 DEF Sound, Idle
    <3>3. Once(g)
      <4>1. PICK w : w = [tag |-> t, stmt |-> i]
        OBVIOUS
      <4>2. w.tag = t /\ g.visited = {v \in top.visited : v.tag # t} \cup {w}
        BY <1>13, <4>1
      <4> QED
        BY <1>8, <4>2 DEF Sound, Once
    <3> QED
      BY <3>1, <3>2, <3>3 DEF Sound
  <2> QED
    BY <1>7, <2>3, <2>4, ShapeTop
<1>18. OuterKept
  <2>1. \A c \in DOMAIN blocks : ~ Movable(c) => blocks'[c] = blocks[c]
    BY <1>15 DEF Movable
  <2>2. \A k \in DOMAIN stmts : k \notin ToSet(top.queue) => stmts'[k].tag = stmts[k].tag
    BY <1>9, <1>11
  <2>3. ASSUME NEW k \in DOMAIN stmts, NEW c \in DOMAIN blocks', k \in ToSet(blocks'[c])
        PROVE  Loose(k) \/ (c \in DOMAIN blocks /\ k \in ToSet(blocks[c]))
    BY <1>9, <1>15, <2>3 DEF Loose, Body
  <2>4. \A k \in DOMAIN stmts : k \in ToSet(g.queue) \cup ToSet(g.tail) => Loose(k)
    BY <1>9, <1>13 DEF Loose
  <2> QED
    BY <1>14, <2>1, <2>2, <2>3, <2>4, OuterSafe
<1>19. AllOwn'
  <2>1. \A k \in DOMAIN stmts' : /\ k \in DOMAIN stmts
                                 /\ stmts'[k].thn = stmts[k].thn /\ stmts'[k].els = stmts[k].els
    BY <1>2, <1>11, <1>12
  <2> QED
    BY <1>7, <1>8, <1>13, <2>1, OwnTop
<1>20. AllUnshared'
  BY <1>7, <1>14, <1>18, UnsharedTop
<1>21. ASSUME t # s.tag, NEW v \in top.visited, v.tag = s.tag PROVE v.stmt # i
  BY <1>1, <1>3, <1>7, <1>8, <1>21, QueuedApart DEF StoredTag, Sound
<1>22. ASSUME NEW v \in top.visited, v.tag # t \/ v.stmt # i, Placed(v, top) PROVE Placed(v, g)'
  <2>1. v.stmt \in ToSet(Body) /\ stmts[v.stmt].tag = v.tag
    BY <1>8, <1>22 DEF Placed, Body
  <2>2. v.stmt # i
    BY <1>2, <1>21, <1>22, <2>1
  <2>3. v.stmt \in DOMAIN stmts
    BY <1>8, <2>1, ElementsType
  <2>4. v.stmt \in ToSet(blocks'[g.block]) /\ stmts'[v.stmt].tag = v.tag
    BY <1>11, <1>13, <1>15, <2>1, <2>2, <2>3
  <2> QED
    BY <2>4 DEF Placed
<1>23. Visits'
  <2>1. PICK w : w = [tag |-> t, stmt |-> i]
    OBVIOUS
  <2>2. Placed(w, g)'
    BY <1>12, <1>13, <1>15, <2>1 DEF Placed
  <2>3. \A v \in g.visited : v = w \/ (v \in top.visited /\ v.tag # t)
    BY <1>13, <2>1
  <2>4. \A v \in g.visited : Placed(v, g)' \/ (v \in top.visited /\ ~ Placed(v, top))
    BY <1>22, <2>2, <2>3
  <2> QED
    BY <1>7, <1>14, <1>18, <2>4, VisitsTop
<1>24. \A u : Due(g, u)' => Pending(u)'
  BY <1>7, <1>18, PendingTop
<1>25. \A u : \A k \in DOMAIN stmts' :
          k \in ToSet(blocks'[top.block]) /\ stmts'[k].tag = u => Pending(u)'
  <2>1. PICK c : c = top.block /\ c = g.block
    BY <1>13
  <2>2. ASSUME NEW u, NEW k \in ToSet(blocks'[c]), stmts'[k].tag = u PROVE Due(g, u)'
    BY <1>13, <2>1, <2>2 DEF Due, Marks, TagsOf
  <2> QED
    BY <1>24, <2>1, <2>2
<1>26. ASSUME t # s.tag, NEW u, u = s.tag PROVE Pending(u)'
  <2>1. Seen(s)
    BY <1>3, <1>26 DEF StoredTag
  <2>2. PICK v \in top.visited : v.tag = s.tag
    BY <2>1 DEF Seen, IsVisited
  <2>3. v.stmt # i
    BY <1>21, <1>26, <2>2
  <2>4. PICK j \in 1..Len(stack) : Placed(v, stack[j])
    BY <1>8 DEF Apart, Visits, AllPlaced
  <2>5. CASE j = Len(stack)
    <3>1. v.stmt \in ToSet(Body) /\ stmts[v.stmt].tag = v.tag
      BY <1>8, <2>4, <2>5 DEF Placed, Body
    <3>2. v.stmt \in DOMAIN stmts
      BY <1>8, <3>1, ElementsType
    <3> QED
      BY <1>11, <1>15, <1>25, <1>26, <2>2, <2>3, <3>1, <3>2
  <2>6. CASE j # Len(stack)
    <3>1. j \in 1..(Len(stack) - 1)
      BY <1>8, <2>6
    <3>2. u \in Marks(stack[j])
      BY <1>26, <2>2, <2>4 DEF Placed, Marks, TagsOf
    <3> QED
      BY <1>7, <1>18, <3>1, <3>2, PendingTop
  <2> QED
    BY <2>5, <2>6
<1>27. \A u : \A k \in DOMAIN stmts :
          stmts[k].tag = u => stmts'[k].tag = u \/ Pending(u)'
  BY <1>2, <1>11, <1>12, <1>26
<1>28. ASSUME NEW c \in DOMAIN blocks, NEW u \in TagsOf(c) PROVE u \in TagsOf(c)' \/ Pending(u)'
  <2>1. PICK k \in ToSet(blocks[c]) : stmts[k].tag = u
    BY <1>28 DEF TagsOf
  <2>2. k \in DOMAIN stmts /\ k \in ToSet(blocks'[c])
    BY <1>8, <1>16, <2>1, HeapAt
  <2> QED
    BY <1>27, <2>1, <2>2 DEF TagsOf
<1>29. ASSUME NEW u, Due(top, u) PROVE Pending(u)'
  <2>1. CASE u \in Marks(top)
    <3>1. PICK c : c = top.block
      OBVIOUS
    <3>2. u \in TagsOf(c)
      BY <1>8, <2>1, <3>1 DEF Marks
    <3>3. u \in TagsOf(c)' \/ Pending(u)'
      BY <1>8, <1>28, <3>1, <3>2
    <3>4. \A k \in ToSet(blocks'[c]) : k \in DOMAIN stmts'
      BY <1>8, <1>9, <1>11, <1>15, <3>1, ElementsType
    <3> QED
      BY <1>25, <3>1, <3>3, <3>4 DEF TagsOf
  <2>2. CASE \E k \in ToSet(top.tail) : stmts[k].tag = u
    <3>1. PICK k \in ToSet(top.tail) : stmts[k].tag = u
      BY <2>2
    <3>2. k \in DOMAIN stmts
      BY <3>1, InnerAt, ElementsType
    <3>3. CASE stmts'[k].tag = u
      <4>1. Due(g, u)'
        BY <1>13, <3>1, <3>3 DEF Due
      <4> QED
        BY <1>24, <4>1
    <3> QED
      BY <1>27, <3>1, <3>2, <3>3
  <2>3. CASE u = s.tag
    <3>1. i \in DOMAIN stmts' /\ i \in ToSet(blocks'[top.block])
      BY <1>9, <1>11, <1>15
    <3> QED
      BY <1>12, <1>25, <1>26, <2>3, <3>1
  <2> QED
    BY <1>1, <1>2, <1>8, <1>29, <2>1, <2>2, <2>3 DEF Due
<1>30. ASSUME NEW k \in DOMAIN stmts', stmts'[k].kind = "if"
       PROVE  /\ k \in DOMAIN stmts /\ stmts[k].kind = "if"
              /\ stmts'[k].thn = stmts[k].thn /\ stmts'[k].els = stmts[k].els
              /\ Coming(top, k) => Coming(g, k)'
  <2>1. /\ k \in DOMAIN stmts /\ stmts[k].kind = "if"
        /\ stmts'[k].thn = stmts[k].thn /\ stmts'[k].els = stmts[k].els
    BY <1>2, <1>11, <1>12, <1>30
  <2>2. ASSUME Coming(top, k) PROVE Coming(g, k)'
    <3>1. k \in ToSet(top.queue) \cup ToSet(Body)
      BY <1>8, <2>2 DEF Coming, Body
    <3>2. k \in ToSet(g.queue) \cup ToSet(blocks'[g.block])
      BY <1>9, <1>13, <1>15, <3>1
    <3> QED
      BY <1>13, <3>2 DEF Coming
  <2> QED
    BY <2>1, <2>2
<1>31. Memo'
  BY <1>7, <1>18, <1>28, <1>29, <1>30, MemoTop
<1> QED
  BY <1>17, <1>19, <1>20, <1>23, <1>31 DEF Ownership

LEMMA AppendTailMemo == Apart /\ AppendTail => Shape' /\ Ownership' /\ Visits' /\ Memo'
<1> SUFFICES ASSUME Apart, AppendTail PROVE Shape' /\ Ownership' /\ Visits' /\ Memo'
  OBVIOUS
<1>1. PICK g : g = [top EXCEPT !.phase = "memo", !.tail = <<>>]
  OBVIOUS
<1>2. PICK b : b = top.block
  OBVIOUS
<1>3. /\ In("add") /\ top.queue = <<>> /\ UNCHANGED <<prog, memo, stmts>> /\ stack' = SetTop(g)
      /\ blocks' = [blocks EXCEPT ![b] = blocks[b] \o top.tail]
  BY <1>1, <1>2 DEF AppendTail
<1>4. /\ TypeOK /\ top \in Frame /\ Sound(top) /\ top.phase = "add" /\ b \in DOMAIN blocks
      /\ top = stack[Len(stack)] /\ Len(stack) \in 1..Len(stack) /\ ~ Live(top) /\ ~ Waiting(top)
      /\ blocks[b] \in Seq(DOMAIN stmts) /\ top.tail \in Seq(DOMAIN stmts)
  BY <1>2, <1>3, InnerAt DEF In, Live, Waiting, Body
<1>5. /\ g.phase = "memo" /\ g.block = b /\ g.thn = top.thn /\ g.els = top.els
      /\ g.queue = <<>> /\ g.tail = <<>> /\ g.cursor = 1 /\ g.visited = top.visited
  <2>1. top.cursor = 1
    BY <1>4 DEF Sound, Idle
  <2> QED
    BY <1>1, <1>2, <1>3, <1>4, <2>1 DEF Frame
<1>6. ~ Live(g) /\ ~ Waiting(g) /\ top' = g
  BY <1>3, <1>5, InnerSet DEF Live, Waiting
<1>7. PICK q : q = blocks[b] \o top.tail
  OBVIOUS
<1>8. /\ DOMAIN blocks' = DOMAIN blocks /\ blocks'[b] = q
      /\ \A c \in DOMAIN blocks : c # b => blocks'[c] = blocks[c]
      /\ ToSet(q) = ToSet(blocks[b]) \cup ToSet(top.tail) /\ Len(q) \in Nat /\ DOMAIN q = 1..Len(q)
  <2>1. ToSet(q) = ToSet(blocks[b]) \cup ToSet(top.tail) /\ q \in Seq(DOMAIN stmts)
    BY <1>4, <1>7, ElementsJoin
  <2> QED
    BY <1>3, <1>4, <1>7, <2>1, LenProperties
<1>9. \A c \in DOMAIN blocks : ToSet(blocks[c]) \subseteq ToSet(blocks'[c])
  BY <1>8
<1>10. Shape'
  <2>1. Sound(g)
    BY <1>4, <1>5, <1>6 DEF Sound, Interrupted, Idle, Once, Uncopied
  <2>2. AllMade'
    BY <1>3, FromPointSame DEF Apart, Shape, AllMade
  <2> QED
    BY <1>3, <2>1, <2>2, ShapeTop
<1>11. OuterKept
  <2>1. \A c \in DOMAIN blocks : ~ Movable(c) => blocks'[c] = blocks[c]
    BY <1>2, <1>8 DEF Movable
  <2>2. ASSUME NEW i \in DOMAIN stmts, NEW c \in DOMAIN blocks', i \in ToSet(blocks'[c])
        PROVE  Loose(i) \/ (c \in DOMAIN blocks /\ i \in ToSet(blocks[c]))
    BY <1>8, <2>2 DEF Loose
  <2>3. \A i \in DOMAIN stmts : i \in ToSet(g.queue) \cup ToSet(g.tail) => Loose(i)
    BY <1>5, ElementsNone
  <2> QED
    BY <1>3, <1>6, <2>1, <2>2, <2>3, OuterSafe
<1>12. AllOwn'
  BY <1>2, <1>3, <1>5, OwnTop
<1>13. AllUnshared'
  BY <1>3, <1>6, <1>11, UnsharedTop
<1>14. Visits'
  <2>1. ASSUME NEW v, Placed(v, top) PROVE Placed(v, g)'
    <3>1. v.stmt \in ToSet(blocks[b]) /\ stmts[v.stmt].tag = v.tag
      BY <1>2, <1>4, <2>1 DEF Placed
    <3> QED
      BY <1>3, <1>4, <1>5, <1>9, <3>1 DEF Placed
  <2> QED
    BY <1>3, <1>5, <1>6, <1>11, <2>1, VisitsTop
<1>15. ASSUME NEW u, NEW k \in ToSet(q), stmts[k].tag = u PROVE Due(g, u)'
  <2>1. PICK n \in DOMAIN q : q[n] = k
    BY <1>15, SMTT(30) DEF ToSet
  <2>2. n \in g.cursor..Len(blocks'[g.block]) /\ stmts'[blocks'[g.block][n]].tag = u
    BY <1>3, <1>5, <1>8, <1>15, <2>1
  <2> QED
    BY <1>5, <2>2 DEF Due
<1>16. Memo'
  <2>1. ASSUME NEW u, Due(top, u) PROVE Pending(u)'
    <3>1. u \in TagsOf(b) \/ \E k \in ToSet(top.tail) : stmts[k].tag = u
      BY <1>2, <1>3, <1>4, <2>1 DEF Due, Marks
    <3>2. PICK k \in ToSet(q) : stmts[k].tag = u
      BY <1>8, <3>1 DEF TagsOf
    <3>3. Due(g, u)'
      BY <1>15, <3>2
    <3> QED
      BY <1>3, <1>11, <3>3, PendingTop
  <2>2. ASSUME NEW c \in DOMAIN blocks, NEW u \in TagsOf(c) PROVE u \in TagsOf(c)'
    BY <1>3, <1>9, <2>2 DEF TagsOf
  <2>3. ASSUME NEW k, Coming(top, k) PROVE Coming(g, k)'
    <3>1. k \in ToSet(q)
      BY <1>2, <1>3, <1>4, <1>8, <2>3, ElementsNone DEF Coming
    <3>2. PICK n \in DOMAIN q : q[n] = k
      BY <3>1 DEF ToSet
    <3>3. n \in g.cursor..Len(blocks'[g.block]) /\ blocks'[g.block][n] = k
      BY <1>5, <1>8, <3>2
    <3> QED
      BY <1>5, <3>3 DEF Coming
  <2> QED
    BY <1>3, <1>11, <2>1, <2>2, <2>3, MemoTop
<1> QED
  BY <1>10, <1>12, <1>13, <1>14, <1>16 DEF Ownership

\* What is memoized once the statement s has been handled
LEMMA MemoAfterAt ==
    ASSUME NEW s, NEW b, b = top.block, memo' = MemoAfter(s), NEW t \in DOMAIN memo'
    PROVE  \/ t = s.tag /\ memo'[t] = b
           \/ /\ FeatureUnstructured /\ s.kind = "if"
              /\ \E c \in {s.thn, s.els} : t \in TagsOf(c) /\ memo'[t] = c
           \/ /\ t # s.tag /\ t \in DOMAIN memo /\ memo'[t] = memo[t]
              /\ s.kind = "if" => \A c \in {s.thn, s.els} : t \notin TagsOf(c)
<1>1. PICK thn : thn = IF s.kind = "if" THEN TagsOf(s.thn) ELSE {}
  OBVIOUS
<1>2. PICK els : els = IF s.kind = "if" THEN TagsOf(s.els) ELSE {}
  OBVIOUS
<1>3. memo' = [u \in Remembered(thn \cup els) \cup {s.tag} |->
                  IF u = s.tag THEN b ELSE IF u \in els THEN s.els
                  ELSE IF u \in thn THEN s.thn ELSE memo[u]]
  BY <1>1, <1>2 DEF MemoAfter
<1>4. t \in Remembered(thn \cup els) \cup {s.tag}
  BY <1>3
<1>5. memo'[t] = IF t = s.tag THEN b ELSE IF t \in els THEN s.els
                 ELSE IF t \in thn THEN s.thn ELSE memo[t]
  BY <1>3, <1>4
<1>6. CASE t = s.tag
  BY <1>5, <1>6
<1>7. CASE t # s.tag /\ t \in thn \cup els
  <2>1. FeatureUnstructured /\ s.kind = "if"
    BY <1>1, <1>2, <1>4, <1>7 DEF Remembered
  <2> QED
    BY <1>1, <1>2, <1>5, <1>7, <2>1
<1>8. CASE t # s.tag /\ t \notin thn \cup els
  <2>1. t \in DOMAIN memo /\ memo'[t] = memo[t]
    BY <1>4, <1>5, <1>8 DEF Remembered
  <2> QED
    BY <1>1, <1>2, <1>8, <2>1
<1> QED
  BY <1>6, <1>7, <1>8

LEMMA UpdateMemoMemo == Apart /\ UpdateMemo => Shape' /\ Ownership' /\ Visits' /\ Memo'
<1> SUFFICES ASSUME Apart, UpdateMemo PROVE Shape' /\ Ownership' /\ Visits' /\ Memo'
  OBVIOUS
<1>1. PICK g : g = [top EXCEPT !.cursor = @ + 1]
  OBVIOUS
<1>2. PICK b : b = top.block
  OBVIOUS
<1>3. PICK m : m = top.cursor
  OBVIOUS
<1>4. PICK i : i = blocks[b][m]
  OBVIOUS
<1>5. PICK s : s = stmts[i]
  OBVIOUS
<1>6. /\ In("memo") /\ m <= Len(blocks[b]) /\ memo' = MemoAfter(s) /\ stack' = SetTop(g)
      /\ prog' = prog /\ stmts' = stmts /\ blocks' = blocks
  BY <1>1, <1>2, <1>3, <1>4, <1>5 DEF UpdateMemo, Body
<1>7. /\ TypeOK /\ top \in Frame /\ Sound(top) /\ top.phase = "memo" /\ b \in DOMAIN blocks
      /\ top = stack[Len(stack)] /\ Len(stack) \in 1..Len(stack) /\ ~ Live(top) /\ ~ Waiting(top)
      /\ blocks[b] \in Seq(DOMAIN stmts)
  BY <1>2, <1>6, InnerAt DEF In, Live, Waiting, Body
<1>8. m \in Nat \ {0}
  BY <1>3, <1>7 DEF Frame
<1>9. /\ g.phase = "memo" /\ g.block = b /\ g.thn = top.thn /\ g.els = top.els /\ g.cursor = m + 1
      /\ g.queue = top.queue /\ g.tail = top.tail /\ g.visited = top.visited
  BY <1>1, <1>2, <1>3, <1>7 DEF Frame
<1>10. ~ Live(g) /\ ~ Waiting(g) /\ top' = g
  BY <1>6, <1>9, InnerSet DEF Live, Waiting
<1>11. m \in 1..Len(blocks[b]) /\ i \in DOMAIN stmts /\ i \in ToSet(blocks[b])
       /\ Len(blocks[b]) \in Nat
  <2>1. Len(blocks[b]) \in Nat /\ DOMAIN blocks[b] = 1..Len(blocks[b])
    BY <1>7, LenProperties
  <2>2. m \in DOMAIN blocks[b]
    BY <1>6, <1>8, <2>1
  <2>3. i \in ToSet(blocks[b])
    BY <1>4, <2>2 DEF ToSet
  <2> QED
    BY <1>7, <2>1, <2>2, <2>3, HeapAt
<1>12. Shape'
  <2>1. Sound(g)
    BY <1>7, <1>9, <1>10 DEF Sound, Interrupted, Idle, Once, Uncopied
  <2>2. AllMade'
    BY <1>6, FromPointSame DEF Apart, Shape, AllMade
  <2> QED
    BY <1>6, <2>1, <2>2, ShapeTop
<1>13. OuterKept
  <2>1. \A k \in DOMAIN stmts : k \in ToSet(g.queue) \cup ToSet(g.tail) => Loose(k)
    BY <1>9 DEF Loose
  <2> QED
    BY <1>6, <1>10, <2>1, OuterSafe
<1>14. AllOwn'
  <2>1. \A t \in DOMAIN memo' :
           \/ t \in DOMAIN memo /\ memo'[t] = memo[t]
           \/ memo'[t] = top.block /\ g.phase = "memo"
           \/ \E k \in DOMAIN stmts : memo'[t] \in {stmts[k].thn, stmts[k].els}
    <3> SUFFICES ASSUME NEW t \in DOMAIN memo'
                 PROVE  \/ t \in DOMAIN memo /\ memo'[t] = memo[t]
                        \/ memo'[t] = top.block
                        \/ \E k \in DOMAIN stmts : memo'[t] \in {stmts[k].thn, stmts[k].els}
      BY <1>9
    <3> QED
      BY <1>2, <1>5, <1>6, <1>11, MemoAfterAt
  <2> QED
    BY <1>2, <1>6, <1>9, <2>1, OwnTop
<1>15. AllUnshared'
  BY <1>6, <1>10, <1>13, UnsharedTop
<1>16. Visits'
  <2>1. ASSUME NEW v, Placed(v, top) PROVE Placed(v, g)'
    BY <1>2, <1>6, <1>7, <1>9, <2>1 DEF Placed
  <2> QED
    BY <1>6, <1>9, <1>10, <1>13, <2>1, VisitsTop
<1>17. \A c : TagsOf(c)' = TagsOf(c)
  BY <1>6 DEF TagsOf
<1>18. ASSUME NEW n \in m..Len(blocks[b]), n # m PROVE n \in (m + 1)..Len(blocks[b])
  BY <1>8, <1>11, <1>18
<1>19. ASSUME NEW t, t # s.tag, Pending(t) PROVE Pending(t)'
  <2>1. CASE Due(top, t)
    <3>1. CASE \E k \in ToSet(top.tail) : stmts[k].tag = t
      <4>1. Due(g, t)'
        BY <1>6, <1>9, <3>1 DEF Due
      <4> QED
        BY <1>6, <1>13, <4>1, PendingTop
    <3>2. CASE \E n \in m..Len(blocks[b]) : stmts[blocks[b][n]].tag = t
      <4>1. PICK n \in m..Len(blocks[b]) : stmts[blocks[b][n]].tag = t
        BY <3>2
      <4>2. n \in (m + 1)..Len(blocks[b])
        BY <1>4, <1>5, <1>18, <1>19, <4>1
      <4>3. Due(g, t)'
        BY <1>6, <1>9, <4>1, <4>2 DEF Due
      <4> QED
        BY <1>6, <1>13, <4>3, PendingTop
    <3> QED
      BY <1>2, <1>3, <1>7, <2>1, <3>1, <3>2 DEF Due
  <2>2. CASE ~ Due(top, t)
    BY <1>6, <1>13, <1>19, <2>2, PendingTop
  <2> QED
    BY <2>1, <2>2
<1>20. ASSUME NEW t \in DOMAIN memo' \ {NoTag} PROVE t \in TagsOf(memo'[t]) \/ Pending(t)'
  <2>1. CASE t = s.tag /\ memo'[t] = b
    BY <1>5, <1>11, <2>1 DEF TagsOf
  <2>2. CASE t # s.tag /\ t \in DOMAIN memo /\ memo'[t] = memo[t]
    <3>1. t \in TagsOf(memo[t]) \/ Pending(t)
      BY <2>2 DEF Apart, Memo, MemoKept
    <3> QED
      BY <1>19, <2>2, <3>1
  <2> QED
    BY <1>2, <1>6, <2>1, <2>2, MemoAfterAt
<1>21. MemoKept'
  <2> SUFFICES ASSUME NEW t \in DOMAIN memo' \ {NoTag}
               PROVE  \E c : c = memo'[t] /\ (t \in TagsOf(c)' \/ Pending(t)')
    BY DEF MemoKept, TagsOf, NoTag, NoLoc
  <2> QED
    BY <1>17, <1>20
<1>22. ASSUME ~ FeatureUnstructured, NEW t \in DOMAIN memo' \ {NoTag}, NEW k \in DOMAIN stmts,
              stmts[k].kind = "if", memo'[t] \in {stmts[k].thn, stmts[k].els}
       PROVE  Pending(t)' \/ Coming(g, k)'
  <2>1. b \notin {stmts[k].thn, stmts[k].els}
    BY <1>2, <1>7 DEF Apart, Ownership, AllOwn, Owns
  <2>2. /\ t # s.tag /\ t \in DOMAIN memo \ {NoTag} /\ memo'[t] = memo[t]
        /\ s.kind = "if" => \A c \in {s.thn, s.els} : t \notin TagsOf(c)
    BY <1>2, <1>6, <1>22, <2>1, MemoAfterAt
  <2>3. Pending(t) \/ Coming(top, k)
    BY <1>22, <2>2 DEF Apart, Memo, ArmsForgotten
  <2>4. CASE Coming(top, k)
    <3>1. PICK n \in m..Len(blocks[b]) : blocks[b][n] = k
      BY <1>2, <1>3, <1>7, <2>4 DEF Coming
    <3>2. CASE n = m
      <4>1. t \notin TagsOf(memo[t])
        BY <1>4, <1>5, <1>22, <2>2, <3>1, <3>2
      <4>2. Pending(t)
        BY <2>2, <4>1 DEF Apart, Memo, MemoKept
      <4> QED
        BY <1>19, <2>2, <4>2
    <3>3. CASE n # m
      <4>1. n \in (m + 1)..Len(blocks[b])
        BY <1>18, <3>3
      <4> QED
        BY <1>6, <1>9, <3>1, <4>1 DEF Coming
    <3> QED
      BY <3>2, <3>3
  <2> QED
    BY <1>19, <2>2, <2>3, <2>4
<1>23. ArmsForgotten'
  <2>1. \A k : Coming(g, k)' <=> Coming(top, k)'
    BY <1>10 DEF Coming
  <2> QED
    BY <1>6, <1>22, <2>1 DEF ArmsForgotten, NoTag, NoLoc
<1> QED
  BY <1>12, <1>14, <1>15, <1>16, <1>21, <1>23 DEF Ownership, Memo

-----------------------------------------------------------------------------
(* The engine *)

LEMMA MemoInit == Init => MInv
<1> SUFFICES ASSUME Init PROVE MInv
  OBVIOUS
<1> DEFINE run == NewRun(<<>>, [exprs |-> <<>>, visited |-> {}, copies |-> {}], 1)
<1>1. DInv /\ stack = <<run>> /\ stmts = <<>> /\ blocks = <<<<>>>> /\ memo = <<>>
  BY DepthInit DEF Init
<1>2. /\ run.phase = "run" /\ run.visited = {} /\ run.block = 1 /\ run.thn = 0 /\ run.els = 0
      /\ run.queue = <<>> /\ run.tail = <<>> /\ run.cursor = 1
  BY DEF NewRun
<1> HIDE DEF run
<1>3. Len(stack) = 1 /\ stack[1] = run /\ top = run /\ \A k \in 1..Len(stack) : k = 1
  BY <1>1 DEF top, Last
<1>4. DOMAIN stmts = {} /\ DOMAIN memo = {} /\ DOMAIN blocks = {1} /\ blocks[1] = <<>>
  BY <1>1
<1>5. Shape
  <2>1. Sound(run)
    BY <1>2 DEF Sound, Interrupted, Waiting, Idle, Once, Uncopied
  <2> QED
    BY <1>3, <1>4, <2>1 DEF Shape, AllMade, AllSound
<1>6. Ownership
  <2>1. ToSet(blocks[1]) = {}
    BY <1>4, ElementsNone
  <2> QED
    BY <1>2, <1>3, <1>4, <2>1 DEF Ownership, AllOwn, Owns, AllUnshared, Unshared
<1>7. Visits
  <2>1. ToSet(blocks[1]) = {}
    BY <1>4, ElementsNone
  <2>2. Marks(run) = {}
    BY <1>2, <2>1 DEF Marks, TagsOf, Waiting
  <2>3. \A j \in 1..1 : j = 1
    OBVIOUS
  <2> QED
    BY <1>2, <1>3, <2>2, <2>3 DEF Visits, AllPlaced, AllInherited, Inherited
<1>8. Memo
  BY <1>4 DEF Memo, MemoKept, ArmsForgotten
<1> QED
  BY <1>1, <1>5, <1>6, <1>7, <1>8 DEF MInv, Apart

LEMMA ExtractGoesOn == Extract => stack # <<>> /\ prog' = prog
<1> SUFFICES ASSUME Extract PROVE stack # <<>> /\ prog' = prog
  OBVIOUS
<1>1. CASE Run
  BY <1>1 DEF Run, CreateExpr, Creates, SkipStmt, Offers, AddStmt, IsNew, LoopBack, Memoize,
              TakeBool, OutOfBools, Asks, Return, In
<1>2. CASE Trim
  BY <1>2 DEF Trim, TrimCommon, Common, TrimSplit, Split, BothArms, BuildIf, In
<1>3. CASE EndOfRun
  BY <1>3 DEF EndOfRun, AddQueued, HasQueued, AppendTail, UpdateMemo, ReturnRoot, ReturnThen,
              ReturnElse, Finished, In
<1> QED
  BY <1>1, <1>2, <1>3 DEF Extract

LEMMA ApartStep == Apart /\ Extract /\ stack' # <<>> => Shape' /\ Ownership' /\ Visits' /\ Memo'
<1> SUFFICES ASSUME Apart, Extract, stack' # <<>> PROVE Shape' /\ Ownership' /\ Visits' /\ Memo'
  OBVIOUS
<1>1. CASE Run
  BY <1>1, GoingMemo, AddStmtMemo, CutMemo, OutOfBoolsMemo, ReturnMemo DEF Run
<1>2. CASE Trim
  BY <1>2, TrimCommonMemo, NoSplit, BuildIfMemo DEF Trim, TrimSplit
<1>3. CASE EndOfRun
  BY <1>3, AddQueuedMemo, AppendTailMemo, UpdateMemoMemo, ReturnThenMemo, ReturnElseMemo
     DEF EndOfRun, ReturnRoot
<1> QED
  BY <1>1, <1>2, <1>3 DEF Extract

LEMMA ApartSame == Apart /\ UNCHANGED vars => Shape' /\ Ownership' /\ Visits' /\ Memo'
<1> SUFFICES ASSUME Apart, UNCHANGED vars PROVE Shape' /\ Ownership' /\ Visits' /\ Memo'
  OBVIOUS
<1>1. /\ prog' = prog /\ stack' = stack /\ memo' = memo /\ stmts' = stmts /\ blocks' = blocks
      /\ top' = top
  BY DEF vars, top, Last
<1>2. Shape'
  BY <1>1, SoundSame, FromPointSame DEF Apart, Shape, AllMade, AllSound
<1>3. Ownership'
  BY <1>1 DEF Apart, Ownership, AllOwn, Owns, AllUnshared, Unshared, Live, Elsewhere
<1>4. (\A f : Marks(f)' = Marks(f)) /\ \A b : TagsOf(b)' = TagsOf(b)
  BY <1>1 DEF Marks, TagsOf, Waiting
<1>5. Visits'
  <2>1. \A v, f : Placed(v, f)' <=> Placed(v, f)
    BY <1>1 DEF Placed, Waiting
  <2>2. AllPlaced'
    BY <1>1, <2>1 DEF Apart, Visits, AllPlaced, Placed, Waiting
  <2>3. AllInherited'
    <3> SUFFICES ASSUME NEW k \in 1..Len(stack), Live(stack[k]), NEW j \in 1..k
                 PROVE  \E f : f = stack[j] /\ Marks(f)' \subseteq Tags(stack[k])
      BY <1>1 DEF AllInherited, Inherited, Live, Tags, Marks, TagsOf, Waiting
    <3> QED
      BY <1>4 DEF Apart, Visits, AllInherited, Inherited
  <2> QED
    BY <2>2, <2>3 DEF Visits
<1>6. Memo'
  <2>1. \A t : Pending(t)' <=> Pending(t)
    BY <1>1 DEF Pending, Due, Marks, TagsOf, Waiting, Tags
  <2>2. \A i : Coming(top, i)' <=> Coming(top, i)
    BY <1>1 DEF Coming
  <2>3. MemoKept'
    BY <1>1, <1>4, <2>1 DEF Apart, Memo, MemoKept, TagsOf, NoTag, NoLoc
  <2>4. ArmsForgotten'
    BY <1>1, <2>1, <2>2 DEF Apart, Memo, ArmsForgotten, NoTag, NoLoc
  <2> QED
    BY <2>3, <2>4 DEF Memo
<1> QED
  BY <1>2, <1>3, <1>5, <1>6

LEMMA MemoStep == MInv /\ [Next]_vars => MInv'
<1> SUFFICES ASSUME MInv, [Next]_vars PROVE MInv'
  OBVIOUS
<1>1. DInv'
  BY DepthStep DEF MInv
<1>2. ASSUME ConditionsApart', stack' # <<>> PROVE Apart'
  <2>1. Extract \/ UNCHANGED vars
    BY DEF Next, Extracted
  <2>2. prog' = prog /\ stack # <<>>
    BY <1>2, <2>1, ExtractGoesOn DEF vars
  <2>3. ConditionsApart
    BY <1>2, <2>2 DEF ConditionsApart
  <2>4. Apart
    BY <2>2, <2>3 DEF MInv
  <2>5. Shape' /\ Ownership' /\ Visits' /\ Memo'
    BY <1>2, <2>1, <2>4, ApartStep, ApartSame
  <2> QED
    BY <1>1, <1>2, <2>5 DEF Apart
<1> QED
  BY <1>1, <1>2 DEF MInv

\* A run looks up no tag that is still to be memoized.
LEMMA FreshDone ==
    ASSUME Apart, In("run"), NEW t \in Fresh
    PROVE  t \in DOMAIN memo \ {NoTag} /\ ~ Pending(t) /\ t \in TagsOf(memo[t])
<1>1. /\ top = stack[Len(stack)] /\ Len(stack) \in 1..Len(stack) /\ Len(stack) \in Nat
      /\ top.phase = "run" /\ Live(top) /\ Sound(top)
  BY InnerAt DEF In, Live
<1>2. t \in DOMAIN memo \ {NoTag} /\ t \notin Tags(top)
  BY DEF Fresh, IsVisited, Tags
<1>3. \A j \in 1..Len(stack) : t \notin Marks(stack[j])
  BY <1>1, <1>2 DEF Apart, Visits, AllInherited, Inherited
<1>4. ~ Due(top, t)
  <2>1. top.tail = <<>>
    BY <1>1 DEF Sound, Idle
  <2> QED
    BY <1>1, <1>3, <2>1, ElementsNone DEF Due
<1>5. ~ Pending(t)
  <2>1. \A k \in 1..(Len(stack) - 1) : k \in 1..Len(stack)
    BY <1>1
  <2> QED
    BY <1>3, <1>4, <2>1 DEF Pending
<1> QED
  BY <1>2, <1>5 DEF Apart, Memo, MemoKept

LEMMA MemoEnough == MInv => MemoHolds /\ MemoComplete
<1> SUFFICES ASSUME MInv PROVE MemoHolds /\ MemoComplete
  OBVIOUS
<1> SUFFICES ASSUME In("run"), ConditionsApart, NEW t \in Fresh
             PROVE  /\ Places(memo[t], t) # {}
                    /\ ~ FeatureUnstructured =>
                          \A i \in DOMAIN stmts :
                             stmts[i].kind = "if" => memo[t] \notin {stmts[i].thn, stmts[i].els}
  BY DEF MemoHolds, MemoComplete
<1>1. Apart
  BY DEF MInv, In
<1>2. t \in DOMAIN memo \ {NoTag} /\ ~ Pending(t) /\ t \in TagsOf(memo[t])
  BY <1>1, FreshDone
<1>3. Places(memo[t], t) # {}
  BY <1>2 DEF Places, TagsOf, ToSet
<1>4. \A i : ~ Coming(top, i)
  BY DEF Coming, In
<1> QED
  BY <1>1, <1>2, <1>3, <1>4 DEF Apart, Memo, ArmsForgotten

\* While the staged function runs, the block memoized for a tag the run has not visited
\* has a statement with that tag, whatever branches, loops and tags the function has, if no
\* two of its conditions share a tag: the search of add_stmt_to_current_block for the
\* statement to copy never runs off the block's end.
THEOREM MemoCorrect == Spec => []MemoHolds
BY MemoInit, MemoStep, MemoEnough, PTL DEF Spec

\* While such a function runs, no tag that would be looked up is memoized in a branch of
\* an if that has been built: what a run copies goes on behind the if.
THEOREM CompleteCorrect == Spec => []MemoComplete
BY MemoInit, MemoStep, MemoEnough, PTL DEF Spec

-----------------------------------------------------------------------------
(* Nothing aborts *)

\* What a call that has ended still has to add is the goto that ends its run, or the if
\* it has built, whose tag it has erased from the visited ones, or copied.
Ending ==
    /\ top.phase = "run" => top.thn = 0
    /\ top.phase = "add" =>
          \/ top.queue = <<>> \/ Copying
          \/ \E i \in DOMAIN stmts : /\ top.queue = <<i>>
                                     /\ stmts[i].tag = NoTag \/ stmts[i].tag \notin Tags(top)
EInv == MInv /\ (ConditionsApart /\ stack # <<>> => Ending)

LEMMA EndingRun ==
    ASSUME Apart, Ending, In("run"), NEW g, stack' = SetTop(g), g.phase = "run", g.thn = top.thn
    PROVE  Ending'
<1>1. top' = g /\ top.thn = 0
  BY InnerSet DEF Ending, In
<1> QED
  BY <1>1 DEF Ending

LEMMA EndingGoing == Apart /\ Ending /\ (CreateExpr \/ SkipStmt \/ TakeBool) => Ending'
<1> SUFFICES ASSUME Apart, Ending, CreateExpr \/ SkipStmt \/ TakeBool PROVE Ending'
  OBVIOUS
<1>1. In("run") /\ top \in Frame /\ top.phase = "run"
  BY InnerAt DEF CreateExpr, Creates, SkipStmt, Offers, TakeBool, Asks, In
<1>2. \E g : stack' = SetTop(g) /\ g.phase = "run" /\ g.thn = top.thn
  <2>1. CASE CreateExpr
    <3> DEFINE p == IF Op = "expr" THEN prog.code[top.pc].next ELSE top.pc
               f == [top EXCEPT !.tested = (Op = "branch"), !.pc = p]
               g == IF CatchingUp THEN [f EXCEPT !.used = @ + 1]
                    ELSE [f EXCEPT !.pending = Append(@, top.pc), !.exprs = Append(@, top.pc)]
    <3>1. stack' = SetTop(g)
      BY <1>1, <2>1 DEF CreateExpr, Frame
    <3>2. g.phase = "run" /\ g.thn = top.thn
      BY <1>1 DEF Frame
    <3> HIDE DEF g
    <3> QED
      BY <3>1, <3>2
  <2>2. CASE SkipStmt
    <3>1. PICK g : g = Passed
      OBVIOUS
    <3>2. stack' = SetTop(g) /\ g.phase = "run" /\ g.thn = top.thn
      BY <1>1, <2>2, <3>1 DEF SkipStmt, Passed, Frame
    <3> QED
      BY <3>2
  <2>3. CASE TakeBool
    <3> DEFINE p == IF Last(top.bools) THEN prog.code[top.pc].next ELSE prog.code[top.pc].other
               g == [top EXCEPT !.bools = Front(top.bools), !.tested = FALSE, !.pc = p]
    <3>1. stack' = SetTop(g)
      BY <1>1, <2>3 DEF TakeBool, Frame
    <3>2. g.phase = "run" /\ g.thn = top.thn
      BY <1>1 DEF Frame
    <3> HIDE DEF g
    <3> QED
      BY <3>1, <3>2
  <2> QED
    BY <2>1, <2>2, <2>3
<1> QED
  BY <1>1, <1>2, EndingRun

LEMMA EndingAdd == Apart /\ Ending /\ (AddStmt \/ Return) => Ending'
<1> SUFFICES ASSUME Apart, Ending, AddStmt \/ Return PROVE Ending'
  OBVIOUS
<1>1. /\ In("run") /\ top \in Frame /\ top.phase = "run" /\ top.queue = <<>> /\ top.thn = 0
  BY InnerAt DEF AddStmt, IsNew, Offers, Return, In, Sound, Idle, Ending
<1>2. PICK n : n = Len(stmts) + 1
  OBVIOUS
<1>3. CASE AddStmt
  <2>1. PICK f : f = Passed
    OBVIOUS
  <2>2. f \in Frame /\ f.phase = "run" /\ f.thn = top.thn
    <3>1. f \in Frame
      BY <1>1, <1>3, <2>1, PassedFrame, InnerAt DEF AddStmt, IsNew
    <3> QED
      BY <1>1, <2>1, <3>1 DEF Passed, Frame
  <2>3. PICK g : g = Visit(f, n, Offered)
    OBVIOUS
  <2>4. stack' = SetTop(g) /\ g.phase = "run" /\ g.thn = top.thn
    BY <1>2, <1>3, <2>1, <2>2, <2>3 DEF AddStmt, Visit, Frame
  <2> QED
    BY <1>1, <2>4, EndingRun
<1>4. CASE Return
  <2>1. PICK f : f = [top EXCEPT !.phase = "add"]
    OBVIOUS
  <2>2. f.phase = "add" /\ f.queue = <<>> /\ DOMAIN f = DOMAIN top
    BY <1>1, <2>1 DEF Frame
  <2>3. \E g : stack' = SetTop(g) /\ g.phase = "add" /\ g.queue = <<>>
    <3>1. CASE stack' = SetTop(f)
      BY <2>2, <3>1
    <3>2. CASE stack' # SetTop(f)
      <4>1. PICK s : stack' = SetTop(Visit(f, n, s))
        BY <1>2, <1>4, <2>1, <3>2 DEF Return
      <4>2. PICK g : g = Visit(f, n, s)
        OBVIOUS
      <4>3. g.phase = "add" /\ g.queue = <<>>
        BY <1>1, <2>1, <2>2, <4>2 DEF Visit, Frame
      <4> QED
        BY <4>1, <4>2, <4>3
    <3> QED
      BY <3>1, <3>2
  <2>4. PICK g : stack' = SetTop(g) /\ g.phase = "add" /\ g.queue = <<>>
    BY <2>3
  <2>5. top' = g
    BY <2>4, InnerSet
  <2> QED
    BY <2>4, <2>5 DEF Ending
<1> QED
  BY <1>3, <1>4

LEMMA EndingCut == Apart /\ Ending /\ (LoopBack \/ Memoize) => Ending'
<1> SUFFICES ASSUME Apart, Ending, LoopBack \/ Memoize PROVE Ending'
  OBVIOUS
<1>1. In("run") /\ top \in Frame /\ top.thn = 0 /\ TypeOK
  BY InnerAt DEF LoopBack, Memoize, IsNew, Offers, In, Ending
<1>2. ASSUME NEW q, EndWith(q) PROVE top'.phase = "add" /\ top'.queue = q /\ top'.thn = 0
  <2>1. PICK g : g = [top EXCEPT !.phase = "add", !.pending = <<>>, !.queue = q]
    OBVIOUS
  <2>2. top' = g
    BY <1>2, <2>1, InnerSet DEF EndWith
  <2> QED
    BY <1>1, <2>1, <2>2 DEF Frame
<1>3. ASSUME NEW t, EndWithGoto(t) PROVE Ending'
  <2>1. PICK n : n = Len(stmts) + 1
    OBVIOUS
  <2>2. stmts' = Append(stmts, Goto(t)) /\ top'.phase = "add" /\ top'.queue = <<n>>
    BY <1>2, <1>3, <2>1 DEF EndWithGoto
  <2>3. n \in DOMAIN stmts' /\ stmts'[n] = Goto(t)
    BY <1>1, <2>1, <2>2, HeapAt
  <2>4. stmts'[n].tag = NoTag
    BY <2>3 DEF Goto, Statement
  <2> QED
    BY <2>2, <2>3, <2>4 DEF Ending, NoTag, NoLoc
<1>4. CASE LoopBack \/ FeatureUnstructured
  BY <1>3, <1>4 DEF LoopBack, Memoize
<1>5. CASE Memoize /\ ~ FeatureUnstructured
  <2>1. PICK q : EndWith(q)
    BY <1>5 DEF Memoize
  <2> QED
    BY <1>2, <1>5, <2>1 DEF Ending, Copying
<1> QED
  BY <1>4, <1>5

\* A run begins, or a call goes on trimming.
LEMMA EndingForked == Apart /\ Ending /\ (OutOfBools \/ ReturnThen \/ ReturnElse) => Ending'
<1> SUFFICES ASSUME Apart, OutOfBools \/ ReturnThen \/ ReturnElse PROVE Ending'
  OBVIOUS
<1>1. \A a, f, b : NewRun(a, f, b).phase = "run" /\ NewRun(a, f, b).thn = 0
  BY DEF NewRun
<1>2. stack \in Seq(Call) /\ Len(stack) \in Nat \ {0}
  BY InnerAt
<1>3. CASE OutOfBools
  <2>1. PICK a, f, b : stack' = Append(SetTop(f), NewRun(a, f, b))
    BY <1>3 DEF OutOfBools
  <2>2. top' = NewRun(a, f, b)
    BY <1>2, <2>1 DEF top, Last, SetTop
  <2> QED
    BY <1>1, <2>2 DEF Ending
<1>4. CASE ReturnThen
  <2>1. PICK q, a, f, b : q = SubSeq(stack, 1, Len(stack) - 2) /\ stack' = q \o <<f, NewRun(a, f, b)>>
    BY <1>4 DEF ReturnThen
  <2>2. q \in Seq(Call)
    BY <1>2, <1>4, <2>1 DEF ReturnThen
  <2>3. PICK r : r = NewRun(a, f, b)
    OBVIOUS
  <2>4. top' = r
    BY <2>1, <2>2, <2>3 DEF top, Last
  <2> QED
    BY <1>1, <2>3, <2>4 DEF Ending
<1>5. CASE ReturnElse
  <2>1. PICK q, f : /\ q = SubSeq(stack, 1, Len(stack) - 2)
                    /\ f = [caller EXCEPT !.phase = "trim", !.els = top.block]
                    /\ stack' = Append(q, f)
    BY <1>5 DEF ReturnElse
  <2>2. q \in Seq(Call) /\ caller \in Frame
    <3>1. Len(stack) > 1 /\ Len(stack) - 1 \in 1..Len(stack)
      BY <1>2, <1>5 DEF ReturnElse
    <3>2. caller \in Call
      BY <1>2, <3>1 DEF caller
    <3> QED
      BY <1>2, <2>1, <3>1, <3>2 DEF Call
  <2>3. top' = f
    BY <2>1, <2>2 DEF top, Last
  <2>4. f.phase = "trim"
    BY <2>1, <2>2 DEF Frame
  <2> QED
    BY <2>3, <2>4 DEF Ending
<1> QED
  BY <1>3, <1>4, <1>5

LEMMA EndingTrim == Apart /\ Ending /\ Trim => Ending'
<1> SUFFICES ASSUME Apart, Trim PROVE Ending'
  OBVIOUS
<1>1. In("trim") /\ top \in Frame /\ top.phase = "trim" /\ top.queue = <<>> /\ TypeOK
  BY InnerAt DEF Trim, TrimCommon, Common, TrimSplit, Split, BothArms, BuildIf, In, Sound, Idle
<1>2. CASE TrimCommon
  <2>1. PICK g : g = [top EXCEPT !.tail = <<Last(blocks[top.thn])>> \o @]
    OBVIOUS
  <2>2. top' = g
    BY <1>2, <2>1, InnerSet DEF TrimCommon
  <2>3. g.phase = "trim"
    BY <1>1, <2>1 DEF Frame
  <2> QED
    BY <2>2, <2>3 DEF Ending
<1>3. CASE BuildIf
  <2>1. PICK n : n = Len(stmts) + 1
    OBVIOUS
  <2>2. PICK t : t = top.ifTag
    OBVIOUS
  <2>3. PICK q : q = (IF EmptiesThen THEN blocks[top.thn] ELSE <<>>) \o
                     (IF EmptiesElse THEN blocks[top.els] ELSE <<>>) \o top.tail
    OBVIOUS
  <2>4. PICK g : g = [top EXCEPT !.phase = "add", !.visited = {v \in @ : v.tag # t},
                                 !.queue = Append(@, n), !.tail = q]
    OBVIOUS
  <2>5. stack' = SetTop(g) /\ stmts' = Append(stmts, If(t, top.cond, top.thn, top.els))
    BY <1>1, <1>3, <2>1, <2>2, <2>3, <2>4 DEF BuildIf, Frame
  <2>6. top' = g
    BY <2>5, InnerSet
  <2>7. g.queue = <<n>> /\ t \notin Tags(g)
    BY <1>1, <2>4 DEF Frame, Tags
  <2>8. n \in DOMAIN stmts' /\ stmts'[n].tag = t
    <3>1. If(t, top.cond, top.thn, top.els).tag = t
      BY DEF If, Statement
    <3> QED
      BY <1>1, <2>1, <2>5, <3>1, HeapAt
  <2> QED
    BY <2>4, <2>6, <2>7, <2>8, <1>1 DEF Ending, Tags, Frame
<1> QED
  BY <1>2, <1>3, NoSplit DEF Trim, TrimSplit

LEMMA EndingEnd == Apart /\ Ending /\ (AddQueued \/ AppendTail \/ UpdateMemo) => Ending'
<1> SUFFICES ASSUME Apart, Ending, AddQueued \/ AppendTail \/ UpdateMemo PROVE Ending'
  OBVIOUS
<1>1. top \in Frame
  BY InnerAt
<1>2. CASE AddQueued
  <2>1. PICK i : i = Head(top.queue)
    OBVIOUS
  <2>2. PICK h : h = Visit(top, i, Queued)
    OBVIOUS
  <2>3. PICK g : g = [h EXCEPT !.queue = Tail(h.queue)]
    OBVIOUS
  <2>4. stack' = SetTop(g) /\ top.phase = "add" /\ top.queue # <<>>
    BY <1>2, <2>1, <2>2, <2>3 DEF AddQueued, HasQueued, In
  <2>5. top' = g
    BY <2>4, InnerSet
  <2>6. g.thn = top.thn /\ g.queue = Tail(top.queue) /\ g.phase = "add"
    <3>1. h.thn = top.thn /\ h.queue = top.queue /\ h.phase = "add" /\ DOMAIN h = DOMAIN top
      BY <1>1, <2>2, <2>4 DEF Visit, Frame
    <3> QED
      BY <1>1, <2>3, <3>1 DEF Frame
  <2>7. CASE Copying
    BY <2>5, <2>6, <2>7 DEF Ending, Copying
  <2>8. CASE \E k \in DOMAIN stmts : top.queue = <<k>>
    <3>1. g.queue = <<>>
      BY <2>6, <2>8
    <3> QED
      BY <2>5, <2>6, <3>1 DEF Ending
  <2> QED
    BY <2>4, <2>7, <2>8 DEF Ending
<1>3. CASE AppendTail \/ UpdateMemo
  <2>1. \E g : stack' = SetTop(g) /\ g.phase = "memo"
    <3>1. CASE AppendTail
      <4>1. PICK g : g = [top EXCEPT !.phase = "memo", !.tail = <<>>]
        OBVIOUS
      <4>2. stack' = SetTop(g)
        BY <3>1, <4>1 DEF AppendTail
      <4>3. g.phase = "memo"
        BY <1>1, <4>1 DEF Frame
      <4> QED
        BY <4>2, <4>3
    <3>2. CASE UpdateMemo
      <4>1. PICK g : g = [top EXCEPT !.cursor = @ + 1]
        OBVIOUS
      <4>2. stack' = SetTop(g) /\ top.phase = "memo"
        BY <3>2, <4>1 DEF UpdateMemo, In
      <4> QED
        BY <1>1, <4>1, <4>2 DEF Frame
    <3> QED
      BY <1>3, <3>1, <3>2
  <2>2. PICK g : stack' = SetTop(g) /\ g.phase = "memo"
    BY <2>1
  <2>3. top' = g
    BY <2>2, InnerSet
  <2> QED
    BY <2>2, <2>3 DEF Ending
<1> QED
  BY <1>2, <1>3

LEMMA EndingStep == EInv /\ [Next]_vars => EInv'
<1> SUFFICES ASSUME EInv, [Next]_vars PROVE EInv'
  OBVIOUS
<1>1. MInv'
  BY MemoStep DEF EInv
<1>2. ASSUME ConditionsApart', stack' # <<>> PROVE Ending'
  <2>1. Extract \/ UNCHANGED vars
    BY DEF Next, Extracted
  <2>2. prog' = prog /\ stack # <<>>
    BY <1>2, <2>1, ExtractGoesOn DEF vars
  <2>3. Apart /\ Ending
    BY <1>2, <2>2 DEF EInv, MInv, ConditionsApart
  <2>4. CASE Run
    BY <2>3, <2>4, EndingGoing, EndingAdd, EndingCut, EndingForked DEF Run
  <2>5. CASE EndOfRun
    BY <1>2, <2>3, <2>5, EndingEnd, EndingForked DEF EndOfRun, ReturnRoot
  <2>6. CASE UNCHANGED vars
    BY <2>3, <2>6 DEF Ending, Copying, vars, top, Last, Tags, NoTag, NoLoc
  <2> QED
    BY <2>1, <2>3, <2>4, <2>5, <2>6, EndingTrim DEF Extract
<1> QED
  BY <1>1, <1>2 DEF EInv

LEMMA EndingInit == Init => EInv
<1> SUFFICES ASSUME Init PROVE EInv
  OBVIOUS
<1>1. PICK f : f = NewRun(<<>>, [exprs |-> <<>>, visited |-> {}, copies |-> {}], 1)
  OBVIOUS
<1>2. f.phase = "run" /\ f.thn = 0 /\ stack = <<f>>
  BY <1>1 DEF NewRun, Init
<1>3. top = f
  BY <1>2 DEF top, Last
<1> QED
  BY <1>2, <1>3, MemoInit DEF EInv, Ending

\* The tag that a new statement gets is one that its run has not visited.
LEMMA StoredFresh == Apart /\ IsNew /\ StoredAs \in DOMAIN memo => StoredAs \in Fresh
<1> SUFFICES ASSUME Apart, IsNew, StoredAs \in DOMAIN memo PROVE StoredAs \in Fresh
  OBVIOUS
<1>1. Offers /\ ~ CatchingUp /\ ~ NullCopy(Offered) /\ ~ LoopsBack(Offered) /\ In("run")
  BY DEF IsNew, Offers
<1>2. /\ TypeOK /\ FInv /\ DInv /\ top \in Frame /\ top.phase = "run"
      /\ Len(stack) \in 1..Len(stack) /\ top = stack[Len(stack)]
  BY <1>1, InnerAt DEF In
<1>3. PICK p \in DOMAIN prog.code : Offered = StmtAt(p) /\ Offered.tag \in Tag
  BY <1>1, <1>2, OfferedAt
<1>4. Counted(top)
  BY <1>2 DEF Live, DInv, AllTrack, Tracks
<1>5. ~ IsVisited(StoredAs)
  BY <1>1, <1>2, <1>3, <1>4, StoredUnvisited DEF StoredAs
<1>6. StoredAs # NoTag
  <2>1. StoredAs.loc = prog.code[p].loc
    <3>1. /\ StoredAs.loc = Offered.tag.loc
          /\ StmtAt(p).tag = [loc |-> prog.code[p].loc, dedup |-> 0]
      BY <1>1, <1>2, <1>3, OfferedType, StoredTagType, StoredLoc, PointTag DEF StoredAs
    <3> QED
      BY <1>3, <3>1
  <2>2. prog.code[p].loc \in Loc
    BY <1>2, PointType DEF TypeOK, Point
  <2> QED
    BY <2>1, <2>2, NoLocAssumption DEF NoTag
<1> QED
  BY <1>5, <1>6 DEF Fresh

\* The block a statement is looked up in has it.
LEMMA LookupSafe == EInv /\ IsNew /\ ConditionsApart => ~ Dangling(StoredAs)
<1> SUFFICES ASSUME EInv, IsNew, ConditionsApart, StoredAs \in DOMAIN memo
             PROVE  Places(memo[StoredAs], StoredAs) # {}
  BY DEF Dangling
<1>1. In("run") /\ Apart
  BY DEF IsNew, Offers, EInv, MInv, In
<1> QED
  BY <1>1, StoredFresh, MemoEnough DEF EInv, MemoHolds

LEMMA QueuedSafe == EInv /\ HasQueued /\ LoopsBack(Queued) /\ ConditionsApart => Copying
<1> SUFFICES ASSUME EInv, HasQueued, LoopsBack(Queued), ConditionsApart, ~ Copying PROVE FALSE
  OBVIOUS
<1>1. top.phase = "add" /\ top.queue # <<>> /\ Ending
  BY DEF HasQueued, In, EInv
<1>2. PICK i \in DOMAIN stmts : /\ top.queue = <<i>>
                                /\ stmts[i].tag = NoTag \/ stmts[i].tag \notin Tags(top)
  BY <1>1 DEF Ending
<1>3. Queued = stmts[i] /\ Seen(Queued)
  BY <1>2 DEF Queued, LoopsBack
<1> QED
  BY <1>2, <1>3 DEF Seen, IsVisited, Tags

\* The extraction of a function never aborts, unless a run copies statements that it has
\* already visited, if no two conditions of the function share a tag: all that the engine
\* dereferences is there, and no other handler throws.  With feature_unstructured, where
\* nothing is copied, it never aborts.
THEOREM AbortsCorrect == Spec => []NeverAborts
<1>1. EInv /\ ReplayAligned /\ ConditionAsked /\ CopiesVisited => NeverAborts
  BY LookupSafe, QueuedSafe
     DEF NeverAborts, ReplayAligned, ConditionAsked, CopiesVisited, Creates
<1> QED
  BY <1>1, EndingInit, EndingStep, ReplayCorrect, ConditionCorrect, CopiesCorrect, PTL DEF Spec
=============================================================================
