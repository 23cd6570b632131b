----------------------- MODULE ExtractionForks_proofs -----------------------
(***************************************************************************)
(* The extraction implements Forking: the runs of the staged function,     *)
(* each of them started at the entry again, add up to one exploration of   *)
(* the function in which no branch is lost.  A run is represented by the   *)
(* walk from where its caller waits; the statements it creates come in the *)
(* order of the function's code because what is still uncommitted links    *)
(* what has been created to where the run is.                              *)
(***************************************************************************)
EXTENDS Extraction_proofs, Reexecution

FP == INSTANCE Forking_proofs WITH source <- prog, walks <- Walks, passed <- PlacesPassed

\* Each uncommitted expression of run f is what the function goes on to after the
\* one before; after the last comes the point f is at, unless that is its condition.
Linked(f) ==
    /\ f.tested => f.pc \in DOMAIN prog.code /\ prog.code[f.pc].op = "branch"
    /\ \A i \in 1..(Len(f.pending) - 1) :
          LET p == prog.code[f.pending[i]] IN p.op # "branch" /\ p.next = f.pending[i + 1]
    /\ f.pending # <<>> =>
          IF f.tested THEN Last(f.pending) = f.pc
          ELSE LET p == prog.code[Last(f.pending)] IN p.op # "branch" /\ p.next = f.pc

\* The run f is about to ask, and the condition is at the end of its block.
MadeOf(s, p) ==
    s.kind = "expr" /\ s.tag.loc = prog.code[p].loc /\ s.what = prog.code[p].what
AskedFor(f) ==
    f.tested /\ f.pending = <<>> =>
        blocks[f.block] # <<>> /\ MadeOf(stmts[Last(blocks[f.block])], f.pc)
TopLinked == In("run") /\ ~ CatchingUp => Linked(top) /\ AskedFor(top)

\* The condition a call will build an if from has been passed, and the statements
\* visited are where their tags say.
Known(f) ==
    /\ f.phase \in {"then", "else", "trim"} /\ f.cond.what # NoWhat =>
          [loc |-> f.ifTag.loc, what |-> f.cond.what] \in PlacesPassed
    /\ \A v \in f.visited : stmts[v.stmt].tag.loc = v.tag.loc
CallsKnown == \A k \in 1..Len(stack) : Known(stack[k])

\* The inductive invariant
FInv == IInv /\ TopLinked /\ CallsKnown

-----------------------------------------------------------------------------
(* The walks *)

LEMMA WalkSame ==
    ASSUME prog' = prog PROVE \A f, g : WalkOf(f, g)' = WalkOf(f, g)
BY DEF WalkOf, NextPlace, Destination

LEMMA WalksAt ==
    ASSUME IInv
    PROVE  /\ Len(stack) \in Nat /\ Len(Walks) = Len(stack) /\ DOMAIN Walks = 1..Len(stack)
           /\ Walks = <<>> <=> stack = <<>>
           /\ \A k \in 1..Len(stack) : Walks[k] = WalkOf(stack[k], stack[k - 1])
<1>1. Len(stack) \in Nat /\ DOMAIN stack = 1..Len(stack) /\ stack \in Seq(Call)
  BY LenProperties DEF IInv, TypeOK
<1>2. Walks \in Seq({Walks[k] : k \in DOMAIN stack}) /\ DOMAIN Walks = 1..Len(stack)
  BY <1>1 DEF Walks
<1>3. Len(Walks) = Len(stack)
  BY <1>1, <1>2, LenProperties
<1> QED
  BY <1>1, <1>2, <1>3, EmptySeq DEF Walks

LEMMA LastWalk ==
    ASSUME IInv, stack # <<>>
    PROVE  /\ Len(stack) \in Nat \ {0} /\ Len(Walks) = Len(stack) /\ Walks # <<>>
           /\ F!last = WalkOf(top, caller)
           /\ Walks[Len(stack)] = WalkOf(top, caller)
<1>1. Len(stack) \in Nat \ {0} /\ top = stack[Len(stack)] /\ Len(stack) \in 1..Len(stack)
  BY TopAt
<1>2. Walks[Len(stack)] = WalkOf(top, caller) /\ Len(Walks) = Len(stack) /\ Walks # <<>>
  BY <1>1, WalksAt DEF caller
<1> QED
  BY <1>1, <1>2 DEF F!last, F!Last, Last

\* Only the walk of a run that is catching up depends on the run's caller.
LEMMA OwnWalk ==
    ASSUME NEW f, f.phase = "run" => f.bools = <<>>
    PROVE  \A g, h : WalkOf(f, g) = WalkOf(f, h)
BY DEF WalkOf, NextPlace

LEMMA CalledTop ==
    ASSUME IInv, stack # <<>>, top.phase = "run", top.bools # <<>>
    PROVE  Len(stack) > 1
BY DEF IInv, TopAligned, RunAligned, In

\* A step that changes the innermost call to f changes the last walk.
LEMMA TopWalks ==
    ASSUME IInv, stack # <<>>, prog' = prog, NEW f, stack' = SetTop(f),
           f.phase = "run" => f.bools = <<>> \/ Len(stack) > 1
    PROVE  Walks' = [Walks EXCEPT ![Len(Walks)] = WalkOf(f, caller)]
<1> DEFINE n == Len(stack)
<1>1. n \in Nat \ {0} /\ stack \in Seq(Call) /\ DOMAIN stack = 1..n /\ Len(Walks) = n
  BY TopAt, WalksAt, LenProperties
<1>2. DOMAIN stack' = 1..n /\ stack'[n] = f /\ \A k \in 1..(n - 1) : stack'[k] = stack[k]
  <2>1. stack' = [stack EXCEPT ![n] = f] /\ n \in 1..n
    BY <1>1 DEF SetTop
  <2> HIDE DEF n
  <2> QED
    BY <1>1, <2>1
<1>3. n > 1 => caller = stack[n - 1]
  BY DEF caller
<1>4. \A k \in 1..n : Walks[k] = WalkOf(stack[k], stack[k - 1])
  BY WalksAt
<1>5. \A k \in 1..(n - 1) : Waits(stack[k])
  BY DEF IInv, WaitingAligned
<1>6. (f.phase = "run" => f.bools = <<>>) \/ n > 1
  OBVIOUS
<1>7. Walks' = [k \in 1..n |-> WalkOf(stack'[k], stack'[k - 1])]
  BY <1>2, WalkSame DEF Walks
<1> HIDE DEF n
<1>8. ASSUME NEW k \in 1..n
      PROVE  WalkOf(stack'[k], stack'[k - 1])
               = IF k = n THEN WalkOf(f, caller) ELSE Walks[k]
  <2>1. CASE k = n
    <3>1. CASE n > 1
      <4>1. stack'[k] = f /\ k - 1 \in 1..(n - 1)
        BY <1>1, <1>2, <2>1, <3>1
      <4> QED
        BY <1>2, <1>3, <2>1, <3>1, <4>1
    <3>2. CASE ~ (n > 1)
      BY <1>2, <1>6, <2>1, <3>2, OwnWalk
    <3> QED
      BY <3>1, <3>2
  <2>2. CASE k # n
    <3>1. k \in 1..(n - 1)
      BY <1>1, <2>2
    <3>2. stack'[k] = stack[k] /\ Walks[k] = WalkOf(stack[k], stack[k - 1])
      BY <1>2, <1>4, <3>1
    <3>3. stack[k].phase # "run"
      BY <1>5, <3>1 DEF Waits
    <3> QED
      BY <2>2, <3>2, <3>3, OwnWalk
  <2> QED
    BY <2>1, <2>2
<1>9. DOMAIN Walks = 1..n
  BY WalksAt DEF n
<1> QED
  BY <1>1, <1>7, <1>8, <1>9

\* Steps that no walk sees
LEMMA Stutters ==
    ASSUME IInv, stack # <<>>, prog' = prog, NEW f, stack' = SetTop(f),
           f.phase = "run" => f.bools = <<>> \/ Len(stack) > 1,
           WalkOf(f, caller) = WalkOf(top, caller), PlacesPassed' = PlacesPassed
    PROVE  UNCHANGED F!vars
<1>1. /\ Len(stack) \in Nat \ {0} /\ Len(Walks) = Len(stack)
      /\ Walks[Len(stack)] = WalkOf(top, caller) /\ DOMAIN Walks = 1..Len(stack)
  BY LastWalk, WalksAt
<1>2. Walks' = [Walks EXCEPT ![Len(Walks)] = WalkOf(top, caller)]
  BY TopWalks
<1>3. Walks = [k \in 1..Len(stack) |-> Walks[k]]
  BY <1>1 DEF Walks
<1>4. Walks' = Walks
  BY <1>1, <1>2, <1>3
<1> QED
  BY <1>4 DEF F!vars

-----------------------------------------------------------------------------
(* The places passed *)

PlaceOf(s) == [loc |-> s.tag.loc, what |-> s.what]

\* No statement goes away, or elsewhere.
LocsKept == \A i \in DOMAIN stmts : i \in DOMAIN stmts' /\ stmts'[i].tag.loc = stmts[i].tag.loc

LEMMA SamePlaces ==
    ASSUME stmts' = stmts PROVE LocsKept /\ PlacesPassed' = PlacesPassed
BY DEF LocsKept, PlacesPassed

LEMMA OnePlace ==
    ASSUME NEW i \in DOMAIN stmts, stmts[i].what # NoWhat
    PROVE  PlaceOf(stmts[i]) \in PlacesPassed
BY DEF PlacesPassed, PlaceOf

\* A statement is created.
LEMMA CreatedPlace ==
    ASSUME HeapOK, NEW s \in Stmt, stmts' = Append(stmts, s)
    PROVE  /\ LocsKept /\ Len(stmts) + 1 \in DOMAIN stmts' /\ stmts'[Len(stmts) + 1] = s
           /\ \A i \in DOMAIN stmts : stmts'[i] = stmts[i]
           /\ PlacesPassed' = PlacesPassed \cup (IF s.what = NoWhat THEN {} ELSE {PlaceOf(s)})
<1> DEFINE n == Len(stmts)
<1>1. n \in Nat /\ stmts \in Seq(Stmt) /\ DOMAIN stmts = 1..n
  BY LenProperties DEF HeapOK
<1>2. /\ DOMAIN stmts' = 1..(n + 1) /\ stmts'[n + 1] = s
      /\ \A i \in 1..n : stmts'[i] = stmts[i]
  BY <1>1, AppendProperties, LenProperties
<1> HIDE DEF n
<1>3. DOMAIN stmts' = DOMAIN stmts \cup {n + 1}
  BY <1>1, <1>2
<1>4. LocsKept
  BY <1>1, <1>2, <1>3 DEF LocsKept
<1>5. \A p : p \in PlacesPassed' <=> p \in PlacesPassed \/ (s.what # NoWhat /\ p = PlaceOf(s))
  BY <1>1, <1>2, <1>3 DEF PlacesPassed, PlaceOf
<1>6. PlacesPassed' = PlacesPassed \cup (IF s.what = NoWhat THEN {} ELSE {PlaceOf(s)})
  BY <1>5
<1> QED
  BY <1>1, <1>2, <1>3, <1>4, <1>6 DEF n

\* A statement is numbered again.
LEMMA RetaggedPlace ==
    ASSUME NEW i \in DOMAIN stmts, NEW s, stmts' = [stmts EXCEPT ![i] = s],
           s.tag.loc = stmts[i].tag.loc, s.what = stmts[i].what
    PROVE  LocsKept /\ PlacesPassed' = PlacesPassed
<1>1. /\ DOMAIN stmts' = DOMAIN stmts
      /\ \A j \in DOMAIN stmts : stmts'[j].tag.loc = stmts[j].tag.loc /\ stmts'[j].what = stmts[j].what
  OBVIOUS
<1>2. \A p : p \in PlacesPassed' <=> p \in PlacesPassed
  BY <1>1 DEF PlacesPassed
<1> QED
  BY <1>1, <1>2 DEF LocsKept

LEMMA StoredLoc ==
    ASSUME NEW s, s.tag \in Tag
    PROVE  StoredTag(s).loc = s.tag.loc
BY DEF StoredTag, Copy, Tag

-----------------------------------------------------------------------------
(* What is known of the calls *)

LEMMA KnownKept ==
    ASSUME LocsKept, PlacesPassed \subseteq PlacesPassed'
    PROVE  \A f \in Frame : Known(f) => Known(f)'
<1> SUFFICES ASSUME NEW f \in Frame, Known(f) PROVE Known(f)'
  OBVIOUS
<1>1. \A v \in f.visited : v.stmt \in DOMAIN stmts
  BY Fields
<1>2. \A v \in f.visited : stmts'[v.stmt].tag.loc = v.tag.loc
  BY <1>1 DEF Known, LocsKept
<1> QED
  BY <1>2 DEF Known

\* A step that changes the innermost call to f
LEMMA TopKnown ==
    ASSUME FInv, stack # <<>>, LocsKept, PlacesPassed \subseteq PlacesPassed',
           NEW f, stack' = SetTop(f), Known(f)'
    PROVE  CallsKnown'
<1>1. Len(stack) \in Nat \ {0} /\ stack \in Seq(Call)
  BY TopAt DEF FInv
<1>2. /\ Len(stack') = Len(stack) /\ stack'[Len(stack)] = f
      /\ \A k \in 1..(Len(stack) - 1) : stack'[k] = stack[k]
  BY <1>1 DEF SetTop
<1>3. \A k \in 1..(Len(stack) - 1) : stack[k] \in Frame /\ Known(stack[k])
  BY <1>1 DEF FInv, CallsKnown, Call
<1>4. \A k \in 1..(Len(stack) - 1) : \E g \in Frame : g = stack'[k] /\ Known(g)'
  BY <1>2, <1>3, KnownKept
<1>5. \E g : g = stack'[Len(stack)] /\ Known(g)'
  BY <1>2
<1>6. ASSUME NEW k \in 1..Len(stack) PROVE Known(stack[k])'
  <2>1. \E g : g = stack'[k] /\ Known(g)'
    BY <1>1, <1>4, <1>5
  <2> QED
    BY <2>1 DEF Known
<1> QED
  BY <1>2, <1>6 DEF CallsKnown

LEMMA NewTop ==
    ASSUME IInv, stack # <<>>, NEW f, stack' = SetTop(f)
    PROVE  stack' # <<>> /\ top' = f
<1>1. Len(stack) \in Nat \ {0} /\ stack \in Seq(Call)
  BY TopAt
<1>2. Len(stack') = Len(stack) /\ stack'[Len(stack)] = f
  BY <1>1 DEF SetTop
<1> QED
  BY <1>1, <1>2 DEF top, Last

LEMMA TopIsKnown ==
    ASSUME FInv, stack # <<>> PROVE Known(top) /\ top \in Frame
BY TopAt DEF FInv, CallsKnown

\* A step of a run that leaves the statements alone, and that no walk sees
LEMMA RunStutters ==
    ASSUME FInv, In("run"), prog' = prog, stmts' = stmts, blocks' = blocks,
           NEW f, stack' = SetTop(f), f.phase = "run", f.visited = top.visited,
           f.bools = <<>> \/ Len(stack) > 1, WalkOf(f, caller) = WalkOf(top, caller),
           f.bools = <<>> => Linked(f) /\ AskedFor(f)
    PROVE  UNCHANGED F!vars /\ TopLinked' /\ CallsKnown'
<1>1. stack # <<>> /\ top.phase = "run" /\ PlacesPassed' = PlacesPassed /\ LocsKept
  BY SamePlaces DEF In
<1>2. UNCHANGED F!vars
  BY <1>1, Stutters DEF FInv
<1>3. TopLinked'
  <2>1. top' = f /\ stack' # <<>>
    BY <1>1, NewTop DEF FInv
  <2>2. (Linked(f) => Linked(f)') /\ (AskedFor(f) => AskedFor(f)')
    BY DEF Linked, AskedFor, MadeOf
  <2> QED
    BY <2>1, <2>2 DEF TopLinked, CatchingUp, Linked, AskedFor, MadeOf
<1>4. CallsKnown'
  <2>1. Known(f)
    BY <1>1, TopIsKnown DEF Known
  <2>2. Known(f)'
    BY <1>1, <2>1 DEF Known
  <2> QED
    BY <1>1, <2>2, TopKnown
<1> QED
  BY <1>2, <1>3, <1>4

-----------------------------------------------------------------------------
(* Sequences *)

LEMMA Appended ==
    ASSUME NEW S, NEW q \in Seq(S), NEW e \in S, NEW r, r = Append(q, e)
    PROVE  /\ r \in Seq(S) /\ Len(r) = Len(q) + 1 /\ Len(q) \in Nat /\ r # <<>>
           /\ r[Len(q) + 1] = e /\ \A i \in 1..Len(q) : r[i] = q[i]
           /\ Head(r) = IF q = <<>> THEN e ELSE Head(q)
<1>1. r \in Seq(S) /\ Len(r) = Len(q) + 1 /\ Len(q) \in Nat /\ r[Len(q) + 1] = e
      /\ \A i \in 1..Len(q) : r[i] = q[i]
  BY AppendProperties, LenProperties
<1>2. r # <<>>
  BY <1>1, EmptySeq
<1>3. Head(r) = IF q = <<>> THEN e ELSE Head(q)
  <2>1. Head(r) = r[1] /\ (q # <<>> => Head(q) = q[1] /\ 1 \in 1..Len(q))
    BY <1>1, <1>2, EmptySeq
  <2>2. q = <<>> => Len(q) = 0
    OBVIOUS
  <2> QED
    BY <1>1, <2>1, <2>2
<1> QED
  BY <1>1, <1>2, <1>3

LEMMA Joined ==
    ASSUME NEW S, NEW q \in Seq(S), NEW r \in Seq(S), NEW u, u = q \o r
    PROVE  /\ Len(u) = Len(q) + Len(r) /\ Len(q) \in Nat /\ Len(r) \in Nat
           /\ \A i \in 1..Len(q) : u[i] = q[i]
           /\ \A i \in 1..Len(r) : u[Len(q) + i] = r[i]
OBVIOUS

LEMMA Shortened ==
    ASSUME NEW S, NEW q \in Seq(S), q # <<>>, NEW r, r = Tail(q)
    PROVE  /\ r \in Seq(S) /\ Len(q) = Len(r) + 1 /\ Len(r) \in Nat
           /\ Head(q) = q[1] /\ \A i \in 1..Len(r) : r[i] = q[i + 1]
           /\ r # <<>> => Head(r) = q[2] /\ Len(r) > 0
BY HeadTailProperties, LenProperties, EmptySeq

-----------------------------------------------------------------------------
(* The staged function executes *)

LEMMA RunAt ==
    ASSUME FInv, In("run")
    PROVE  /\ stack # <<>> /\ top \in Frame /\ top.phase = "run"
           /\ top.pending \in Seq(DOMAIN prog.code) /\ top.bools \in Seq(BOOLEAN)
           /\ top.tested \in BOOLEAN /\ top.block \in DOMAIN blocks
           /\ Op # "exit" => top.pc \in DOMAIN prog.code /\ Op = prog.code[top.pc].op
           /\ CatchingUp => Len(stack) > 1 /\ top.pending = <<>>
           /\ ~ CatchingUp => Linked(top) /\ AskedFor(top)
<1>1. stack # <<>> /\ top \in Frame /\ top.phase = "run" /\ top.tested \in BOOLEAN
  BY TopAt DEF FInv, In
<1>2. Op # "exit" => top.pc \in DOMAIN prog.code
  BY <1>1, PcType DEF FInv, IInv
<1>3. CatchingUp => Len(stack) > 1 /\ top.pending = <<>>
  BY <1>1, CalledTop, ReplayHolds DEF FInv, CatchingUp, ReplayAligned
<1> QED
  BY <1>1, <1>2, <1>3, Fields DEF FInv, TopLinked, Op

LEMMA CreateExprForks ==
    FInv /\ CreateExpr => UNCHANGED F!vars /\ TopLinked' /\ CallsKnown'
<1> SUFFICES ASSUME FInv, CreateExpr PROVE UNCHANGED F!vars /\ TopLinked' /\ CallsKnown'
  OBVIOUS
<1> DEFINE p == IF Op = "expr" THEN prog.code[top.pc].next ELSE top.pc
           f == [top EXCEPT !.tested = (Op = "branch"), !.pc = p]
           q == Append(top.pending, top.pc)
           g == IF CatchingUp THEN [f EXCEPT !.used = @ + 1]
                ELSE [f EXCEPT !.pending = q, !.exprs = Append(@, top.pc)]
<1>1. /\ In("run") /\ Op \in {"expr", "branch"} /\ (Op = "branch" => ~ top.tested)
      /\ UNCHANGED <<prog, memo, stmts, blocks, splits, uniques>>
  BY DEF CreateExpr, Creates
<1>2. /\ top \in Frame /\ top.phase = "run" /\ top.pc \in DOMAIN prog.code
      /\ Op = prog.code[top.pc].op /\ top.pending \in Seq(DOMAIN prog.code)
      /\ top.tested \in BOOLEAN
  BY <1>1, RunAt
<1>3. stack' = SetTop(g)
  BY <1>2 DEF CreateExpr, Frame
<1>4. /\ g.phase = "run" /\ g.visited = top.visited /\ g.bools = top.bools
      /\ g.given = top.given /\ g.pc = p /\ g.tested = (Op = "branch")
      /\ ~ CatchingUp => g.pending = q
  BY <1>2 DEF Frame
<1> HIDE DEF g
<1>5. CASE CatchingUp
  <2>1. WalkOf(g, caller) = WalkOf(top, caller)
    BY <1>2, <1>4, <1>5 DEF WalkOf, NextPlace, Destination, CatchingUp
  <2> QED
    BY <1>1, <1>3, <1>4, <1>5, <2>1, RunAt, RunStutters DEF CatchingUp
<1>6. CASE ~ CatchingUp
  <2>1. Linked(top) /\ ~ top.tested
    BY <1>1, <1>2, <1>6, RunAt DEF Linked
  <2>0. q = Append(top.pending, top.pc)
    OBVIOUS
  <2> HIDE DEF q
  <2>2. /\ Len(q) = Len(top.pending) + 1 /\ Len(top.pending) \in Nat /\ q # <<>>
        /\ q[Len(top.pending) + 1] = top.pc /\ Last(q) = top.pc
        /\ \A i \in 1..Len(top.pending) : q[i] = top.pending[i]
        /\ Head(q) = IF top.pending = <<>> THEN top.pc ELSE Head(top.pending)
    <3>1. top.pending \in Seq(DOMAIN prog.code) /\ top.pc \in DOMAIN prog.code
      BY <1>2
    <3>2. Len(q) = Len(top.pending) + 1 /\ Len(top.pending) \in Nat /\ q # <<>>
      BY <2>0, <3>1, Appended
    <3>3. q[Len(top.pending) + 1] = top.pc
      BY <2>0, <3>1, Appended
    <3>6. Last(q) = top.pc
      BY <3>2, <3>3 DEF Last
    <3>4. \A i \in 1..Len(top.pending) : q[i] = top.pending[i]
      BY <2>0, <3>1, Appended
    <3>5. Head(q) = IF top.pending = <<>> THEN top.pc ELSE Head(top.pending)
      BY <2>0, <3>1, Appended
    <3> QED
      BY <3>2, <3>3, <3>4, <3>5, <3>6
  <2>3. WalkOf(g, caller) = WalkOf(top, caller)
    BY <1>2, <1>4, <1>6, <2>1, <2>2 DEF WalkOf, NextPlace, CatchingUp
  <2>4. ASSUME NEW i \in 1..(Len(q) - 1)
        PROVE  prog.code[q[i]].op # "branch" /\ prog.code[q[i]].next = q[i + 1]
    <3>1. CASE i = Len(top.pending)
      <4>1. top.pending # <<>> /\ q[i] = Last(top.pending) /\ q[i + 1] = top.pc
        BY <2>2, <3>1 DEF Last
      <4> QED
        BY <2>1, <4>1 DEF Linked
    <3>2. CASE i # Len(top.pending)
      <4>1. i \in 1..(Len(top.pending) - 1) /\ q[i] = top.pending[i] /\ q[i + 1] = top.pending[i + 1]
        BY SMTT(30), <2>2, <3>2
      <4> QED
        BY <2>1, <4>1 DEF Linked
    <3> QED
      BY <3>1, <3>2
  <2>5. Linked(g) /\ AskedFor(g)
    BY <1>1, <1>2, <1>4, <1>6, <2>2, <2>4 DEF Linked, AskedFor
  <2> QED
    BY <1>1, <1>3, <1>4, <1>6, <2>3, <2>5, RunStutters DEF CatchingUp
<1> QED
  BY <1>5, <1>6

LEMMA SkipStmtForks ==
    FInv /\ SkipStmt => UNCHANGED F!vars /\ TopLinked' /\ CallsKnown'
<1> SUFFICES ASSUME FInv, SkipStmt PROVE UNCHANGED F!vars /\ TopLinked' /\ CallsKnown'
  OBVIOUS
<1> DEFINE g == Passed
<1>1. /\ Offers /\ CatchingUp /\ In("run") /\ stack' = SetTop(g)
      /\ UNCHANGED <<prog, memo, stmts, blocks, splits, uniques>>
  BY DEF SkipStmt, Offers
<1>2. top \in Frame /\ top.phase = "run" /\ Len(stack) > 1
  BY <1>1, RunAt
<1>3. g.phase = "run" /\ g.visited = top.visited /\ g.bools = top.bools /\ g.given = top.given
  BY <1>2 DEF Passed, Frame
<1> HIDE DEF g
<1>4. WalkOf(g, caller) = WalkOf(top, caller)
  BY <1>1, <1>2, <1>3 DEF WalkOf, NextPlace, Destination, CatchingUp
<1> QED
  BY <1>1, <1>2, <1>3, <1>4, RunStutters DEF CatchingUp

\* A run that takes its last answer is where its caller waits.
LEMMA LastAnswer ==
    ASSUME IInv, Asks, CatchingUp, Len(top.bools) = 1
    PROVE  top.pc = caller.pc /\ Last(top.bools) = Head(top.given)
<1>1. In("run") /\ Op = "branch" /\ top.tested
  BY DEF Asks
<1>2. PICK h \in Seq(Moment) : \E i \in 1..Len(h) : OnTrack(h, i)
  BY <1>1, Behind
<1>3. PICK i \in 1..Len(h) : OnTrack(h, i)
  BY <1>2
<1>4. /\ Inherits(top, caller) /\ caller.given \in Seq(BOOLEAN)
      /\ top.given \in Seq(BOOLEAN) /\ top.bools \in Seq(BOOLEAN)
  BY <1>1, Behind, TopAt DEF In
<1>5. i = Len(h)
  <2> SUFFICES ASSUME i < Len(h) PROVE FALSE
    BY <1>3
  <2>1. Moves(caller.given, caller.exprs, Replayed(top), h[i + 1])
    BY <1>3 DEF OnTrack
  <2>2. prog.code[top.pc].op = "branch"
    BY <1>1, <2>1, PcType, TopAt DEF IInv, Op, In
  <2>3. Len(top.given) - Len(top.bools) < Len(caller.given)
    BY <1>1, <2>1, <2>2 DEF Moves, Replayed
  <2>4. Len(top.given) = Len(caller.given) + 1 /\ Len(caller.given) \in Nat
    BY <1>4 DEF Inherits
  <2> QED
    BY <2>3, <2>4, OneLeft
<1>6. top.pc = caller.pc
  BY <1>3, <1>5 DEF OnTrack, Past, Replayed, Present
<1>7. top.bools[1] = top.given[1] /\ Last(top.bools) = top.bools[1] /\ Head(top.given) = top.given[1]
  <2>1. 1 \in 1..Len(top.bools) /\ Len(top.given) # 0
    BY <1>4 DEF Inherits
  <2>2. top.given # <<>>
    BY <2>1
  <2> QED
    BY <1>4, <2>1, <2>2 DEF Inherits, Last
<1> QED
  BY <1>6, <1>7

LEMMA TakeBoolForks ==
    FInv /\ TakeBool => UNCHANGED F!vars /\ TopLinked' /\ CallsKnown'
<1> SUFFICES ASSUME FInv, TakeBool PROVE UNCHANGED F!vars /\ TopLinked' /\ CallsKnown'
  OBVIOUS
<1> DEFINE r == Front(top.bools)
           p == IF Last(top.bools) THEN prog.code[top.pc].next ELSE prog.code[top.pc].other
           g == [top EXCEPT !.bools = r, !.tested = FALSE, !.pc = p]
<1>1. /\ Asks /\ CatchingUp /\ In("run") /\ top.bools # <<>>
      /\ UNCHANGED <<prog, memo, stmts, blocks, splits, uniques>>
  BY DEF TakeBool, Asks, CatchingUp
<1>2. /\ top \in Frame /\ top.phase = "run" /\ Len(stack) > 1 /\ top.pending = <<>>
      /\ top.bools \in Seq(BOOLEAN)
  BY <1>1, RunAt
<1>3. stack' = SetTop(g)
  BY <1>2 DEF TakeBool, Frame
<1>4. r = <<>> => Len(top.bools) = 1
  <2>1. Len(top.bools) \in Nat \ {0} /\ Len(r) = Len(top.bools) - 1
    BY <1>1, <1>2, EmptySeq DEF Front
  <2>2. r = <<>> => Len(r) = 0
    OBVIOUS
  <2> QED
    BY <2>1, <2>2
<1>5. /\ g.phase = "run" /\ g.visited = top.visited /\ g.bools = r /\ g.given = top.given
      /\ g.pc = p /\ ~ g.tested /\ g.pending = <<>>
  BY <1>2 DEF Frame
<1> HIDE DEF g, r
<1>6. WalkOf(g, caller) = WalkOf(top, caller)
  <2>1. NextPlace(top, caller) = Destination(top, caller)
    BY <1>1 DEF NextPlace
  <2>2. NextPlace(g, caller) = Destination(top, caller)
    <3>1. CASE r = <<>>
      <4>1. top.pc = caller.pc /\ Last(top.bools) = Head(top.given)
        BY <1>1, <1>4, <3>1, LastAnswer DEF FInv
      <4> QED
        BY <1>5, <3>1, <4>1 DEF NextPlace, Destination
    <3>2. CASE r # <<>>
      BY <1>5, <3>2 DEF NextPlace, Destination
    <3> QED
      BY <3>1, <3>2
  <2> QED
    BY <1>1, <1>2, <1>5, <2>1, <2>2 DEF WalkOf
<1>7. Linked(g) /\ AskedFor(g)
  BY <1>5 DEF Linked, AskedFor
<1> QED
  BY <1>1, <1>2, <1>3, <1>5, <1>6, <1>7, RunStutters

-----------------------------------------------------------------------------
(* What is added to a block *)

\* The tag under which a statement is visited is the one it is given.
LEMMA VisitKnown ==
    ASSUME FInv, stack # <<>>, LocsKept, NEW f \in Frame, f.visited = top.visited, NEW i, NEW s,
           stmts'[i].tag.loc = StoredTag(s).loc
    PROVE  \A v \in Visit(f, i, s).visited : stmts'[v.stmt].tag.loc = v.tag.loc
<1>1. top \in Frame /\ Known(top)
  BY TopIsKnown
<1>2. ASSUME NEW v \in top.visited PROVE stmts'[v.stmt].tag.loc = v.tag.loc
  BY <1>1, Fields DEF Known, LocsKept
<1>3. Visit(f, i, s).visited \subseteq top.visited \cup {[tag |-> StoredTag(s), stmt |-> i]}
  BY DEF Visit, Frame
<1> QED
  BY <1>2, <1>3

\* A statement is passed on at the point the walk is about to pass.
LEMMA OfferedAt ==
    ASSUME FInv, Offers, ~ CatchingUp
    PROVE  \E p \in DOMAIN prog.code :
              /\ Offered = StmtAt(p) /\ Offered.tag \in Tag
              /\ p = IF top.pending # <<>> THEN Head(top.pending) ELSE top.pc
              /\ PlaceOf(Offered) = F!Place(p) /\ Offered.what # NoWhat
              /\ WalkOf(top, caller) = F!StartAt(p) /\ p # 0
<1> DEFINE p == IF top.pending # <<>> THEN Head(top.pending) ELSE top.pc
<1>1. /\ In("run") /\ top \in Frame /\ top.phase = "run" /\ Linked(top) /\ top.bools = <<>>
      /\ top.pending \in Seq(DOMAIN prog.code) /\ top.tested \in BOOLEAN
  BY RunAt DEF Offers, CatchingUp
<1>2. top.pending = <<>> => /\ top.pc \in DOMAIN prog.code /\ prog.code[top.pc].op = "decl"
                            /\ ~ top.tested
  BY <1>1, RunAt DEF Offers, Linked
<1>3. p \in DOMAIN prog.code
  BY <1>1, <1>2, HeadTailProperties
<1>4. WalkOf(top, caller) = F!StartAt(p)
  BY <1>1, <1>2 DEF WalkOf, NextPlace, F!StartAt
<1>5. Offered = StmtAt(p)
  BY DEF Offered
<1> HIDE DEF p
<1>6. p # 0
  BY <1>3, LenProperties DEF FInv, IInv, TypeOK, Program
<1>7. Offered.tag \in Tag
  BY OfferedType DEF FInv, IInv, Stmt
<1>8. prog.code[p].what \in What
  BY <1>3, PointType DEF FInv, IInv, TypeOK, Point
<1>9. PlaceOf(Offered) = F!Place(p) /\ Offered.what # NoWhat
  BY <1>5, <1>8, NoWhatAssumption DEF StmtAt, Statement, PlaceOf, F!Place
<1> QED
  BY <1>3, <1>4, <1>5, <1>6, <1>7, <1>9 DEF p

\* The run after it
LEMMA PassedFrame ==
    ASSUME FInv, Offers
    PROVE  /\ Passed \in Frame /\ Passed.phase = "run" /\ Passed.bools = top.bools
           /\ Passed.given = top.given /\ Passed.tested = top.tested
           /\ Passed.visited = top.visited /\ Passed.block = top.block
           /\ top.pending # <<>> => Passed.pending = Tail(top.pending) /\ Passed.pc = top.pc
           /\ top.pending = <<>> => /\ Passed.pending = <<>>
                                    /\ Passed.pc = prog.code[top.pc].next
<1>1. top \in Frame /\ Passed \in Frame /\ Passed.phase = "run"
  BY PassedFields DEF FInv
<1> QED
  BY <1>1 DEF Passed, Frame

LEMMA PassedLinked ==
    ASSUME FInv, Offers, ~ CatchingUp, NEW f,
           f.phase = "run", f.bools = <<>>, f.tested = top.tested,
           f.pending = Passed.pending, f.pc = Passed.pc,
           NEW p \in DOMAIN prog.code,
           p = IF top.pending # <<>> THEN Head(top.pending) ELSE top.pc
    PROVE  /\ Linked(f)
           /\ f.tested /\ f.pending = <<>> => f.pc = p
           /\ WalkOf(f, caller) = IF F!IsBranch(p) THEN [F!StartAt(p) EXCEPT !.asked = TRUE]
                                  ELSE F!StartAt(prog.code[p].next)
<1>1. /\ In("run") /\ top \in Frame /\ Linked(top)
      /\ top.pending \in Seq(DOMAIN prog.code) /\ top.tested \in BOOLEAN
  BY RunAt DEF Offers
<1>2. CASE top.pending = <<>>
  <2>1. /\ prog.code[p].op = "decl" /\ ~ f.tested /\ f.pending = <<>>
        /\ f.pc = prog.code[p].next
    BY <1>1, <1>2, RunAt, PassedFrame DEF Offers, Linked
  <2>2. Linked(f)
    BY <2>1 DEF Linked
  <2> QED
    BY <2>1, <2>2 DEF WalkOf, NextPlace, F!StartAt, F!IsBranch
<1>3. CASE top.pending # <<>>
  <2> DEFINE q == top.pending
             r == f.pending
  <2>1. r = Tail(q) /\ f.pc = top.pc /\ q \in Seq(DOMAIN prog.code) /\ q # <<>>
    BY <1>1, <1>3, PassedFrame
  <2> HIDE DEF q, r
  <2>2. /\ Len(q) = Len(r) + 1 /\ Len(r) \in Nat /\ p = q[1]
        /\ \A i \in 1..Len(r) : r[i] = q[i + 1]
        /\ r # <<>> => Last(r) = Last(q) /\ Head(r) = q[2] /\ Len(r) > 0
        /\ r = <<>> => Last(q) = p
    <3>1. /\ Len(q) = Len(r) + 1 /\ Len(r) \in Nat /\ p = q[1]
          /\ \A i \in 1..Len(r) : r[i] = q[i + 1]
          /\ r # <<>> => Head(r) = q[2] /\ Len(r) > 0
      BY <1>3, <2>1, Shortened DEF q
    <3>2. r # <<>> => Last(r) = Last(q)
      BY <3>1 DEF Last
    <3>3. r = <<>> => Len(r) = 0
      OBVIOUS
    <3> QED
      BY <3>1, <3>2, <3>3 DEF Last
  <2>3. \A i \in 1..Len(r) : prog.code[q[i]].op # "branch" /\ prog.code[q[i]].next = q[i + 1]
    BY <1>1, <2>2 DEF Linked, q
  <2>4. IF f.tested THEN Last(q) = f.pc
        ELSE prog.code[Last(q)].op # "branch" /\ prog.code[Last(q)].next = f.pc
    BY <1>1, <1>3, <2>1 DEF Linked, q
  <2>5. Linked(f)
    <3>1. ASSUME NEW i \in 1..(Len(r) - 1)
          PROVE  prog.code[r[i]].op # "branch" /\ prog.code[r[i]].next = r[i + 1]
      <4>1. i + 1 \in 1..Len(r) /\ i \in 1..Len(r)
        BY <2>2
      <4>2. r[i] = q[i + 1] /\ r[i + 1] = q[(i + 1) + 1]
        BY <2>2, <4>1
      <4> QED
        BY <2>3, <4>1, <4>2
    <3>2. f.tested => f.pc \in DOMAIN prog.code /\ prog.code[f.pc].op = "branch"
      BY <1>1, <2>1 DEF Linked
    <3> QED
      BY <2>2, <2>4, <3>1, <3>2 DEF Linked, r
  <2>6. CASE r # <<>>
    <3>1. prog.code[p].op # "branch" /\ prog.code[p].next = Head(r)
      <4>1. 1 \in 1..Len(r)
        BY <2>2, <2>6
      <4> QED
        BY <2>2, <2>3, <2>6, <4>1
    <3> QED
      BY <2>5, <2>6, <3>1 DEF WalkOf, NextPlace, F!StartAt, F!IsBranch, r
  <2>7. CASE r = <<>>
    <3>1. IF f.tested THEN p = f.pc /\ prog.code[p].op = "branch"
          ELSE prog.code[p].op # "branch" /\ prog.code[p].next = f.pc
      BY <1>1, <2>1, <2>2, <2>4, <2>7 DEF Linked
    <3>2. f.tested \in BOOLEAN
      BY <1>1
    <3> QED
      BY <2>5, <2>7, <3>1, <3>2 DEF WalkOf, NextPlace, F!StartAt, F!IsBranch, r
  <2> QED
    BY <2>6, <2>7
<1> QED
  BY <1>2, <1>3

-----------------------------------------------------------------------------
(* A statement is passed *)

\* What the last walk is about to do
LEMMA MeetsAt ==
    ASSUME IInv, stack # <<>>, NEW p, p # 0, WalkOf(top, caller) = F!StartAt(p)
    PROVE  F!Meets /\ F!last = F!StartAt(p) /\ F!last.at = p
BY LastWalk DEF F!Meets, F!Going, F!StartAt, F!Exit

LEMMA AddStmtForks == FInv /\ AddStmt => F!Pass /\ TopLinked' /\ CallsKnown'
<1> SUFFICES ASSUME FInv, AddStmt PROVE F!Pass /\ TopLinked' /\ CallsKnown'
  OBVIOUS
<1> DEFINE n == Len(stmts) + 1
           s == [Offered EXCEPT !.tag = StoredAs]
<1>0. PICK g : g = Visit(Passed, n, Offered)
  OBVIOUS
<1>1. /\ Offers /\ ~ CatchingUp /\ prog' = prog /\ stack' = SetTop(g)
      /\ stmts' = Append(stmts, s) /\ blocks' = Push(n)
  BY <1>0 DEF AddStmt, IsNew
<1>2. PICK p \in DOMAIN prog.code :
         /\ Offered = StmtAt(p) /\ Offered.tag \in Tag
         /\ p = IF top.pending # <<>> THEN Head(top.pending) ELSE top.pc
         /\ PlaceOf(Offered) = F!Place(p) /\ Offered.what # NoWhat
         /\ WalkOf(top, caller) = F!StartAt(p) /\ p # 0
  BY <1>1, OfferedAt
<1>3. /\ In("run") /\ stack # <<>> /\ top \in Frame /\ top.block \in DOMAIN blocks
      /\ top.bools = <<>>
  BY <1>1, RunAt DEF Offers, CatchingUp
<1>4. /\ Offered \in Stmt /\ StoredAs.loc = Offered.tag.loc
      /\ StoredAs \in Tag /\ HeapOK
  <2>1. Offered \in Stmt
    BY <1>1, OfferedType DEF FInv, IInv
  <2> QED
    BY <1>2, <1>3, <2>1, StoredLoc, StoredTagType DEF StoredAs, FInv, IInv, TypeOK
<1>5. /\ s \in Stmt /\ s.what = Offered.what /\ s.tag = StoredAs /\ s.kind = Offered.kind
      /\ PlaceOf(s) = F!Place(p)
  BY <1>2, <1>4, SetStmtTag DEF Stmt, PlaceOf
<1> HIDE DEF s
<1>6. /\ LocsKept /\ stmts'[n] = s /\ PlacesPassed' = PlacesPassed \cup {F!Place(p)}
  BY <1>1, <1>2, <1>4, <1>5, CreatedPlace
<1>7. /\ g.phase = "run" /\ g.bools = <<>> /\ g.tested = top.tested /\ g.block = top.block
      /\ g.pending = Passed.pending /\ g.pc = Passed.pc
  BY <1>0, <1>1, <1>3, PassedFrame DEF Visit, Frame
<1>8. Known(g)'
  <2>1. \A v \in g.visited : stmts'[v.stmt].tag.loc = v.tag.loc
    <3>1. Passed \in Frame /\ Passed.visited = top.visited
      BY <1>1, PassedFrame
    <3>2. stmts'[n].tag.loc = StoredTag(Offered).loc
      BY <1>5, <1>6 DEF StoredAs
    <3> HIDE DEF n
    <3> QED
      BY <1>0, <1>3, <1>6, <3>1, <3>2, VisitKnown
  <2> QED
    BY <1>7, <2>1 DEF Known
<1> HIDE DEF n
<1>9. /\ Linked(g) /\ (g.tested /\ g.pending = <<>> => g.pc = p)
      /\ WalkOf(g, caller) = IF F!IsBranch(p) THEN [F!StartAt(p) EXCEPT !.asked = TRUE]
                             ELSE F!StartAt(prog.code[p].next)
  BY <1>1, <1>2, <1>7, PassedLinked
<1>10. F!Meets /\ F!last = F!StartAt(p) /\ F!last.at = p
  BY <1>2, <1>3, MeetsAt DEF FInv
<1>11. Walks' = [Walks EXCEPT ![Len(Walks)] = WalkOf(g, caller)]
  BY <1>1, <1>3, <1>7, TopWalks DEF FInv
<1>12. F!Pass
  <2>1. F!Becomes(IF F!IsBranch(F!last.at) THEN [F!last EXCEPT !.asked = TRUE]
                  ELSE F!StartAt(prog.code[F!last.at].next))
    BY <1>9, <1>10, <1>11 DEF F!Becomes
  <2> QED
    BY <1>1, <1>6, <1>10, <2>1 DEF F!Pass
<1>13. TopLinked'
  <2>1. top' = g /\ Linked(g)'
    BY <1>1, <1>3, <1>9, NewTop DEF FInv, Linked
  <2>2. ASSUME g.tested, g.pending = <<>>
        PROVE  blocks'[g.block] # <<>> /\ MadeOf(stmts'[Last(blocks'[g.block])], g.pc)
    <3>1. blocks'[g.block] = Append(blocks[g.block], n) /\ blocks[g.block] \in Seq(DOMAIN stmts)
      BY <1>1, <1>3, <1>4, <1>7, BlockType DEF Push
    <3>2. blocks'[g.block] # <<>> /\ Last(blocks'[g.block]) = n
      <4> DEFINE b == blocks'[g.block]
      <4>1. Len(b) = Len(blocks[g.block]) + 1 /\ Len(blocks[g.block]) \in Nat
            /\ b[Len(blocks[g.block]) + 1] = n
        BY <3>1
      <4> HIDE DEF b
      <4>2. b # <<>> /\ b[Len(b)] = n
        BY <4>1
      <4> QED
        BY <4>2 DEF b, Last
    <3>3. g.pc = p /\ prog.code[p].op = "branch"
      BY <1>9, <2>2 DEF Linked
    <3>4. s.kind = "expr" /\ s.tag.loc = prog.code[p].loc /\ s.what = prog.code[p].what
      BY <1>2, <1>4, <1>5, <3>3 DEF StmtAt, Statement
    <3> QED
      BY <1>6, <3>2, <3>3, <3>4 DEF MadeOf
  <2>3. AskedFor(g)'
    BY <1>1, <2>2 DEF AskedFor, MadeOf
  <2> QED
    BY <2>1, <2>3 DEF TopLinked, Linked, AskedFor, MadeOf
<1>14. CallsKnown'
  BY <1>1, <1>3, <1>6, <1>8, TopKnown
<1> QED
  BY <1>12, <1>13, <1>14

-----------------------------------------------------------------------------
(* A run ends *)

LEMMA RunEnds ==
    ASSUME FInv, stack # <<>>, prog' = prog, LocsKept, PlacesPassed \subseteq PlacesPassed',
           NEW f, stack' = SetTop(f), f.phase = "add", Known(f)'
    PROVE  F!Becomes(F!Ended) /\ TopLinked' /\ CallsKnown'
<1>1. WalkOf(f, caller) = F!Ended
  BY DEF WalkOf, F!Ended, F!Exit, Exit
<1>2. F!Becomes(F!Ended)
  BY <1>1, TopWalks DEF FInv, F!Becomes
<1>3. TopLinked'
  BY NewTop DEF FInv, TopLinked, In
<1>4. CallsKnown'
  BY TopKnown
<1> QED
  BY <1>2, <1>3, <1>4

\* A statement like the one offered has been visited.
LEMMA LoopPlace ==
    ASSUME FInv, Offers, ~ CatchingUp, LoopsBack(Offered)
    PROVE  PlaceOf(Offered) \in PlacesPassed
<1> DEFINE s == Offered
<1>1. /\ stack # <<>> /\ top \in Frame /\ Known(top) /\ s.what # NoWhat /\ s.tag \in Tag
      /\ s.kind # "goto"
  <2>1. stack # <<>> /\ top \in Frame /\ Known(top)
    BY TopIsKnown, RunAt DEF Offers
  <2>2. PICK p \in DOMAIN prog.code : s = StmtAt(p) /\ s.what # NoWhat /\ s.tag \in Tag
    BY OfferedAt
  <2> QED
    BY <2>1, <2>2 DEF StmtAt, Statement
<1> HIDE DEF s
<1>2. ASSUME NEW t, t.loc = s.tag.loc, SameAsVisited(s, t) PROVE PlaceOf(s) \in PlacesPassed
  <2>1. PICK v \in top.visited : v.tag = t /\ VisitedAs(t) = stmts[v.stmt]
    BY <1>2 DEF SameAsVisited, IsVisited, VisitedAs
  <2>2. v.stmt \in DOMAIN stmts /\ stmts[v.stmt].tag.loc = s.tag.loc
    BY <1>1, <1>2, <2>1, Fields DEF Known
  <2>3. stmts[v.stmt].what = s.what
    BY <1>1, <1>2, <2>1 DEF SameAsVisited, Same, SameContent
  <2> QED
    BY <1>1, <2>2, <2>3, OnePlace DEF PlaceOf
<1>3. CASE SameTag(s)
  BY <1>2, <1>3 DEF SameTag, s
<1>4. CASE ~ SameTag(s)
  <2>1. Stops(s) # {} /\ IsVisited(First(Stops(s)))
    BY <1>4 DEF LoopsBack, NullCopy, s
  <2>2. Stops(s) \subseteq Tag /\ \A t \in Stops(s) : t.loc = s.tag.loc
    <3>1. Copies(s.tag) \in Nat
      BY <1>1, StoredTagType
    <3>2. \A d \in 1..(Copies(s.tag) - 1) : Copy(s.tag, d) \in Tag /\ Copy(s.tag, d).loc = s.tag.loc
      BY <1>1, <3>1 DEF Copy, Tag
    <3> QED
      BY <3>2 DEF Stops, OtherCopies
  <2>3. First(Stops(s)) \in Stops(s)
    BY <2>1, <2>2, FirstType
  <2> DEFINE t == First(Stops(s))
  <2>4. t.loc = s.tag.loc /\ SameAsVisited(s, t)
    BY <2>1, <2>2, <2>3 DEF Stops
  <2> HIDE DEF t
  <2> QED
    BY <1>2, <2>4 DEF s
<1> QED
  BY <1>3, <1>4

\* A statement like the one offered, or the if it has become, has been memoized.
LEMMA MemoPlace ==
    ASSUME FInv, Offers, ~ CatchingUp, Reusable(Offered, StoredAs)
    PROVE  PlaceOf(Offered) \in PlacesPassed
<1>1. PICK p \in DOMAIN prog.code :
         Offered = StmtAt(p) /\ Offered.what # NoWhat /\ Offered.tag \in Tag
  BY OfferedAt
<1>2. Offered.kind # "goto" /\ StoredAs.loc = Offered.tag.loc
  BY <1>1, StoredLoc DEF StmtAt, Statement, StoredAs
<1> DEFINE b == memo[StoredAs]
           k == FirstPlace(b, StoredAs)
           m == stmts[blocks[b][k]]
<1>3. StoredAs \in DOMAIN memo /\ Places(b, StoredAs) # {}
  BY DEF Reusable, Dangling
<1>4. b \in DOMAIN blocks /\ blocks[b] \in Seq(DOMAIN stmts)
  BY <1>3, ElementOfSeq, LenProperties DEF FInv, IInv, TypeOK, MemoOK, HeapOK
<1>5. k \in Places(b, StoredAs)
  BY <1>3, <1>4, FirstPlaceType
<1>6. blocks[b][k] \in DOMAIN stmts /\ m.tag = StoredAs
  BY <1>4, <1>5, ElementOfSeq, LenProperties DEF Places
<1>7. m.what = Offered.what
  BY <1>2 DEF Reusable, Same, SameContent
<1> HIDE DEF b, k
<1> QED
  BY <1>1, <1>2, <1>6, <1>7, OnePlace DEF PlaceOf

LEMMA CutForks == FInv /\ (LoopBack \/ Memoize) => F!Cut /\ TopLinked' /\ CallsKnown'
<1> SUFFICES ASSUME FInv, LoopBack \/ Memoize PROVE F!Cut /\ TopLinked' /\ CallsKnown'
  OBVIOUS
<1>1. /\ Offers /\ ~ CatchingUp /\ prog' = prog /\ stack # <<>> /\ top \in Frame
      /\ PlaceOf(Offered) \in PlacesPassed
  <2>1. Offers /\ ~ CatchingUp /\ prog' = prog
    BY DEF LoopBack, Memoize, IsNew
  <2> QED
    BY <2>1, LoopPlace, MemoPlace, RunAt DEF LoopBack, Memoize, Offers
<1>2. PICK q : EndWith(q) /\ (stmts' = stmts \/ \E t \in Tag : stmts' = Append(stmts, Goto(t)))
  <2>1. CASE LoopBack
    <3>1. LoopTarget(Offered) \in Tag
      BY <2>1, <1>1, OfferedAt, LoopTargetType, OfferedType DEF LoopBack, FInv, IInv
    <3> QED
      BY <2>1, <3>1 DEF LoopBack, EndWithGoto
  <2>2. CASE Memoize
    <3>1. StoredAs \in Tag
      BY <1>1, OfferedAt, StoredTagType DEF StoredAs
    <3> QED
      BY <2>2, <3>1 DEF Memoize, EndWithGoto
  <2> QED
    BY <2>1, <2>2
<1>3. LocsKept /\ PlacesPassed' = PlacesPassed
  <2>1. CASE stmts' = stmts
    BY <2>1, SamePlaces
  <2>2. ASSUME NEW t \in Tag, stmts' = Append(stmts, Goto(t))
        PROVE  LocsKept /\ PlacesPassed' = PlacesPassed
    BY <2>2, GotoType, CreatedPlace DEF FInv, IInv, TypeOK, Goto, Statement
  <2> QED
    BY <1>2, <2>1, <2>2
<1>4. PICK f : f = [top EXCEPT !.phase = "add", !.pending = <<>>, !.queue = q]
  OBVIOUS
<1>5. stack' = SetTop(f) /\ f.phase = "add" /\ f.visited = top.visited
  BY <1>1, <1>2, <1>4 DEF EndWith, Frame
<1>6. Known(f)'
  <2>1. \A v \in f.visited : stmts'[v.stmt].tag.loc = v.tag.loc
    BY <1>1, <1>3, <1>5, TopIsKnown, Fields DEF Known, LocsKept
  <2> QED
    BY <1>5, <2>1 DEF Known
<1>7. F!Becomes(F!Ended) /\ TopLinked' /\ CallsKnown'
  BY <1>1, <1>3, <1>5, <1>6, RunEnds
<1>8. F!Cut
  <2>1. PICK p \in DOMAIN prog.code :
           PlaceOf(Offered) = F!Place(p) /\ WalkOf(top, caller) = F!StartAt(p) /\ p # 0
    BY <1>1, OfferedAt
  <2>2. F!Meets /\ F!last.at = p
    BY <1>1, <2>1, MeetsAt DEF FInv
  <2> QED
    BY <1>1, <1>3, <1>7, <2>1, <2>2 DEF F!Cut
<1> QED
  BY <1>7, <1>8

LEMMA ReturnForks == FInv /\ Return => F!Finish /\ TopLinked' /\ CallsKnown'
<1> SUFFICES ASSUME FInv, Return PROVE F!Finish /\ TopLinked' /\ CallsKnown'
  OBVIOUS
<1>1. /\ In("run") /\ Op = "exit" /\ top.pending = <<>> /\ prog' = prog /\ stack # <<>>
      /\ top \in Frame /\ top.phase = "run" /\ HeapOK
  BY RunAt DEF Return, FInv, IInv, TypeOK
<1>2. ~ CatchingUp
  BY <1>1, ReplayHolds DEF ReplayAligned, FInv
<1>3. top.pc = 0
  <2> SUFFICES ASSUME top.pc # 0 PROVE FALSE
    OBVIOUS
  <2>1. prog.code[top.pc].op = "exit"
    BY <1>1 DEF Op, Exit
  <2>2. top.pc \in DOMAIN prog.code
    BY SMTT(30), <1>1, Fields, LenProperties DEF FInv, IInv, TypeOK, Program
  <2> QED
    BY <2>1, <2>2, PointType DEF FInv, IInv, TypeOK, Point, Ops
<1>4. F!Going /\ F!last.at = 0
  <2>1. WalkOf(top, caller).is = "going" /\ WalkOf(top, caller).at = 0
    BY <1>1, <1>2, <1>3 DEF WalkOf, NextPlace, CatchingUp
  <2> QED
    BY <1>1, <2>1, LastWalk DEF F!Going, FInv
<1> DEFINE i == Len(stmts) + 1
           r == Statement("return", Copy(NoTag, uniques + 1), NoWhat, 0)
           e == [top EXCEPT !.phase = "add"]
<1>5. e \in Frame /\ e.phase = "add" /\ e.visited = top.visited
  BY <1>1 DEF Frame, Phases
<1>6. PICK f : /\ stack' = SetTop(f)
               /\ \/ f = e /\ stmts' = stmts
                  \/ f = Visit(e, i, r) /\ stmts' = Append(stmts, r)
  BY DEF Return
<1>7. /\ r \in Stmt /\ r.what = NoWhat /\ r.tag \in Tag /\ StoredTag(r).loc = r.tag.loc
  <2>1. r.tag \in Tag
    BY DEF FInv, IInv, TypeOK, Copy, NoTag, Tag, Statement
  <2>2. 0 \in 0..Len(blocks) /\ NoTag \in Tag
    BY <1>1, LenProperties DEF HeapOK, NoTag, Tag
  <2> QED
    BY <2>1, <2>2, StoredLoc DEF Statement, Stmt
<1> HIDE DEF r, e
<1>8. /\ LocsKept /\ PlacesPassed' = PlacesPassed /\ f.phase = "add"
      /\ \A v \in f.visited : stmts'[v.stmt].tag.loc = v.tag.loc
  <2>1. CASE f = e /\ stmts' = stmts
    BY <1>1, <1>5, <2>1, SamePlaces, TopIsKnown DEF Known
  <2>2. CASE f = Visit(e, i, r) /\ stmts' = Append(stmts, r)
    <3>1. LocsKept /\ PlacesPassed' = PlacesPassed /\ stmts'[i] = r
      BY <1>1, <1>7, <2>2, CreatedPlace
    <3>2. f.phase = "add"
      BY <1>5, <2>2 DEF Visit, Frame
    <3>3. stmts'[i].tag.loc = StoredTag(r).loc
      BY <1>7, <3>1
    <3> HIDE DEF i
    <3>4. \A v \in f.visited : stmts'[v.stmt].tag.loc = v.tag.loc
      <4>1. \A v \in Visit(e, i, r).visited : stmts'[v.stmt].tag.loc = v.tag.loc
        <5>1. stack # <<>> /\ LocsKept /\ e \in Frame /\ e.visited = top.visited
          BY <1>1, <1>5, <3>1
        <5> QED
          BY <3>3, <5>1, VisitKnown
      <4> QED
        BY <2>2, <4>1
    <3> QED
      BY <3>1, <3>2, <3>4
  <2> QED
    BY <1>6, <2>1, <2>2
<1>9. Known(f)'
  BY <1>8 DEF Known
<1>10. F!Becomes(F!Ended) /\ TopLinked' /\ CallsKnown'
  BY <1>1, <1>6, <1>8, <1>9, RunEnds
<1> QED
  BY <1>1, <1>4, <1>8, <1>10 DEF F!Finish, F!Exit

\* The walk of a call whose run has ended
LEMMA EndedStutters ==
    ASSUME FInv, stack # <<>>, prog' = prog, LocsKept, PlacesPassed' = PlacesPassed,
           top.phase \in {"trim", "add", "memo"},
           NEW f, stack' = SetTop(f), f.phase \in {"trim", "add", "memo"}, Known(f)'
    PROVE  UNCHANGED F!vars /\ TopLinked' /\ CallsKnown'
<1>1. WalkOf(f, caller) = WalkOf(top, caller)
  BY DEF WalkOf
<1>2. UNCHANGED F!vars
  BY <1>1, Stutters DEF FInv
<1>3. TopLinked'
  BY NewTop DEF FInv, TopLinked, In
<1> QED
  BY <1>2, <1>3, TopKnown

\* A field of the innermost call changes.
LEMMA SameKnown ==
    ASSUME FInv, stack # <<>>, LocsKept, PlacesPassed \subseteq PlacesPassed',
           NEW f, f.visited \subseteq top.visited, f.ifTag = top.ifTag, f.cond = top.cond,
           f.phase = top.phase \/ f.phase \in {"add", "memo"}
    PROVE  Known(f)'
<1>1. Known(top) /\ top \in Frame
  BY TopIsKnown
<1>2. \A v \in f.visited : stmts'[v.stmt].tag.loc = v.tag.loc
  BY <1>1, Fields DEF Known, LocsKept
<1> QED
  BY <1>1, <1>2 DEF Known

-----------------------------------------------------------------------------
(* What follows an if *)

LEMMA TrimCommonForks ==
    FInv /\ TrimCommon => UNCHANGED F!vars /\ TopLinked' /\ CallsKnown'
<1> SUFFICES ASSUME FInv, TrimCommon PROVE UNCHANGED F!vars /\ TopLinked' /\ CallsKnown'
  OBVIOUS
<1>1. /\ stack # <<>> /\ top.phase = "trim" /\ top \in Frame /\ prog' = prog /\ stmts' = stmts
  BY TopAt DEF TrimCommon, Common, BothArms, In, FInv
<1>2. PICK q : stack' = SetTop([top EXCEPT !.tail = q])
  BY DEF TrimCommon
<1>3. PICK f : f = [top EXCEPT !.tail = q]
  OBVIOUS
<1>4. /\ stack' = SetTop(f) /\ f.phase = "trim" /\ f.visited = top.visited
      /\ f.ifTag = top.ifTag /\ f.cond = top.cond
  BY <1>1, <1>2, <1>3 DEF Frame
<1>5. LocsKept /\ PlacesPassed' = PlacesPassed
  BY <1>1, SamePlaces
<1>6. Known(f)'
  BY <1>1, <1>4, <1>5, SameKnown
<1> QED
  BY <1>1, <1>4, <1>5, <1>6, EndedStutters

\* An if that is split loses its condition to the assignment in its true branch.
LEMMA SplitPlaces ==
    ASSUME FInv, TrimSplit PROVE LocsKept /\ PlacesPassed' = PlacesPassed
<1> DEFINE v == splits + 1
           if1 == Last(blocks[top.thn])
           n == Len(stmts)
           kept == [stmts EXCEPT ![if1] = [@ EXCEPT !.what = NoWhat, !.var = v]]
           decl == Statement("decl", BackThen.tag, NoWhat, v)
           assign(s) == [Statement("expr", s.tag, s.what, v) EXCEPT !.from = s.var]
           made == <<decl, assign(BackThen), assign(BackElse)>>
<1>1. stmts' = kept \o made /\ BothArms /\ NeedsSplitting(BackThen, BackElse)
  BY DEF TrimSplit, Split
<1>2. /\ if1 \in DOMAIN stmts /\ Last(blocks[top.els]) \in DOMAIN stmts
      /\ BackThen \in Stmt /\ BackElse \in Stmt
      /\ BackThen = stmts[if1] /\ BackElse = stmts[Last(blocks[top.els])]
  BY <1>1, ArmsType DEF FInv, IInv, BackThen, BackElse
<1>3. n \in Nat /\ stmts \in Seq(Stmt) /\ DOMAIN stmts = 1..n
  BY LenProperties DEF FInv, IInv, TypeOK, HeapOK
<1>4. /\ DOMAIN kept = 1..n /\ \A i \in 1..n : i # if1 => kept[i] = stmts[i]
      /\ kept[if1].tag = stmts[if1].tag /\ kept[if1].what = NoWhat
  <2>1. stmts[if1] \in Stmt
    BY <1>2
  <2>2. DOMAIN kept = 1..n /\ \A i \in 1..n : i # if1 => kept[i] = stmts[i]
    BY <1>3
  <2>3. kept[if1] = [stmts[if1] EXCEPT !.what = NoWhat, !.var = v]
    BY <1>2
  <2>4. kept[if1].tag = stmts[if1].tag /\ kept[if1].what = NoWhat
    <3> HIDE DEF kept
    <3> QED
      BY <2>1, <2>3 DEF Stmt
  <2> QED
    BY <2>2, <2>4
<1>5. /\ decl.what = NoWhat
      /\ assign(BackThen).tag = BackThen.tag /\ assign(BackThen).what = BackThen.what
      /\ assign(BackElse).tag = BackElse.tag /\ assign(BackElse).what = BackElse.what
  BY DEF Statement
<1> HIDE DEF kept, decl, assign
<1>6. /\ DOMAIN stmts' = 1..(n + 3)
      /\ \A i \in 1..n : stmts'[i] = kept[i]
      /\ stmts'[n + 1] = decl /\ stmts'[n + 2] = assign(BackThen)
      /\ stmts'[n + 3] = assign(BackElse)
  <2> DEFINE S == {kept[i] : i \in 1..n} \cup {decl, assign(BackThen), assign(BackElse)}
  <2>1. kept \in Seq(S) /\ Len(kept) = n
    <3>1. kept = [i \in 1..n |-> kept[i]]
      BY <1>4 DEF kept
    <3>2. kept \in [1..n -> S]
      BY <3>1
    <3> QED
      BY <1>3, <3>2, FunctionSeq
  <2>2. /\ made \in Seq(S) /\ Len(made) = 3 /\ made[1] = decl
        /\ made[2] = assign(BackThen) /\ made[3] = assign(BackElse)
    OBVIOUS
  <2> HIDE DEF made, S
  <2>3. /\ Len(stmts') = n + 3 /\ \A i \in 1..n : stmts'[i] = kept[i]
        /\ \A i \in 1..3 : stmts'[n + i] = made[i]
    <3>1. PICK u : u = kept \o made
      OBVIOUS
    <3>2. /\ Len(u) = Len(kept) + Len(made) /\ \A i \in 1..Len(kept) : u[i] = kept[i]
          /\ \A i \in 1..Len(made) : u[Len(kept) + i] = made[i]
      <4>1. kept \in Seq(S) /\ made \in Seq(S)
        BY <2>1, <2>2
      <4>2. Len(u) = Len(kept) + Len(made)
        BY <3>1, <4>1, Joined
      <4>3. \A i \in 1..Len(kept) : u[i] = kept[i]
        BY <3>1, <4>1, Joined
      <4>4. \A i \in 1..Len(made) : u[Len(kept) + i] = made[i]
        BY <3>1, <4>1, Joined
      <4> QED
        BY <4>2, <4>3, <4>4
    <3>3. stmts' = u
      BY <1>1, <3>1
    <3> HIDE DEF n
    <3> QED
      BY <2>1, <2>2, <3>2, <3>3
  <2>4. DOMAIN stmts' = 1..Len(stmts')
    BY <1>1, <2>1, <2>2, ConcatProperties, LenProperties
  <2> QED
    BY <2>2, <2>3, <2>4
<1> HIDE DEF n, made, if1
<1>7. LocsKept
  <2>1. ASSUME NEW i \in DOMAIN stmts PROVE i \in DOMAIN stmts' /\ stmts'[i].tag = stmts[i].tag
    <3>1. i \in 1..n /\ i \in 1..(n + 3)
      BY <1>3, <2>1
    <3> QED
      BY <1>4, <1>6, <3>1
  <2> QED
    BY <2>1 DEF LocsKept
<1>8. ASSUME NEW p PROVE p \in PlacesPassed' <=> p \in PlacesPassed
  <2> DEFINE Has(s) == s.what # NoWhat /\ p = [loc |-> s.tag.loc, what |-> s.what]
  <2>1. p \in PlacesPassed <=> \E i \in 1..n : Has(stmts[i])
    BY <1>3 DEF PlacesPassed
  <2>2. p \in PlacesPassed' <=> \E i \in 1..(n + 3) : Has(stmts'[i])
    BY <1>6 DEF PlacesPassed
  <2>3. ASSUME NEW i \in 1..(n + 3), Has(stmts'[i]) PROVE \E j \in 1..n : Has(stmts[j])
    <3>1. CASE i \in 1..n
      BY <1>4, <1>6, <2>3, <3>1
    <3>2. CASE i = n + 1
      BY <1>5, <1>6, <2>3, <3>2
    <3>3. CASE i = n + 2
      BY <1>2, <1>3, <1>5, <1>6, <2>3, <3>3
    <3>4. CASE i = n + 3
      BY <1>2, <1>3, <1>5, <1>6, <2>3, <3>4
    <3> QED
      BY <1>3, <3>1, <3>2, <3>3, <3>4
  <2>4. ASSUME NEW i \in 1..n, Has(stmts[i]) PROVE \E j \in 1..(n + 3) : Has(stmts'[j])
    <3>1. CASE i = if1
      <4>1. n + 2 \in 1..(n + 3) /\ Has(stmts'[n + 2])
        BY <1>2, <1>3, <1>5, <1>6, <2>4, <3>1
      <4> QED
        BY <4>1
    <3>2. CASE i # if1
      <4>1. i \in 1..(n + 3) /\ Has(stmts'[i])
        BY <1>3, <1>4, <1>6, <2>4, <3>2
      <4> QED
        BY <4>1
    <3> QED
      BY <3>1, <3>2
  <2> HIDE DEF Has
  <2> QED
    BY <2>1, <2>2, <2>3, <2>4
<1> QED
  BY <1>7, <1>8

LEMMA TrimSplitForks ==
    FInv /\ TrimSplit => UNCHANGED F!vars /\ TopLinked' /\ CallsKnown'
<1> SUFFICES ASSUME FInv, TrimSplit PROVE UNCHANGED F!vars /\ TopLinked' /\ CallsKnown'
  OBVIOUS
<1>1. stack # <<>> /\ top.phase = "trim" /\ top \in Frame /\ prog' = prog
  BY TopAt DEF TrimSplit, Split, BothArms, In, FInv
<1>2. PICK t, q : stack' = SetTop([top EXCEPT !.tail = t, !.queue = q])
  BY DEF TrimSplit
<1>3. PICK f : f = [top EXCEPT !.tail = t, !.queue = q]
  OBVIOUS
<1>4. /\ stack' = SetTop(f) /\ f.phase = "trim" /\ f.visited = top.visited
      /\ f.ifTag = top.ifTag /\ f.cond = top.cond
  BY <1>1, <1>2, <1>3 DEF Frame
<1>5. LocsKept /\ PlacesPassed' = PlacesPassed
  BY SplitPlaces
<1>6. Known(f)'
  BY <1>1, <1>4, <1>5, SameKnown
<1> QED
  BY <1>1, <1>4, <1>5, <1>6, EndedStutters

\* The if is where its condition has been.
LEMMA BuildIfForks ==
    FInv /\ BuildIf => UNCHANGED F!vars /\ TopLinked' /\ CallsKnown'
<1> SUFFICES ASSUME FInv, BuildIf PROVE UNCHANGED F!vars /\ TopLinked' /\ CallsKnown'
  OBVIOUS
<1> DEFINE s == If(top.ifTag, top.cond, top.thn, top.els)
<1>1. /\ stack # <<>> /\ top.phase = "trim" /\ top \in Call /\ top \in Frame /\ prog' = prog
      /\ stmts' = Append(stmts, s) /\ HeapOK
  BY SMTT(30), TopAt DEF BuildIf, In, FInv, IInv, TypeOK
<1>2. PICK v, q, t : /\ v \subseteq top.visited
                     /\ stack' = SetTop([top EXCEPT !.phase = "add", !.visited = v,
                                                    !.queue = q, !.tail = t])
  BY DEF BuildIf
<1>3. PICK f : f = [top EXCEPT !.phase = "add", !.visited = v, !.queue = q, !.tail = t]
  OBVIOUS
<1>4. /\ stack' = SetTop(f) /\ f.phase = "add" /\ f.visited \subseteq top.visited
      /\ f.ifTag = top.ifTag /\ f.cond = top.cond
  BY <1>1, <1>2, <1>3 DEF Frame
<1>5. s \in Stmt /\ s.tag = top.ifTag /\ s.what = top.cond.what
  <2>1. /\ top.ifTag \in Tag /\ top.cond.what \in What \cup {NoWhat} /\ top.cond.var \in Nat
        /\ top.thn \in 0..Len(blocks) /\ top.els \in 0..Len(blocks)
    BY <1>1, Fields DEF FInv, IInv
  <2>2. top.thn # 0 /\ top.els # 0
    BY <1>1 DEF Call
  <2>3. NoTag \in Tag
    BY DEF NoTag, Tag
  <2> QED
    BY <2>1, <2>2, <2>3 DEF If, Statement, Stmt
<1> HIDE DEF s
<1>6. LocsKept /\ PlacesPassed' = PlacesPassed
  <2>1. LocsKept /\ PlacesPassed' = PlacesPassed \cup (IF s.what = NoWhat THEN {} ELSE {PlaceOf(s)})
    BY <1>1, <1>5, CreatedPlace
  <2>2. s.what # NoWhat => PlaceOf(s) \in PlacesPassed
    BY <1>1, <1>5, TopIsKnown DEF Known, PlaceOf
  <2> QED
    BY <2>1, <2>2
<1>7. Known(f)'
  BY <1>1, <1>4, <1>6, SameKnown
<1> QED
  BY <1>1, <1>4, <1>6, <1>7, EndedStutters

LEMMA AddQueuedForks ==
    FInv /\ AddQueued => UNCHANGED F!vars /\ TopLinked' /\ CallsKnown'
<1> SUFFICES ASSUME FInv, AddQueued PROVE UNCHANGED F!vars /\ TopLinked' /\ CallsKnown'
  OBVIOUS
<1>1. PICK i : i = Head(top.queue)
  OBVIOUS
<1>2. /\ stack # <<>> /\ top \in Frame /\ top.phase = "add" /\ top.queue # <<>> /\ prog' = prog
      /\ stmts' = [stmts EXCEPT ![i].tag = StoredTag(Queued)]
      /\ stack' = SetTop([Visit(top, i, Queued) EXCEPT !.queue = Tail(@)])
  BY <1>1, TopAt DEF AddQueued, HasQueued, In, FInv
<1>3. i \in DOMAIN stmts /\ Queued = stmts[i] /\ Queued \in Stmt /\ Queued.tag \in Tag
  <2>1. i \in DOMAIN stmts
    BY <1>1, <1>2, Fields, HeadTailProperties
  <2>2. stmts[i] \in Stmt
    BY <2>1, ElementOfSeq, LenProperties DEF FInv, IInv, TypeOK, HeapOK
  <2> QED
    BY <1>1, <2>1, <2>2 DEF Queued, Stmt
<1> DEFINE s == [stmts[i] EXCEPT !.tag = StoredTag(Queued)]
<1>4. /\ stmts' = [stmts EXCEPT ![i] = s]
      /\ s.tag = StoredTag(Queued) /\ s.what = stmts[i].what /\ s.tag.loc = stmts[i].tag.loc
  BY <1>2, <1>3, StoredLoc DEF Stmt
<1> HIDE DEF s
<1>5. LocsKept /\ PlacesPassed' = PlacesPassed /\ stmts'[i] = s
  BY <1>3, <1>4, RetaggedPlace
<1>6. PICK g : g = Visit(top, i, Queued)
  OBVIOUS
<1>7. PICK f : f = [g EXCEPT !.queue = Tail(g.queue)]
  OBVIOUS
<1>8. /\ stack' = SetTop(f) /\ f.phase = "add" /\ f.visited = g.visited
      /\ f.ifTag = top.ifTag /\ f.cond = top.cond
  BY <1>2, <1>6, <1>7 DEF Visit, Frame
<1>9. Known(f)'
  <2>1. \A v \in Visit(top, i, Queued).visited : stmts'[v.stmt].tag.loc = v.tag.loc
    <3>1. stmts'[i].tag.loc = StoredTag(Queued).loc
      BY <1>4, <1>5
    <3> QED
      BY <1>2, <1>5, <3>1, VisitKnown
  <2>2. \A v \in f.visited : stmts'[v.stmt].tag.loc = v.tag.loc
    BY <1>6, <1>8, <2>1
  <2> QED
    BY <1>8, <2>2 DEF Known
<1> QED
  BY <1>2, <1>5, <1>8, <1>9, EndedStutters

LEMMA EndingForks ==
    FInv /\ (AppendTail \/ UpdateMemo) => UNCHANGED F!vars /\ TopLinked' /\ CallsKnown'
<1> SUFFICES ASSUME FInv, AppendTail \/ UpdateMemo
             PROVE  UNCHANGED F!vars /\ TopLinked' /\ CallsKnown'
  OBVIOUS
<1>1. /\ stack # <<>> /\ top.phase \in {"add", "memo"} /\ top \in Frame
      /\ prog' = prog /\ stmts' = stmts
  BY TopAt DEF AppendTail, UpdateMemo, In, FInv
<1>2. \/ stack' = SetTop([top EXCEPT !.phase = "memo", !.tail = <<>>])
      \/ stack' = SetTop([top EXCEPT !.cursor = top.cursor + 1])
  BY DEF AppendTail, UpdateMemo
<1>3. PICK f : /\ stack' = SetTop(f)
               /\ \/ f = [top EXCEPT !.phase = "memo", !.tail = <<>>]
                  \/ f = [top EXCEPT !.cursor = top.cursor + 1]
  BY <1>2
<1>4. /\ f.phase \in {"add", "memo"} /\ f.visited = top.visited
      /\ f.ifTag = top.ifTag /\ f.cond = top.cond
  BY ZenonT(60), <1>1, <1>3 DEF Frame
<1>5. LocsKept /\ PlacesPassed' = PlacesPassed
  BY <1>1, SamePlaces
<1>6. Known(f)'
  BY <1>1, <1>3, <1>4, <1>5, SameKnown
<1> QED
  BY <1>1, <1>3, <1>4, <1>5, <1>6, EndedStutters

-----------------------------------------------------------------------------
(* Runs start and return *)

\* Sequences given by their elements
LEMMA Replaced ==
    ASSUME NEW S, NEW q \in Seq(S), NEW n \in Nat, n <= Len(q), NEW x, NEW y
    PROVE  /\ [k \in 1..(n + 1) |-> IF k <= n THEN q[k] ELSE x] = Append(SubSeq(q, 1, n), x)
           /\ [k \in 1..(n + 2) |-> IF k <= n THEN q[k] ELSE IF k = n + 1 THEN x ELSE y]
                = SubSeq(q, 1, n) \o <<x, y>>
           /\ Len(q) = n + 1 =>
                [k \in 1..(n + 2) |-> IF k <= n THEN q[k] ELSE IF k = n + 1 THEN x ELSE y]
                  = Append([q EXCEPT ![n + 1] = x], y)
<1> DEFINE T == S \cup {x, y}
           p == SubSeq(q, 1, n)
           r == [k \in 1..(n + 2) |-> IF k <= n THEN q[k] ELSE IF k = n + 1 THEN x ELSE y]
           o == [k \in 1..(n + 1) |-> IF k <= n THEN q[k] ELSE x]
<1>1. q \in Seq(T) /\ Len(q) \in Nat /\ x \in T /\ y \in T /\ \A k \in 1..Len(q) : q[k] \in T
  OBVIOUS
<1>2. p \in Seq(T) /\ Len(p) = n /\ \A k \in 1..n : p[k] = q[k]
  BY <1>1
<1>3. o \in Seq(T) /\ Len(o) = n + 1 /\ r \in Seq(T) /\ Len(r) = n + 2
  <2>1. o \in [1..(n + 1) -> T] /\ r \in [1..(n + 2) -> T]
    BY <1>1
  <2> HIDE DEF o, r, T
  <2> QED
    BY <2>1, FunctionSeq
<1>4. \A k \in 1..n : o[k] = q[k] /\ r[k] = q[k]
  OBVIOUS
<1>5. o[n + 1] = x /\ r[n + 1] = x /\ r[n + 2] = y
  OBVIOUS
<1> HIDE DEF o, r, p, T
<1>6. o = Append(p, x)
  <2>1. PICK u : u = Append(p, x)
    OBVIOUS
  <2>2. u \in Seq(T) /\ Len(u) = n + 1 /\ u[n + 1] = x /\ \A k \in 1..n : u[k] = q[k]
    BY <1>1, <1>2, <2>1, AppendProperties
  <2>3. \A k \in 1..(n + 1) : k = n + 1 \/ k \in 1..n
    OBVIOUS
  <2> QED
    BY <1>3, <1>4, <1>5, <2>1, <2>2, <2>3, SeqEqual
<1>7. r = p \o <<x, y>>
  <2>1. PICK u : u = p \o <<x, y>>
    OBVIOUS
  <2>2. PICK z : z = <<x, y>>
    OBVIOUS
  <2>3. z \in Seq(T) /\ Len(z) = 2 /\ z[1] = x /\ z[2] = y
    BY <1>1, <2>2
  <2>4. u \in Seq(T) /\ u = p \o z
    BY <1>2, <2>1, <2>2, <2>3, ConcatProperties
  <2>5. p \in Seq(T) /\ z \in Seq(T) /\ u = p \o z
    BY <1>2, <2>3, <2>4
  <2>6. Len(u) = Len(p) + Len(z) /\ \A k \in 1..Len(p) : u[k] = p[k]
    BY <2>5, Joined
  <2>7. \A k \in 1..Len(z) : u[Len(p) + k] = z[k]
    BY <2>5, Joined
  <2>8. Len(u) = n + 2 /\ u[n + 1] = x /\ u[n + 2] = y /\ \A k \in 1..n : u[k] = q[k]
    BY <1>2, <2>3, <2>6, <2>7
  <2>9. \A k \in 1..(n + 2) : k = n + 2 \/ k = n + 1 \/ k \in 1..n
    OBVIOUS
  <2> QED
    BY <1>3, <1>4, <1>5, <2>1, <2>4, <2>9, <2>8, SeqEqual
<1>8. ASSUME Len(q) = n + 1 PROVE r = Append([q EXCEPT ![n + 1] = x], y)
  <2>1. PICK z : z = [q EXCEPT ![n + 1] = x]
    OBVIOUS
  <2>2. z \in Seq(T) /\ Len(z) = n + 1 /\ z[n + 1] = x /\ \A k \in 1..n : z[k] = q[k]
    BY <1>1, <1>8, <2>1
  <2>3. PICK u : u = Append(z, y)
    OBVIOUS
  <2>4. /\ u \in Seq(T) /\ Len(u) = n + 2 /\ u[n + 2] = y
        /\ \A k \in 1..(n + 1) : u[k] = z[k]
    BY <1>1, <2>2, <2>3, AppendProperties
  <2>5. \A k \in 1..(n + 2) : k = n + 2 \/ k = n + 1 \/ k \in 1..n
    OBVIOUS
  <2> QED
    BY <1>3, <1>4, <1>5, <2>1, <2>2, <2>3, <2>4, <2>5, SeqEqual
<1> QED
  BY <1>6, <1>7, <1>8 DEF o, p, r

\* The walks of the calls that keep waiting stay as they are.
LEMMA WaitingWalks ==
    ASSUME IInv, NEW n \in Nat, n < Len(stack), NEW m \in Nat, n < m, DOMAIN stack' = 1..m,
           prog' = prog, \A k \in 1..n : stack'[k] = stack[k]
    PROVE  /\ Walks' = [k \in 1..m |-> WalkOf(stack'[k], stack'[k - 1])]
           /\ \A k \in 1..n : WalkOf(stack'[k], stack'[k - 1]) = Walks[k]
<1>1. Walks' = [k \in 1..m |-> WalkOf(stack'[k], stack'[k - 1])]
  BY WalkSame DEF Walks
<1>2. ASSUME NEW k \in 1..n PROVE WalkOf(stack'[k], stack'[k - 1]) = Walks[k]
  <2>1. /\ Len(stack) \in Nat /\ Walks[k] = WalkOf(stack[k], stack[k - 1])
        /\ k \in 1..(Len(stack) - 1)
    BY WalksAt
  <2>2. stack[k].phase # "run"
    BY <2>1 DEF IInv, WaitingAligned, Waits
  <2> QED
    BY <2>1, <2>2, OwnWalk
<1> QED
  BY <1>1, <1>2

\* A call that waits starts a run.
LEMMA StartedWalk ==
    ASSUME NEW f, f.given \in Seq(BOOLEAN), NEW b
    PROVE  /\ WalkOf(NewRun(Answers(f, TRUE), f, b), f) = F!StartAt(prog.code[f.pc].next)
           /\ WalkOf(NewRun(Answers(f, FALSE), f, b), f) = F!StartAt(prog.code[f.pc].other)
<1>1. ASSUME NEW a \in BOOLEAN
      PROVE  WalkOf(NewRun(Answers(f, a), f, b), f)
               = F!StartAt(IF a THEN prog.code[f.pc].next ELSE prog.code[f.pc].other)
  <2> DEFINE g == <<a>> \o f.given
             run == NewRun(g, f, b)
  <2>1. g # <<>> /\ Head(g) = a
    OBVIOUS
  <2>2. run.phase = "run" /\ run.given = g /\ run.bools = g /\ run.tested = FALSE
    BY DEF NewRun
  <2>3. run = NewRun(Answers(f, a), f, b)
    BY DEF Answers
  <2> HIDE DEF g, run
  <2> QED
    BY <2>1, <2>2, <2>3 DEF WalkOf, NextPlace, Destination, F!StartAt
<1>2. WalkOf(NewRun(Answers(f, TRUE), f, b), f)
        = F!StartAt(IF TRUE THEN prog.code[f.pc].next ELSE prog.code[f.pc].other)
  BY <1>1
<1>3. WalkOf(NewRun(Answers(f, FALSE), f, b), f)
        = F!StartAt(IF FALSE THEN prog.code[f.pc].next ELSE prog.code[f.pc].other)
  BY <1>1
<1> QED
  BY <1>2, <1>3

LEMMA CallsWalks ==
    ASSUME IInv, NEW n \in Nat, n < Len(stack), NEW f, NEW g, NEW w, NEW z, prog' = prog,
           DOMAIN stack' = 1..(n + 2), \A k \in 1..n : stack'[k] = stack[k],
           stack'[n + 1] = f, stack'[n + 2] = g,
           WalkOf(f, stack'[n]) = w, WalkOf(g, f) = z
    PROVE  Walks' = [k \in 1..(n + 2) |->
                       IF k <= n THEN Walks[k] ELSE IF k = n + 1 THEN w ELSE z]
<1>1. /\ Walks' = [k \in 1..(n + 2) |-> WalkOf(stack'[k], stack'[k - 1])]
      /\ \A k \in 1..n : WalkOf(stack'[k], stack'[k - 1]) = Walks[k]
  <2>1. n + 2 \in Nat /\ n < n + 2
    OBVIOUS
  <2> QED
    BY <2>1, WaitingWalks
<1>2. WalkOf(stack'[n + 1], stack'[n]) = w /\ WalkOf(stack'[n + 2], stack'[n + 1]) = z
  OBVIOUS
<1>3. ASSUME NEW k \in 1..(n + 2)
      PROVE  WalkOf(stack'[k], stack'[k - 1])
               = IF k <= n THEN Walks[k] ELSE IF k = n + 1 THEN w ELSE z
  <2>1. CASE k \in 1..n
    BY <1>1, <2>1
  <2>2. CASE k = n + 1
    <3>1. k - 1 = n /\ ~ (k <= n)
      BY <2>2
    <3> QED
      BY <1>2, <2>2, <3>1
  <2>3. CASE k = n + 2
    <3>1. k - 1 = n + 1 /\ ~ (k <= n) /\ k # n + 1
      BY <2>3
    <3> QED
      BY <1>2, <2>3, <3>1
  <2> QED
    BY <2>1, <2>2, <2>3
<1> QED
  BY <1>1, <1>3

LEMMA CallsAreKnown ==
    ASSUME FInv, stmts' = stmts, NEW n \in Nat, n < Len(stack), NEW m \in Nat, Len(stack') = m,
           \A k \in 1..n : stack'[k] = stack[k], \A k \in (n + 1)..m : Known(stack'[k])
    PROVE  CallsKnown'
<1>1. Len(stack) \in Nat /\ PlacesPassed' = PlacesPassed
  BY SamePlaces, LenProperties DEF FInv, IInv, TypeOK
<1>2. ASSUME NEW k \in 1..m PROVE Known(stack'[k])
  <2>1. CASE k \in 1..n
    <3>1. k \in 1..Len(stack)
      BY <1>1, <2>1
    <3> QED
      BY <2>1, <3>1 DEF FInv, CallsKnown
  <2>2. CASE k \notin 1..n
    <3>1. k \in (n + 1)..m
      BY <2>2
    <3> QED
      BY <3>1
  <2> QED
    BY <2>1, <2>2
<1>3. \A k \in 1..m : Known(stack[k])'
  BY <1>1, <1>2 DEF Known
<1> QED
  BY <1>3 DEF CallsKnown

LEMMA WalksSeq ==
    ASSUME IInv PROVE \E S : Walks \in Seq(S)
<1> DEFINE S == {Walks[k] : k \in 1..Len(stack)}
<1>1. Walks = [k \in 1..Len(stack) |-> Walks[k]] /\ Len(stack) \in Nat
  BY WalksAt DEF Walks
<1>2. Walks \in [1..Len(stack) -> S]
  BY <1>1
<1>3. Walks \in Seq(S)
  BY <1>1, <1>2, FunctionSeq
<1> QED
  BY <1>3

\* A call that has finished
LEMMA CallAt ==
    ASSUME IInv, Finished
    PROVE  stack # <<>> /\ F!HasEnded /\ Len(stack) \in Nat \ {0} /\ Len(Walks) = Len(stack)
<1>1. stack # <<>> /\ top.phase = "memo"
  BY DEF Finished, In
<1>2. /\ Len(stack) \in Nat \ {0} /\ Len(Walks) = Len(stack) /\ Walks # <<>>
      /\ F!last = WalkOf(top, caller)
  BY <1>1, LastWalk
<1>3. F!HasEnded
  BY <1>1, <1>2 DEF WalkOf, F!HasEnded
<1> QED
  BY <1>1, <1>2, <1>3

LEMMA CallerAt ==
    ASSUME IInv, Finished, Len(stack) > 1
    PROVE  /\ Waits(caller) /\ caller \in Frame
           /\ F!waiting = [is |-> IF caller.phase = "then" THEN "true" ELSE "false",
                           at |-> caller.pc, asked |-> TRUE]
<1> DEFINE n == Len(stack) - 1
<1>1. /\ n \in 1..(Len(stack) - 1) /\ n \in 1..Len(stack) /\ caller = stack[n]
      /\ Len(Walks) = Len(stack)
  BY CallAt DEF caller
<1>2. Waits(caller)
  BY <1>1 DEF IInv, WaitingAligned
<1>3. caller \in Frame
  BY CallerType DEF IInv
<1>4. F!waiting = WalkOf(caller, stack[n - 1])
  BY <1>1, WalksAt DEF F!waiting
<1> HIDE DEF n
<1> QED
  BY <1>2, <1>3, <1>4 DEF Waits, WalkOf

\* The walks as the answers change them
LEMMA WalkChanges ==
    ASSUME NEW p, NEW a, NEW b, NEW w, w = [is |-> a, at |-> p, asked |-> TRUE]
    PROVE  [w EXCEPT !.is = b] = [is |-> b, at |-> p, asked |-> TRUE]
<1>1. DOMAIN w = {"is", "at", "asked"}
  OBVIOUS
<1>2. PICK v : v = [w EXCEPT !.is = b]
  OBVIOUS
<1>3. v = [x \in {"is", "at", "asked"} |-> IF x = "is" THEN b ELSE w[x]]
  BY <1>1, <1>2
<1>4. PICK u : u = [is |-> b, at |-> p, asked |-> TRUE]
  OBVIOUS
<1>5. u = [x \in {"is", "at", "asked"} |-> u[x]]
  BY <1>4
<1>6. u.is = b /\ u.at = p /\ u.asked = TRUE /\ w.at = p /\ w.asked = TRUE
  BY <1>4
<1> QED
  BY <1>2, <1>3, <1>4, <1>5, <1>6

\* The run started is catching up.
LEMMA StartedRun ==
    ASSUME NEW f, f.given \in Seq(BOOLEAN), NEW a \in BOOLEAN, NEW b, Known(f)
    PROVE  /\ NewRun(Answers(f, a), f, b).bools # <<>>
           /\ Known(NewRun(Answers(f, a), f, b))
<1> DEFINE g == NewRun(<<a>> \o f.given, f, b)
<1>1. <<a>> \o f.given # <<>>
  OBVIOUS
<1>2. g.bools = <<a>> \o f.given /\ g.visited = f.visited /\ g.phase = "run"
  BY DEF NewRun
<1>3. g = NewRun(Answers(f, a), f, b)
  BY DEF Answers
<1> HIDE DEF g
<1> QED
  BY <1>1, <1>2, <1>3 DEF Known

LEMMA OutOfBoolsForks == FInv /\ OutOfBools => F!Fork /\ TopLinked' /\ CallsKnown'
<1> SUFFICES ASSUME FInv, OutOfBools PROVE F!Fork /\ TopLinked' /\ CallsKnown'
  OBVIOUS
<1> DEFINE i == Last(Body)
           s == stmts[i]
           n == Len(stack) - 1
<1>0. PICK f : f = [top EXCEPT !.phase = "then", !.ifTag = StmtAt(top.pc).tag,
                               !.cond = [what |-> s.what, var |-> s.var]]
  OBVIOUS
<1>00. PICK run : run = NewRun(Answers(f, TRUE), f, Len(blocks) + 1)
  OBVIOUS
<1>1. /\ Asks /\ ~ CatchingUp /\ In("run") /\ stack # <<>> /\ top \in Frame /\ prog' = prog
      /\ top.phase = "run" /\ top.pending = <<>> /\ top.tested /\ Op = "branch"
      /\ stack \in Seq(Call) /\ Len(stack) \in Nat \ {0} /\ top.given \in Seq(BOOLEAN)
      /\ stmts' = stmts /\ stack' = Append(SetTop(f), run) /\ ConditionLast
  BY <1>0, <1>00, TopAt DEF OutOfBools, Asks, In, FInv
<1>2. /\ f.phase = "then" /\ f.given = top.given /\ f.pc = top.pc /\ f.visited = top.visited
      /\ f.ifTag = StmtAt(top.pc).tag /\ f.cond.what = s.what
  BY <1>0, <1>1 DEF Frame
<1>3. n \in Nat /\ n < Len(stack) /\ n + 1 = Len(stack) /\ n + 2 = Len(stack) + 1
  BY <1>1
<1>4. /\ Len(stack') = Len(stack) + 1 /\ DOMAIN stack' = 1..(Len(stack) + 1)
      /\ \A k \in 1..n : stack'[k] = stack[k]
      /\ stack'[Len(stack)] = f /\ stack'[Len(stack) + 1] = run
  BY <1>1 DEF SetTop
<1>5. Known(f) /\ f.given \in Seq(BOOLEAN)
  <2>1. MadeOf(s, top.pc)
    BY <1>1, RunAt DEF AskedFor, Body
  <2>2. i \in DOMAIN stmts
    <3>1. Body \in Seq(DOMAIN stmts) /\ Body # <<>>
      BY <1>1, Fields, BlockType DEF Body, ConditionLast, FInv, IInv, TypeOK
    <3> QED
      BY <3>1, LastType
  <2>3. s.what # NoWhat => PlaceOf(s) \in PlacesPassed
    BY <2>2, OnePlace
  <2>4. StmtAt(top.pc).tag.loc = s.tag.loc
    BY <2>1 DEF MadeOf, StmtAt, Statement
  <2> HIDE DEF s
  <2>5. \A v \in f.visited : stmts[v.stmt].tag.loc = v.tag.loc
    BY <1>1, <1>2, TopIsKnown DEF Known
  <2> QED
    BY <1>1, <1>2, <2>3, <2>4, <2>5 DEF Known, PlaceOf
<1> HIDE DEF i, s
<1>6. run.bools # <<>> /\ Known(run)
  <2>1. run = NewRun(Answers(f, TRUE), f, Len(blocks) + 1)
    BY <1>00
  <2>2. /\ NewRun(Answers(f, TRUE), f, Len(blocks) + 1).bools # <<>>
        /\ Known(NewRun(Answers(f, TRUE), f, Len(blocks) + 1))
    BY <1>5, StartedRun
  <2> QED
    BY <2>1, <2>2
<1>7. TopLinked'
  <2>1. top' = run
    BY <1>1, <1>4 DEF top, Last
  <2> QED
    BY <1>6, <2>1 DEF TopLinked, CatchingUp
<1> HIDE DEF n
<1>8. CallsKnown'
  <2>1. \A k \in (n + 1)..(n + 2) : k = n + 1 \/ k = n + 2
    BY <1>3
  <2>2. \A k \in (n + 1)..(n + 2) : Known(stack'[k])
    BY <1>3, <1>4, <1>5, <1>6, <2>1
  <2>3. n + 2 \in Nat /\ Len(stack') = n + 2
    BY <1>3, <1>4
  <2> QED
    BY <1>1, <1>3, <1>4, <2>2, <2>3, CallsAreKnown
<1> DEFINE w == [is |-> "true", at |-> top.pc, asked |-> TRUE]
           z == F!StartAt(prog.code[top.pc].next)
<1>9. Walks' = [k \in 1..(n + 2) |-> IF k <= n THEN Walks[k] ELSE IF k = n + 1 THEN w ELSE z]
  <2>1. DOMAIN stack' = 1..(n + 2) /\ stack'[n + 1] = f /\ stack'[n + 2] = run
    BY <1>3, <1>4
  <2>2. WalkOf(f, stack'[n]) = w
    BY <1>2 DEF WalkOf
  <2>3. WalkOf(run, f) = z
    <3>1. WalkOf(NewRun(Answers(f, TRUE), f, Len(blocks) + 1), f)
            = F!StartAt(prog.code[f.pc].next)
      BY <1>2, <1>5, StartedWalk
    <3> QED
      BY <1>00, <1>2, <3>1
  <2>4. IInv /\ prog' = prog /\ n \in Nat /\ n < Len(stack) /\ \A k \in 1..n : stack'[k] = stack[k]
    BY <1>1, <1>3, <1>4, <1>5 DEF FInv
  <2> HIDE DEF w, z
  <2> QED
    BY <2>1, <2>2, <2>3, <2>4, CallsWalks
<1>10. F!last = [is |-> "going", at |-> top.pc, asked |-> TRUE]
  <2>1. WalkOf(top, caller) = [is |-> "going", at |-> top.pc, asked |-> TRUE]
    BY <1>1 DEF WalkOf, NextPlace, CatchingUp
  <2> QED
    BY <1>1, <2>1, LastWalk DEF FInv
<1>11. Len(Walks) = n + 1 /\ Walks[n + 1] = F!last /\ Walks # <<>> /\ n <= Len(Walks)
  <2>1. Len(Walks) = Len(stack) /\ Walks[Len(stack)] = F!last /\ Walks # <<>>
    BY <1>1, LastWalk DEF FInv
  <2> QED
    BY <1>3, <2>1
<1>12. Walks' = Append([Walks EXCEPT ![n + 1] = w], z)
  <2>1. PICK S : Walks \in Seq(S)
    BY WalksSeq DEF FInv
  <2> HIDE DEF w, z
  <2> QED
    BY <1>3, <1>9, <1>11, <2>1, Replaced
<1>13. F!Fork
  <2>1. [Walks[n + 1] EXCEPT !.is = "true"] = w
    <3>1. [F!last EXCEPT !.is = "true"] = w
      BY <1>10, WalkChanges
    <3> QED
      BY <1>11, <3>1
  <2>2. z = F!StartAt(prog.code[F!last.at].next) /\ F!last.asked /\ F!last.is = "going"
    BY <1>10
  <2> HIDE DEF w, z
  <2>3. Walks' = Append([Walks EXCEPT ![Len(Walks)].is = "true"], z)
    BY <1>11, <1>12, <2>1
  <2>4. F!Going
    BY <1>11, <2>2 DEF F!Going
  <2>5. prog' = prog /\ PlacesPassed' = PlacesPassed
    BY <1>1, SamePlaces
  <2> QED
    BY <2>2, <2>3, <2>4, <2>5 DEF F!Fork
<1> QED
  BY <1>7, <1>8, <1>13

LEMMA ReturnThenForks == FInv /\ ReturnThen => F!Turn /\ TopLinked' /\ CallsKnown'
<1> SUFFICES ASSUME FInv, ReturnThen PROVE F!Turn /\ TopLinked' /\ CallsKnown'
  OBVIOUS
<1> DEFINE n == Len(stack) - 2
<1>0. PICK f : f = [caller EXCEPT !.phase = "else", !.thn = top.block]
  OBVIOUS
<1>00. PICK run : run = NewRun(Answers(f, FALSE), f, Len(blocks) + 1)
  OBVIOUS
<1>1. /\ Finished /\ caller.phase = "then" /\ prog' = prog /\ stmts' = stmts
      /\ stack \in Seq(Call) /\ Len(stack) \in Nat /\ Len(stack) > 1
      /\ stack' = SubSeq(stack, 1, n) \o <<f, run>>
  BY <1>0, <1>00, LenProperties DEF ReturnThen, FInv, IInv, TypeOK
<1>2. /\ F!HasEnded /\ Waits(caller) /\ caller \in Frame
      /\ F!waiting = [is |-> "true", at |-> caller.pc, asked |-> TRUE]
  BY <1>1, CallAt, CallerAt DEF FInv
<1>3. /\ f.phase = "else" /\ f.given = caller.given /\ f.pc = caller.pc
      /\ f.visited = caller.visited /\ f.ifTag = caller.ifTag /\ f.cond = caller.cond
      /\ f.given \in Seq(BOOLEAN)
  BY <1>0, <1>2, Fields DEF Frame, FInv, IInv
<1>4. n \in Nat /\ n < Len(stack) /\ n + 1 \in 1..Len(stack) /\ n + 2 = Len(stack)
      /\ caller = stack[n + 1]
  BY <1>1 DEF caller
<1>5. /\ Len(stack') = n + 2 /\ DOMAIN stack' = 1..(n + 2) /\ \A k \in 1..n : stack'[k] = stack[k]
      /\ stack'[n + 1] = f /\ stack'[n + 2] = run
  <2>1. /\ SubSeq(stack, 1, n) \in Seq(Call) /\ Len(SubSeq(stack, 1, n)) = n
        /\ \A k \in 1..n : SubSeq(stack, 1, n)[k] = stack[k]
    BY <1>1, <1>4, Cut
  <2> HIDE DEF n
  <2> QED
    BY <1>1, <1>4, <2>1
<1> HIDE DEF n
<1>6. Known(f) /\ run.bools # <<>> /\ Known(run)
  <2>1. Known(caller)
    BY <1>4 DEF FInv, CallsKnown
  <2>2. Known(f)
    BY <1>1, <1>3, <2>1 DEF Known
  <2>3. /\ NewRun(Answers(f, FALSE), f, Len(blocks) + 1).bools # <<>>
        /\ Known(NewRun(Answers(f, FALSE), f, Len(blocks) + 1))
    BY <1>3, <2>2, StartedRun
  <2> QED
    BY <1>00, <2>2, <2>3
<1>7. TopLinked'
  <2>1. top' = run
    BY <1>4, <1>5 DEF top, Last
  <2> QED
    BY <1>6, <2>1 DEF TopLinked, CatchingUp
<1>8. CallsKnown'
  <2>1. \A k \in (n + 1)..(n + 2) : k = n + 1 \/ k = n + 2
    BY <1>4
  <2>2. \A k \in (n + 1)..(n + 2) : Known(stack'[k])
    BY <1>5, <1>6, <2>1
  <2>3. n + 2 \in Nat
    BY <1>4
  <2> QED
    BY <1>1, <1>4, <1>5, <2>2, <2>3, CallsAreKnown
<1> DEFINE w == [is |-> "false", at |-> caller.pc, asked |-> TRUE]
           z == F!StartAt(prog.code[caller.pc].other)
<1>9. Walks' = [k \in 1..(n + 2) |-> IF k <= n THEN Walks[k] ELSE IF k = n + 1 THEN w ELSE z]
  <2>1. DOMAIN stack' = 1..(n + 2) /\ stack'[n + 1] = f /\ stack'[n + 2] = run
    BY <1>4, <1>5
  <2>2. WalkOf(f, stack'[n]) = w
    BY <1>3 DEF WalkOf
  <2>3. WalkOf(run, f) = z
    <3>1. WalkOf(NewRun(Answers(f, FALSE), f, Len(blocks) + 1), f)
            = F!StartAt(prog.code[f.pc].other)
      BY <1>3, StartedWalk
    <3> QED
      BY <1>00, <1>3, <3>1
  <2>4. IInv /\ prog' = prog /\ n \in Nat /\ n < Len(stack) /\ \A k \in 1..n : stack'[k] = stack[k]
    BY <1>1, <1>3, <1>4, <1>5 DEF FInv
  <2> HIDE DEF w, z
  <2> QED
    BY <2>1, <2>2, <2>3, <2>4, CallsWalks
<1>10. n = Len(Walks) - 2 /\ Len(Walks) > 1 /\ n <= Len(Walks)
  <2>1. Len(Walks) = Len(stack) /\ Len(stack) > 1 /\ Len(stack) \in Nat
    BY <1>1, CallAt DEF FInv
  <2> QED
    BY <1>4, <2>1
<1>11. Walks' = SubSeq(Walks, 1, n) \o <<w, z>>
  <2>1. PICK S : Walks \in Seq(S)
    BY WalksSeq DEF FInv
  <2> HIDE DEF w, z
  <2> QED
    BY SMTT(30), <1>4, <1>9, <1>10, <2>1, Replaced
<1>12. F!Turn
  <2>1. [F!waiting EXCEPT !.is = "false"] = w
    BY <1>2, WalkChanges
  <2>2. /\ z = F!StartAt(prog.code[F!waiting.at].other) /\ F!waiting.is = "true"
        /\ prog' = prog /\ PlacesPassed' = PlacesPassed
    BY <1>1, <1>2, SamePlaces
  <2> HIDE DEF w, z
  <2> QED
    BY <1>2, <1>11, <1>10, <2>1, <2>2 DEF F!Turn
<1> QED
  BY <1>7, <1>8, <1>12

LEMMA ReturnElseForks == FInv /\ ReturnElse => F!Join /\ TopLinked' /\ CallsKnown'
<1> SUFFICES ASSUME FInv, ReturnElse PROVE F!Join /\ TopLinked' /\ CallsKnown'
  OBVIOUS
<1> DEFINE n == Len(stack) - 2
<1>0. PICK f : f = [caller EXCEPT !.phase = "trim", !.els = top.block]
  OBVIOUS
<1>1. /\ Finished /\ caller.phase = "else" /\ prog' = prog /\ stmts' = stmts
      /\ stack \in Seq(Call) /\ Len(stack) \in Nat /\ Len(stack) > 1
      /\ stack' = Append(SubSeq(stack, 1, n), f)
  BY <1>0, LenProperties DEF ReturnElse, FInv, IInv, TypeOK
<1>2. /\ F!HasEnded /\ Waits(caller) /\ caller \in Frame
      /\ F!waiting = [is |-> "false", at |-> caller.pc, asked |-> TRUE]
  BY <1>1, CallAt, CallerAt DEF FInv
<1>3. /\ f.phase = "trim" /\ f.visited = caller.visited
      /\ f.ifTag = caller.ifTag /\ f.cond = caller.cond
  BY <1>0, <1>2 DEF Frame
<1>4. n \in Nat /\ n < Len(stack) /\ n + 1 \in 1..Len(stack) /\ n + 2 = Len(stack)
      /\ caller = stack[n + 1]
  BY <1>1 DEF caller
<1>5. /\ Len(stack') = n + 1 /\ DOMAIN stack' = 1..(n + 1) /\ \A k \in 1..n : stack'[k] = stack[k]
      /\ stack'[n + 1] = f
  <2>1. /\ SubSeq(stack, 1, n) \in Seq(Call) /\ Len(SubSeq(stack, 1, n)) = n
        /\ \A k \in 1..n : SubSeq(stack, 1, n)[k] = stack[k]
    BY <1>1, <1>4, Cut
  <2> HIDE DEF n
  <2> QED
    BY <1>1, <1>4, <2>1
<1> HIDE DEF n
<1>6. Known(f)
  <2>1. Known(caller)
    BY <1>4 DEF FInv, CallsKnown
  <2> QED
    BY <1>1, <1>3, <2>1 DEF Known
<1>7. TopLinked'
  <2>1. top' = f
    BY <1>4, <1>5 DEF top, Last
  <2> QED
    BY <1>3, <2>1 DEF TopLinked, In
<1>8. CallsKnown'
  <2>1. \A k \in (n + 1)..(n + 1) : Known(stack'[k])
    BY <1>4, <1>5, <1>6
  <2>2. n + 1 \in Nat
    BY <1>4
  <2> QED
    BY <1>1, <1>4, <1>5, <2>1, <2>2, CallsAreKnown
<1>9. Walks' = [k \in 1..(n + 1) |-> IF k <= n THEN Walks[k] ELSE F!Ended]
  <2>1. /\ Walks' = [k \in 1..(n + 1) |-> WalkOf(stack'[k], stack'[k - 1])]
        /\ \A k \in 1..n : WalkOf(stack'[k], stack'[k - 1]) = Walks[k]
    <3>1. n + 1 \in Nat /\ n < n + 1
      BY <1>4
    <3> QED
      BY <1>1, <1>4, <1>5, <3>1, WaitingWalks DEF FInv
  <2>2. WalkOf(stack'[n + 1], stack'[n]) = F!Ended
    BY <1>3, <1>5 DEF WalkOf, F!Ended, F!Exit, Exit
  <2>3. ASSUME NEW k \in 1..(n + 1)
        PROVE  WalkOf(stack'[k], stack'[k - 1]) = IF k <= n THEN Walks[k] ELSE F!Ended
    <3>1. CASE k \in 1..n
      BY <2>1, <3>1
    <3>2. CASE k = n + 1
      <4>1. k - 1 = n /\ ~ (k <= n)
        BY <1>4, <3>2
      <4> QED
        BY <2>2, <3>2, <4>1
    <3> QED
      BY <1>4, <3>1, <3>2
  <2> QED
    BY <2>1, <2>3
<1>10. n = Len(Walks) - 2 /\ Len(Walks) > 1 /\ n <= Len(Walks)
  <2>1. Len(Walks) = Len(stack) /\ Len(stack) > 1 /\ Len(stack) \in Nat
    BY <1>1, CallAt DEF FInv
  <2> QED
    BY <1>4, <2>1
<1>11. Walks' = Append(SubSeq(Walks, 1, n), F!Ended)
  <2>1. PICK S : Walks \in Seq(S)
    BY WalksSeq DEF FInv
  <2> QED
    BY <1>4, <1>9, <1>10, <2>1, Replaced
<1>12. F!Join
  <2>1. F!waiting.is = "false" /\ prog' = prog /\ PlacesPassed' = PlacesPassed
    BY <1>1, <1>2, SamePlaces
  <2> QED
    BY <1>2, <1>11, <1>10, <2>1 DEF F!Join
<1> QED
  BY <1>7, <1>8, <1>12

LEMMA ReturnRootForks == FInv /\ ReturnRoot => F!Done /\ TopLinked' /\ CallsKnown'
<1> SUFFICES ASSUME FInv, ReturnRoot PROVE F!Done /\ TopLinked' /\ CallsKnown'
  OBVIOUS
<1>1. Finished /\ Len(stack) = 1 /\ stack' = <<>> /\ prog' = prog /\ stmts' = stmts
  BY DEF ReturnRoot
<1>2. F!HasEnded /\ Len(Walks) = 1
  BY <1>1, CallAt DEF FInv
<1>3. Walks' = <<>>
  BY <1>1 DEF Walks
<1> QED
  BY <1>1, <1>2, <1>3, SamePlaces DEF F!Done, TopLinked, In, CallsKnown

-----------------------------------------------------------------------------
(* Theorems *)

LEMMA ForksInit == Init => FInv /\ F!Init
<1> SUFFICES ASSUME Init PROVE FInv /\ F!Init
  OBVIOUS
<1> DEFINE run == NewRun(<<>>, [exprs |-> <<>>, visited |-> {}, copies |-> {}], 1)
<1>1. IInv /\ prog \in Program /\ stack = <<run>> /\ stmts = <<>>
  BY ReplayInit, TypeInit DEF Init, TypeOK
<1>2. /\ run.phase = "run" /\ run.bools = <<>> /\ run.pc = 1 /\ run.tested = FALSE
      /\ run.pending = <<>> /\ run.visited = {}
  BY DEF NewRun
<1> HIDE DEF run
<1>3. Len(stack) = 1 /\ stack[1] = run /\ top = run /\ DOMAIN stack = 1..1
  BY <1>1 DEF top, Last
<1>4. TopLinked
  BY <1>2, <1>3 DEF TopLinked, Linked, AskedFor
<1>5. CallsKnown
  BY <1>2, <1>3 DEF CallsKnown, Known
<1>6. PlacesPassed = {}
  BY <1>1 DEF PlacesPassed
<1>7. Walks = <<F!StartAt(1)>>
  <2>1. \A g : WalkOf(run, g) = F!StartAt(1)
    BY <1>2 DEF WalkOf, NextPlace, F!StartAt
  <2>2. Walks = [k \in 1..1 |-> F!StartAt(1)]
    BY <1>3, <2>1 DEF Walks
  <2> QED
    BY <2>2
<1> QED
  BY <1>1, <1>4, <1>5, <1>6, <1>7
     DEF FInv, F!Init, Program, Point, Ops, F!Program, F!Point, F!Ops

\* Every step of the extraction is a step of the exploration, or none that it sees.
LEMMA ForksStep == FInv /\ [Next]_vars => FInv' /\ [F!Next]_F!vars
<1> SUFFICES ASSUME FInv, [Next]_vars PROVE FInv' /\ [F!Next]_F!vars
  OBVIOUS
<1>1. IInv'
  BY ReplayStep DEF FInv
<1>2. TopLinked' /\ CallsKnown' /\ (F!Next \/ UNCHANGED F!vars)
  <2>1. CASE Run
    BY <2>1, CreateExprForks, SkipStmtForks, AddStmtForks, CutForks, TakeBoolForks,
       OutOfBoolsForks, ReturnForks DEF Run, F!Next
  <2>2. CASE Trim
    BY <2>2, TrimCommonForks, TrimSplitForks, BuildIfForks DEF Trim
  <2>3. CASE EndOfRun
    BY <2>3, AddQueuedForks, EndingForks, ReturnRootForks, ReturnThenForks, ReturnElseForks
       DEF EndOfRun, F!Next
  <2>4. CASE UNCHANGED vars
    <3>1. /\ prog' = prog /\ stack' = stack /\ stmts' = stmts /\ blocks' = blocks
      BY <2>4 DEF vars
    <3>2. PlacesPassed' = PlacesPassed
      BY <3>1, SamePlaces
    <3>3. Walks' = Walks
      BY <3>1, WalkSame DEF Walks
    <3>4. CallsKnown'
      BY SMTT(30), <3>1, <3>2 DEF FInv, CallsKnown, Known
    <3>5. TopLinked'
      BY <3>1 DEF FInv, TopLinked, CatchingUp, In, top, Last, Linked, AskedFor, MadeOf
    <3> QED
      BY <3>1, <3>2, <3>3, <3>4, <3>5 DEF F!vars
  <2> QED
    BY <2>1, <2>2, <2>3, <2>4 DEF Next, Extract, Extracted
<1> QED
  BY <1>1, <1>2 DEF FInv

\* The extraction explores the staged function: replaying answers and expressions
\* brings every run to where the run it descends from asked, each branch is
\* extracted for true and then for false, and a run is cut short only at a
\* statement whose content and location have been created.
THEOREM ForksCorrect == Spec => Forks
<1>1. FInv /\ [Next]_vars => [F!Next]_F!vars /\ FInv'
  BY ForksStep
<1> QED
  BY ForksInit, <1>1, PTL DEF Spec, Forks, F!Spec

\* When an if is built from a condition, to<expr_stmt> finds that condition's
\* expression statement at the end of the block: the assertion in it holds, and
\* the if is on the condition the staged function asked about.
THEOREM ConditionCorrect == Spec => []ConditionAsked
<1>1. Spec => []FInv
  BY ForksInit, ForksStep, PTL DEF Spec
<1>2. FInv => ConditionAsked
  BY DEF FInv, TopLinked, AskedFor, MadeOf, ConditionAsked, ConditionLast, Asks, Body
<1> QED
  BY <1>1, <1>2, PTL

\* When the extraction is over, every statement the staged function can reach has
\* been created, unless two of its statements cannot be told apart.
THEOREM ReachedCorrect == Spec => []Explored
<1>1. F!Init => FP!Init
  BY SMTT(30) DEF F!Init, FP!Init, F!StartAt, FP!StartAt, F!Program, F!Point, F!Ops,
         FP!Program, FP!Point, FP!Ops
<1>2. [F!Next]_F!vars => [FP!Next]_FP!vars
  BY DEF F!Next, F!Pass, F!Cut, F!Finish, F!Fork, F!Turn, F!Join, F!Done, F!vars,
         F!Meets, F!Going, F!HasEnded, F!waiting, F!last, F!Becomes, F!Place, F!IsBranch,
         F!StartAt, F!Ended, F!Exit, F!Last,
         FP!Next, FP!Pass, FP!Cut, FP!Finish, FP!Fork, FP!Turn, FP!Join, FP!Done, FP!vars,
         FP!Meets, FP!Going, FP!HasEnded, FP!waiting, FP!last, FP!Becomes, FP!Place,
         FP!IsBranch, FP!StartAt, FP!Ended, FP!Exit, FP!Last
<1>3. Forks => FP!Spec
  BY <1>1, <1>2, PTL DEF Forks, F!Spec, FP!Spec
<1>4. FP!Spec => []FP!Explored
  <2>1. Programs \subseteq FP!Program
    BY ProgramsAssumption DEF Program, Point, Ops, FP!Program, FP!Point, FP!Ops
  <2> QED
    BY <2>1, FP!ExploredCorrect
<1>5. FP!Explored => Explored
  BY DEF Explored, F!Explored, FP!Explored, F!PlacesApart, FP!PlacesApart, F!Passed, FP!Passed,
         F!Successors, FP!Successors, F!Place, FP!Place, F!IsBranch, FP!IsBranch, F!Exit, FP!Exit
<1> QED
  BY ForksCorrect, <1>3, <1>4, <1>5, PTL
=============================================================================
