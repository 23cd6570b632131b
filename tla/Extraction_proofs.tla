------------------------- MODULE Extraction_proofs -------------------------
(***************************************************************************)
(* Proofs about the extraction engine, for every staged function and any   *)
(* number of runs, statements and blocks.                                  *)
(***************************************************************************)
EXTENDS Extraction, WellFoundedInduction, SequenceTheorems, TLAPS

-----------------------------------------------------------------------------
(* Sequences and smallest elements *)

LEMMA LastType ==
    ASSUME NEW S, NEW s \in Seq(S), s # <<>>
    PROVE  Last(s) \in S
BY DEF Last

LEMMA FrontType ==
    ASSUME NEW S, NEW s \in Seq(S)
    PROVE  Front(s) \in Seq(S)
<1>1. \A i \in 1..(Len(s) - 1) : s[i] \in S
  BY ElementOfSeq
<1>2. SubSeq(s, 1, Len(s) - 1) \in Seq(S)
  BY <1>1
<1> QED
  BY <1>2 DEF Front

LEMMA Smallest ==
    ASSUME NEW T, T \subseteq Nat, T # {}
    PROVE  \E m \in T : \A n \in T : m <= n
<1>1. PICK m \in T : \A n \in T : <<n, m>> \notin OpToRel(<, Nat)
  BY NatLessThanWellFounded, WFMin
<1>2. \A n \in T : ~ (n < m)
  BY <1>1 DEF OpToRel
<1> QED
  BY <1>2

LEMMA FirstType ==
    ASSUME NEW tags, tags \subseteq Tag, tags # {}
    PROVE  First(tags) \in tags
<1> DEFINE counts == {t.dedup : t \in tags}
<1>1. counts \subseteq Nat /\ counts # {}
  BY DEF Tag
<1>2. PICK d \in counts : \A e \in counts : d <= e
  BY <1>1, Smallest
<1>3. \E t \in tags : \A u \in tags : t.dedup <= u.dedup
  BY <1>2
<1> QED
  BY <1>3 DEF First

LEMMA FirstPlaceType ==
    ASSUME NEW b, NEW t, blocks[b] \in Seq(DOMAIN stmts), Places(b, t) # {}
    PROVE  FirstPlace(b, t) \in Places(b, t)
<1>1. Places(b, t) \subseteq Nat
  BY DEF Places
<1>2. \E k \in Places(b, t) : \A l \in Places(b, t) : k <= l
  BY <1>1, Smallest
<1> QED
  BY <1>2 DEF FirstPlace

-----------------------------------------------------------------------------
(* What stays valid while the heap grows *)

LEMMA FrameGrows ==
    ASSUME HeapOK, prog' = prog,
           Len(stmts') \in Nat, DOMAIN stmts' = 1..Len(stmts'), Len(stmts) <= Len(stmts'),
           Len(blocks') \in Nat, DOMAIN blocks' = 1..Len(blocks'), Len(blocks) <= Len(blocks')
    PROVE  Frame \subseteq Frame'
<1>1. DOMAIN stmts \subseteq DOMAIN stmts' /\ DOMAIN blocks \subseteq DOMAIN blocks'
  BY LenProperties DEF HeapOK
<1>2. Seq(DOMAIN stmts) \subseteq Seq(DOMAIN stmts')
  BY <1>1, SeqMonotonic
<1>3. 0..Len(blocks) \subseteq 0..Len(blocks')
  BY LenProperties DEF HeapOK
<1>4. [tag : Tag, stmt : DOMAIN stmts] \subseteq [tag : Tag, stmt : DOMAIN stmts']
  BY <1>1
<1> QED
  BY <1>1, <1>2, <1>3, <1>4 DEF Frame

LEMMA CallGrows ==
    ASSUME Frame \subseteq Frame' PROVE Call \subseteq Call'
BY DEF Call

LEMMA StmtGrows ==
    ASSUME Len(blocks) \in Nat, Len(blocks') \in Nat, Len(blocks) <= Len(blocks')
    PROVE  Stmt \subseteq Stmt'
BY DEF Stmt

\* A step that grows the heap and changes the innermost call to f
LEMMA TopChanges ==
    ASSUME stack \in Seq(Call), stack # <<>>, Call \subseteq Call',
           NEW f \in Call', stack' = SetTop(f)
    PROVE  stack' \in Seq(Call')
<1>1. stack \in Seq(Call') /\ Len(stack) \in 1..Len(stack)
  BY SeqMonotonic, EmptySeq
<1> QED
  BY <1>1, ExceptSeq DEF SetTop

LEMMA TopType ==
    ASSUME stack \in Seq(Call), stack # <<>>
    PROVE  top \in Call /\ top \in Frame /\ Len(stack) \in Nat \ {0}
BY LastType, EmptySeq DEF top, Call

\* Statements created or changed
LEMMA PointType ==
    ASSUME prog \in Program, NEW p \in DOMAIN prog.code
    PROVE  /\ prog.code[p] \in Point
           /\ prog.code[p].next \in 0..Len(prog.code)
           /\ prog.code[p].other \in 0..Len(prog.code)
BY DEF Program

LEMMA StmtAtType ==
    ASSUME prog \in Program, HeapOK, NEW p \in DOMAIN prog.code
    PROVE  StmtAt(p) \in Stmt /\ StmtAt(p).kind # "if" /\ StmtAt(p).tag.dedup = 0
<1>1. prog.code[p].loc \in Loc /\ prog.code[p].what \in What
  BY PointType DEF Point
<1>2. NoTag \in Tag
  BY DEF NoTag, Tag
<1>3. 0 \in 0..Len(blocks)
  BY LenProperties DEF HeapOK
<1> QED
  BY <1>1, <1>2, <1>3 DEF StmtAt, Statement, Stmt, Tag

-----------------------------------------------------------------------------
(* Calls created or changed *)

LEMMA Fields ==
    ASSUME NEW f \in Frame
    PROVE  /\ f.phase \in Phases /\ f.given \in Seq(BOOLEAN) /\ f.bools \in Seq(BOOLEAN)
           /\ f.pc \in 0..Len(prog.code)
           /\ f.pending \in Seq(DOMAIN prog.code) /\ f.exprs \in Seq(DOMAIN prog.code)
           /\ f.used \in Nat
           /\ f.visited \subseteq [tag : Tag, stmt : DOMAIN stmts]
           /\ f.copies \subseteq [tag : Tag, n : Nat]
           /\ f.block \in DOMAIN blocks /\ f.ifTag \in Tag
           /\ f.cond \in [what : What \cup {NoWhat}, var : Nat]
           /\ f.thn \in 0..Len(blocks) /\ f.els \in 0..Len(blocks)
           /\ f.queue \in Seq(DOMAIN stmts) /\ f.tail \in Seq(DOMAIN stmts)
           /\ f.cursor \in Nat \ {0}
BY DEF Frame

LEMMA SetPc ==
    ASSUME NEW f \in Call, NEW b \in BOOLEAN, NEW p \in 0..Len(prog.code)
    PROVE  [f EXCEPT !.tested = b, !.pc = p] \in Call /\ [f EXCEPT !.pc = p] \in Call
BY ZenonT(60) DEF Call, Frame
LEMMA SetUsed ==
    ASSUME NEW f \in Call, NEW n \in Nat PROVE [f EXCEPT !.used = n] \in Call
BY DEF Call, Frame
LEMMA SetPending ==
    ASSUME NEW f \in Call, NEW s \in Seq(DOMAIN prog.code), NEW e \in Seq(DOMAIN prog.code)
    PROVE  [f EXCEPT !.pending = s, !.exprs = e] \in Call /\ [f EXCEPT !.pending = s] \in Call
BY ZenonT(60) DEF Call, Frame
LEMMA SetBools ==
    ASSUME NEW f \in Call, NEW s \in Seq(BOOLEAN), NEW p \in 0..Len(prog.code)
    PROVE  [f EXCEPT !.bools = s, !.tested = FALSE, !.pc = p] \in Call
BY DEF Call, Frame
LEMMA SetPhase ==
    ASSUME NEW f \in Call PROVE [f EXCEPT !.phase = "add"] \in Call
BY DEF Call, Frame, Phases
LEMMA SetMemo ==
    ASSUME NEW f \in Call PROVE [f EXCEPT !.phase = "memo", !.tail = <<>>] \in Call
<1>1. ASSUME NEW s \in Seq(DOMAIN stmts) PROVE [f EXCEPT !.phase = "memo", !.tail = s] \in Call
  BY DEF Call, Frame, Phases
<1> QED
  BY <1>1, EmptySeq
LEMMA SetIf ==
    ASSUME NEW f \in Call, NEW t \in Tag, NEW c \in [what : What \cup {NoWhat}, var : Nat]
    PROVE  [f EXCEPT !.phase = "then", !.ifTag = t, !.cond = c] \in Call
BY DEF Call, Frame, Phases
LEMMA SetCursor ==
    ASSUME NEW f \in Call, NEW n \in Nat \ {0} PROVE [f EXCEPT !.cursor = n] \in Call
BY DEF Call, Frame

\* Calls that point into the heap the step leaves
LEMMA SetVisited ==
    ASSUME NEW f \in Call', NEW v \in SUBSET [tag : Tag, stmt : DOMAIN stmts'],
           NEW c \in SUBSET [tag : Tag, n : Nat]
    PROVE  [f EXCEPT !.visited = v, !.copies = c] \in Call'
BY DEF Call, Frame
LEMMA SetEnd ==
    ASSUME NEW f \in Call', NEW q \in Seq(DOMAIN stmts')
    PROVE  [f EXCEPT !.phase = "add", !.pending = <<>>, !.queue = q] \in Call'
<1>1. ASSUME NEW s \in Seq(DOMAIN prog'.code)
      PROVE  [f EXCEPT !.phase = "add", !.pending = s, !.queue = q] \in Call'
  BY DEF Call, Frame, Phases
<1> QED
  BY <1>1, EmptySeq
LEMMA SetQueue ==
    ASSUME NEW f \in Call', NEW q \in Seq(DOMAIN stmts')
    PROVE  [f EXCEPT !.queue = q] \in Call'
BY DEF Call, Frame
LEMMA SetTail ==
    ASSUME NEW f \in Call', NEW s \in Seq(DOMAIN stmts'), NEW q \in Seq(DOMAIN stmts'),
           NEW v \in SUBSET [tag : Tag, stmt : DOMAIN stmts']
    PROVE  /\ [f EXCEPT !.tail = s] \in Call'
           /\ [f EXCEPT !.tail = s, !.queue = q] \in Call'
           /\ [f EXCEPT !.phase = "add", !.visited = v, !.queue = q, !.tail = s] \in Call'
<1>1. [f EXCEPT !.tail = s] \in Call'
  BY Zenon DEF Call, Frame
<1>2. [f EXCEPT !.tail = s, !.queue = q] \in Call'
  BY Zenon DEF Call, Frame
<1>3. [f EXCEPT !.phase = "add", !.visited = v, !.queue = q, !.tail = s] \in Call'
  BY Zenon DEF Call, Frame, Phases
<1> QED
  BY <1>1, <1>2, <1>3
LEMMA SetBranch ==
    ASSUME NEW f \in Call', NEW b \in 0..Len(blocks'), b # 0
    PROVE  /\ [f EXCEPT !.phase = "else", !.thn = b] \in Call'
           /\ f.phase = "else" => [f EXCEPT !.phase = "trim", !.els = b] \in Call'
BY ZenonT(60) DEF Call, Frame, Phases
LEMMA NewRunType ==
    ASSUME NEW a \in Seq(BOOLEAN), NEW f \in Frame', NEW b \in DOMAIN blocks',
           prog' \in Program, HeapOK'
    PROVE  NewRun(a, f, b) \in Call'
<1>1. NoTag \in Tag
  BY DEF NoTag, Tag
<1>2. 1 \in 0..Len(prog'.code) /\ 0 \in 0..Len(blocks')
  BY LenProperties DEF Program, HeapOK
<1>3. /\ f.exprs \in Seq(DOMAIN prog'.code) /\ f.copies \subseteq [tag : Tag, n : Nat]
      /\ f.visited \subseteq [tag : Tag, stmt : DOMAIN stmts']
  BY DEF Frame
<1>4. NewRun(a, f, b).phase = "run"
  BY DEF NewRun
<1>5. NewRun(a, f, b) \in Frame'
  BY <1>1, <1>2, <1>3, SMTT(60) DEF NewRun, Frame, Phases
<1> QED
  BY <1>4, <1>5 DEF Call

-----------------------------------------------------------------------------
(* Steps in general *)

\* A step that grows the heap and changes the innermost call to f
LEMMA HeapStep ==
    ASSUME TypeOK, prog' = prog, memo' = memo, splits' \in Nat, uniques' \in Nat,
           HeapOK', Len(stmts) <= Len(stmts'), Len(blocks) <= Len(blocks')
    PROVE  /\ Call \subseteq Call'
           /\ stack' \in Seq(Call') => TypeOK'
<1>1. /\ Len(stmts') \in Nat /\ DOMAIN stmts' = 1..Len(stmts')
      /\ Len(blocks') \in Nat /\ DOMAIN blocks' = 1..Len(blocks')
  BY LenProperties DEF HeapOK
<1>2. Call \subseteq Call'
  BY <1>1, FrameGrows, CallGrows DEF TypeOK
<1>3. DOMAIN blocks \subseteq DOMAIN blocks'
  BY <1>1, LenProperties, SMTT(30) DEF TypeOK, HeapOK
<1>4. MemoOK'
  BY <1>3 DEF TypeOK, MemoOK
<1> QED
  BY <1>2, <1>4 DEF TypeOK, Program, Point

\* A step that changes nothing but the innermost call
LEMMA CallStep ==
    ASSUME TypeOK, stack # <<>>, NEW f \in Call, stack' = SetTop(f),
           UNCHANGED <<prog, memo, stmts, blocks, splits, uniques>>
    PROVE  TypeOK'
<1>1. HeapOK'
  BY DEF TypeOK, HeapOK, Stmt
<1>2. Len(stmts) <= Len(stmts') /\ Len(blocks) <= Len(blocks')
  BY LenProperties DEF TypeOK, HeapOK
<1>3. Call \subseteq Call'
  BY <1>1, <1>2, HeapStep DEF TypeOK
<1>4. stack' \in Seq(Call')
  BY <1>3, TopChanges DEF TypeOK
<1> QED
  BY <1>1, <1>2, <1>4, HeapStep DEF TypeOK

-----------------------------------------------------------------------------
(* Changes of the heap *)

LEMMA BlocksGrow ==
    ASSUME HeapOK, DOMAIN stmts \subseteq DOMAIN stmts'
    PROVE  blocks \in Seq(Seq(DOMAIN stmts'))
<1>1. Seq(DOMAIN stmts) \subseteq Seq(DOMAIN stmts')
  BY SeqMonotonic
<1> QED
  BY <1>1, SeqMonotonic DEF HeapOK

\* Block b becomes c.
LEMMA BlockChanges ==
    ASSUME HeapOK, DOMAIN stmts \subseteq DOMAIN stmts',
           NEW b \in DOMAIN blocks, NEW c \in Seq(DOMAIN stmts')
    PROVE  /\ [blocks EXCEPT ![b] = c] \in Seq(Seq(DOMAIN stmts'))
           /\ Len([blocks EXCEPT ![b] = c]) = Len(blocks)
<1>1. blocks \in Seq(Seq(DOMAIN stmts')) /\ b \in 1..Len(blocks)
  BY BlocksGrow, LenProperties
<1> QED
  BY <1>1, ExceptSeq

LEMMA BlockType ==
    ASSUME HeapOK, DOMAIN stmts \subseteq DOMAIN stmts', NEW b \in DOMAIN blocks
    PROVE  blocks[b] \in Seq(DOMAIN stmts) /\ blocks[b] \in Seq(DOMAIN stmts')
BY SeqMonotonic, ElementOfSeq, LenProperties DEF HeapOK

LEMMA PushType ==
    ASSUME HeapOK, DOMAIN stmts \subseteq DOMAIN stmts',
           top.block \in DOMAIN blocks, NEW i \in DOMAIN stmts'
    PROVE  Push(i) \in Seq(Seq(DOMAIN stmts')) /\ Len(Push(i)) = Len(blocks)
<1>1. blocks[top.block] \in Seq(DOMAIN stmts')
  BY BlockType
<1>2. Append(blocks[top.block], i) \in Seq(DOMAIN stmts')
  BY <1>1, AppendProperties
<1> QED
  BY <1>2, BlockChanges DEF Push

\* A statement is created.
LEMMA StmtCreated ==
    ASSUME HeapOK, NEW s \in Stmt, stmts' = Append(stmts, s),
           Len(blocks') \in Nat, Len(blocks) <= Len(blocks')
    PROVE  /\ stmts' \in Seq(Stmt') /\ Len(stmts') = Len(stmts) + 1
           /\ DOMAIN stmts \subseteq DOMAIN stmts' /\ Len(stmts) + 1 \in DOMAIN stmts'
           /\ Len(stmts) <= Len(stmts')
<1>1. Stmt \subseteq Stmt'
  BY StmtGrows, LenProperties DEF HeapOK
<1>2. stmts \in Seq(Stmt') /\ s \in Stmt'
  BY <1>1, SeqMonotonic DEF HeapOK
<1>3. stmts' \in Seq(Stmt') /\ Len(stmts') = Len(stmts) + 1
  BY <1>2, AppendProperties
<1> QED
  BY <1>2, <1>3, LenProperties

LEMMA SetStmtTag ==
    ASSUME NEW s \in Stmt, NEW t \in Tag
    PROVE  [s EXCEPT !.tag = t] \in Stmt
BY DEF Stmt

LEMMA GotoType ==
    ASSUME HeapOK, NEW t \in Tag
    PROVE  Goto(t) \in Stmt /\ Goto(t).kind # "if"
<1>1. NoTag \in Tag
  BY DEF NoTag, Tag
<1>2. 0 \in 0..Len(blocks)
  BY LenProperties DEF HeapOK
<1> QED
  BY <1>1, <1>2 DEF Goto, Statement, Stmt

-----------------------------------------------------------------------------
(* The steps of a run *)

\* A run that has not reached the end of the function is at a point of it.
LEMMA PcType ==
    ASSUME TypeOK, top \in Frame, Op # "exit"
    PROVE  top.pc \in DOMAIN prog.code
<1>1. top.pc \in 0..Len(prog.code) /\ top.pc # 0
  BY Fields DEF Op, Exit
<1>2. DOMAIN prog.code = 1..Len(prog.code)
  BY LenProperties DEF TypeOK, Program
<1> QED
  BY <1>1, <1>2

LEMMA CreateExprType == TypeOK /\ CreateExpr => TypeOK'
<1> SUFFICES ASSUME TypeOK, CreateExpr PROVE TypeOK'
  OBVIOUS
<1>1. stack # <<>> /\ top \in Call /\ top \in Frame
  BY TopType DEF TypeOK, CreateExpr, Creates, In
<1>2. top.pc \in DOMAIN prog.code
  BY <1>1, PcType DEF CreateExpr, Creates
<1> DEFINE b == (Op = "branch")
           p == IF Op = "expr" THEN prog.code[top.pc].next ELSE top.pc
           f == [top EXCEPT !.tested = b, !.pc = p]
           s == Append(top.pending, top.pc)
           e == Append(top.exprs, top.pc)
           n == top.used + 1
<1>3. b \in BOOLEAN /\ p \in 0..Len(prog.code)
  BY <1>1, <1>2, PointType, Fields DEF TypeOK
<1>4. s \in Seq(DOMAIN prog.code) /\ e \in Seq(DOMAIN prog.code) /\ n \in Nat
  <2>1. /\ top.pending \in Seq(DOMAIN prog.code) /\ top.exprs \in Seq(DOMAIN prog.code)
        /\ top.used \in Nat
    BY <1>1, Fields
  <2>2. s \in Seq(DOMAIN prog.code)
    BY <1>2, <2>1, AppendProperties
  <2>3. e \in Seq(DOMAIN prog.code)
    BY <1>2, <2>1, AppendProperties
  <2> QED
    BY <2>1, <2>2, <2>3
<1>5. stack' = SetTop(IF CatchingUp THEN [f EXCEPT !.used = n]
                      ELSE [f EXCEPT !.pending = s, !.exprs = e])
  BY <1>1 DEF CreateExpr, Call, Frame
<1> HIDE DEF b, p, s, e, n
<1>6. f \in Call
  BY <1>1, <1>3, SetPc
<1> HIDE DEF f
<1>7. [f EXCEPT !.used = n] \in Call /\ [f EXCEPT !.pending = s, !.exprs = e] \in Call
  BY <1>4, <1>6, SetUsed, SetPending
<1>8. UNCHANGED <<prog, memo, stmts, blocks, splits, uniques>>
  BY DEF CreateExpr
<1> QED
  BY <1>1, <1>5, <1>7, <1>8, CallStep

\* The statement offered and the run after it
LEMMA OfferedType ==
    ASSUME TypeOK, Offers
    PROVE  /\ stack # <<>> /\ top \in Call /\ top \in Frame
           /\ Offered \in Stmt /\ Offered.kind # "if" /\ Offered.tag.dedup = 0
           /\ Passed \in Call
<1>1. stack # <<>> /\ top \in Call /\ top \in Frame
  BY TopType DEF TypeOK, Offers, In
<1>2. top.pending \in Seq(DOMAIN prog.code) /\ top.pc \in 0..Len(prog.code)
  BY <1>1, Fields
<1>3. CASE top.pending # <<>>
  <2>1. Head(top.pending) \in DOMAIN prog.code /\ Tail(top.pending) \in Seq(DOMAIN prog.code)
    BY <1>2, <1>3, HeadTailProperties
  <2>2. [top EXCEPT !.pending = Tail(@)] = [top EXCEPT !.pending = Tail(top.pending)]
    BY <1>1 DEF Frame
  <2> QED
    BY <1>1, <1>3, <2>1, <2>2, StmtAtType, SetPending DEF TypeOK, Offered, Passed
<1>4. CASE top.pending = <<>>
  <2>1. Op = "decl"
    BY <1>4 DEF Offers
  <2>2. top.pc \in DOMAIN prog.code
    BY <1>1, <2>1, PcType
  <2>3. [top EXCEPT !.pc = prog.code[@].next] = [top EXCEPT !.pc = prog.code[top.pc].next]
    BY <1>1 DEF Frame
  <2> QED
    BY <1>1, <1>4, <2>2, <2>3, StmtAtType, PointType, SetPc DEF TypeOK, Offered, Passed
<1> QED
  BY <1>1, <1>3, <1>4

LEMMA SkipStmtType == TypeOK /\ SkipStmt => TypeOK'
BY OfferedType, CallStep DEF SkipStmt

LEMMA StoredTagType ==
    ASSUME top \in Frame, NEW s, s.tag \in Tag
    PROVE  /\ Copies(s.tag) \in Nat
           /\ StoredTag(s) \in Tag
           /\ Copy(s.tag, 0) \in Tag
<1>1. Copies(s.tag) \in Nat
  BY Fields DEF Copies
<1>2. \A d \in Nat : Copy(s.tag, d) \in Tag
  BY DEF Copy, Tag
<1> QED
  BY <1>1, <1>2 DEF StoredTag

LEMMA VisitType ==
    ASSUME TypeOK, top \in Frame, NEW f \in Call', NEW s, s.tag \in Tag,
           NEW i \in DOMAIN stmts'
    PROVE  Visit(f, i, s) \in Call'
<1> DEFINE t == StoredTag(s)
           v == {w \in f.visited : w.tag # t} \cup {[tag |-> t, stmt |-> i]}
           c == IF ~ Seen(s) THEN f.copies
                ELSE {d \in f.copies : d.tag # Copy(t, 0)}
                       \cup {[tag |-> Copy(t, 0), n |-> Copies(s.tag) + 1]}
<1>1. /\ f.visited \subseteq [tag : Tag, stmt : DOMAIN stmts']
      /\ f.copies \subseteq [tag : Tag, n : Nat]
  BY DEF Call, Frame
<1>2. t \in Tag /\ Copies(s.tag) + 1 \in Nat
  BY StoredTagType
<1>3. Copy(t, 0) \in Tag
  BY <1>2 DEF Copy, Tag
<1>4. v \in SUBSET [tag : Tag, stmt : DOMAIN stmts']
  BY <1>1, <1>2
<1>5. c \in SUBSET [tag : Tag, n : Nat]
  BY <1>1, <1>2, <1>3
<1>6. Visit(f, i, s) = [f EXCEPT !.visited = v, !.copies = c]
  BY DEF Visit, Call, Frame
<1> HIDE DEF v, c
<1>7. [f EXCEPT !.visited = v, !.copies = c] \in Call'
  BY <1>4, <1>5, SetVisited
<1> QED
  BY <1>6, <1>7, Zenon

LEMMA AddStmtType == TypeOK /\ AddStmt => TypeOK'
<1> SUFFICES ASSUME TypeOK, AddStmt PROVE TypeOK'
  OBVIOUS
<1> DEFINE i == Len(stmts) + 1
           s == [Offered EXCEPT !.tag = StoredAs]
<1>1. /\ stack # <<>> /\ top \in Frame /\ Passed \in Call
      /\ Offered \in Stmt /\ Offered.tag \in Tag
  BY OfferedType DEF AddStmt, IsNew, Stmt
<1>2. s \in Stmt
  BY <1>1, StoredTagType, SetStmtTag DEF StoredAs
<1>3. /\ stmts' = Append(stmts, s) /\ blocks' = Push(i)
      /\ stack' = SetTop(Visit(Passed, i, Offered))
      /\ UNCHANGED <<prog, memo, splits, uniques>>
  BY DEF AddStmt
<1> HIDE DEF s
<1>4. Len(blocks') = Len(blocks) /\ Len(blocks) \in Nat
  BY <1>1, <1>3, Fields, LenProperties DEF TypeOK, HeapOK, Push
<1>5. /\ stmts' \in Seq(Stmt') /\ i \in DOMAIN stmts'
      /\ DOMAIN stmts \subseteq DOMAIN stmts' /\ Len(stmts) <= Len(stmts')
  BY <1>2, <1>3, <1>4, StmtCreated DEF TypeOK
<1>6. HeapOK'
  BY <1>1, <1>3, <1>5, Fields, PushType DEF TypeOK, HeapOK
<1>7. Call \subseteq Call' /\ (stack' \in Seq(Call') => TypeOK')
  BY <1>3, <1>4, <1>5, <1>6, HeapStep DEF TypeOK
<1>8. Visit(Passed, i, Offered) \in Call'
  BY <1>1, <1>5, <1>7, VisitType
<1> QED
  BY <1>1, <1>3, <1>7, <1>8, TopChanges DEF TypeOK

\* A handler ends the run: with a goto, or with statements that exist.
LEMMA EndWithGotoType ==
    ASSUME TypeOK, stack # <<>>, NEW t \in Tag, EndWithGoto(t),
           UNCHANGED <<prog, memo, blocks, splits, uniques>>
    PROVE  TypeOK'
<1> DEFINE i == Len(stmts) + 1
           f == [top EXCEPT !.phase = "add", !.pending = <<>>, !.queue = <<i>>]
<1>1. stmts' = Append(stmts, Goto(t)) /\ stack' = SetTop(f)
  BY DEF EndWithGoto, EndWith
<1>2. Goto(t) \in Stmt /\ Len(blocks) \in Nat /\ blocks' = blocks
  BY GotoType, LenProperties DEF TypeOK, HeapOK
<1>3. /\ stmts' \in Seq(Stmt') /\ i \in DOMAIN stmts'
      /\ DOMAIN stmts \subseteq DOMAIN stmts' /\ Len(stmts) <= Len(stmts')
  BY <1>1, <1>2, StmtCreated DEF TypeOK
<1>4. HeapOK'
  BY <1>2, <1>3, BlocksGrow DEF TypeOK, HeapOK
<1>5. Call \subseteq Call' /\ (stack' \in Seq(Call') => TypeOK')
  BY <1>2, <1>3, <1>4, HeapStep DEF TypeOK
<1>6. top \in Call' /\ <<i>> \in Seq(DOMAIN stmts')
  BY <1>3, <1>5, TopType DEF TypeOK
<1>7. f \in Call'
  BY <1>6, SetEnd
<1> HIDE DEF f
<1> QED
  BY <1>1, <1>5, <1>7, TopChanges DEF TypeOK

LEMMA LoopTargetType ==
    ASSUME top \in Frame, NEW s, s.tag \in Tag, LoopsBack(s)
    PROVE  LoopTarget(s) \in Tag
<1>1. CASE SameTag(s)
  BY <1>1 DEF LoopTarget
<1>2. CASE ~ SameTag(s)
  <2>1. OtherCopies(s) \subseteq Tag
    BY StoredTagType DEF OtherCopies, Copy, Tag
  <2>2. Stops(s) # {} /\ Stops(s) \subseteq Tag
    BY <1>2, <2>1 DEF LoopsBack, Stops
  <2> QED
    BY <1>2, <2>2, FirstType DEF LoopTarget
<1> QED
  BY <1>1, <1>2

LEMMA LoopBackType == TypeOK /\ LoopBack => TypeOK'
<1> SUFFICES ASSUME TypeOK, LoopBack PROVE TypeOK'
  OBVIOUS
<1>1. /\ stack # <<>> /\ top \in Frame /\ Offered \in Stmt
      /\ LoopsBack(Offered) /\ EndWithGoto(LoopTarget(Offered))
      /\ UNCHANGED <<prog, memo, blocks, splits, uniques>>
  BY OfferedType DEF LoopBack
<1>2. LoopTarget(Offered) \in Tag
  BY <1>1, LoopTargetType DEF Stmt
<1> QED
  BY <1>1, <1>2, EndWithGotoType

LEMMA MemoizeType == TypeOK /\ Memoize => TypeOK'
<1> SUFFICES ASSUME TypeOK, Memoize PROVE TypeOK'
  OBVIOUS
<1> DEFINE b == memo[StoredAs]
           k == FirstPlace(b, StoredAs)
           q == SubSeq(blocks[b], k, Len(blocks[b]))
<1>1. /\ stack # <<>> /\ top \in Call /\ top \in Frame /\ Offered.tag \in Tag
      /\ UNCHANGED <<prog, memo, blocks, splits, uniques>>
  BY OfferedType DEF Memoize, IsNew, Stmt
<1>2. StoredAs \in Tag
  BY <1>1, StoredTagType DEF StoredAs
<1>3. CASE FeatureUnstructured
  BY <1>1, <1>2, <1>3, EndWithGotoType DEF Memoize
<1>4. CASE ~ FeatureUnstructured
  <2>1. stack' = SetTop([top EXCEPT !.phase = "add", !.pending = <<>>, !.queue = q])
        /\ stmts' = stmts
    BY <1>4 DEF Memoize, EndWith
  <2>2. b \in DOMAIN blocks /\ Places(b, StoredAs) # {}
    BY DEF Memoize, Reusable, Dangling, TypeOK, MemoOK
  <2>3. blocks[b] \in Seq(DOMAIN stmts)
    BY <2>2, BlockType, <2>1 DEF TypeOK
  <2>4. k \in 1..Len(blocks[b])
    BY <2>2, <2>3, FirstPlaceType, LenProperties DEF Places
  <2> HIDE DEF k, b
  <2>5. q \in Seq(DOMAIN stmts')
    <3>1. \A j \in k..Len(blocks[b]) : blocks[b][j] \in DOMAIN stmts
      BY <2>3, <2>4, LenProperties
    <3> QED
      BY <2>1, <2>3, <2>4, <3>1, SubSeqProperties
  <2>6. HeapOK' /\ Len(stmts) <= Len(stmts') /\ Len(blocks) <= Len(blocks')
    BY <1>1, <2>1, LenProperties DEF TypeOK, HeapOK, Stmt
  <2>7. Call \subseteq Call' /\ (stack' \in Seq(Call') => TypeOK')
    BY <1>1, <2>6, HeapStep DEF TypeOK
  <2> HIDE DEF q
  <2>8. [top EXCEPT !.phase = "add", !.pending = <<>>, !.queue = q] \in Call'
    BY <1>1, <2>5, <2>7, SetEnd
  <2> QED
    BY <1>1, <2>1, <2>7, <2>8, TopChanges DEF TypeOK
<1> QED
  BY <1>3, <1>4

LEMMA TakeBoolType == TypeOK /\ TakeBool => TypeOK'
<1> SUFFICES ASSUME TypeOK, TakeBool PROVE TypeOK'
  OBVIOUS
<1> DEFINE s == Front(top.bools)
           p == IF Last(top.bools) THEN prog.code[top.pc].next ELSE prog.code[top.pc].other
<1>1. stack # <<>> /\ top \in Call /\ top \in Frame
  BY TopType DEF TypeOK, TakeBool, Asks, In
<1>2. s \in Seq(BOOLEAN)
  BY <1>1, Fields, FrontType DEF TakeBool, CatchingUp
<1>3. top.pc \in DOMAIN prog.code
  BY <1>1, PcType DEF TakeBool, Asks
<1>4. p \in 0..Len(prog.code)
  BY <1>3, PointType DEF TypeOK
<1>5. stack' = SetTop([top EXCEPT !.bools = s, !.tested = FALSE, !.pc = p])
  BY <1>1 DEF TakeBool, Call, Frame
<1> HIDE DEF s, p
<1>6. [top EXCEPT !.bools = s, !.tested = FALSE, !.pc = p] \in Call
  BY <1>1, <1>2, <1>4, SetBools
<1> QED
  BY <1>1, <1>5, <1>6, CallStep DEF TakeBool

\* A step that leaves the statements alone
LEMMA SameStmts ==
    ASSUME TypeOK, UNCHANGED <<prog, memo, stmts, splits, uniques>>,
           blocks' \in Seq(Seq(DOMAIN stmts)), Len(blocks) <= Len(blocks')
    PROVE  Call \subseteq Call' /\ HeapOK' /\ (stack' \in Seq(Call') => TypeOK')
<1>1. Stmt \subseteq Stmt'
  BY StmtGrows, LenProperties DEF TypeOK, HeapOK
<1>2. HeapOK' /\ Len(stmts) <= Len(stmts')
  BY <1>1, SeqMonotonic, LenProperties DEF TypeOK, HeapOK
<1> QED
  BY <1>2, HeapStep DEF TypeOK

LEMMA BodyType ==
    ASSUME TypeOK, top \in Frame
    PROVE  /\ Body \in Seq(DOMAIN stmts)
           /\ \A k \in DOMAIN Body : Body[k] \in DOMAIN stmts /\ stmts[Body[k]] \in Stmt
<1>1. Body \in Seq(DOMAIN stmts)
  BY Fields, BlockType DEF TypeOK, HeapOK, Body
<1> QED
  BY <1>1, ElementOfSeq, LenProperties DEF TypeOK, HeapOK

\* An empty block is created.
LEMMA BlockCreated ==
    ASSUME NEW b \in Seq(Seq(DOMAIN stmts)), Len(b) = Len(blocks), blocks' = Append(b, <<>>)
    PROVE  /\ blocks' \in Seq(Seq(DOMAIN stmts)) /\ Len(blocks') = Len(blocks) + 1
           /\ Len(blocks) \in Nat
<1>1. <<>> \in Seq(DOMAIN stmts)
  BY EmptySeq
<1>2. blocks' \in Seq(Seq(DOMAIN stmts)) /\ Len(blocks') = Len(b) + 1
  BY <1>1, AppendProperties
<1> QED
  BY <1>2, LenProperties

LEMMA OutOfBoolsType == TypeOK /\ OutOfBools => TypeOK'
<1> SUFFICES ASSUME TypeOK, OutOfBools PROVE TypeOK'
  OBVIOUS
<1> DEFINE s == stmts[Last(Body)]
           t == StmtAt(top.pc).tag
           c == [what |-> s.what, var |-> s.var]
           f == [top EXCEPT !.phase = "then", !.ifTag = t, !.cond = c]
           shorter == [blocks EXCEPT ![top.block] = Front(@)]
           run == NewRun(Answers(f, TRUE), f, Len(blocks) + 1)
<1>1. /\ stack # <<>> /\ top \in Call /\ top \in Frame
      /\ UNCHANGED <<prog, memo, stmts, splits, uniques>>
  BY TopType DEF TypeOK, OutOfBools, Asks, In
<1>2. Body # <<>> /\ Body \in Seq(DOMAIN stmts) /\ top.block \in DOMAIN blocks
  BY <1>1, BodyType, Fields DEF OutOfBools, ConditionLast
<1>3. s \in Stmt
  BY <1>2, LastType DEF TypeOK, HeapOK
<1>4. t \in Tag
  <2>1. top.pc \in DOMAIN prog.code
    BY <1>1, PcType DEF OutOfBools, Asks
  <2> QED
    BY <2>1, StmtAtType DEF TypeOK, Stmt
<1>5. c \in [what : What \cup {NoWhat}, var : Nat]
  BY <1>3 DEF Stmt
<1>6. /\ blocks' = Append(shorter, <<>>)
      /\ stack' = Append(SetTop(f), run)
  BY DEF OutOfBools
<1>7. shorter \in Seq(Seq(DOMAIN stmts)) /\ Len(shorter) = Len(blocks)
  <2>1. Front(Body) \in Seq(DOMAIN stmts)
    BY <1>2, FrontType
  <2>2. Front(blocks[top.block]) \in Seq(DOMAIN stmts')
    BY <1>1, <2>1 DEF Body
  <2> QED
    BY <1>1, <1>2, <2>2, BlockChanges DEF TypeOK
<1> HIDE DEF s, t, c, shorter
<1>8. /\ blocks' \in Seq(Seq(DOMAIN stmts)) /\ Len(blocks') = Len(blocks) + 1
      /\ Len(blocks) \in Nat
  BY <1>6, <1>7, BlockCreated
<1>9. Call \subseteq Call' /\ HeapOK' /\ (stack' \in Seq(Call') => TypeOK')
  BY <1>1, <1>8, SameStmts
<1>10. f \in Call
  BY <1>1, <1>4, <1>5, SetIf
<1> HIDE DEF f
<1>11. f \in Call' /\ f \in Frame /\ f \in Frame'
  BY <1>9, <1>10 DEF Call
<1>12. Answers(f, TRUE) \in Seq(BOOLEAN)
  <2>1. f.given \in Seq(BOOLEAN) /\ <<TRUE>> \in Seq(BOOLEAN)
    BY <1>11, Fields
  <2> QED
    BY <2>1, ConcatProperties DEF Answers
<1>13. Len(blocks) + 1 \in DOMAIN blocks'
  BY <1>8, LenProperties
<1>14. run \in Call'
  BY <1>1, <1>9, <1>11, <1>12, <1>13, NewRunType DEF TypeOK
<1> HIDE DEF run
<1>15. SetTop(f) \in Seq(Call')
  <2>1. stack \in Seq(Call') /\ Len(stack) \in 1..Len(stack)
    BY <1>1, <1>9, SeqMonotonic, EmptySeq DEF TypeOK
  <2> QED
    BY <1>11, <2>1, ExceptSeq DEF SetTop
<1>16. stack' \in Seq(Call')
  BY <1>6, <1>14, <1>15, AppendProperties
<1> QED
  BY <1>9, <1>16

LEMMA ReturnType == TypeOK /\ Return => TypeOK'
<1> SUFFICES ASSUME TypeOK, Return PROVE TypeOK'
  OBVIOUS
<1> DEFINE f == [top EXCEPT !.phase = "add"]
           i == Len(stmts) + 1
           s == Statement("return", Copy(NoTag, uniques + 1), NoWhat, 0)
<1>1. /\ stack # <<>> /\ top \in Call /\ top \in Frame
      /\ UNCHANGED <<prog, memo, splits>>
  BY TopType DEF TypeOK, Return, In
<1>2. f \in Call
  BY <1>1, SetPhase
<1>3. \/ stack' = SetTop(f) /\ UNCHANGED <<uniques, stmts, blocks>>
      \/ /\ uniques' = uniques + 1 /\ stmts' = Append(stmts, s) /\ blocks' = Push(i)
         /\ stack' = SetTop(Visit(f, i, s))
  BY DEF Return
<1> HIDE DEF f
<1>4. CASE stack' = SetTop(f) /\ UNCHANGED <<uniques, stmts, blocks>>
  BY <1>1, <1>2, <1>4, CallStep
<1>5. CASE /\ uniques' = uniques + 1 /\ stmts' = Append(stmts, s) /\ blocks' = Push(i)
           /\ stack' = SetTop(Visit(f, i, s))
  <2>1. s \in Stmt /\ s.tag \in Tag
    <3>1. NoTag \in Tag /\ Copy(NoTag, uniques + 1) \in Tag
      BY DEF TypeOK, NoTag, Copy, Tag
    <3>2. 0 \in 0..Len(blocks)
      BY LenProperties DEF TypeOK, HeapOK
    <3> QED
      BY <3>1, <3>2 DEF Statement, Stmt
  <2> HIDE DEF s
  <2>2. Len(blocks') = Len(blocks) /\ Len(blocks) \in Nat
    BY <1>1, <1>5, Fields, LenProperties DEF TypeOK, HeapOK, Push
  <2>3. /\ stmts' \in Seq(Stmt') /\ i \in DOMAIN stmts'
        /\ DOMAIN stmts \subseteq DOMAIN stmts' /\ Len(stmts) <= Len(stmts')
    BY <1>5, <2>1, <2>2, StmtCreated DEF TypeOK
  <2>4. HeapOK'
    BY <1>1, <1>5, <2>3, Fields, PushType DEF TypeOK, HeapOK
  <2>5. Call \subseteq Call' /\ (stack' \in Seq(Call') => TypeOK')
    BY <1>1, <1>5, <2>2, <2>3, <2>4, HeapStep DEF TypeOK
  <2>6. Visit(f, i, s) \in Call'
    BY <1>1, <1>2, <2>1, <2>3, <2>5, VisitType
  <2> QED
    BY <1>1, <1>5, <2>5, <2>6, TopChanges DEF TypeOK
<1> QED
  BY <1>3, <1>4, <1>5

-----------------------------------------------------------------------------
(* The steps of trim_common_from_back *)

\* The last statements of both branches
LEMMA ArmsType ==
    ASSUME TypeOK, BothArms
    PROVE  /\ stack # <<>> /\ top \in Call /\ top \in Frame
           /\ top.thn \in DOMAIN blocks /\ top.els \in DOMAIN blocks
           /\ blocks[top.thn] \in Seq(DOMAIN stmts) /\ blocks[top.thn] # <<>>
           /\ blocks[top.els] \in Seq(DOMAIN stmts) /\ blocks[top.els] # <<>>
           /\ Last(blocks[top.thn]) \in DOMAIN stmts /\ Last(blocks[top.els]) \in DOMAIN stmts
           /\ BackThen \in Stmt /\ BackElse \in Stmt
<1>1. stack # <<>> /\ top \in Call /\ top \in Frame /\ top.phase = "trim"
  BY TopType DEF TypeOK, BothArms, In
<1>2. top.thn \in DOMAIN blocks /\ top.els \in DOMAIN blocks
  <2>1. top.thn # 0 /\ top.els # 0
    BY <1>1 DEF Call
  <2>2. top.thn \in 0..Len(blocks) /\ top.els \in 0..Len(blocks)
    BY <1>1, Fields
  <2>3. DOMAIN blocks = 1..Len(blocks) /\ Len(blocks) \in Nat
    BY LenProperties DEF TypeOK, HeapOK
  <2> QED
    BY <2>1, <2>2, <2>3
<1>3. blocks[top.thn] \in Seq(DOMAIN stmts) /\ blocks[top.els] \in Seq(DOMAIN stmts)
  BY <1>2, ElementOfSeq, LenProperties DEF TypeOK, HeapOK
<1>4. Last(blocks[top.thn]) \in DOMAIN stmts /\ Last(blocks[top.els]) \in DOMAIN stmts
  BY <1>3, LastType DEF BothArms
<1>5. BackThen \in Stmt /\ BackElse \in Stmt
  BY <1>4, ElementOfSeq, LenProperties DEF TypeOK, HeapOK, BackThen, BackElse
<1> QED
  BY <1>1, <1>2, <1>3, <1>4, <1>5 DEF BothArms

\* A function that is a sequence
LEMMA FunctionSeq ==
    ASSUME NEW S, NEW n \in Nat, NEW g \in [1..n -> S]
    PROVE  g \in Seq(S) /\ Len(g) = n
OBVIOUS

\* Both branches change.
LEMMA WithArmsType ==
    ASSUME HeapOK, DOMAIN stmts \subseteq DOMAIN stmts',
           NEW a \in Seq(DOMAIN stmts'), NEW b \in Seq(DOMAIN stmts')
    PROVE  WithArms(a, b) \in Seq(Seq(DOMAIN stmts')) /\ Len(WithArms(a, b)) = Len(blocks)
<1>1. blocks \in Seq(Seq(DOMAIN stmts')) /\ Len(blocks) \in Nat /\ DOMAIN blocks = 1..Len(blocks)
  BY BlocksGrow, LenProperties
<1>2. \A c \in DOMAIN blocks : blocks[c] \in Seq(DOMAIN stmts')
  BY <1>1, ElementOfSeq
<1>3. WithArms(a, b) \in [1..Len(blocks) -> Seq(DOMAIN stmts')]
  BY <1>1, <1>2 DEF WithArms
<1> QED
  BY <1>1, <1>3, FunctionSeq

LEMMA TrimCommonType == TypeOK /\ TrimCommon => TypeOK'
<1> SUFFICES ASSUME TypeOK, TrimCommon PROVE TypeOK'
  OBVIOUS
<1> DEFINE q == <<Last(blocks[top.thn])>> \o top.tail
           f == [top EXCEPT !.tail = q]
<1>1. /\ BothArms /\ UNCHANGED <<prog, memo, stmts, splits, uniques>>
      /\ blocks' = WithArms(Front(blocks[top.thn]), Front(blocks[top.els]))
      /\ stack' = SetTop([top EXCEPT !.tail = <<Last(blocks[top.thn])>> \o @])
  BY DEF TrimCommon, Common
<1>2. /\ Front(blocks[top.thn]) \in Seq(DOMAIN stmts')
      /\ Front(blocks[top.els]) \in Seq(DOMAIN stmts')
  BY <1>1, ArmsType, FrontType
<1>3. blocks' \in Seq(Seq(DOMAIN stmts)) /\ Len(blocks) <= Len(blocks')
  BY <1>1, <1>2, WithArmsType, LenProperties DEF TypeOK, HeapOK
<1>4. Call \subseteq Call' /\ (stack' \in Seq(Call') => TypeOK')
  BY <1>1, <1>3, SameStmts
<1>5. stack # <<>> /\ top \in Call' /\ top \in Frame
  BY <1>1, <1>4, ArmsType
<1>6. q \in Seq(DOMAIN stmts')
  <2>1. top.tail \in Seq(DOMAIN stmts') /\ <<Last(blocks[top.thn])>> \in Seq(DOMAIN stmts')
    BY <1>1, <1>5, Fields, ArmsType
  <2> QED
    BY <2>1, ConcatProperties
<1>7. stack' = SetTop(f)
  BY <1>1
<1> HIDE DEF q
<1>8. f \in Call'
  BY <1>5, <1>6, SetTail
<1> HIDE DEF f
<1> QED
  BY <1>4, <1>5, <1>7, <1>8, TopChanges DEF TypeOK

LEMMA TrimSplitType == TypeOK /\ TrimSplit => TypeOK'
<1> SUFFICES ASSUME TypeOK, TrimSplit PROVE TypeOK'
  OBVIOUS
<1> DEFINE v == splits + 1
           if1 == Last(blocks[top.thn])
           n == Len(stmts)
           kept == [stmts EXCEPT ![if1] = [@ EXCEPT !.what = NoWhat, !.var = v]]
           decl == Statement("decl", BackThen.tag, NoWhat, v)
           assign(s) == [Statement("expr", s.tag, s.what, v) EXCEPT !.from = s.var]
           made == <<decl, assign(BackThen), assign(BackElse)>>
           a == Append(Front(blocks[top.thn]), n + 2)
           b == Append(Front(blocks[top.els]), n + 3)
           t == <<if1>> \o top.tail
           q == Append(top.queue, n + 1)
           f == [top EXCEPT !.tail = t, !.queue = q]
<1>1. /\ BothArms /\ UNCHANGED <<prog, memo>>
      /\ splits' = v /\ uniques' = uniques + 1
      /\ stmts' = kept \o made /\ blocks' = WithArms(a, b)
      /\ stack' = SetTop([top EXCEPT !.tail = <<if1>> \o @, !.queue = Append(@, n + 1)])
  BY DEF TrimSplit, Split
<1>2. /\ stack # <<>> /\ top \in Call /\ top \in Frame
      /\ if1 \in DOMAIN stmts /\ BackThen \in Stmt /\ BackElse \in Stmt
  BY <1>1, ArmsType
<1>3. n \in Nat /\ v \in Nat /\ stmts \in Seq(Stmt) /\ DOMAIN stmts = 1..n
  BY LenProperties DEF TypeOK, HeapOK
<1>4. kept \in Seq(Stmt) /\ Len(kept) = n
  <2>1. stmts[if1] \in Stmt
    BY <1>2, <1>3, ElementOfSeq
  <2>2. [stmts[if1] EXCEPT !.what = NoWhat, !.var = v] \in Stmt
    BY <1>3, <2>1 DEF Stmt
  <2> QED
    BY <1>2, <1>3, <2>2, ExceptSeq
<1>5. decl \in Stmt /\ assign(BackThen) \in Stmt /\ assign(BackElse) \in Stmt
  <2>1. NoTag \in Tag /\ 0 \in 0..Len(blocks)
    BY LenProperties DEF TypeOK, HeapOK, NoTag, Tag
  <2>2. decl \in Stmt
    BY <1>2, <1>3, <2>1 DEF Statement, Stmt
  <2>3. ASSUME NEW s \in Stmt PROVE assign(s) \in Stmt
    BY <1>3, <2>1 DEF Statement, Stmt
  <2> QED
    BY <1>2, <2>2, <2>3
<1> HIDE DEF kept, decl, assign
<1>6. made \in Seq(Stmt) /\ Len(made) = 3
  BY <1>5
<1> HIDE DEF made
<1>7. stmts' \in Seq(Stmt) /\ Len(stmts') = n + 3 /\ DOMAIN stmts' = 1..(n + 3)
  <2>1. stmts' \in Seq(Stmt) /\ Len(stmts') = n + 3
    <3>1. kept \o made \in Seq(Stmt) /\ Len(kept \o made) = Len(kept) + Len(made)
      BY <1>4, <1>6, ConcatProperties
    <3> QED
      BY <1>1, <1>4, <1>6, <3>1
  <2> QED
    BY <2>1, LenProperties
<1>8. DOMAIN stmts \subseteq DOMAIN stmts'
  BY <1>3, <1>7
<1>9. a \in Seq(DOMAIN stmts') /\ b \in Seq(DOMAIN stmts')
  <2>1. /\ Front(blocks[top.thn]) \in Seq(DOMAIN stmts')
        /\ Front(blocks[top.els]) \in Seq(DOMAIN stmts')
    BY <1>1, <1>8, ArmsType, FrontType, SeqMonotonic
  <2>2. n + 2 \in DOMAIN stmts' /\ n + 3 \in DOMAIN stmts'
    BY <1>3, <1>7
  <2>3. a \in Seq(DOMAIN stmts')
    BY <2>1, <2>2, AppendProperties
  <2>4. b \in Seq(DOMAIN stmts')
    BY <2>1, <2>2, AppendProperties
  <2> QED
    BY <2>3, <2>4
<1>10. t \in Seq(DOMAIN stmts') /\ q \in Seq(DOMAIN stmts')
  <2>1. top.tail \in Seq(DOMAIN stmts') /\ top.queue \in Seq(DOMAIN stmts')
    BY <1>2, <1>8, Fields, SeqMonotonic
  <2>2. if1 \in DOMAIN stmts' /\ n + 1 \in DOMAIN stmts'
    BY <1>2, <1>3, <1>7, <1>8
  <2>3. <<if1>> \in Seq(DOMAIN stmts')
    BY <2>2
  <2>4. t \in Seq(DOMAIN stmts')
    BY <2>1, <2>3, ConcatProperties
  <2>5. q \in Seq(DOMAIN stmts')
    BY <2>1, <2>2, AppendProperties
  <2> QED
    BY <2>4, <2>5
<1>11. stack' = SetTop(f)
  BY <1>1
<1> HIDE DEF a, b, t, q
<1>12. blocks' \in Seq(Seq(DOMAIN stmts')) /\ Len(blocks') = Len(blocks) /\ Len(blocks) \in Nat
  BY <1>1, <1>8, <1>9, WithArmsType, LenProperties DEF TypeOK, HeapOK
<1>13. HeapOK'
  <2>1. Stmt \subseteq Stmt'
    BY <1>12, StmtGrows
  <2> QED
    BY <1>7, <1>12, <2>1, SeqMonotonic DEF HeapOK
<1>14. splits' \in Nat /\ uniques' \in Nat
  BY <1>1, <1>3 DEF TypeOK
<1>15. Call \subseteq Call' /\ (stack' \in Seq(Call') => TypeOK')
  BY <1>1, <1>3, <1>7, <1>12, <1>13, <1>14, HeapStep DEF TypeOK
<1>16. f \in Call'
  BY <1>2, <1>10, <1>15, SetTail
<1> HIDE DEF f
<1> QED
  BY <1>2, <1>11, <1>15, <1>16, TopChanges DEF TypeOK

LEMMA BuildIfType == TypeOK /\ BuildIf => TypeOK'
<1> SUFFICES ASSUME TypeOK, BuildIf PROVE TypeOK'
  OBVIOUS
<1> DEFINE i == Len(stmts) + 1
           s == If(top.ifTag, top.cond, top.thn, top.els)
           a == IF EmptiesThen THEN <<>> ELSE blocks[top.thn]
           b == IF EmptiesElse THEN <<>> ELSE blocks[top.els]
           v == {w \in top.visited : w.tag # top.ifTag}
           q == Append(top.queue, i)
           t == (IF EmptiesThen THEN blocks[top.thn] ELSE <<>>) \o
                (IF EmptiesElse THEN blocks[top.els] ELSE <<>>) \o top.tail
           f == [top EXCEPT !.phase = "add", !.visited = v, !.queue = q, !.tail = t]
<1>1. /\ stack # <<>> /\ top \in Call /\ top \in Frame /\ top.phase = "trim"
      /\ UNCHANGED <<prog, memo, splits, uniques>>
      /\ blocks' = WithArms(a, b) /\ stmts' = Append(stmts, s) /\ stack' = SetTop(f)
  BY TopType DEF TypeOK, BuildIf, In
<1>2. top.thn \in DOMAIN blocks /\ top.els \in DOMAIN blocks
  <2>1. top.thn # 0 /\ top.els # 0
    BY <1>1 DEF Call
  <2>2. top.thn \in 0..Len(blocks) /\ top.els \in 0..Len(blocks)
    BY <1>1, Fields
  <2>3. DOMAIN blocks = 1..Len(blocks) /\ Len(blocks) \in Nat
    BY LenProperties DEF TypeOK, HeapOK
  <2> QED
    BY <2>1, <2>2, <2>3
<1>3. /\ blocks[top.thn] \in Seq(DOMAIN stmts) /\ blocks[top.els] \in Seq(DOMAIN stmts)
      /\ <<>> \in Seq(DOMAIN stmts)
  BY <1>2, ElementOfSeq, EmptySeq, LenProperties DEF TypeOK, HeapOK
<1>4. s \in Stmt
  <2>1. /\ top.ifTag \in Tag /\ top.cond.what \in What \cup {NoWhat} /\ top.cond.var \in Nat
        /\ top.thn \in 0..Len(blocks) /\ top.els \in 0..Len(blocks)
    BY <1>1, Fields
  <2>2. top.thn # 0 /\ top.els # 0
    BY <1>1 DEF Call
  <2>3. NoTag \in Tag
    BY DEF NoTag, Tag
  <2> QED
    BY <2>1, <2>2, <2>3 DEF If, Statement, Stmt
<1> HIDE DEF s
<1>5. Len(blocks') = Len(blocks) /\ Len(blocks) \in Nat
  <2>1. Len(blocks) \in Nat /\ DOMAIN blocks = 1..Len(blocks)
    BY LenProperties DEF TypeOK, HeapOK
  <2>2. \A c \in DOMAIN blocks : blocks[c] \in Seq(DOMAIN stmts)
    BY ElementOfSeq, <2>1 DEF TypeOK, HeapOK
  <2>3. WithArms(a, b) \in [1..Len(blocks) -> Seq(DOMAIN stmts)]
    BY <1>3, <2>1, <2>2 DEF WithArms
  <2> QED
    BY <1>1, <2>1, <2>3, FunctionSeq
<1>6. /\ stmts' \in Seq(Stmt') /\ i \in DOMAIN stmts'
      /\ DOMAIN stmts \subseteq DOMAIN stmts' /\ Len(stmts) <= Len(stmts')
  BY <1>1, <1>4, <1>5, StmtCreated DEF TypeOK
<1>7. /\ blocks[top.thn] \in Seq(DOMAIN stmts') /\ blocks[top.els] \in Seq(DOMAIN stmts')
      /\ <<>> \in Seq(DOMAIN stmts')
  BY <1>3, <1>6, SeqMonotonic
<1>8. a \in Seq(DOMAIN stmts') /\ b \in Seq(DOMAIN stmts')
  BY <1>7
<1>9. q \in Seq(DOMAIN stmts') /\ v \in SUBSET [tag : Tag, stmt : DOMAIN stmts']
  <2>1. /\ top.queue \in Seq(DOMAIN stmts')
        /\ top.visited \subseteq [tag : Tag, stmt : DOMAIN stmts']
    BY <1>1, <1>6, Fields, SeqMonotonic
  <2>2. q \in Seq(DOMAIN stmts')
    BY <1>6, <2>1, AppendProperties
  <2> QED
    BY <2>1, <2>2
<1>10. t \in Seq(DOMAIN stmts')
  <2> DEFINE x == IF EmptiesThen THEN blocks[top.thn] ELSE <<>>
             y == IF EmptiesElse THEN blocks[top.els] ELSE <<>>
  <2>1. x \in Seq(DOMAIN stmts') /\ y \in Seq(DOMAIN stmts')
    BY <1>7
  <2>2. top.tail \in Seq(DOMAIN stmts')
    BY <1>1, <1>6, Fields, SeqMonotonic
  <2>3. t = x \o y \o top.tail
    OBVIOUS
  <2> HIDE DEF x, y, t
  <2>4. x \o y \in Seq(DOMAIN stmts')
    BY <2>1, ConcatProperties
  <2>5. x \o y \o top.tail \in Seq(DOMAIN stmts')
    BY <2>2, <2>4, ConcatProperties
  <2> QED
    BY <2>3, <2>5
<1> HIDE DEF a, b, v, q, t
<1>11. HeapOK'
  BY <1>1, <1>6, <1>8, WithArmsType DEF TypeOK, HeapOK
<1>12. Call \subseteq Call' /\ (stack' \in Seq(Call') => TypeOK')
  BY <1>1, <1>5, <1>6, <1>11, HeapStep DEF TypeOK
<1>13. f \in Call'
  BY <1>1, <1>9, <1>10, <1>12, SetTail
<1> HIDE DEF f
<1> QED
  BY <1>1, <1>12, <1>13, TopChanges DEF TypeOK

-----------------------------------------------------------------------------
(* The steps at the end of a call *)

LEMMA AddQueuedType == TypeOK /\ AddQueued => TypeOK'
<1> SUFFICES ASSUME TypeOK, AddQueued PROVE TypeOK'
  OBVIOUS
<1> DEFINE i == Head(top.queue)
           s == [stmts[i] EXCEPT !.tag = StoredTag(Queued)]
           f == Visit(top, i, Queued)
           q == Tail(f.queue)
<1>1. /\ stack # <<>> /\ top \in Call /\ top \in Frame /\ top.queue # <<>>
      /\ UNCHANGED <<prog, memo, splits, uniques>>
      /\ stmts' = [stmts EXCEPT ![i] = s] /\ blocks' = Push(i)
      /\ stack' = SetTop([f EXCEPT !.queue = q])
  BY TopType DEF TypeOK, AddQueued, HasQueued, In
<1>2. top.queue \in Seq(DOMAIN stmts) /\ i \in DOMAIN stmts /\ Tail(top.queue) \in Seq(DOMAIN stmts)
  BY <1>1, Fields, HeadTailProperties
<1>3. Queued \in Stmt /\ Queued = stmts[i] /\ Queued.tag \in Tag
  <2>1. stmts[i] \in Stmt
    BY <1>2, ElementOfSeq, LenProperties DEF TypeOK, HeapOK
  <2> QED
    BY <2>1 DEF Queued, Stmt
<1>4. s \in Stmt
  BY <1>1, <1>3, StoredTagType, SetStmtTag
<1> HIDE DEF s
<1>5. stmts' \in Seq(Stmt) /\ Len(stmts') = Len(stmts) /\ DOMAIN stmts' = DOMAIN stmts
  <2>1. i \in 1..Len(stmts) /\ stmts \in Seq(Stmt)
    BY <1>2, LenProperties DEF TypeOK, HeapOK
  <2>2. stmts' \in Seq(Stmt) /\ Len(stmts') = Len(stmts)
    BY <1>1, <1>4, <2>1, ExceptSeq
  <2> QED
    BY <2>1, <2>2, LenProperties
<1>6. blocks' \in Seq(Seq(DOMAIN stmts')) /\ Len(blocks') = Len(blocks) /\ Len(blocks) \in Nat
  BY <1>1, <1>2, <1>5, Fields, PushType, LenProperties DEF TypeOK, HeapOK
<1>7. HeapOK' /\ Len(stmts) \in Nat
  <2>1. Stmt \subseteq Stmt'
    BY <1>6, StmtGrows
  <2> QED
    BY <1>5, <1>6, <2>1, SeqMonotonic, LenProperties DEF TypeOK, HeapOK
<1>8. Call \subseteq Call' /\ (stack' \in Seq(Call') => TypeOK')
  BY <1>1, <1>5, <1>6, <1>7, HeapStep DEF TypeOK
<1>9. f \in Call'
  BY <1>1, <1>2, <1>3, <1>5, <1>8, VisitType
<1>10. f.queue = top.queue
  BY <1>1 DEF Visit, Call, Frame
<1>11. q \in Seq(DOMAIN stmts')
  BY <1>2, <1>5, <1>10
<1> HIDE DEF f, q
<1>12. [f EXCEPT !.queue = q] \in Call'
  BY <1>9, <1>11, SetQueue
<1> QED
  BY <1>1, <1>8, <1>12, TopChanges DEF TypeOK

LEMMA AppendTailType == TypeOK /\ AppendTail => TypeOK'
<1> SUFFICES ASSUME TypeOK, AppendTail PROVE TypeOK'
  OBVIOUS
<1> DEFINE c == blocks[top.block] \o top.tail
           f == [top EXCEPT !.phase = "memo", !.tail = <<>>]
<1>1. /\ stack # <<>> /\ top \in Call /\ top \in Frame
      /\ UNCHANGED <<prog, memo, stmts, splits, uniques>>
      /\ blocks' = [blocks EXCEPT ![top.block] = c] /\ stack' = SetTop(f)
  BY TopType DEF TypeOK, AppendTail, In
<1>2. top.block \in DOMAIN blocks /\ top.tail \in Seq(DOMAIN stmts)
  BY <1>1, Fields
<1>3. blocks[top.block] \in Seq(DOMAIN stmts)
  BY <1>2, ElementOfSeq, LenProperties DEF TypeOK, HeapOK
<1>4. c \in Seq(DOMAIN stmts')
  BY <1>1, <1>2, <1>3, ConcatProperties
<1> HIDE DEF c
<1>5. blocks' \in Seq(Seq(DOMAIN stmts)) /\ Len(blocks) <= Len(blocks')
  BY <1>1, <1>2, <1>4, BlockChanges, LenProperties DEF TypeOK, HeapOK
<1>6. Call \subseteq Call' /\ (stack' \in Seq(Call') => TypeOK')
  BY <1>1, <1>5, SameStmts
<1>7. f \in Call
  BY <1>1, SetMemo
<1> QED
  BY <1>1, <1>6, <1>7, TopChanges DEF TypeOK

\* The tags of the statements in a block
LEMMA TagsOfType ==
    ASSUME HeapOK, NEW b \in DOMAIN blocks
    PROVE  TagsOf(b) \subseteq Tag
<1>1. blocks[b] \in Seq(DOMAIN stmts)
  BY ElementOfSeq, LenProperties DEF HeapOK
<1>2. \A i \in ToSet(blocks[b]) : i \in DOMAIN stmts
  BY <1>1, ElementOfSeq, LenProperties DEF ToSet
<1>3. \A i \in DOMAIN stmts : stmts[i].tag \in Tag
  BY ElementOfSeq, LenProperties DEF HeapOK, Stmt
<1> QED
  BY <1>2, <1>3 DEF TagsOf

LEMMA UpdateMemoType == TypeOK /\ UpdateMemo => TypeOK'
<1> SUFFICES ASSUME TypeOK, UpdateMemo PROVE TypeOK'
  OBVIOUS
<1> DEFINE s == stmts[Body[top.cursor]]
           thn == IF s.kind = "if" THEN TagsOf(s.thn) ELSE {}
           els == IF s.kind = "if" THEN TagsOf(s.els) ELSE {}
           kept == Remembered(thn \cup els)
           found(t) == IF t = s.tag THEN top.block
                       ELSE IF t \in els THEN s.els
                       ELSE IF t \in thn THEN s.thn
                       ELSE memo[t]
           n == top.cursor + 1
<1>1. /\ stack # <<>> /\ top \in Call /\ top \in Frame /\ top.cursor <= Len(Body)
      /\ UNCHANGED <<prog, stmts, blocks, splits, uniques>>
      /\ memo' = [t \in kept \cup {s.tag} |-> found(t)]
      /\ stack' = SetTop([top EXCEPT !.cursor = n])
  BY TopType DEF TypeOK, UpdateMemo, MemoAfter, In
<1>2. top.block \in DOMAIN blocks
  BY <1>1, Fields
<1>3. s \in Stmt
  <2>1. top.cursor \in DOMAIN Body
    BY <1>1, Fields, BodyType, LenProperties
  <2> QED
    BY <1>1, <2>1, BodyType
<1>4. s.kind = "if" => s.thn \in DOMAIN blocks /\ s.els \in DOMAIN blocks
  <2> HIDE DEF s
  <2>1. s.thn \in 0..Len(blocks) /\ s.els \in 0..Len(blocks)
    BY <1>3 DEF Stmt
  <2>2. s.kind = "if" => s.thn # 0 /\ s.els # 0
    BY <1>3 DEF Stmt
  <2>3. DOMAIN blocks = 1..Len(blocks) /\ Len(blocks) \in Nat
    BY LenProperties DEF TypeOK, HeapOK
  <2> QED
    BY <2>1, <2>2, <2>3
<1>5. s.tag \in Tag /\ thn \subseteq Tag /\ els \subseteq Tag
  BY <1>3, <1>4, TagsOfType DEF TypeOK, Stmt
<1>6. kept \subseteq DOMAIN memo \cup thn \cup els
  BY DEF Remembered
<1>7. \A t \in DOMAIN memo : t \in Tag /\ memo[t] \in DOMAIN blocks
  BY DEF TypeOK, MemoOK
<1>8. \A t \in kept \cup {s.tag} : t \in Tag /\ found(t) \in DOMAIN blocks
  <2>1. (thn # {} \/ els # {}) => s.kind = "if"
    OBVIOUS
  <2> HIDE DEF s, thn, els, kept
  <2> QED
    BY <1>2, <1>4, <1>5, <1>6, <1>7, <2>1
<1> HIDE DEF s, thn, els, kept, found
<1>9. MemoOK'
  BY <1>1, <1>8 DEF MemoOK
<1>10. n \in Nat \ {0}
  BY <1>1, Fields
<1> HIDE DEF n
<1>11. [top EXCEPT !.cursor = n] \in Call
  BY <1>1, <1>10, SetCursor
<1>12. Call' = Call /\ Stmt' = Stmt
  BY <1>1 DEF Call, Frame, Stmt
<1>13. stack' \in Seq(Call')
  BY <1>1, <1>11, <1>12, TopChanges DEF TypeOK
<1> QED
  BY <1>1, <1>9, <1>12, <1>13 DEF TypeOK, HeapOK

\* The call that returns and its caller
LEMMA CallerType ==
    ASSUME TypeOK, Finished, Len(stack) > 1
    PROVE  /\ caller \in Call /\ caller \in Frame
           /\ top.block \in 0..Len(blocks) /\ top.block # 0
           /\ SubSeq(stack, 1, Len(stack) - 2) \in Seq(Call)
<1>1. stack \in Seq(Call) /\ stack # <<>> /\ Len(stack) \in Nat
  BY LenProperties DEF TypeOK, Finished, In
<1>2. caller \in Call /\ caller \in Frame
  BY <1>1, ElementOfSeq DEF caller, Call
<1>3. top.block \in DOMAIN blocks /\ DOMAIN blocks = 1..Len(blocks) /\ Len(blocks) \in Nat
  BY <1>1, TopType, Fields, LenProperties DEF TypeOK, HeapOK
<1>4. SubSeq(stack, 1, Len(stack) - 2) \in Seq(Call)
  <2>1. \A i \in 1..(Len(stack) - 2) : stack[i] \in Call
    BY <1>1, ElementOfSeq
  <2> QED
    BY <1>1, <2>1
<1> QED
  BY <1>2, <1>3, <1>4

LEMMA ReturnRootType == TypeOK /\ ReturnRoot => TypeOK'
<1> SUFFICES ASSUME TypeOK, ReturnRoot PROVE TypeOK'
  OBVIOUS
<1>1. stack' = <<>> /\ UNCHANGED <<prog, memo, stmts, blocks, splits, uniques>>
  BY DEF ReturnRoot
<1>2. stack' \in Seq(Call')
  BY <1>1, EmptySeq
<1> QED
  BY <1>1, <1>2 DEF TypeOK, HeapOK, MemoOK, Stmt

LEMMA ReturnThenType == TypeOK /\ ReturnThen => TypeOK'
<1> SUFFICES ASSUME TypeOK, ReturnThen PROVE TypeOK'
  OBVIOUS
<1> DEFINE f == [caller EXCEPT !.phase = "else", !.thn = top.block]
           run == NewRun(Answers(f, FALSE), f, Len(blocks) + 1)
           rest == SubSeq(stack, 1, Len(stack) - 2)
<1>1. /\ caller \in Call /\ caller \in Frame /\ rest \in Seq(Call)
      /\ top.block \in 0..Len(blocks) /\ top.block # 0
      /\ UNCHANGED <<prog, memo, stmts, splits, uniques>>
      /\ blocks' = Append(blocks, <<>>) /\ stack' = rest \o <<f, run>>
  BY CallerType DEF ReturnThen
<1>2. /\ blocks' \in Seq(Seq(DOMAIN stmts)) /\ Len(blocks') = Len(blocks) + 1
      /\ Len(blocks) \in Nat
  <2> HIDE DEF f, run, rest
  <2> QED
    BY <1>1, BlockCreated DEF TypeOK, HeapOK
<1>3. Call \subseteq Call' /\ HeapOK' /\ (stack' \in Seq(Call') => TypeOK')
  <2> HIDE DEF f, run, rest
  <2>1. Len(blocks) <= Len(blocks')
    BY <1>2
  <2> QED
    BY <1>1, <1>2, <2>1, SameStmts
<1>4. top.block \in 0..Len(blocks') /\ Len(blocks) + 1 \in DOMAIN blocks'
  BY <1>1, <1>2, LenProperties, SMTT(30)
<1>5. f \in Call'
  BY <1>1, <1>3, <1>4, SetBranch
<1> HIDE DEF f
<1>6. f \in Frame' /\ f.given \in Seq(BOOLEAN)
  BY <1>5 DEF Call, Frame
<1>7. Answers(f, FALSE) \in Seq(BOOLEAN)
  <2>1. <<FALSE>> \in Seq(BOOLEAN)
    OBVIOUS
  <2> QED
    BY <1>6, <2>1, ConcatProperties DEF Answers
<1>8. run \in Call'
  BY <1>1, <1>3, <1>4, <1>6, <1>7, NewRunType DEF TypeOK
<1> HIDE DEF run, rest
<1>9. rest \in Seq(Call') /\ <<f, run>> \in Seq(Call')
  BY <1>1, <1>3, <1>5, <1>8, SeqMonotonic
<1>10. stack' \in Seq(Call')
  BY <1>1, <1>9, ConcatProperties
<1> QED
  BY <1>3, <1>10

LEMMA ReturnElseType == TypeOK /\ ReturnElse => TypeOK'
<1> SUFFICES ASSUME TypeOK, ReturnElse PROVE TypeOK'
  OBVIOUS
<1> DEFINE f == [caller EXCEPT !.phase = "trim", !.els = top.block]
           rest == SubSeq(stack, 1, Len(stack) - 2)
<1>1. /\ caller \in Call /\ caller.phase = "else" /\ rest \in Seq(Call)
      /\ top.block \in 0..Len(blocks) /\ top.block # 0
      /\ UNCHANGED <<prog, memo, stmts, blocks, splits, uniques>>
      /\ stack' = Append(rest, f)
  BY CallerType DEF ReturnElse
<1>2. Call' = Call /\ Stmt' = Stmt
  BY <1>1, SMTT(30) DEF Call, Frame, Stmt
<1>3. f \in Call'
  BY <1>1, <1>2, SetBranch
<1> HIDE DEF f, rest
<1>4. stack' \in Seq(Call')
  BY <1>1, <1>2, <1>3, AppendProperties
<1> QED
  BY <1>1, <1>2, <1>4 DEF TypeOK, HeapOK, MemoOK

-----------------------------------------------------------------------------
(* Theorems *)

LEMMA TypeInit == Init => TypeOK
<1> SUFFICES ASSUME Init PROVE TypeOK
  OBVIOUS
<1> USE DEF Init
<1>1. prog \in Program /\ splits \in Nat /\ uniques \in Nat
  BY ProgramsAssumption
<1>2. HeapOK
  BY EmptySeq DEF HeapOK
<1>3. MemoOK
  BY DEF MemoOK
<1>4. stack \in Seq(Call)
  <2> DEFINE none == [exprs |-> <<>>, visited |-> {}, copies |-> {}]
             run == NewRun(<<>>, none, 1)
  <2>1. run \in Call
    <3>1. NoTag \in Tag
      BY DEF NoTag, Tag
    <3>2. 1 \in 0..Len(prog.code) /\ 0 \in 0..Len(blocks) /\ 1 \in DOMAIN blocks
      BY <1>1, LenProperties DEF Program
    <3>3. /\ <<>> \in Seq(BOOLEAN) /\ <<>> \in Seq(DOMAIN prog.code)
          /\ <<>> \in Seq(DOMAIN stmts)
      BY EmptySeq
    <3> QED
      BY <3>1, <3>2, <3>3 DEF NewRun, Call, Frame, Phases
  <2>2. stack = <<run>>
    OBVIOUS
  <2> HIDE DEF run, Init
  <2> QED
    BY <2>1, <2>2
<1> QED
  BY <1>1, <1>2, <1>3, <1>4 DEF TypeOK

LEMMA TypeStep == TypeOK /\ [Next]_vars => TypeOK'
<1> SUFFICES ASSUME TypeOK, [Next]_vars PROVE TypeOK'
  OBVIOUS
<1>1. CASE Run
  BY <1>1, CreateExprType, SkipStmtType, AddStmtType, LoopBackType, MemoizeType,
     TakeBoolType, OutOfBoolsType, ReturnType DEF Run
<1>2. CASE Trim
  BY <1>2, TrimCommonType, TrimSplitType, BuildIfType DEF Trim
<1>3. CASE EndOfRun
  BY <1>3, AddQueuedType, AppendTailType, UpdateMemoType,
     ReturnRootType, ReturnThenType, ReturnElseType DEF EndOfRun
<1>4. CASE UNCHANGED vars
  BY <1>4 DEF vars, TypeOK, HeapOK, MemoOK, Call, Frame, Stmt
<1> QED
  BY <1>1, <1>2, <1>3, <1>4 DEF Next, Extract, Extracted

\* Whatever the staged function, every pointer the extraction dereferences is
\* valid, and every variable has its type.
THEOREM TypeCorrect == Spec => []TypeOK
BY TypeInit, TypeStep, PTL DEF Spec

-----------------------------------------------------------------------------
(* The copies of a tag *)

(***************************************************************************)
(* The two maps add_stmt_to_current_block keeps about the statements that  *)
(* share a tag agree: visited_offsets has every copy that                  *)
(* tag_deduplication_map counts.  Both are inherited by every run and only *)
(* grow together, but for erase_tag, which is given tags that are no copy  *)
(* (dedup_id 0).                                                           *)
(***************************************************************************)

\* The maps of a call, and the tag its handler may erase
Kept(f) ==
    /\ f.ifTag.dedup = 0
    /\ \A c \in f.copies :
          /\ c.tag.dedup = 0
          /\ \A d \in 1..(c.n - 1) : \E v \in f.visited : v.tag = Copy(c.tag, d)

\* The inductive invariant
CopiesKept == \A k \in DOMAIN stack : Kept(stack[k])

CInv == TypeOK /\ CopiesKept

-----------------------------------------------------------------------------
(* Calls whose maps are the same *)

LEMMA KeptSame ==
    ASSUME NEW f, NEW g, Kept(f), g.ifTag = f.ifTag, g.visited = f.visited, g.copies = f.copies
    PROVE  Kept(g)
BY DEF Kept

LEMMA TopKept ==
    ASSUME CInv, stack # <<>>
    PROVE  top \in Frame /\ top \in Call /\ Kept(top) /\ DOMAIN stack = 1..Len(stack)
<1>1. stack \in Seq(Call) /\ top \in Frame /\ top \in Call
  BY TopType DEF CInv, TypeOK
<1>2. Len(stack) \in DOMAIN stack /\ DOMAIN stack = 1..Len(stack) /\ top = stack[Len(stack)]
  BY <1>1, EmptySeq, LenProperties DEF top, Last
<1> QED
  BY <1>1, <1>2 DEF CInv, CopiesKept

LEMMA SetTopKept ==
    ASSUME CInv, stack # <<>>, NEW f, Kept(f)
    PROVE  \A k \in DOMAIN SetTop(f) : Kept(SetTop(f)[k])
BY DEF SetTop, CInv, CopiesKept

\* A new run inherits the maps, and has no tag to erase.
LEMMA NewRunKept ==
    ASSUME NEW f, Kept(f), NEW a, NEW b
    PROVE  Kept(NewRun(a, f, b))
BY DEF Kept, NewRun, NoTag

-----------------------------------------------------------------------------
(* Visit *)

\* The tags counted as copies are visited.
LEMMA OtherCopiesVisited ==
    ASSUME Kept(top), NEW s
    PROVE  /\ \A t \in OtherCopies(s) : IsVisited(t)
           /\ Copies(s.tag) # 1 => s.tag.dedup = 0
<1>1. CASE \E c \in top.copies : c.tag = s.tag
  <2>1. PICK c \in top.copies : c.tag = s.tag /\ Copies(s.tag) = c.n
    BY <1>1 DEF Copies
  <2>2. s.tag.dedup = 0 /\ \A d \in 1..(Copies(s.tag) - 1) : IsVisited(Copy(s.tag, d))
    BY <2>1 DEF Kept, IsVisited
  <2> QED
    BY <2>2 DEF OtherCopies
<1>2. CASE ~ \E c \in top.copies : c.tag = s.tag
  <2>1. Copies(s.tag) = 1
    BY <1>2 DEF Copies
  <2>2. OtherCopies(s) = {}
    BY <2>1 DEF OtherCopies
  <2> QED
    BY <2>1, <2>2
<1> QED
  BY <1>1, <1>2

LEMMA CopiesNat ==
    ASSUME top \in Frame, NEW t
    PROVE  Copies(t) \in Nat
BY Fields DEF Copies

LEMMA VisitKept ==
    ASSUME Kept(top), top \in Frame, NEW s, s.tag \in Tag, NEW f \in Frame, NEW i,
           f.ifTag = top.ifTag, f.visited = top.visited, f.copies = top.copies
    PROVE  Kept(Visit(f, i, s))
<1> DEFINE t == StoredTag(s)
           n == Copies(s.tag)
           visited == {v \in f.visited : v.tag # t} \cup {[tag |-> t, stmt |-> i]}
           copies == IF ~ Seen(s) THEN f.copies
                     ELSE {c \in f.copies : c.tag # Copy(t, 0)}
                            \cup {[tag |-> Copy(t, 0), n |-> n + 1]}
           g == Visit(f, i, s)
<1>1. g.ifTag = top.ifTag /\ g.visited = visited /\ g.copies = copies
  BY DEF Visit, Frame
<1>2. \A u : (\E v \in top.visited : v.tag = u) => \E v \in visited : v.tag = u
  <2>1. \A v \in top.visited : v \in visited \/ v.tag = t
    OBVIOUS
  <2>2. \E v \in visited : v.tag = t
    <3>1. [tag |-> t, stmt |-> i] \in visited /\ [tag |-> t, stmt |-> i].tag = t
      OBVIOUS
    <3> QED
      BY <3>1
  <2> HIDE DEF visited, t
  <2> QED
    BY <2>1, <2>2
<1>3. \A c \in top.copies : /\ c.tag.dedup = 0
                            /\ \A d \in 1..(c.n - 1) : \E v \in visited : v.tag = Copy(c.tag, d)
  BY <1>2 DEF Kept
<1>4. CASE Seen(s)
  <2> DEFINE new == [tag |-> Copy(t, 0), n |-> n + 1]
  <2>1. t = Copy(s.tag, n)
    BY <1>4 DEF StoredTag
  <2>2. /\ Copy(t, 0).dedup = 0
        /\ \A d : Copy(Copy(t, 0), d) = Copy(s.tag, d)
    BY <2>1 DEF Copy, Tag
  <2>3. ASSUME NEW d \in 1..n PROVE \E v \in visited : v.tag = Copy(s.tag, d)
    <3>1. CASE d = n
      <4>1. [tag |-> t, stmt |-> i] \in visited /\ [tag |-> t, stmt |-> i].tag = Copy(s.tag, n)
        BY <2>1
      <4> QED
        BY <3>1, <4>1
    <3>2. CASE d # n
      <4>1. d \in 1..(n - 1)
        BY <2>3, <3>2, CopiesNat
      <4>2. IsVisited(Copy(s.tag, d))
        BY <4>1, OtherCopiesVisited DEF OtherCopies
      <4> QED
        BY <1>2, <4>2 DEF IsVisited
    <3> QED
      BY <3>1, <3>2
  <2>4. new.tag.dedup = 0 /\ \A d \in 1..(new.n - 1) : \E v \in visited : v.tag = Copy(new.tag, d)
    <3>1. new.n - 1 = n
      BY CopiesNat
    <3> QED
      BY <2>2, <2>3, <3>1
  <2>5. \A c \in copies : c \in top.copies \/ c = new
    BY <1>4
  <2> HIDE DEF new, visited, copies
  <2> QED
    BY <1>1, <1>3, <2>4, <2>5 DEF Kept
<1>5. CASE ~ Seen(s)
  <2>1. copies = top.copies
    BY <1>5
  <2> QED
    BY <1>1, <1>3, <2>1 DEF Kept
<1> QED
  BY <1>4, <1>5

-----------------------------------------------------------------------------
(* The steps *)

LEMMA RunKept == CInv /\ Run => CopiesKept'
<1> SUFFICES ASSUME CInv, Run PROVE CopiesKept'
  OBVIOUS
<1>1. stack # <<>>
  BY DEF Run, CreateExpr, Creates, SkipStmt, AddStmt, IsNew, LoopBack, Memoize, Offers,
     TakeBool, OutOfBools, Asks, Return, In
<1>2. top \in Frame /\ Kept(top)
  BY <1>1, TopKept
<1>3. ASSUME NEW f, Kept(f), stack' = SetTop(f) PROVE CopiesKept'
  BY <1>1, <1>3, SetTopKept DEF CopiesKept
<1>4. CASE CreateExpr
  <2> DEFINE f == [top EXCEPT !.tested = (Op = "branch"),
                              !.pc = IF Op = "expr" THEN prog.code[@].next ELSE @]
  <2>1. PICK g : /\ stack' = SetTop(g)
                 /\ \/ g = [f EXCEPT !.used = @ + 1]
                    \/ g = [f EXCEPT !.pending = Append(@, top.pc), !.exprs = Append(@, top.pc)]
    BY <1>4 DEF CreateExpr
  <2>2. g.ifTag = top.ifTag /\ g.visited = top.visited /\ g.copies = top.copies
    BY <1>2, <2>1 DEF Frame
  <2> QED
    BY <1>2, <1>3, <2>1, <2>2, KeptSame
<1>5. /\ Passed.ifTag = top.ifTag /\ Passed.visited = top.visited /\ Passed.copies = top.copies
  BY <1>2 DEF Passed, Frame
<1>6. CASE SkipStmt
  BY <1>2, <1>3, <1>5, <1>6, KeptSame DEF SkipStmt
<1>7. CASE AddStmt
  <2>1. Offered.tag \in Tag /\ Passed \in Frame
    BY <1>7, OfferedType DEF CInv, AddStmt, IsNew, Stmt, Call
  <2>2. Kept(Visit(Passed, Len(stmts) + 1, Offered))
    BY <1>2, <1>5, <2>1, VisitKept
  <2> QED
    BY <1>3, <1>7, <2>2 DEF AddStmt
<1>8. ASSUME NEW q, EndWith(q) PROVE CopiesKept'
  <2> DEFINE f == [top EXCEPT !.phase = "add", !.pending = <<>>, !.queue = q]
  <2>1. f.ifTag = top.ifTag /\ f.visited = top.visited /\ f.copies = top.copies
    BY <1>2 DEF Frame
  <2>2. Kept(f)
    BY <1>2, <2>1, KeptSame
  <2> QED
    BY <1>3, <1>8, <2>2 DEF EndWith
<1>9. CASE LoopBack
  BY <1>8, <1>9 DEF LoopBack, EndWithGoto
<1>10. CASE Memoize
  BY <1>8, <1>10 DEF Memoize, EndWithGoto
<1>11. CASE TakeBool
  <2>1. PICK p : stack' = SetTop([top EXCEPT !.bools = Front(@), !.tested = FALSE, !.pc = p])
    BY <1>2, <1>11 DEF TakeBool, Frame
  <2> DEFINE f == [top EXCEPT !.bools = Front(@), !.tested = FALSE, !.pc = p]
  <2>2. f.ifTag = top.ifTag /\ f.visited = top.visited /\ f.copies = top.copies
    BY <1>2 DEF Frame
  <2> QED
    BY <1>2, <1>3, <2>1, <2>2, KeptSame
<1>12. CASE OutOfBools
  <2> DEFINE s == stmts[Last(Body)]
             t == StmtAt(top.pc).tag
             c == [what |-> s.what, var |-> s.var]
             f == [top EXCEPT !.phase = "then", !.ifTag = t, !.cond = c]
             run == NewRun(Answers(f, TRUE), f, Len(blocks) + 1)
  <2>1. stack' = Append(SetTop(f), run)
    BY <1>12 DEF OutOfBools
  <2>2. t.dedup = 0
    BY DEF StmtAt, Statement
  <2>3. f.ifTag = t /\ f.visited = top.visited /\ f.copies = top.copies
    BY <1>2 DEF Frame
  <2>4. Kept(f) /\ Kept(run)
    <3>1. Kept(f)
      BY <1>2, <2>2, <2>3 DEF Kept
    <3> QED
      BY <3>1, NewRunKept
  <2>5. stack \in Seq(Call)
    BY DEF CInv, TypeOK
  <2> HIDE DEF f, run
  <2>6. \A k \in DOMAIN SetTop(f) : Kept(SetTop(f)[k])
    BY <1>1, <2>4, SetTopKept
  <2>7. DOMAIN SetTop(f) = 1..Len(stack) /\ Len(SetTop(f)) = Len(stack) /\ Len(stack) \in Nat
    BY <2>5, LenProperties DEF SetTop
  <2> QED
    BY <2>1, <2>4, <2>6, <2>7 DEF CopiesKept
<1>13. CASE Return
  <2> DEFINE f == [top EXCEPT !.phase = "add"]
             s == Statement("return", Copy(NoTag, uniques + 1), NoWhat, 0)
  <2>1. stack' = SetTop(f) \/ stack' = SetTop(Visit(f, Len(stmts) + 1, s))
    BY <1>13 DEF Return
  <2>2. f.ifTag = top.ifTag /\ f.visited = top.visited /\ f.copies = top.copies
    BY <1>2 DEF Frame
  <2>3. f \in Frame /\ s.tag \in Tag
    <3>1. f \in Frame
      BY <1>2 DEF Frame, Phases
    <3>2. Copy(NoTag, uniques + 1) \in Tag
      BY DEF Copy, NoTag, Tag, CInv, TypeOK
    <3> QED
      BY <3>1, <3>2 DEF Statement
  <2>4. Kept(f) /\ Kept(Visit(f, Len(stmts) + 1, s))
    BY <1>2, <2>2, <2>3, KeptSame, VisitKept
  <2> QED
    BY <1>3, <2>1, <2>4
<1> QED
  BY <1>4, <1>6, <1>7, <1>9, <1>10, <1>11, <1>12, <1>13 DEF Run

LEMMA TrimKept == CInv /\ Trim => CopiesKept'
<1> SUFFICES ASSUME CInv, Trim PROVE CopiesKept'
  OBVIOUS
<1>1. stack # <<>>
  BY DEF Trim, TrimCommon, TrimSplit, BuildIf, Common, Split, BothArms, In
<1>2. top \in Frame /\ Kept(top)
  BY <1>1, TopKept
<1>3. ASSUME NEW f, Kept(f), stack' = SetTop(f) PROVE CopiesKept'
  BY <1>1, <1>3, SetTopKept DEF CopiesKept
<1>4. CASE TrimCommon \/ TrimSplit
  <2>1. PICK q, t : stack' = SetTop([top EXCEPT !.tail = t, !.queue = q])
    <3>1. CASE TrimCommon
      <4> DEFINE t == <<Last(blocks[top.thn])>> \o top.tail
      <4>1. [top EXCEPT !.tail = t] = [top EXCEPT !.tail = t, !.queue = top.queue]
        BY <1>2 DEF Frame
      <4>2. stack' = SetTop([top EXCEPT !.tail = t])
        BY <3>1, <1>2 DEF TrimCommon, Frame
      <4> QED
        BY <4>1, <4>2
    <3>2. CASE TrimSplit
      BY <3>2, <1>2 DEF TrimSplit, Frame
    <3> QED
      BY <1>4, <3>1, <3>2
  <2> DEFINE f == [top EXCEPT !.tail = t, !.queue = q]
  <2>2. f.ifTag = top.ifTag /\ f.visited = top.visited /\ f.copies = top.copies
    BY <1>2 DEF Frame
  <2> QED
    BY <1>2, <1>3, <2>1, <2>2, KeptSame
<1>5. CASE BuildIf
  <2> DEFINE visited == {v \in top.visited : v.tag # top.ifTag}
  <2>1. PICK q, t : stack' = SetTop([top EXCEPT !.phase = "add", !.visited = visited,
                                                !.queue = q, !.tail = t])
    BY <1>2, <1>5 DEF BuildIf, Frame
  <2> DEFINE f == [top EXCEPT !.phase = "add", !.visited = visited, !.queue = q, !.tail = t]
  <2>2. f.ifTag = top.ifTag /\ f.visited = visited /\ f.copies = top.copies
    BY <1>2 DEF Frame
  <2>3. ASSUME NEW c \in top.copies, NEW d \in 1..(c.n - 1)
        PROVE  \E v \in visited : v.tag = Copy(c.tag, d)
    <3>1. PICK v \in top.visited : v.tag = Copy(c.tag, d)
      BY <1>2 DEF Kept
    <3>2. Copy(c.tag, d).dedup # 0
      <4>1. c.tag \in Tag /\ d # 0
        BY <1>2, Fields
      <4> QED
        BY <4>1 DEF Copy, Tag
    <3>3. v.tag # top.ifTag
      BY <1>2, <3>1, <3>2 DEF Kept
    <3> QED
      BY <3>1, <3>3
  <2>4. Kept(f)
    BY <1>2, <2>2, <2>3 DEF Kept
  <2> QED
    BY <1>3, <2>1, <2>4, ZenonT(60)
<1> QED
  BY <1>4, <1>5 DEF Trim

LEMMA EndOfRunKept == CInv /\ EndOfRun => CopiesKept'
<1> SUFFICES ASSUME CInv, EndOfRun PROVE CopiesKept'
  OBVIOUS
<1>1. stack # <<>>
  BY DEF EndOfRun, AddQueued, HasQueued, AppendTail, UpdateMemo, ReturnRoot, ReturnThen,
     ReturnElse, Finished, In
<1>2. top \in Frame /\ top \in Call /\ Kept(top) /\ DOMAIN stack = 1..Len(stack)
  BY <1>1, TopKept
<1>3. ASSUME NEW f, Kept(f), stack' = SetTop(f) PROVE CopiesKept'
  BY <1>1, <1>3, SetTopKept DEF CopiesKept
<1>4. CASE AddQueued
  <2> DEFINE i == Head(top.queue)
             f == Visit(top, i, Queued)
             g == [f EXCEPT !.queue = Tail(@)]
  <2>1. stack' = SetTop(g) /\ top.queue # <<>>
    BY <1>4 DEF AddQueued, HasQueued
  <2>2. Queued.tag \in Tag
    <3>1. i \in DOMAIN stmts
      BY <1>2, <2>1, Fields, HeadTailProperties
    <3>2. stmts[i] \in Stmt
      BY <3>1, ElementOfSeq, LenProperties DEF CInv, TypeOK, HeapOK
    <3> QED
      BY <3>2 DEF Queued, Stmt
  <2>3. Kept(f)
    BY <1>2, <2>2, VisitKept
  <2>4. g.ifTag = f.ifTag /\ g.visited = f.visited /\ g.copies = f.copies
    BY <1>2 DEF Visit, Frame
  <2>5. Kept(g)
    BY <2>3, <2>4, KeptSame
  <2> QED
    BY <1>3, <2>1, <2>5
<1>5. CASE AppendTail
  <2> DEFINE f == [top EXCEPT !.phase = "memo", !.tail = <<>>]
  <2>1. stack' = SetTop(f)
    BY <1>5 DEF AppendTail
  <2>2. f.ifTag = top.ifTag /\ f.visited = top.visited /\ f.copies = top.copies
    BY <1>2 DEF Frame
  <2> QED
    BY <1>2, <1>3, <2>1, <2>2, KeptSame
<1>6. CASE UpdateMemo
  <2>1. stack' = SetTop([top EXCEPT !.cursor = @ + 1])
    BY <1>6 DEF UpdateMemo
  <2> DEFINE f == [top EXCEPT !.cursor = @ + 1]
  <2>2. f.ifTag = top.ifTag /\ f.visited = top.visited /\ f.copies = top.copies
    BY <1>2 DEF Frame
  <2> QED
    BY <1>2, <1>3, <2>1, <2>2, KeptSame
<1>7. CASE ReturnRoot
  BY <1>7 DEF ReturnRoot, CopiesKept
<1> DEFINE rest == SubSeq(stack, 1, Len(stack) - 2)
<1>8. ASSUME Finished, Len(stack) > 1
      PROVE  /\ Kept(caller) /\ caller \in Frame
             /\ rest \in Seq(Call) /\ \A k \in DOMAIN rest : Kept(rest[k])
  <2>1. stack \in Seq(Call) /\ Len(stack) \in Nat
    BY LenProperties DEF CInv, TypeOK
  <2>2. caller \in Frame /\ rest \in Seq(Call)
    BY <1>8, CallerType DEF CInv
  <2>3. Kept(caller)
    BY <1>2, <1>8, <2>1 DEF CInv, CopiesKept, caller
  <2>4. \A k \in DOMAIN rest : k \in DOMAIN stack /\ rest[k] = stack[k]
    BY <1>2, <1>8, <2>1
  <2> QED
    BY <2>2, <2>3, <2>4 DEF CInv, CopiesKept
<1>9. CASE ReturnThen
  <2> DEFINE f == [caller EXCEPT !.phase = "else", !.thn = top.block]
             run == NewRun(Answers(f, FALSE), f, Len(blocks) + 1)
  <2>1. stack' = rest \o <<f, run>> /\ Kept(caller) /\ caller \in Frame
    BY <1>8, <1>9 DEF ReturnThen
  <2>2. f.ifTag = caller.ifTag /\ f.visited = caller.visited /\ f.copies = caller.copies
    BY <2>1 DEF Frame
  <2>3. Kept(f) /\ Kept(run)
    <3>1. Kept(f)
      BY <2>1, <2>2, KeptSame
    <3> QED
      BY <3>1, NewRunKept
  <2>4. rest \in Seq(Call) /\ \A k \in DOMAIN rest : Kept(rest[k])
    BY <1>8, <1>9 DEF ReturnThen
  <2> HIDE DEF f, run, rest
  <2> QED
    BY <2>1, <2>3, <2>4 DEF CopiesKept
<1>10. CASE ReturnElse
  <2> DEFINE f == [caller EXCEPT !.phase = "trim", !.els = top.block]
  <2>1. stack' = Append(rest, f) /\ Kept(caller) /\ caller \in Frame
    BY <1>8, <1>10 DEF ReturnElse
  <2>2. f.ifTag = caller.ifTag /\ f.visited = caller.visited /\ f.copies = caller.copies
    BY <2>1 DEF Frame
  <2>3. Kept(f)
    BY <2>1, <2>2, KeptSame
  <2>4. rest \in Seq(Call) /\ \A k \in DOMAIN rest : Kept(rest[k])
    BY <1>8, <1>10 DEF ReturnElse
  <2> HIDE DEF f, rest
  <2> QED
    BY <2>1, <2>3, <2>4 DEF CopiesKept
<1> QED
  BY <1>4, <1>5, <1>6, <1>7, <1>9, <1>10 DEF EndOfRun

-----------------------------------------------------------------------------
(* Theorems *)

LEMMA KeptInit == Init => CInv
<1> SUFFICES ASSUME Init PROVE CInv
  OBVIOUS
<1> DEFINE run == NewRun(<<>>, [exprs |-> <<>>, visited |-> {}, copies |-> {}], 1)
<1>1. stack = <<run>>
  BY DEF Init
<1>2. Kept(run)
  BY DEF Kept, NewRun, NoTag
<1> HIDE DEF run
<1> QED
  BY <1>1, <1>2, TypeInit DEF CInv, CopiesKept

LEMMA KeptStep == CInv /\ [Next]_vars => CInv'
<1> SUFFICES ASSUME CInv, [Next]_vars PROVE CopiesKept'
  BY TypeStep DEF CInv
<1>1. CASE UNCHANGED vars
  BY <1>1 DEF vars, CInv, CopiesKept
<1> QED
  BY <1>1, RunKept, TrimKept, EndOfRunKept DEF Next, Extract, Extracted

LEMMA NoNullCopy ==
    ASSUME CInv, stack # <<>>, NEW s, s.tag \in Tag
    PROVE  ~ NullCopy(s)
<1>1. Kept(top)
  BY TopKept
<1>2. Stops(s) \subseteq OtherCopies(s) /\ OtherCopies(s) \subseteq Tag
  BY DEF Stops, OtherCopies, Copy, Tag
<1>3. Stops(s) # {} => First(Stops(s)) \in OtherCopies(s)
  BY <1>2, FirstType
<1> QED
  BY <1>1, <1>3, OtherCopiesVisited DEF NullCopy

LEMMA KeptEnough == CInv => CopiesVisited
<1> SUFFICES ASSUME CInv PROVE CopiesVisited
  OBVIOUS
<1>1. ASSUME Offers PROVE ~ NullCopy(Offered)
  <2>1. stack # <<>> /\ Offered.tag \in Tag
    BY <1>1, OfferedType DEF CInv, Stmt
  <2> QED
    BY <2>1, NoNullCopy
<1>2. ASSUME HasQueued PROVE ~ NullCopy(Queued)
  <2>1. stack # <<>> /\ top \in Frame /\ top.queue # <<>>
    BY <1>2, TopKept DEF HasQueued, In
  <2>2. Head(top.queue) \in DOMAIN stmts
    BY <2>1, Fields, HeadTailProperties
  <2>3. Queued \in Stmt
    BY <2>2, ElementOfSeq, LenProperties DEF CInv, TypeOK, HeapOK, Queued
  <2>4. Queued.tag \in Tag
    BY <2>3 DEF Stmt
  <2> QED
    BY <2>1, <2>4, NoNullCopy
<1> QED
  BY <1>1, <1>2 DEF CopiesVisited

\* Whatever the staged function, however its tags clash, the search among the
\* copies of a tag in add_stmt_to_current_block never meets one that has no
\* entry in visited_offsets, which it would dereference.
THEOREM CopiesCorrect == Spec => []CopiesVisited
BY KeptInit, KeptStep, KeptEnough, PTL DEF Spec

-----------------------------------------------------------------------------
(***************************************************************************)
(* A run that catches up does what the run it descends from did.  What a   *)
(* run has done is its history: the moments of the staged function from    *)
(* its entry to where the run is, each of which follows from the one       *)
(* before by the function's code, the expressions created and the answers  *)
(* given.  A call that waits for its branches keeps its answers and its    *)
(* expressions; the run it starts is given both and one answer more, and   *)
(* until that last answer is taken it is at a moment of the waiting call's *)
(* history.                                                                *)
(***************************************************************************)

\* A place in the execution of the staged function: the point, whether its
\* condition exists, and how many expressions and answers came before
Moment == [pc : 0..Len(prog.code), tested : BOOLEAN, created : Nat, taken : Nat]
Begin == [pc |-> 1, tested |-> FALSE, created |-> 0, taken |-> 0]

\* The next expression is the one for point p.
NextIs(exprs, c, p) == c.created < Len(exprs) /\ exprs[c.created + 1] = p

\* The function goes from c to d.
Moves(given, exprs, c, d) ==
    /\ c.pc \in DOMAIN prog.code
    /\ LET p == prog.code[c.pc]
       IN  \/ /\ p.op = "expr" /\ NextIs(exprs, c, c.pc)
              /\ d.pc = p.next /\ ~ d.tested
              /\ d.created = c.created + 1 /\ d.taken = c.taken
           \/ /\ p.op = "branch" /\ ~ c.tested /\ NextIs(exprs, c, c.pc)
              /\ d.pc = c.pc /\ d.tested
              /\ d.created = c.created + 1 /\ d.taken = c.taken
           \/ /\ p.op = "decl"
              /\ d.pc = p.next /\ d.tested = c.tested
              /\ d.created = c.created /\ d.taken = c.taken
           \/ /\ p.op = "branch" /\ c.tested /\ c.taken < Len(given)
              /\ d.pc = IF given[Len(given) - c.taken] THEN p.next ELSE p.other
              /\ ~ d.tested
              /\ d.created = c.created /\ d.taken = c.taken + 1

History(given, exprs, h) ==
    /\ h \in Seq(Moment) /\ h # <<>> /\ h[1] = Begin
    /\ \A i \in 1..(Len(h) - 1) : Moves(given, exprs, h[i], h[i + 1])

\* Where a run that is not catching up is
Present(f) ==
    [pc |-> f.pc, tested |-> f.tested, created |-> Len(f.exprs), taken |-> Len(f.given)]

\* h is what the run f has done.
Past(f, h) == History(f.given, f.exprs, h) /\ h[Len(h)] = Present(f)
Traced(f) == \E h \in Seq(Moment) : Past(f, h)

\* A call that waits for its branches is where it asked for an answer.
Waits(f) ==
    /\ f.phase \in {"then", "else"} /\ f.bools = <<>>
    /\ f.pc \in DOMAIN prog.code /\ prog.code[f.pc].op = "branch" /\ f.tested
    /\ Traced(f)

\* Where a run that is catching up is
Replayed(f) ==
    [pc |-> f.pc, tested |-> f.tested, created |-> f.used,
     taken |-> Len(f.given) - Len(f.bools)]

\* The run f catches up with the waiting call c.
Inherits(f, c) ==
    /\ f.pending = <<>> /\ f.exprs = c.exprs
    /\ Len(f.given) = Len(c.given) + 1
    /\ \A i \in 1..Len(c.given) : f.given[i + 1] = c.given[i]
    /\ Len(f.bools) <= Len(f.given)
    /\ \A i \in 1..Len(f.bools) : f.bools[i] = f.given[i]
Replays(f, c) ==
    /\ Inherits(f, c)
    /\ \E h \in Seq(Moment) : Past(c, h) /\ \E i \in 1..Len(h) : h[i] = Replayed(f)

WaitingAligned == \A k \in 1..(Len(stack) - 1) : Waits(stack[k])
RunAligned(s, f) ==
    IF f.bools = <<>> THEN Traced(f) ELSE Len(s) > 1 /\ Replays(f, s[Len(s) - 1])
TopAligned == In("run") => RunAligned(stack, top)

\* The inductive invariant
IInv == TypeOK /\ WaitingAligned /\ TopAligned

-----------------------------------------------------------------------------
(* Histories *)

LEMMA HistoryGrows ==
    ASSUME NEW given, NEW exprs, NEW h, History(given, exprs, h), NEW d \in Moment,
           Moves(given, exprs, h[Len(h)], d)
    PROVE  /\ Append(h, d) \in Seq(Moment) /\ History(given, exprs, Append(h, d))
           /\ Append(h, d)[Len(Append(h, d))] = d
<1> DEFINE g == Append(h, d)
<1>1. h \in Seq(Moment) /\ Len(h) \in Nat \ {0}
  BY EmptySeq DEF History
<1>2. g \in Seq(Moment) /\ Len(g) = Len(h) + 1 /\ g[Len(h) + 1] = d
  BY <1>1
<1>3. \A i \in 1..Len(h) : g[i] = h[i]
  BY <1>1
<1> HIDE DEF g
<1>4. ASSUME NEW i \in 1..(Len(g) - 1) PROVE Moves(given, exprs, g[i], g[i + 1])
  <2>1. CASE i = Len(h)
    BY <1>1, <1>2, <1>3, <2>1
  <2>2. CASE i # Len(h)
    <3>1. i \in 1..(Len(h) - 1) /\ i \in 1..Len(h) /\ i + 1 \in 1..Len(h)
      BY <1>1, <1>2, <2>2
    <3> QED
      BY <1>3, <3>1 DEF History
  <2> QED
    BY <2>1, <2>2
<1>5. g # <<>> /\ g[1] = Begin
  BY <1>1, <1>2, <1>3 DEF History
<1>6. History(given, exprs, g)
  BY <1>2, <1>4, <1>5 DEF History
<1> QED
  BY <1>1, <1>2, <1>6 DEF g

\* A history stays one when more is created and when one answer more is given.
LEMMA MovesStill ==
    ASSUME NEW given \in Seq(BOOLEAN), NEW exprs \in Seq(DOMAIN prog.code),
           NEW given2 \in Seq(BOOLEAN), NEW exprs2 \in Seq(DOMAIN prog.code),
           Len(exprs) <= Len(exprs2), \A i \in 1..Len(exprs) : exprs2[i] = exprs[i],
           \/ given2 = given
           \/ /\ Len(given2) = Len(given) + 1
              /\ \A i \in 1..Len(given) : given2[i + 1] = given[i],
           NEW h, History(given, exprs, h)
    PROVE  History(given2, exprs2, h)
<1>1. ASSUME NEW i \in 1..(Len(h) - 1) PROVE Moves(given2, exprs2, h[i], h[i + 1])
  <2> DEFINE c == h[i]
             d == h[i + 1]
  <2>1. Moves(given, exprs, c, d) /\ c \in Moment
    BY ElementOfSeq DEF History
  <2> HIDE DEF c, d
  <2>2. c.created \in Nat /\ c.taken \in Nat /\ Len(exprs) \in Nat /\ Len(given) \in Nat
    BY <2>1 DEF Moment
  <2>3. ASSUME NEW p, NextIs(exprs, c, p) PROVE NextIs(exprs2, c, p)
    <3>1. c.created + 1 \in 1..Len(exprs)
      BY <2>2, <2>3 DEF NextIs
    <3> QED
      BY <2>2, <2>3, <3>1 DEF NextIs
  <2>4. c.taken < Len(given) =>
          c.taken < Len(given2) /\ given2[Len(given2) - c.taken] = given[Len(given) - c.taken]
    <3>1. CASE given2 = given
      BY <3>1
    <3>2. CASE /\ Len(given2) = Len(given) + 1
               /\ \A j \in 1..Len(given) : given2[j + 1] = given[j]
      <4>1. c.taken < Len(given) => Len(given) - c.taken \in 1..Len(given)
        BY <2>2
      <4>2. Len(given2) - c.taken = (Len(given) - c.taken) + 1
        BY <2>2, <3>2
      <4> QED
        BY <2>2, <3>2, <4>1, <4>2, SMTT(30)
    <3> QED
      BY <3>1, <3>2
  <2>5. Moves(given2, exprs2, c, d)
    BY <2>1, <2>3, <2>4 DEF Moves
  <2> QED
    BY <2>5 DEF c, d
<1> QED
  BY <1>1 DEF History

-----------------------------------------------------------------------------
(* The innermost call *)

LEMMA TopAt ==
    ASSUME IInv, stack # <<>>
    PROVE  /\ top \in Call /\ top \in Frame
           /\ Len(stack) \in Nat \ {0} /\ stack \in Seq(Call) /\ top = stack[Len(stack)]
           /\ top.given \in Seq(BOOLEAN) /\ top.bools \in Seq(BOOLEAN)
           /\ top.exprs \in Seq(DOMAIN prog.code)
           /\ top.pc \in 0..Len(prog.code) /\ top.tested \in BOOLEAN
BY TopType, Fields, EmptySeq DEF IInv, TypeOK, top, Last, Frame

LEMMA HistorySame ==
    ASSUME prog' = prog
    PROVE  /\ Moment' = Moment
           /\ \A given, exprs, h : History(given, exprs, h)' <=> History(given, exprs, h)
BY DEF History, Moves, Moment

LEMMA RunSame ==
    ASSUME prog' = prog
    PROVE  /\ \A f : Traced(f)' <=> Traced(f)
           /\ \A f : Waits(f)' <=> Waits(f)
           /\ \A f, c : Replays(f, c)' <=> Replays(f, c)
<1>1. \A f, h : Past(f, h)' <=> Past(f, h)
  BY HistorySame DEF Past, Present
<1>2. \A f : Traced(f)' <=> Traced(f)
  BY <1>1, HistorySame DEF Traced
<1>3. \A f : Waits(f)' <=> Waits(f)
  BY <1>2 DEF Waits
<1>4. \A f, c : Replays(f, c)' <=> Replays(f, c)
  BY <1>1, HistorySame DEF Replays, Inherits, Replayed
<1> QED
  BY <1>2, <1>3, <1>4

\* A step that changes the innermost call to f
LEMMA TopStep ==
    ASSUME IInv, stack # <<>>, prog' = prog, NEW f, stack' = SetTop(f),
           f.phase = "run" => RunAligned(stack, f)
    PROVE  WaitingAligned' /\ TopAligned'
<1>1. Len(stack) \in Nat \ {0} /\ stack \in Seq(Call)
  BY TopAt
<1>2. /\ Len(stack') = Len(stack) /\ stack'[Len(stack)] = f
      /\ \A k \in 1..(Len(stack) - 1) : stack'[k] = stack[k]
  BY <1>1 DEF SetTop
<1>3. WaitingAligned'
  <2>1. \A k \in 1..(Len(stack) - 1) : Waits(stack'[k])
    BY <1>2 DEF IInv, WaitingAligned
  <2>2. \A k \in 1..(Len(stack') - 1) : Waits(stack[k])'
    BY <1>2, <2>1, RunSame
  <2> QED
    BY <2>2 DEF WaitingAligned
<1>4. top' = f
  BY <1>2 DEF top, Last
<1>5. Len(stack) > 1 => stack'[Len(stack') - 1] = stack[Len(stack) - 1]
  BY <1>1, <1>2
<1>6. TopAligned'
  <2>1. RunAligned(stack, f) => RunAligned(stack, top)'
    BY <1>1, <1>2, <1>4, <1>5, RunSame DEF RunAligned
  <2> QED
    BY <1>4, <2>1 DEF TopAligned, In
<1> QED
  BY <1>3, <1>6

\* Where the answers, the expressions and the place stay
LEMMA SameRun ==
    ASSUME NEW f, NEW g, f.given = g.given, f.bools = g.bools, f.exprs = g.exprs,
           f.pc = g.pc, f.tested = g.tested, f.used = g.used,
           g.bools # <<>> => f.pending = g.pending,
           RunAligned(stack, g)
    PROVE  RunAligned(stack, f)
BY DEF RunAligned, Traced, Past, Present, Replays, Inherits, Replayed

LEMMA BeginType ==
    ASSUME TypeOK PROVE Begin \in Moment /\ <<Begin>> \in Seq(Moment)
<1>1. Begin \in Moment
  BY LenProperties DEF TypeOK, Program, Begin, Moment
<1> QED
  BY <1>1

-----------------------------------------------------------------------------
(* A run that is not catching up *)

\* Its history grows with it.
LEMMA TopMoves ==
    ASSUME IInv, In("run"), ~ CatchingUp, NEW f, f.given = top.given, f.bools = <<>>,
           f.exprs \in Seq(DOMAIN prog.code), Len(top.exprs) <= Len(f.exprs),
           \A i \in 1..Len(top.exprs) : f.exprs[i] = top.exprs[i],
           f.pc \in 0..Len(prog.code), f.tested \in BOOLEAN,
           Moves(f.given, f.exprs, Present(top), Present(f))
    PROVE  RunAligned(stack, f)
<1>1. PICK h \in Seq(Moment) : Past(top, h)
  BY DEF IInv, TopAligned, RunAligned, CatchingUp, Traced
<1>2. top.given \in Seq(BOOLEAN) /\ top.exprs \in Seq(DOMAIN prog.code)
  BY TopAt DEF In
<1>3. History(f.given, f.exprs, h) /\ h[Len(h)] = Present(top)
  BY <1>1, <1>2, MovesStill DEF Past
<1>4. Present(f) \in Moment
  BY <1>2, LenProperties DEF Present, Moment
<1>5. Append(h, Present(f)) \in Seq(Moment) /\ Past(f, Append(h, Present(f)))
  BY <1>3, <1>4, HistoryGrows DEF Past
<1> QED
  BY <1>5 DEF RunAligned, Traced

-----------------------------------------------------------------------------
(* A run that is catching up *)

\* The answers left
LEMMA OneLeft ==
    ASSUME NEW g, NEW b \in Nat, NEW c \in Nat, g = c + 1
    PROVE  /\ g - b = c => b = 1
           /\ g - b < c => b # 1
OBVIOUS

\* It is at moment i of its caller's history h: on its way to where the caller
\* waits, or there.
OnTrack(h, i) ==
    /\ Past(caller, h) /\ h[i] = Replayed(top)
    /\ i < Len(h) => /\ Moves(caller.given, caller.exprs, h[i], h[i + 1])
                     /\ i + 1 \in 1..Len(h) /\ h[i + 1] \in Moment
    /\ i = Len(h) => /\ Op = "branch" /\ top.tested
                     /\ top.used = Len(top.exprs) /\ Len(top.bools) = 1

LEMMA Behind ==
    ASSUME IInv, In("run"), CatchingUp
    PROVE  /\ Len(stack) > 1 /\ caller \in Call /\ Inherits(top, caller) /\ Waits(caller)
           /\ caller.given \in Seq(BOOLEAN) /\ caller.exprs \in Seq(DOMAIN prog.code)
           /\ Len(top.bools) \in Nat \ {0} /\ top.used \in Nat
           /\ \E h \in Seq(Moment) : \E i \in 1..Len(h) : OnTrack(h, i)
<1>1. /\ Len(stack) \in Nat /\ stack \in Seq(Call) /\ top \in Frame
      /\ top.given \in Seq(BOOLEAN) /\ top.bools \in Seq(BOOLEAN) /\ stack # <<>>
  BY TopAt DEF In
<1>2. Len(stack) > 1 /\ Replays(top, caller)
  BY DEF IInv, TopAligned, RunAligned, CatchingUp, caller
<1>3. caller \in Call /\ Waits(caller)
  BY <1>1, <1>2 DEF caller, IInv, WaitingAligned
<1>4. caller.given \in Seq(BOOLEAN) /\ caller.exprs \in Seq(DOMAIN prog.code)
  BY <1>3, Fields DEF Call
<1>5. Len(top.bools) \in Nat \ {0} /\ top.used \in Nat
  BY <1>1, Fields, EmptySeq DEF CatchingUp
<1>6. PICK h \in Seq(Moment) : Past(caller, h) /\ \E i \in 1..Len(h) : h[i] = Replayed(top)
  BY <1>2 DEF Replays
<1>7. PICK i \in 1..Len(h) : h[i] = Replayed(top)
  BY <1>6
<1>8. ASSUME i < Len(h)
      PROVE  /\ Moves(caller.given, caller.exprs, h[i], h[i + 1])
             /\ i + 1 \in 1..Len(h) /\ h[i + 1] \in Moment
  <2>1. i \in 1..(Len(h) - 1) /\ i + 1 \in 1..Len(h)
    BY <1>8
  <2> QED
    BY <1>6, <2>1, ElementOfSeq DEF Past, History
<1>9. ASSUME i = Len(h)
      PROVE  Op = "branch" /\ top.tested /\ top.used = Len(top.exprs) /\ Len(top.bools) = 1
  <2>1. Replayed(top) = Present(caller)
    BY <1>6, <1>7, <1>9 DEF Past
  <2>2. /\ top.pc = caller.pc /\ top.tested = caller.tested /\ top.used = Len(caller.exprs)
        /\ Len(top.given) - Len(top.bools) = Len(caller.given)
    BY <2>1 DEF Replayed, Present
  <2>3. top.pc # 0
    BY <1>3, <2>2, LenProperties DEF Waits, IInv, TypeOK, Program
  <2>4. Len(top.given) = Len(caller.given) + 1 /\ Len(caller.given) \in Nat
    BY <1>2, <1>4 DEF Replays, Inherits
  <2>5. Len(top.bools) = 1 /\ top.used = Len(top.exprs)
    <3>1. Len(top.given) \in Nat /\ top.exprs = caller.exprs
      BY <1>1, <1>2 DEF Replays, Inherits
    <3>2. /\ Len(top.bools) \in Nat /\ Len(caller.given) \in Nat
          /\ Len(top.given) = Len(caller.given) + 1
      BY <1>5, <2>4
    <3>3. Len(top.given) - Len(top.bools) = Len(caller.given)
      BY <2>2
    <3>4. Len(top.bools) = 1
      BY <3>2, <3>3, OneLeft
    <3> QED
      BY <2>2, <3>1, <3>4
  <2> QED
    BY <1>3, <2>2, <2>3, <2>5 DEF Waits, Op, Exit
<1>10. OnTrack(h, i)
  BY <1>6, <1>7, <1>8, <1>9 DEF OnTrack
<1> QED
  BY <1>2, <1>3, <1>4, <1>5, <1>10 DEF Replays

\* A step along the caller's history
LEMMA ReplayMoves ==
    ASSUME IInv, In("run"), CatchingUp, NEW f, f.given = top.given, f.bools # <<>>,
           Inherits(f, caller),
           NEW h \in Seq(Moment), Past(caller, h), NEW i \in 1..Len(h), h[i] = Replayed(f)
    PROVE  RunAligned(stack, f)
BY Behind DEF RunAligned, Replays, caller

LEMMA ReplayHolds == IInv => ReplayAligned
<1> SUFFICES ASSUME IInv, In("run"), CatchingUp
             PROVE  /\ top.pending = <<>> /\ Op # "exit"
                    /\ Creates => top.used < Len(top.exprs) /\ top.exprs[top.used + 1] = top.pc
                    /\ Asks /\ Len(top.bools) = 1 => top.used = Len(top.exprs)
  BY DEF ReplayAligned
<1>1. PICK h \in Seq(Moment) : \E i \in 1..Len(h) : OnTrack(h, i)
  BY Behind
<1>2. PICK i \in 1..Len(h) : OnTrack(h, i)
  BY <1>1
<1>3. /\ Inherits(top, caller) /\ caller.given \in Seq(BOOLEAN)
      /\ top.given \in Seq(BOOLEAN) /\ Len(top.bools) \in Nat \ {0}
      /\ top.exprs = caller.exprs /\ Len(top.given) = Len(caller.given) + 1
      /\ DOMAIN prog.code = 1..Len(prog.code)
  BY Behind, TopAt, LenProperties DEF In, Inherits, IInv, TypeOK, Program
<1>4. CASE i = Len(h)
  BY <1>2, <1>3, <1>4 DEF OnTrack, Creates, Inherits
<1>5. CASE i < Len(h)
  <2>1. Moves(caller.given, caller.exprs, Replayed(top), h[i + 1])
    BY <1>2, <1>5 DEF OnTrack
  <2>2. top.pc \in DOMAIN prog.code /\ Op = prog.code[top.pc].op
    BY <1>3, <2>1 DEF Moves, Replayed, Op, Exit
  <2>3. Op # "exit"
    BY <2>1, <2>2 DEF Moves, Replayed
  <2>4. Creates => top.used < Len(top.exprs) /\ top.exprs[top.used + 1] = top.pc
    BY <1>3, <2>1, <2>2 DEF Moves, Replayed, NextIs, Creates
  <2>5. Asks => Len(top.bools) # 1
    <3>1. Asks => Len(top.given) - Len(top.bools) < Len(caller.given)
      BY <2>1, <2>2 DEF Moves, Replayed, Asks
    <3>2. Len(caller.given) \in Nat
      BY <1>3
    <3> QED
      BY <1>3, <3>1, <3>2, OneLeft
  <2> QED
    BY <1>3, <2>3, <2>4, <2>5 DEF Inherits
<1> QED
  BY <1>4, <1>5

-----------------------------------------------------------------------------
(* The steps *)

\* Sequences
LEMMA Prefixed ==
    ASSUME NEW s \in Seq(BOOLEAN), NEW a \in BOOLEAN
    PROVE  /\ <<a>> \o s \in Seq(BOOLEAN) /\ Len(<<a>> \o s) = Len(s) + 1 /\ Len(s) \in Nat
           /\ \A i \in 1..Len(s) : (<<a>> \o s)[i + 1] = s[i]
OBVIOUS
LEMMA Cut ==
    ASSUME NEW S, NEW s \in Seq(S), NEW n \in Nat, n < Len(s)
    PROVE  /\ SubSeq(s, 1, n) \in Seq(S) /\ Len(SubSeq(s, 1, n)) = n
           /\ \A k \in 1..n : SubSeq(s, 1, n)[k] = s[k]
OBVIOUS

LEMMA CreateExprAligned == IInv /\ CreateExpr => WaitingAligned' /\ TopAligned'
<1> SUFFICES ASSUME IInv, CreateExpr PROVE WaitingAligned' /\ TopAligned'
  OBVIOUS
<1> DEFINE b == (Op = "branch")
           p == IF Op = "expr" THEN prog.code[top.pc].next ELSE top.pc
           f == [top EXCEPT !.tested = b, !.pc = p]
           e == Append(top.exprs, top.pc)
           g == IF CatchingUp THEN [f EXCEPT !.used = @ + 1]
                ELSE [f EXCEPT !.pending = Append(@, top.pc), !.exprs = e]
<1>1. /\ stack # <<>> /\ In("run") /\ top \in Frame /\ Op \in {"expr", "branch"}
      /\ top.given \in Seq(BOOLEAN) /\ top.exprs \in Seq(DOMAIN prog.code)
      /\ top.bools \in Seq(BOOLEAN) /\ Creates /\ prog' = prog
  BY TopAt DEF CreateExpr, Creates, In
<1>2. top.pc \in DOMAIN prog.code /\ Op = prog.code[top.pc].op
  <2>1. top.pc \in DOMAIN prog.code
    BY <1>1, PcType DEF IInv
  <2> QED
    BY <1>1, <2>1 DEF Op
<1>3. p \in 0..Len(prog.code) /\ b \in BOOLEAN
  BY <1>1, <1>2, PointType, Fields DEF IInv, TypeOK
<1>4. stack' = SetTop(g)
  BY <1>1 DEF CreateExpr, Frame
<1>5. ~ CatchingUp => RunAligned(stack, g)
  <2> SUFFICES ASSUME ~ CatchingUp PROVE RunAligned(stack, g)
    OBVIOUS
  <2>1. /\ g.given = top.given /\ g.bools = <<>> /\ g.exprs = e
        /\ g.pc = p /\ g.tested = b
    BY <1>1 DEF CatchingUp, Frame
  <2>2. /\ e \in Seq(DOMAIN prog.code) /\ Len(e) = Len(top.exprs) + 1
        /\ Len(top.exprs) \in Nat /\ e[Len(top.exprs) + 1] = top.pc
        /\ \A i \in 1..Len(top.exprs) : e[i] = top.exprs[i]
    <3>1. top.exprs \in Seq(DOMAIN prog.code) /\ top.pc \in DOMAIN prog.code
      BY <1>1, <1>2
    <3>2. e \in Seq(DOMAIN prog.code)
      BY <3>1, AppendProperties
    <3>3. Len(e) = Len(top.exprs) + 1 /\ Len(top.exprs) \in Nat
      BY <3>1
    <3>4. e[Len(top.exprs) + 1] = top.pc
      BY <3>1
    <3>5. \A i \in 1..Len(top.exprs) : e[i] = top.exprs[i]
      BY <3>1
    <3> QED
      BY <3>2, <3>3, <3>4, <3>5
  <2> HIDE DEF g, f, e
  <2> DEFINE c == Present(top)
             d == Present(g)
  <2>3. /\ c.pc = top.pc /\ c.tested = top.tested
        /\ c.created = Len(top.exprs) /\ c.taken = Len(top.given)
        /\ d.pc = p /\ d.tested = b /\ d.created = Len(top.exprs) + 1
        /\ d.taken = Len(top.given)
    BY <2>1, <2>2 DEF Present
  <2> HIDE DEF c, d
  <2>4. NextIs(g.exprs, c, top.pc)
    BY <2>1, <2>2, <2>3 DEF NextIs
  <2>5. Moves(g.given, g.exprs, c, d)
    BY <1>1, <1>2, <2>3, <2>4 DEF Moves, Creates
  <2>6. /\ g.exprs \in Seq(DOMAIN prog.code) /\ Len(top.exprs) <= Len(g.exprs)
        /\ \A i \in 1..Len(top.exprs) : g.exprs[i] = top.exprs[i]
        /\ g.pc \in 0..Len(prog.code) /\ g.tested \in BOOLEAN
    BY <1>3, <2>1, <2>2
  <2> QED
    BY <1>1, <2>1, <2>5, <2>6, TopMoves DEF c, d
<1>6. CatchingUp => RunAligned(stack, g)
  <2> SUFFICES ASSUME CatchingUp PROVE RunAligned(stack, g)
    OBVIOUS
  <2>1. PICK h \in Seq(Moment) : \E i \in 1..Len(h) : OnTrack(h, i)
    BY <1>1, Behind
  <2>2. PICK i \in 1..Len(h) : OnTrack(h, i)
    BY <2>1
  <2>3. i < Len(h)
    BY <1>1, <2>2 DEF OnTrack, Creates
  <2>4. /\ Moves(caller.given, caller.exprs, Replayed(top), h[i + 1])
        /\ i + 1 \in 1..Len(h) /\ h[i + 1] \in Moment
    BY <2>2, <2>3 DEF OnTrack
  <2>5. /\ g.given = top.given /\ g.bools = top.bools /\ g.exprs = top.exprs
        /\ g.pending = top.pending /\ g.pc = p /\ g.tested = b /\ g.used = top.used + 1
    BY <1>1 DEF Frame
  <2> HIDE DEF g, f, e
  <2>6. h[i + 1] = Replayed(g)
    BY <1>1, <1>2, <2>4, <2>5 DEF Moves, Replayed, Moment, Creates
  <2>7. Inherits(g, caller) /\ g.bools # <<>>
    BY <1>1, <2>5, Behind DEF Inherits, CatchingUp
  <2> QED
    BY <1>1, <2>2, <2>4, <2>5, <2>6, <2>7, ReplayMoves DEF OnTrack
<1> HIDE DEF g
<1> QED
  BY <1>1, <1>4, <1>5, <1>6, TopStep

\* The run after an offered statement
LEMMA PassedFields ==
    ASSUME IInv, Offers
    PROVE  /\ stack # <<>> /\ In("run") /\ top \in Frame /\ Passed \in Frame
           /\ Passed.phase = "run" /\ Passed.given = top.given /\ Passed.bools = top.bools
           /\ Passed.exprs = top.exprs /\ Passed.tested = top.tested
           /\ Passed.used = top.used
           /\ top.pending # <<>> => Passed.pc = top.pc
           /\ top.pending = <<>> =>
                 /\ top.pc \in DOMAIN prog.code /\ prog.code[top.pc].op = "decl"
                 /\ Passed.pc = prog.code[top.pc].next /\ Passed.pending = top.pending
<1>1. stack # <<>> /\ In("run") /\ top \in Frame /\ Passed \in Frame /\ top.phase = "run"
  BY OfferedType DEF IInv, Offers, In, Call
<1>2. top.pending = <<>> => Op = "decl"
  BY DEF Offers
<1>3. Op = "decl" => top.pc \in DOMAIN prog.code /\ prog.code[top.pc].op = "decl"
  BY <1>1, PcType DEF IInv, Op
<1> QED
  BY <1>1, <1>2, <1>3 DEF Passed, Frame

LEMMA SkipStmtAligned == IInv /\ SkipStmt => WaitingAligned' /\ TopAligned'
<1> SUFFICES ASSUME IInv, SkipStmt PROVE WaitingAligned' /\ TopAligned'
  OBVIOUS
<1> DEFINE g == Passed
<1>1. /\ Offers /\ CatchingUp /\ stack # <<>> /\ In("run") /\ top \in Frame
      /\ prog' = prog /\ stack' = SetTop(g)
  BY PassedFields DEF SkipStmt
<1>2. PICK h \in Seq(Moment) : \E i \in 1..Len(h) : OnTrack(h, i)
  BY <1>1, Behind
<1>3. PICK i \in 1..Len(h) : OnTrack(h, i)
  BY <1>2
<1>4. Inherits(top, caller) /\ top.pending = <<>>
  BY <1>1, Behind DEF Inherits
<1>5. /\ top.pc \in DOMAIN prog.code /\ prog.code[top.pc].op = "decl" /\ Op = "decl"
      /\ g.pc = prog.code[top.pc].next /\ g.given = top.given /\ g.bools = top.bools
      /\ g.exprs = top.exprs /\ g.tested = top.tested /\ g.used = top.used
      /\ g.pending = top.pending
  BY <1>1, <1>4, PassedFields DEF Offers
<1>6. i < Len(h)
  BY <1>3, <1>5 DEF OnTrack
<1>7. /\ Moves(caller.given, caller.exprs, Replayed(top), h[i + 1])
      /\ i + 1 \in 1..Len(h) /\ h[i + 1] \in Moment
  BY <1>3, <1>6 DEF OnTrack
<1> HIDE DEF g
<1>8. h[i + 1] = Replayed(g)
  BY <1>5, <1>7 DEF Moves, Replayed, Moment
<1>9. Inherits(g, caller) /\ g.bools # <<>>
  BY <1>1, <1>4, <1>5 DEF Inherits, CatchingUp
<1>10. RunAligned(stack, g)
  BY <1>1, <1>3, <1>5, <1>7, <1>8, <1>9, ReplayMoves DEF OnTrack
<1> QED
  BY <1>1, <1>10, TopStep

LEMMA AddStmtAligned == IInv /\ AddStmt => WaitingAligned' /\ TopAligned'
<1> SUFFICES ASSUME IInv, AddStmt PROVE WaitingAligned' /\ TopAligned'
  OBVIOUS
<1> DEFINE g == Visit(Passed, Len(stmts) + 1, Offered)
<1>1. /\ Offers /\ ~ CatchingUp /\ prog' = prog /\ stack' = SetTop(g)
  BY DEF AddStmt, IsNew
<1>2. /\ stack # <<>> /\ In("run") /\ top \in Frame /\ Passed \in Frame
      /\ top.exprs \in Seq(DOMAIN prog.code) /\ top.tested \in BOOLEAN
      /\ RunAligned(stack, top)
  BY <1>1, PassedFields, TopAt DEF IInv, TopAligned
<1>3. /\ g.given = top.given /\ g.bools = <<>> /\ g.exprs = top.exprs
      /\ g.tested = top.tested /\ g.used = top.used /\ g.pc = Passed.pc
  BY <1>1, <1>2, PassedFields DEF Visit, Frame, CatchingUp
<1> HIDE DEF g
<1>4. CASE top.pending # <<>>
  BY <1>1, <1>2, <1>3, <1>4, PassedFields, SameRun, TopStep DEF CatchingUp
<1>5. CASE top.pending = <<>>
  <2>1. /\ top.pc \in DOMAIN prog.code /\ prog.code[top.pc].op = "decl"
        /\ g.pc = prog.code[top.pc].next
    BY <1>1, <1>3, <1>5, PassedFields
  <2>2. g.pc \in 0..Len(prog.code) /\ Len(top.exprs) \in Nat
    BY <1>2, <2>1, PointType DEF IInv, TypeOK
  <2>3. Moves(g.given, g.exprs, Present(top), Present(g))
    BY <1>3, <2>1 DEF Moves, Present
  <2>4. RunAligned(stack, g)
    BY <1>1, <1>2, <1>3, <2>2, <2>3, TopMoves
  <2> QED
    BY <1>1, <1>2, <2>4, TopStep
<1> QED
  BY <1>4, <1>5

LEMMA TakeBoolAligned == IInv /\ TakeBool => WaitingAligned' /\ TopAligned'
<1> SUFFICES ASSUME IInv, TakeBool PROVE WaitingAligned' /\ TopAligned'
  OBVIOUS
<1> DEFINE s == Front(top.bools)
           p == IF Last(top.bools) THEN prog.code[top.pc].next ELSE prog.code[top.pc].other
           g == [top EXCEPT !.bools = s, !.tested = FALSE, !.pc = p]
           n == Len(top.bools)
<1>1. /\ Asks /\ CatchingUp /\ In("run") /\ stack # <<>> /\ top \in Frame /\ prog' = prog
      /\ top.bools \in Seq(BOOLEAN) /\ top.given \in Seq(BOOLEAN)
      /\ top.exprs \in Seq(DOMAIN prog.code) /\ top.bools # <<>>
      /\ Op = "branch" /\ top.tested
  BY TopAt DEF TakeBool, Asks, In, CatchingUp
<1>2. stack' = SetTop(g)
  BY <1>1 DEF TakeBool, Frame
<1>3. top.pc \in DOMAIN prog.code /\ prog.code[top.pc].op = "branch"
  <2>1. top.pc \in DOMAIN prog.code
    BY <1>1, PcType DEF IInv
  <2> QED
    BY <1>1, <2>1 DEF Op
<1>4. p \in 0..Len(prog.code)
  BY <1>3, PointType DEF IInv, TypeOK
<1>5. /\ n \in Nat \ {0} /\ s \in Seq(BOOLEAN) /\ Len(s) = n - 1
      /\ \A i \in 1..Len(s) : s[i] = top.bools[i]
      /\ Last(top.bools) = top.bools[n]
  BY <1>1, EmptySeq DEF Front, Last
<1>6. /\ Inherits(top, caller) /\ Waits(caller) /\ caller.given \in Seq(BOOLEAN)
      /\ caller.exprs \in Seq(DOMAIN prog.code) /\ top.used \in Nat
  BY <1>1, Behind
<1>7. /\ n <= Len(top.given) /\ Last(top.bools) = top.given[n]
      /\ Len(top.given) = Len(caller.given) + 1 /\ Len(caller.given) \in Nat
      /\ top.exprs = caller.exprs
  <2>1. n \in 1..n
    BY <1>5
  <2>2. n <= Len(top.given) /\ top.bools[n] = top.given[n]
    BY <1>6, <2>1 DEF Inherits
  <2>3. Len(top.given) = Len(caller.given) + 1 /\ top.exprs = caller.exprs
    BY <1>6 DEF Inherits
  <2>4. Len(caller.given) \in Nat
    BY <1>6
  <2> QED
    BY <1>5, <2>2, <2>3, <2>4
<1>8. PICK h \in Seq(Moment) : \E i \in 1..Len(h) : OnTrack(h, i)
  BY <1>1, Behind
<1>9. PICK i \in 1..Len(h) : OnTrack(h, i)
  BY <1>8
<1>10. /\ g.given = top.given /\ g.bools = s /\ g.exprs = top.exprs
       /\ g.pending = top.pending /\ g.pc = p /\ ~ g.tested /\ g.used = top.used
       /\ g.tested \in BOOLEAN
  BY <1>1 DEF Frame
<1> HIDE DEF g, s, p, n
<1>11. CASE i = Len(h)
  <2>1. n = 1 /\ g.bools = <<>> /\ top.used = Len(top.exprs)
    BY <1>5, <1>9, <1>10, <1>11, EmptySeq DEF OnTrack, n
  <2>2. Past(caller, h) /\ h[Len(h)] = Replayed(top)
    BY <1>9, <1>11 DEF OnTrack
  <2>3. /\ Len(top.exprs) <= Len(top.exprs)
        /\ \A j \in 1..Len(caller.given) : top.given[j + 1] = caller.given[j]
    BY <1>1, <1>6 DEF Inherits
  <2>4. History(top.given, top.exprs, h)
    BY <1>1, <1>6, <1>7, <2>2, <2>3, MovesStill DEF Past
  <2>5. Present(g) \in Moment
    BY <1>1, <1>4, <1>10, LenProperties DEF Present, Moment
  <2>6. Moves(top.given, top.exprs, Replayed(top), Present(g))
    <3> DEFINE c == Replayed(top)
               d == Present(g)
               m == Len(caller.given)
    <3>1. c.pc = top.pc /\ c.tested = top.tested /\ c.created = top.used /\ c.taken = m
      <4>1. /\ c.taken = Len(top.given) - n
            /\ c.pc = top.pc /\ c.tested = top.tested /\ c.created = top.used
        BY DEF Replayed, n
      <4> HIDE DEF c
      <4>2. Len(top.given) - n = m
        BY <1>7, <2>1
      <4> QED
        BY <4>1, <4>2
    <3>2. d.pc = p /\ ~ d.tested /\ d.created = Len(top.exprs) /\ d.taken = m + 1
      BY <1>7, <1>10 DEF Present
    <3> HIDE DEF c, d
    <3>3. c.taken < Len(top.given) /\ top.given[Len(top.given) - c.taken] = Last(top.bools)
      BY <1>7, <2>1, <3>1
    <3>4. d.pc = IF top.given[Len(top.given) - c.taken] THEN prog.code[top.pc].next
                                                       ELSE prog.code[top.pc].other
      BY <3>2, <3>3 DEF p
    <3>5. Moves(top.given, top.exprs, c, d)
      BY <1>1, <1>3, <2>1, <3>1, <3>2, <3>3, <3>4 DEF Moves
    <3> QED
      BY <3>5 DEF c, d
  <2>7. Append(h, Present(g)) \in Seq(Moment) /\ Past(g, Append(h, Present(g)))
    BY <1>10, <2>2, <2>4, <2>5, <2>6, HistoryGrows DEF Past
  <2>8. RunAligned(stack, g)
    BY <2>1, <2>7 DEF RunAligned, Traced
  <2> QED
    BY <1>1, <1>2, <2>8, TopStep
<1>12. CASE i < Len(h)
  <2>1. /\ Moves(caller.given, caller.exprs, Replayed(top), h[i + 1])
        /\ i + 1 \in 1..Len(h) /\ h[i + 1] \in Moment
    BY <1>9, <1>12 DEF OnTrack
  <2> DEFINE c == Replayed(top)
             d == h[i + 1]
             m == Len(caller.given)
  <2>2. c.pc = top.pc /\ c.tested = top.tested /\ c.created = top.used /\ c.taken = m + 1 - n
    BY <1>7 DEF Replayed, n
  <2> HIDE DEF c, d
  <2>3. /\ c.taken < m /\ ~ d.tested /\ d.created = c.created /\ d.taken = c.taken + 1
        /\ d.pc = IF caller.given[m - c.taken] THEN prog.code[top.pc].next
                                              ELSE prog.code[top.pc].other
    BY <1>1, <1>3, <2>1, <2>2 DEF Moves, c, d
  <2>4. m - c.taken = n - 1 /\ n > 1 /\ n - 1 \in 1..m
    BY <1>5, <1>7, <2>2, <2>3
  <2>5. caller.given[m - c.taken] = Last(top.bools)
    <3>1. top.given[(n - 1) + 1] = caller.given[n - 1]
      BY <1>6, <2>4 DEF Inherits
    <3>2. (n - 1) + 1 = n
      BY <1>5
    <3> QED
      BY <1>7, <2>4, <3>1, <3>2
  <2>6. d = Replayed(g)
    <3>1. d.pc = p /\ d.tested = FALSE /\ d.created = top.used /\ d.taken = Len(g.given) - Len(g.bools)
      <4>1. d \in Moment
        BY <2>1 DEF d
      <4>2. d.taken = m + 2 - n
        BY <1>5, <1>7, <2>2, <2>3
      <4>3. Len(g.given) - Len(g.bools) = m + 2 - n
        <5>1. Len(g.bools) = n - 1 /\ Len(g.given) = m + 1
          BY <1>5, <1>7, <1>10
        <5> QED
          BY <1>5, <1>7, <5>1
      <4> QED
        BY <2>2, <2>3, <2>5, <4>1, <4>2, <4>3 DEF p, Moment
    <3>2. d \in Moment
      BY <2>1 DEF d
    <3> QED
      BY <1>10, <3>1, <3>2 DEF Replayed, Moment
  <2>7. Inherits(g, caller)
    <3>1. Len(g.bools) <= Len(g.given) /\ \A j \in 1..Len(g.bools) : g.bools[j] = g.given[j]
      <4>1. \A j \in 1..n : top.bools[j] = top.given[j]
        BY <1>6 DEF Inherits, n
      <4>2. Len(s) <= Len(top.given)
        BY <1>5, <1>7
      <4>3. \A j \in 1..Len(s) : j \in 1..n
        BY <1>5
      <4> QED
        BY <1>5, <1>10, <4>1, <4>2, <4>3
    <3> QED
      BY <1>6, <1>10, <3>1 DEF Inherits
  <2>8. g.bools # <<>>
    BY <1>5, <1>10, <2>4, EmptySeq
  <2>9. RunAligned(stack, g)
    BY <1>1, <1>9, <1>10, <2>1, <2>6, <2>7, <2>8, ReplayMoves DEF OnTrack, d
  <2> QED
    BY <1>1, <1>2, <2>9, TopStep
<1>13. i \in 1..Len(h) /\ Len(h) \in Nat
  BY <1>9
<1> QED
  BY <1>11, <1>12, <1>13

\* Steps after which the innermost call is no longer running
LEMMA EndsRunAligned ==
    ASSUME IInv, stack # <<>>, prog' = prog, NEW f, stack' = SetTop(f), f.phase # "run"
    PROVE  WaitingAligned' /\ TopAligned'
BY TopStep

LEMMA EndWithAligned ==
    ASSUME IInv, Offers, prog' = prog, NEW q, EndWith(q)
    PROVE  WaitingAligned' /\ TopAligned'
<1>1. stack # <<>> /\ top \in Frame
  BY PassedFields
<1>2. [top EXCEPT !.phase = "add", !.pending = <<>>, !.queue = q].phase # "run"
  BY <1>1 DEF Frame
<1> QED
  BY <1>1, <1>2, EndsRunAligned DEF EndWith

LEMMA EndsAligned ==
    IInv /\ (LoopBack \/ Memoize \/ Return) => WaitingAligned' /\ TopAligned'
<1> SUFFICES ASSUME IInv, LoopBack \/ Memoize \/ Return PROVE WaitingAligned' /\ TopAligned'
  OBVIOUS
<1>1. CASE LoopBack
  BY <1>1, EndWithAligned DEF LoopBack, EndWithGoto
<1>2. CASE Memoize
  BY <1>2, EndWithAligned DEF Memoize, IsNew, EndWithGoto
<1>3. CASE Return
  <2> DEFINE f == [top EXCEPT !.phase = "add"]
  <2>1. stack # <<>> /\ top \in Frame /\ prog' = prog
    BY <1>3, TopAt DEF Return, In
  <2>2. f.phase = "add" /\ \A i, s : Visit(f, i, s).phase = "add"
    BY <2>1 DEF Visit, Frame
  <2>3. stack' = SetTop(f) \/ \E i, s : stack' = SetTop(Visit(f, i, s))
    BY <1>3 DEF Return
  <2> HIDE DEF f
  <2> QED
    BY <2>1, <2>2, <2>3, EndsRunAligned
<1> QED
  BY <1>1, <1>2, <1>3

LEMMA TrimAligned == IInv /\ Trim => WaitingAligned' /\ TopAligned'
<1> SUFFICES ASSUME IInv, Trim PROVE WaitingAligned' /\ TopAligned'
  OBVIOUS
<1>1. stack # <<>> /\ top \in Frame /\ top.phase = "trim" /\ prog' = prog
  BY TopAt DEF Trim, TrimCommon, Common, TrimSplit, Split, BuildIf, BothArms, In
<1>2. \A t : [top EXCEPT !.tail = t].phase # "run"
  BY <1>1 DEF Frame
<1>3. \A t, q : [top EXCEPT !.tail = t, !.queue = q].phase # "run"
  BY <1>1 DEF Frame
<1>4. \A v, q, t : [top EXCEPT !.phase = "add", !.visited = v, !.queue = q, !.tail = t].phase
                     # "run"
  BY <1>1 DEF Frame
<1>5. CASE TrimCommon
  <2>1. stack' = SetTop([top EXCEPT !.tail = <<Last(blocks[top.thn])>> \o top.tail])
    BY <1>5 DEF TrimCommon
  <2> QED
    BY <1>1, <1>2, <2>1, EndsRunAligned
<1>6. CASE TrimSplit
  <2>1. stack' = SetTop([top EXCEPT !.tail = <<Last(blocks[top.thn])>> \o top.tail,
                                    !.queue = Append(top.queue, Len(stmts) + 1)])
    BY <1>6 DEF TrimSplit
  <2> QED
    BY <1>1, <1>3, <2>1, EndsRunAligned
<1>7. CASE BuildIf
  <2> DEFINE v == {w \in top.visited : w.tag # top.ifTag}
             t == (IF EmptiesThen THEN blocks[top.thn] ELSE <<>>) \o
                  (IF EmptiesElse THEN blocks[top.els] ELSE <<>>) \o top.tail
             f == [top EXCEPT !.phase = "add", !.visited = v,
                              !.queue = Append(top.queue, Len(stmts) + 1), !.tail = t]
  <2>1. stack' = SetTop(f)
    BY <1>7 DEF BuildIf
  <2> HIDE DEF v, t
  <2>2. f.phase # "run"
    BY <1>4
  <2> HIDE DEF f
  <2> QED
    BY <1>1, <2>1, <2>2, EndsRunAligned
<1> QED
  BY <1>5, <1>6, <1>7 DEF Trim

LEMMA EndingAligned ==
    IInv /\ (AddQueued \/ AppendTail \/ UpdateMemo) => WaitingAligned' /\ TopAligned'
<1> SUFFICES ASSUME IInv, AddQueued \/ AppendTail \/ UpdateMemo
             PROVE  WaitingAligned' /\ TopAligned'
  OBVIOUS
<1>1. stack # <<>> /\ top \in Frame /\ top.phase \in {"add", "memo"} /\ prog' = prog
  BY TopAt DEF AddQueued, HasQueued, AppendTail, UpdateMemo, In
<1>2. CASE AddQueued
  <2> DEFINE f == Visit(top, Head(top.queue), Queued)
  <2>1. stack' = SetTop([f EXCEPT !.queue = Tail(f.queue)])
    BY <1>2 DEF AddQueued
  <2>2. \A q : [f EXCEPT !.queue = q].phase # "run"
    BY <1>1 DEF Visit, Frame
  <2> HIDE DEF f
  <2> QED
    BY <1>1, <2>1, <2>2, EndsRunAligned
<1>3. CASE AppendTail
  <2>1. stack' = SetTop([top EXCEPT !.phase = "memo", !.tail = <<>>])
    BY <1>3 DEF AppendTail
  <2>2. [top EXCEPT !.phase = "memo", !.tail = <<>>].phase # "run"
    BY <1>1 DEF Frame
  <2> QED
    BY <1>1, <2>1, <2>2, EndsRunAligned
<1>4. CASE UpdateMemo
  <2>1. stack' = SetTop([top EXCEPT !.cursor = top.cursor + 1])
    BY <1>4 DEF UpdateMemo
  <2>2. \A n : [top EXCEPT !.cursor = n].phase # "run"
    BY <1>1 DEF Frame
  <2> QED
    BY <1>1, <2>1, <2>2, EndsRunAligned
<1> QED
  BY <1>2, <1>3, <1>4

\* The run a waiting call starts is at the beginning of the call's history.
LEMMA StartsAligned ==
    ASSUME TypeOK, NEW f, Waits(f), f.given \in Seq(BOOLEAN), NEW a \in BOOLEAN, NEW b
    PROVE  /\ Replays(NewRun(Answers(f, a), f, b), f)
           /\ NewRun(Answers(f, a), f, b).bools # <<>>
<1> DEFINE g == <<a>> \o f.given
           run == NewRun(g, f, b)
<1>1. /\ g \in Seq(BOOLEAN) /\ Len(g) = Len(f.given) + 1 /\ Len(f.given) \in Nat
      /\ \A i \in 1..Len(f.given) : g[i + 1] = f.given[i]
  BY Prefixed
<1> HIDE DEF g
<1>2. /\ run.pc = 1 /\ run.tested = FALSE /\ run.used = 0 /\ run.given = g /\ run.bools = g
      /\ run.pending = <<>> /\ run.exprs = f.exprs
  BY DEF NewRun
<1> HIDE DEF run
<1>3. Inherits(run, f)
  <2>1. Len(run.bools) <= Len(run.given) /\ \A i \in 1..Len(run.bools) : run.bools[i] = run.given[i]
    BY <1>1, <1>2
  <2> QED
    BY <1>1, <1>2, <2>1 DEF Inherits
<1>4. PICK h \in Seq(Moment) : Past(f, h)
  BY DEF Waits, Traced
<1>5. 1 \in 1..Len(h) /\ h[1] = Begin
  BY <1>4, EmptySeq DEF Past, History
<1>6. Replayed(run) = Begin
  <2>1. Len(run.given) - Len(run.bools) = 0
    BY <1>1, <1>2
  <2> QED
    BY <1>2, <2>1 DEF Replayed, Begin
<1>7. Replays(run, f) /\ run.bools # <<>>
  BY <1>1, <1>2, <1>3, <1>4, <1>5, <1>6 DEF Replays
<1> QED
  BY <1>7 DEF run, g, Answers

\* A call and the run it has started
LEMMA CallsAligned ==
    ASSUME IInv, prog' = prog, NEW n \in Nat, n < Len(stack),
           NEW f, Waits(f), f.given \in Seq(BOOLEAN), NEW a \in BOOLEAN, NEW b,
           Len(stack') = n + 2, \A k \in 1..n : stack'[k] = stack[k],
           stack'[n + 1] = f, stack'[n + 2] = NewRun(Answers(f, a), f, b)
    PROVE  WaitingAligned' /\ TopAligned'
<1> DEFINE run == NewRun(Answers(f, a), f, b)
<1>1. Replays(run, f) /\ run.bools # <<>>
  BY StartsAligned DEF IInv
<1> HIDE DEF run
<1>2. Len(stack) \in Nat
  BY LenProperties DEF IInv, TypeOK
<1>3. WaitingAligned'
  <2>1. ASSUME NEW k \in 1..(n + 1) PROVE Waits(stack'[k])
    <3>1. CASE k = n + 1
      BY <3>1
    <3>2. CASE k # n + 1
      <4>1. k \in 1..n /\ k \in 1..(Len(stack) - 1)
        BY <1>2, <3>2
      <4> QED
        BY <4>1 DEF IInv, WaitingAligned
    <3> QED
      BY <3>1, <3>2
  <2>2. Len(stack') - 1 = n + 1
    OBVIOUS
  <2> QED
    BY <2>1, <2>2, RunSame DEF WaitingAligned
<1>4. top' = run /\ stack'[Len(stack') - 1] = f /\ Len(stack') > 1
  <2>1. Len(stack') - 1 = n + 1
    OBVIOUS
  <2> QED
    BY <2>1 DEF top, Last, run
<1>5. TopAligned'
  BY <1>1, <1>4, RunSame DEF TopAligned, RunAligned
<1> QED
  BY <1>3, <1>5

LEMMA OutOfBoolsAligned == IInv /\ OutOfBools => WaitingAligned' /\ TopAligned'
<1> SUFFICES ASSUME IInv, OutOfBools PROVE WaitingAligned' /\ TopAligned'
  OBVIOUS
<1> DEFINE s == stmts[Last(Body)]
           f == [top EXCEPT !.phase = "then", !.ifTag = StmtAt(top.pc).tag,
                            !.cond = [what |-> s.what, var |-> s.var]]
           run == NewRun(Answers(f, TRUE), f, Len(blocks) + 1)
           n == Len(stack) - 1
<1>1. /\ Asks /\ ~ CatchingUp /\ In("run") /\ stack # <<>> /\ top \in Frame /\ prog' = prog
      /\ stack \in Seq(Call) /\ Len(stack) \in Nat \ {0} /\ top.given \in Seq(BOOLEAN)
      /\ stack' = Append(SetTop(f), run)
  BY TopAt DEF OutOfBools, Asks, In
<1>2. top.pc \in DOMAIN prog.code /\ prog.code[top.pc].op = "branch" /\ top.tested
  <2>1. Op = "branch" /\ top.tested
    BY <1>1 DEF Asks
  <2>2. top.pc \in DOMAIN prog.code
    BY <1>1, <2>1, PcType DEF IInv
  <2> QED
    BY <2>1, <2>2 DEF Op
<1>3. /\ f.phase = "then" /\ f.bools = <<>> /\ f.pc = top.pc /\ f.tested = top.tested
      /\ f.given = top.given /\ f.exprs = top.exprs
  BY <1>1 DEF CatchingUp, Frame
<1> HIDE DEF f, run
<1>4. Traced(f)
  BY <1>1, <1>3 DEF IInv, TopAligned, RunAligned, CatchingUp, Traced, Past, Present
<1>5. Waits(f)
  BY <1>2, <1>3, <1>4 DEF Waits
<1>6. n \in Nat /\ n < Len(stack) /\ n + 1 = Len(stack) /\ n + 2 = Len(stack) + 1
  BY <1>1
<1>7. /\ Len(stack') = Len(stack) + 1
      /\ \A k \in 1..n : stack'[k] = stack[k]
      /\ stack'[Len(stack)] = f /\ stack'[Len(stack) + 1] = run
  BY <1>1 DEF SetTop
<1> HIDE DEF n
<1>8. /\ Len(stack') = n + 2 /\ stack'[n + 1] = f
      /\ stack'[n + 2] = NewRun(Answers(f, TRUE), f, Len(blocks) + 1)
  BY <1>6, <1>7 DEF run
<1>9. f.given \in Seq(BOOLEAN)
  BY <1>1, <1>3
<1> QED
  BY <1>1, <1>5, <1>6, <1>7, <1>8, <1>9, CallsAligned

LEMMA ReturnThenAligned == IInv /\ ReturnThen => WaitingAligned' /\ TopAligned'
<1> SUFFICES ASSUME IInv, ReturnThen PROVE WaitingAligned' /\ TopAligned'
  OBVIOUS
<1> DEFINE f == [caller EXCEPT !.phase = "else", !.thn = top.block]
           run == NewRun(Answers(f, FALSE), f, Len(blocks) + 1)
           n == Len(stack) - 2
<1>1. /\ caller \in Frame /\ prog' = prog /\ stack \in Seq(Call)
      /\ Len(stack) \in Nat /\ Len(stack) > 1
      /\ stack' = SubSeq(stack, 1, n) \o <<f, run>>
  BY CallerType, LenProperties DEF ReturnThen, IInv, TypeOK
<1>2. Waits(caller) /\ caller.given \in Seq(BOOLEAN)
  BY <1>1, Fields DEF IInv, WaitingAligned, caller
<1>3. /\ f.phase = "else" /\ f.bools = caller.bools /\ f.pc = caller.pc
      /\ f.tested = caller.tested /\ f.given = caller.given /\ f.exprs = caller.exprs
  BY <1>1 DEF Frame
<1> HIDE DEF f, run
<1>4. Waits(f)
  BY <1>2, <1>3 DEF Waits, Traced, Past, Present
<1>5. n \in Nat /\ n < Len(stack)
  BY <1>1
<1>6. /\ Len(stack') = n + 2 /\ \A k \in 1..n : stack'[k] = stack[k]
      /\ stack'[n + 1] = f /\ stack'[n + 2] = run
  <2>1. /\ SubSeq(stack, 1, n) \in Seq(Call) /\ Len(SubSeq(stack, 1, n)) = n
        /\ \A k \in 1..n : SubSeq(stack, 1, n)[k] = stack[k]
    BY <1>1, <1>5, Cut
  <2> HIDE DEF n
  <2> QED
    BY <1>1, <1>5, <2>1
<1> HIDE DEF n
<1>7. f.given \in Seq(BOOLEAN)
  BY <1>2, <1>3
<1> QED
  BY <1>1, <1>4, <1>5, <1>6, <1>7, CallsAligned DEF run

LEMMA ReturnElseAligned == IInv /\ ReturnElse => WaitingAligned' /\ TopAligned'
<1> SUFFICES ASSUME IInv, ReturnElse PROVE WaitingAligned' /\ TopAligned'
  OBVIOUS
<1> DEFINE f == [caller EXCEPT !.phase = "trim", !.els = top.block]
           n == Len(stack) - 2
<1>1. /\ caller \in Frame /\ prog' = prog /\ stack \in Seq(Call)
      /\ Len(stack) \in Nat /\ Len(stack) > 1
      /\ stack' = Append(SubSeq(stack, 1, n), f)
  BY CallerType, LenProperties DEF ReturnElse, IInv, TypeOK
<1>2. f.phase = "trim"
  BY <1>1 DEF Frame
<1> HIDE DEF f
<1>3. n \in Nat /\ n < Len(stack)
  BY <1>1
<1>4. Len(stack') = n + 1 /\ (\A k \in 1..n : stack'[k] = stack[k]) /\ stack'[n + 1] = f
  <2>1. /\ SubSeq(stack, 1, n) \in Seq(Call) /\ Len(SubSeq(stack, 1, n)) = n
        /\ \A k \in 1..n : SubSeq(stack, 1, n)[k] = stack[k]
    BY <1>1, <1>3, Cut
  <2> HIDE DEF n
  <2> QED
    BY <1>1, <1>3, <2>1
<1>5. WaitingAligned'
  <2>1. \A k \in 1..n : Waits(stack'[k])
    <3>1. \A k \in 1..n : k \in 1..(Len(stack) - 1)
      BY <1>1, <1>3
    <3> QED
      BY <1>4, <3>1 DEF IInv, WaitingAligned
  <2> HIDE DEF n
  <2>2. Len(stack') - 1 = n
    BY <1>3, <1>4
  <2> QED
    BY <1>1, <2>1, <2>2, RunSame DEF WaitingAligned
<1>6. TopAligned'
  <2> HIDE DEF n
  <2>1. top' = f
    BY <1>3, <1>4 DEF top, Last
  <2> QED
    BY <1>2, <2>1 DEF TopAligned, In
<1> QED
  BY <1>5, <1>6

-----------------------------------------------------------------------------
(* Theorems *)

LEMMA ReplayInit == Init => IInv
<1> SUFFICES ASSUME Init PROVE IInv
  OBVIOUS
<1>1. TypeOK
  BY TypeInit
<1> DEFINE run == NewRun(<<>>, [exprs |-> <<>>, visited |-> {}, copies |-> {}], 1)
<1>2. stack = <<run>>
  BY DEF Init
<1>3. run.given = <<>> /\ run.bools = <<>> /\ run.exprs = <<>> /\ run.pc = 1 /\ ~ run.tested
      /\ run.tested \in BOOLEAN
  BY DEF NewRun
<1> HIDE DEF run
<1>4. top = run /\ Len(stack) = 1
  BY <1>2 DEF top, Last
<1>5. Past(run, <<Begin>>)
  <2>1. Present(run) = Begin
    BY <1>3 DEF Present, Begin
  <2>2. History(run.given, run.exprs, <<Begin>>)
    BY <1>1, BeginType DEF History
  <2> QED
    BY <2>1, <2>2 DEF Past
<1>6. TopAligned
  BY <1>1, <1>3, <1>4, <1>5, BeginType DEF TopAligned, RunAligned, Traced
<1>7. WaitingAligned
  BY <1>4 DEF WaitingAligned
<1> QED
  BY <1>1, <1>6, <1>7 DEF IInv

LEMMA ReplayStep == IInv /\ [Next]_vars => IInv'
<1> SUFFICES ASSUME IInv, [Next]_vars PROVE IInv'
  OBVIOUS
<1>1. TypeOK'
  BY TypeStep DEF IInv
<1>2. WaitingAligned' /\ TopAligned'
  <2>1. CASE Run
    BY <2>1, CreateExprAligned, SkipStmtAligned, AddStmtAligned, TakeBoolAligned,
       EndsAligned, OutOfBoolsAligned DEF Run
  <2>2. CASE Trim
    BY <2>2, TrimAligned
  <2>3. CASE EndOfRun
    <3>1. CASE ReturnRoot
      <4>1. stack' = <<>>
        BY <3>1 DEF ReturnRoot
      <4> QED
        BY <4>1 DEF WaitingAligned, TopAligned, In
    <3> QED
      BY <2>3, <3>1, EndingAligned, ReturnThenAligned, ReturnElseAligned DEF EndOfRun
  <2>4. CASE UNCHANGED vars
    <3>1. prog' = prog /\ stack' = stack
      BY <2>4 DEF vars
    <3> QED
      BY <3>1, RunSame DEF IInv, WaitingAligned, TopAligned, In, RunAligned, top, Last
  <2> QED
    BY <2>1, <2>2, <2>3, <2>4 DEF Next, Extract, Extracted
<1> QED
  BY <1>1, <1>2 DEF IInv

\* Whatever the staged function, a run that catches up asks for the expressions
\* of the run it descends from in the order they were created, passes nothing on
\* and does not return meanwhile, and has used all of them when it takes its last
\* answer: create_expr, which does not look at the tag, returns the right one.
THEOREM ReplayCorrect == Spec => []ReplayAligned
<1>1. Spec => []IInv
  BY ReplayInit, ReplayStep, PTL DEF Spec
<1> QED
  BY <1>1, ReplayHolds, PTL
=============================================================================
