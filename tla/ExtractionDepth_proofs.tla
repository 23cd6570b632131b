----------------------- MODULE ExtractionDepth_proofs -----------------------
(***************************************************************************)
(* The recursion of extract_ast_from_run is bounded by the staged          *)
(* function: a run that comes to a condition at which a run it descends    *)
(* from was interrupted finds the condition among the statements it        *)
(* inherited, under its tag or under a copy of it, and ends in a goto.     *)
(***************************************************************************)
EXTENDS ExtractionForks_proofs, FiniteSetTheorems

\* The statement s has been made of point p, and the run f has visited one.
Made(s, p) == s.kind = StmtAt(p).kind /\ SameContent(s, StmtAt(p))
Holds(f, p) ==
    \E v \in f.visited : v.tag.loc = prog.code[p].loc /\ Made(stmts[v.stmt], p)

\* tag_deduplication_map counts every copy of a tag that visited_offsets has, and the
\* tag itself stays visited while the staged function runs.
Counted(f) ==
    /\ \A v, w \in f.visited : v.tag = w.tag => v = w
    /\ \A c, d \in f.copies : c.tag = d.tag => c = d
    /\ \A c \in f.copies : c.n # 0
    /\ \A v \in f.visited :
          /\ stmts[v.stmt].kind \in {"expr", "decl"}
          /\ v.tag.dedup # 0 =>
                /\ \E w \in f.visited : w.tag = Copy(v.tag, 0)
                /\ \E c \in f.copies : c.tag = Copy(v.tag, 0) /\ v.tag.dedup < c.n

\* The call f, the j-th, has inherited the conditions its callers wait at.
Live(f) == f.phase \in {"run", "then", "else"}
Tracks(f, j) ==
    Live(f) =>
       /\ Counted(f)
       /\ \A k \in 1..(j - 1) : Holds(f, stack[k].pc)
       /\ f.phase # "run" => Holds(f, f.pc)
AllTrack == \A j \in 1..Len(stack) : Tracks(stack[j], j)

\* No two calls wait at one condition, and the next one will not either.
AskedApart == \A j, k \in 1..(Len(stack) - 1) : stack[j].pc = stack[k].pc => j = k
Asking(f) == f.phase = "run" /\ f.bools = <<>> /\ f.tested /\ f.pending = <<>>
NewlyAsked ==
    stack # <<>> /\ Asking(top) =>
       Holds(top, top.pc) /\ \A k \in 1..(Len(stack) - 1) : stack[k].pc # top.pc

\* The inductive invariant
DInv == FInv /\ AllTrack /\ AskedApart /\ NewlyAsked

-----------------------------------------------------------------------------
(* Visited statements *)

LEMMA PointTag ==
    ASSUME TypeOK, NEW p \in DOMAIN prog.code
    PROVE  /\ StmtAt(p).tag = [loc |-> prog.code[p].loc, dedup |-> 0]
           /\ StmtAt(p).tag \in Tag /\ StmtAt(p).tag # NoTag
           /\ StmtAt(p).kind \in {"expr", "decl"}
<1>1. prog.code[p].loc \in Loc
  BY PointType DEF TypeOK, Point
<1>2. StmtAt(p).tag = [loc |-> prog.code[p].loc, dedup |-> 0]
  BY DEF StmtAt, Statement
<1>3. StmtAt(p).kind \in {"expr", "decl"}
  BY DEF StmtAt, Statement
<1> QED
  BY <1>1, <1>2, <1>3, NoLocAssumption DEF Tag, NoTag

\* The visited statement of a tag, and the number of its copies
LEMMA VisitedOnce ==
    ASSUME Counted(top), NEW v \in top.visited
    PROVE  VisitedAs(v.tag) = stmts[v.stmt] /\ IsVisited(v.tag)
<1>1. (CHOOSE w \in top.visited : w.tag = v.tag) = v
  BY DEF Counted
<1> QED
  BY <1>1 DEF VisitedAs, IsVisited

LEMMA CountedOnce ==
    ASSUME Counted(top), NEW c \in top.copies
    PROVE  Copies(c.tag) = c.n
<1>1. (CHOOSE d \in top.copies : d.tag = c.tag) = c
  BY DEF Counted
<1> QED
  BY <1>1 DEF Copies

\* A visited copy is one of the copies counted for its tag.
LEMMA CopyCounted ==
    ASSUME top \in Frame, Counted(top), NEW v \in top.visited, v.tag.dedup # 0
    PROVE  /\ IsVisited(Copy(v.tag, 0))
           /\ v.tag.dedup \in 1..(Copies(Copy(v.tag, 0)) - 1)
<1>1. v.tag \in Tag /\ v.tag.dedup \in Nat
  BY Fields DEF Tag
<1>2. PICK c \in top.copies : c.tag = Copy(v.tag, 0) /\ v.tag.dedup < c.n
  BY DEF Counted
<1>3. Copies(Copy(v.tag, 0)) = c.n /\ c.n \in Nat
  BY <1>2, CountedOnce, Fields
<1>4. IsVisited(Copy(v.tag, 0))
  BY DEF Counted, IsVisited
<1> QED
  BY <1>1, <1>2, <1>3, <1>4

LEMMA AskedAgain ==
    ASSUME TypeOK, top \in Frame, Counted(top), NEW p \in DOMAIN prog.code,
           Holds(top, p), ~ NullCopy(StmtAt(p))
    PROVE  LoopsBack(StmtAt(p))
<1>0. PICK s : s = StmtAt(p)
  OBVIOUS
<1>1. PICK v \in top.visited : v.tag.loc = prog.code[p].loc /\ Made(stmts[v.stmt], p)
  BY DEF Holds
<1>2. /\ s.tag = [loc |-> v.tag.loc, dedup |-> 0] /\ s.tag # NoTag
      /\ s.kind \in {"expr", "decl"} /\ v.tag \in Tag
  BY <1>0, <1>1, PointTag, Fields
<1>3. IsVisited(v.tag) /\ Same(VisitedAs(v.tag), s)
  BY <1>0, <1>1, <1>2, VisitedOnce DEF Made, Same
<1>4. CASE v.tag.dedup = 0
  <2>1. v.tag = s.tag
    BY <1>2, <1>4 DEF Tag
  <2> QED
    BY <1>0, <1>2, <1>3, <2>1 DEF LoopsBack, Seen, SameTag, SameAsVisited
<1>5. CASE v.tag.dedup # 0
  <2>1. Copy(v.tag, 0) = s.tag /\ v.tag = Copy(s.tag, v.tag.dedup)
    BY <1>2 DEF Copy, Tag
  <2>2. IsVisited(s.tag) /\ v.tag.dedup \in 1..(Copies(s.tag) - 1)
    BY <1>5, <2>1, CopyCounted
  <2>3. v.tag \in Stops(s)
    BY <1>3, <2>1, <2>2 DEF Stops, OtherCopies, SameAsVisited
  <2> QED
    BY <1>0, <1>2, <2>2, <2>3 DEF LoopsBack, Seen
<1> QED
  BY <1>4, <1>5

\* The tag a new statement is stored under has not been visited.
LEMMA StoredUnvisited ==
    ASSUME TypeOK, top \in Frame, Counted(top), NEW p \in DOMAIN prog.code,
           NEW s, s = StmtAt(p), ~ NullCopy(s), ~ LoopsBack(s)
    PROVE  /\ ~ IsVisited(StoredTag(s))
           /\ StoredTag(s) = IF Seen(s) THEN Copy(s.tag, Copies(s.tag)) ELSE s.tag
           /\ Copies(s.tag) \in Nat \ {0}
<1>1. /\ s.tag = [loc |-> prog.code[p].loc, dedup |-> 0] /\ s.tag # NoTag /\ s.tag \in Tag
  BY PointTag
<1>2. Copies(s.tag) \in Nat \ {0}
  <2>1. CASE \E c \in top.copies : c.tag = s.tag
    <3>1. PICK c \in top.copies : c.tag = s.tag
      BY <2>1
    <3>2. Copies(s.tag) = c.n
      BY <3>1, CountedOnce
    <3> QED
      BY <3>1, <3>2, Fields DEF Counted
  <2>2. CASE ~ \E c \in top.copies : c.tag = s.tag
    BY <2>2 DEF Copies
  <2> QED
    BY <2>1, <2>2
<1>3. CASE Seen(s)
  <2> SUFFICES ASSUME NEW v \in top.visited, v.tag = Copy(s.tag, Copies(s.tag))
               PROVE  FALSE
    BY <1>2, <1>3 DEF StoredTag, IsVisited
  <2>1. v.tag.dedup = Copies(s.tag) /\ Copy(v.tag, 0) = s.tag
    <3>1. \A t \in Tag : \A n : t.dedup = 0 => Copy(t, n).dedup = n /\ Copy(Copy(t, n), 0) = t
      BY DEF Copy, Tag
    <3>2. s.tag.dedup = 0
      BY <1>1
    <3> QED
      BY <1>1, <3>1, <3>2
  <2>2. v.tag.dedup \in 1..(Copies(s.tag) - 1)
    BY <1>2, <2>1, CopyCounted
  <2> QED
    BY <1>2, <2>1, <2>2
<1>4. CASE ~ Seen(s)
  BY <1>1, <1>2, <1>4 DEF Seen, StoredTag
<1> QED
  BY <1>2, <1>3, <1>4 DEF StoredTag

-----------------------------------------------------------------------------
(* What other steps keep *)

\* Statements of the staged function keep their content.
ContentKept ==
    /\ prog' = prog
    /\ \A i \in DOMAIN stmts :
          stmts[i].kind \in {"expr", "decl"} =>
             stmts'[i].kind = stmts[i].kind /\ SameContent(stmts'[i], stmts[i])

LEMMA PointSame ==
    ASSUME prog' = prog PROVE \A p : StmtAt(p)' = StmtAt(p)
BY DEF StmtAt

LEMMA SameStmtsKept ==
    ASSUME prog' = prog, stmts' = stmts PROVE ContentKept
BY DEF ContentKept, SameContent

LEMMA AppendedKept ==
    ASSUME HeapOK, prog' = prog, NEW s \in Stmt, stmts' = Append(stmts, s)
    PROVE  ContentKept
BY CreatedPlace DEF ContentKept, SameContent

\* Calls with the maps of f
LEMMA HoldsKept ==
    ASSUME ContentKept, NEW f \in Frame, Counted(f), NEW g, f.visited \subseteq g.visited
    PROVE  \A p : Holds(f, p) => Holds(g, p)'
<1> SUFFICES ASSUME NEW p, Holds(f, p) PROVE Holds(g, p)'
  OBVIOUS
<1>1. PICK v \in f.visited : v.tag.loc = prog.code[p].loc /\ Made(stmts[v.stmt], p)
  BY DEF Holds
<1>2. v.stmt \in DOMAIN stmts /\ stmts[v.stmt].kind \in {"expr", "decl"}
  BY Fields DEF Counted
<1>3. Made(stmts'[v.stmt], p)
  BY <1>1, <1>2 DEF ContentKept, Made, SameContent
<1>4. StmtAt(p)' = StmtAt(p) /\ prog' = prog
  BY PointSame DEF ContentKept
<1> QED
  BY <1>1, <1>3, <1>4 DEF Holds, Made, SameContent

LEMMA CountedKept ==
    ASSUME ContentKept, NEW f \in Frame, Counted(f), NEW g, g.visited = f.visited,
           g.copies = f.copies
    PROVE  Counted(g)'
<1>1. \A v \in f.visited : stmts'[v.stmt].kind \in {"expr", "decl"}
  BY Fields DEF Counted, ContentKept
<1> QED
  BY <1>1 DEF Counted, Copy

\* A statement of point p is added.
LEMMA VisitCounted ==
    ASSUME TypeOK, top \in Frame, Counted(top), ContentKept, NEW p \in DOMAIN prog.code,
           ~ NullCopy(StmtAt(p)), ~ LoopsBack(StmtAt(p)), NEW i,
           Made(stmts'[i], p),
           NEW f \in Frame, f.visited = top.visited, f.copies = top.copies,
           NEW g, g = Visit(f, i, StmtAt(p))
    PROVE  /\ Counted(g)' /\ Holds(g, p)'
           /\ top.visited \subseteq g.visited
<1>0. PICK s : s = StmtAt(p)
  OBVIOUS
<1>00. PICK t : t = StoredTag(s)
  OBVIOUS
<1>000. PICK n : n = Copies(s.tag)
  OBVIOUS
<1>1. /\ ~ IsVisited(t) /\ n \in Nat \ {0} /\ t = IF Seen(s) THEN Copy(s.tag, n) ELSE s.tag
  BY <1>0, <1>00, <1>000, StoredUnvisited
<1>2. /\ s.tag \in Tag /\ s.tag.dedup = 0 /\ s.tag.loc = prog.code[p].loc
      /\ s.kind \in {"expr", "decl"}
  <2>1. s.tag = [loc |-> prog.code[p].loc, dedup |-> 0] /\ s.tag \in Tag /\ s.kind \in {"expr", "decl"}
    BY <1>0, PointTag
  <2> QED
    BY <2>1
<1>3. t \in Tag /\ t.loc = s.tag.loc /\ Copy(t, 0) = s.tag /\ t.dedup = IF Seen(s) THEN n ELSE 0
  <2>1. PICK u \in Tag : u = s.tag /\ u.dedup = 0
    BY <1>2
  <2>2. /\ Copy(u, 0) = u /\ Copy(u, n) \in Tag /\ Copy(u, n).dedup = n
        /\ Copy(u, n).loc = u.loc /\ Copy(Copy(u, n), 0) = u
    BY <1>1, <2>1 DEF Copy, Tag
  <2>3. CASE Seen(s)
    <3>1. t = Copy(u, n)
      BY <1>1, <2>1, <2>3
    <3> QED
      BY <2>1, <2>2, <2>3, <3>1
  <2>4. CASE ~ Seen(s)
    <3>1. t = u
      BY <1>1, <2>1, <2>4
    <3> QED
      BY <2>1, <2>2, <2>4, <3>1
  <2> QED
    BY <2>3, <2>4
<1>4. PICK v : v = [tag |-> t, stmt |-> i]
  OBVIOUS
<1>5. PICK c : c = [tag |-> s.tag, n |-> n + 1]
  OBVIOUS
<1>6. /\ g.visited = top.visited \cup {v} /\ v.tag = t /\ v.stmt = i
      /\ g.copies = IF Seen(s) THEN {d \in top.copies : d.tag # s.tag} \cup {c} ELSE top.copies
      /\ c.tag = s.tag /\ c.n = n + 1
  <2>1. \A w \in top.visited : w.tag # t
    BY <1>1 DEF IsVisited
  <2>2. /\ g.visited = {w \in top.visited : w.tag # t} \cup {v}
        /\ g.copies = IF ~ Seen(s) THEN top.copies
                      ELSE {d \in top.copies : d.tag # Copy(t, 0)}
                             \cup {[tag |-> Copy(t, 0), n |-> n + 1]}
    BY <1>0, <1>00, <1>000, <1>4 DEF Visit, Frame
  <2> QED
    BY <1>3, <1>4, <1>5, <2>1, <2>2
<1>7. stmts'[i].kind \in {"expr", "decl"}
  BY <1>0, <1>2 DEF Made
<1>8. \A w \in top.visited : stmts'[w.stmt].kind \in {"expr", "decl"}
  BY Fields DEF Counted, ContentKept
<1>9. /\ \A w, x \in g.visited : w.tag = x.tag => w = x
      /\ \A d, e \in g.copies : d.tag = e.tag => d = e
      /\ \A d \in g.copies : d.n # 0
  <2>1. \A w \in top.visited : w.tag # v.tag
    BY <1>1, <1>6 DEF IsVisited
  <2> QED
    BY <1>1, <1>6, <2>1 DEF Counted
<1>10. ASSUME NEW w \in g.visited, w.tag.dedup # 0
       PROVE  /\ \E x \in g.visited : x.tag = Copy(w.tag, 0)
              /\ \E d \in g.copies : d.tag = Copy(w.tag, 0) /\ w.tag.dedup < d.n
  <2>1. CASE w = v
    <3>1. Seen(s) /\ w.tag.dedup = n /\ Copy(w.tag, 0) = s.tag
      BY <1>3, <1>6, <1>10, <2>1
    <3>2. \E x \in top.visited : x.tag = s.tag
      BY <3>1 DEF Seen, IsVisited
    <3>3. c \in g.copies /\ n < c.n
      BY <1>1, <1>6, <3>1
    <3> QED
      BY <1>6, <3>1, <3>2, <3>3
  <2>2. CASE w \in top.visited
    <3>1. \E x \in top.visited : x.tag = Copy(w.tag, 0)
      BY <1>10, <2>2 DEF Counted
    <3>2. PICK d \in top.copies : d.tag = Copy(w.tag, 0) /\ w.tag.dedup < d.n
      BY <1>10, <2>2 DEF Counted
    <3>3. CASE Seen(s) /\ d.tag = s.tag
      <4>1. Copies(s.tag) = d.n
        BY <3>3, CountedOnce
      <4>2. c \in g.copies /\ c.tag = Copy(w.tag, 0) /\ c.n = d.n + 1
        BY <1>000, <1>6, <3>2, <3>3, <4>1
      <4>3. w.tag.dedup \in Nat /\ d.n \in Nat
        BY <2>2, Fields DEF Tag
      <4> QED
        BY <1>6, <3>1, <3>2, <4>2, <4>3
    <3>4. CASE ~ (Seen(s) /\ d.tag = s.tag)
      BY <1>6, <3>1, <3>2, <3>4
    <3> QED
      BY <3>3, <3>4
  <2> QED
    BY <1>6, <2>1, <2>2
<1>11. Counted(g)'
  <2>1. \A w \in g.visited : stmts'[w.stmt].kind \in {"expr", "decl"}
    BY <1>6, <1>7, <1>8
  <2> QED
    BY <1>9, <1>10, <2>1 DEF Counted, Copy
<1>12. Holds(g, p)'
  <2>1. v \in g.visited /\ v.tag.loc = prog.code[p].loc /\ Made(stmts'[v.stmt], p)
    BY <1>2, <1>3, <1>6
  <2>2. StmtAt(p)' = StmtAt(p) /\ prog' = prog
    BY PointSame DEF ContentKept
  <2> QED
    BY <2>1, <2>2 DEF Holds, Made, SameContent
<1> QED
  BY <1>6, <1>11, <1>12

-----------------------------------------------------------------------------
(* Calls *)

\* A call keeps what it has inherited.
LEMMA TrackKept ==
    ASSUME ContentKept, NEW f \in Frame, NEW j, Tracks(f, j), Live(f),
           NEW g, g.visited = f.visited, g.copies = f.copies,
           g.phase = "run" \/ (g.phase = f.phase /\ g.pc = f.pc),
           \A k \in 1..(j - 1) : stack'[k].pc = stack[k].pc
    PROVE  Tracks(g, j)'
<1>1. Counted(f) /\ Counted(g)'
  BY CountedKept DEF Tracks
<1>2. \A p : Holds(f, p) => Holds(g, p)'
  BY <1>1, HoldsKept
<1>3. ASSUME NEW k \in 1..(j - 1) PROVE Holds(g, stack[k].pc)'
  <2>1. PICK p : p = stack[k].pc
    OBVIOUS
  <2>2. Holds(g, p)' /\ stack'[k].pc = p
    BY <1>2, <2>1 DEF Tracks
  <2> QED
    BY <2>2 DEF Holds, Made, StmtAt
<1>4. ASSUME g.phase # "run" PROVE Holds(g, g.pc)'
  BY <1>2, <1>4 DEF Tracks
<1> QED
  BY <1>1, <1>3, <1>4 DEF Tracks

\* The n outermost calls stay, the others up to the m-th are new or changed.
LEMMA CallsTrack ==
    ASSUME DInv, ContentKept, NEW n \in Nat, n <= Len(stack), NEW m \in Nat, Len(stack') = m,
           \A k \in 1..n : stack'[k] = stack[k],
           \A k \in (n + 1)..m : \E g : g = stack'[k] /\ Tracks(g, k)'
    PROVE  AllTrack'
<1>1. Len(stack) \in Nat /\ stack \in Seq(Call)
  BY LenProperties DEF DInv, FInv, IInv, TypeOK
<1>2. ASSUME NEW k \in 1..n, Live(stack[k]) PROVE \E g : g = stack'[k] /\ Tracks(g, k)'
  <2>1. PICK f : f = stack[k]
    OBVIOUS
  <2>2. k \in 1..Len(stack) /\ f \in Frame /\ Tracks(f, k)
    BY <1>1, <2>1 DEF DInv, AllTrack, Call
  <2>3. \A i \in 1..(k - 1) : stack'[i].pc = stack[i].pc
    BY <1>1
  <2>4. Tracks(f, k)'
    BY <1>2, <2>1, <2>2, <2>3, TrackKept
  <2> QED
    BY <2>1, <2>4
<1>3. ASSUME NEW k \in 1..m PROVE Tracks(stack[k], k)'
  <2>1. CASE k \in 1..n /\ ~ Live(stack[k])
    <3>1. ~ Live(stack'[k])
      BY <2>1
    <3> QED
      BY <3>1 DEF Tracks, Live
  <2>2. CASE ~ (k \in 1..n /\ ~ Live(stack[k]))
    <3>1. k \in (n + 1)..m \/ (k \in 1..n /\ Live(stack[k]))
      BY <2>2
    <3>2. PICK g : g = stack'[k] /\ Tracks(g, k)'
      BY <1>2, <3>1
    <3> QED
      BY <3>2 DEF Tracks
  <2> QED
    BY <2>1, <2>2
<1> QED
  BY <1>3 DEF AllTrack

\* A step changes the innermost call to g.
LEMMA TopTracks ==
    ASSUME DInv, stack # <<>>, ContentKept, NEW g, stack' = SetTop(g),
           Tracks(g, Len(stack))',
           Asking(g) => Holds(g, g.pc)' /\ \A k \in 1..(Len(stack) - 1) : stack[k].pc # g.pc
    PROVE  AllTrack' /\ AskedApart' /\ NewlyAsked'
<1>1. Len(stack) \in Nat \ {0} /\ stack \in Seq(Call)
  BY TopAt DEF DInv, FInv
<1>2. /\ Len(stack') = Len(stack) /\ stack'[Len(stack)] = g /\ top' = g /\ stack' # <<>>
      /\ \A k \in 1..(Len(stack) - 1) : stack'[k] = stack[k]
  <2>1. top' = g /\ stack' # <<>>
    BY NewTop DEF DInv, FInv
  <2> QED
    BY <1>1, <2>1 DEF SetTop
<1>3. AllTrack'
  <2>1. PICK n \in Nat : n = Len(stack) - 1
    BY <1>1
  <2>2. \A k \in (n + 1)..Len(stack) : k = Len(stack)
    BY <1>1, <2>1
  <2>3. \A k \in (n + 1)..Len(stack) : \E f : f = stack'[k] /\ Tracks(f, k)'
    BY <1>2, <2>2
  <2>4. n <= Len(stack) /\ Len(stack) \in Nat /\ Len(stack') = Len(stack)
        /\ \A k \in 1..n : stack'[k] = stack[k]
    BY <1>1, <1>2, <2>1
  <2> QED
    BY <2>1, <2>3, <2>4, CallsTrack
<1>4. AskedApart'
  BY <1>2 DEF DInv, AskedApart
<1>5. NewlyAsked'
  <2> SUFFICES ASSUME Asking(top)' PROVE Holds(top, top.pc)' /\ \A k \in 1..(Len(stack) - 1) : stack'[k].pc # g.pc
    BY <1>2 DEF NewlyAsked
  <2>1. Asking(g)
    BY <1>2 DEF Asking
  <2>2. Holds(top, top.pc)'
    BY <1>2, <2>1 DEF Holds
  <2> QED
    BY <1>2, <2>1, <2>2
<1> QED
  BY <1>3, <1>4, <1>5

\* The run of the staged function has ended.
LEMMA TopEnds ==
    ASSUME DInv, stack # <<>>, ContentKept, NEW g, stack' = SetTop(g), ~ Live(g)
    PROVE  AllTrack' /\ AskedApart' /\ NewlyAsked'
<1>1. Tracks(g, Len(stack))'
  BY DEF Tracks, Live
<1>2. ~ Asking(g)
  BY DEF Asking, Live
<1> QED
  BY <1>1, <1>2, TopTracks

\* The run goes on, and does not ask next.
LEMMA TopGoes ==
    ASSUME DInv, In("run"), ContentKept, NEW g, stack' = SetTop(g), g.phase = "run", ~ Asking(g),
           g.visited = top.visited, g.copies = top.copies
    PROVE  AllTrack' /\ AskedApart' /\ NewlyAsked'
<1>1. /\ stack # <<>> /\ top \in Frame /\ Live(top) /\ top = stack[Len(stack)]
      /\ stack \in Seq(Call) /\ Len(stack) \in Nat \ {0}
  BY TopAt DEF DInv, FInv, In, Live
<1>2. /\ Tracks(top, Len(stack))
      /\ \A k \in 1..(Len(stack) - 1) : stack'[k].pc = stack[k].pc
  BY <1>1 DEF DInv, AllTrack, SetTop
<1>3. PICK f : f = top
  OBVIOUS
<1>4. PICK j : j = Len(stack)
  OBVIOUS
<1>5. Tracks(g, j)'
  BY <1>1, <1>2, <1>3, <1>4, TrackKept
<1>6. Tracks(g, Len(stack))'
  BY <1>1, <1>4, <1>5 DEF SetTop
<1> QED
  BY <1>1, <1>6, TopTracks

-----------------------------------------------------------------------------
(* The staged function executes *)

LEMMA GoingDepth ==
    DInv /\ (CreateExpr \/ SkipStmt \/ TakeBool) => AllTrack' /\ AskedApart' /\ NewlyAsked'
<1> SUFFICES ASSUME DInv, CreateExpr \/ SkipStmt \/ TakeBool
             PROVE  AllTrack' /\ AskedApart' /\ NewlyAsked'
  OBVIOUS
<1>1. In("run") /\ prog' = prog /\ stmts' = stmts
  BY DEF CreateExpr, Creates, SkipStmt, Offers, TakeBool, Asks
<1>2. top \in Frame /\ top.phase = "run" /\ top.pending \in Seq(DOMAIN prog.code)
  BY <1>1, RunAt DEF DInv
<1>3. \E g : /\ stack' = SetTop(g) /\ g.phase = "run" /\ ~ Asking(g)
             /\ g.visited = top.visited /\ g.copies = top.copies
  <2>1. CASE CreateExpr
    <3> DEFINE p == IF Op = "expr" THEN prog.code[top.pc].next ELSE top.pc
               f == [top EXCEPT !.tested = (Op = "branch"), !.pc = p]
               q == Append(top.pending, top.pc)
               g == IF CatchingUp THEN [f EXCEPT !.used = @ + 1]
                    ELSE [f EXCEPT !.pending = q, !.exprs = Append(@, top.pc)]
    <3>1. stack' = SetTop(g)
      BY <1>2, <2>1 DEF CreateExpr, Frame
    <3>2. /\ g.phase = "run" /\ g.visited = top.visited /\ g.copies = top.copies
          /\ g.bools = top.bools
          /\ ~ CatchingUp => g.pending = q
      BY <1>2 DEF Frame
    <3> HIDE DEF g
    <3>3. q # <<>>
      <4>1. top.pc \in DOMAIN prog.code
        BY <1>1, <2>1, RunAt DEF CreateExpr, Creates, DInv
      <4> QED
        BY <1>2, <4>1, Appended
    <3> HIDE DEF q
    <3>4. ~ Asking(g)
      BY <3>2, <3>3 DEF Asking, CatchingUp
    <3> QED
      BY <3>1, <3>2, <3>4
  <2>2. CASE SkipStmt
    <3>1. /\ Passed.phase = "run" /\ Passed.visited = top.visited /\ Passed.copies = top.copies
          /\ Passed.bools = top.bools
      BY <1>2 DEF Passed, Frame
    <3>2. ~ Asking(Passed) /\ stack' = SetTop(Passed)
      BY <2>2, <3>1 DEF SkipStmt, Asking, CatchingUp
    <3> QED
      BY <3>1, <3>2
  <2>3. CASE TakeBool
    <3> DEFINE p == IF Last(top.bools) THEN prog.code[top.pc].next ELSE prog.code[top.pc].other
               g == [top EXCEPT !.bools = Front(top.bools), !.tested = FALSE, !.pc = p]
    <3>1. stack' = SetTop(g)
      BY <1>2, <2>3 DEF TakeBool, Frame
    <3>2. /\ g.phase = "run" /\ g.visited = top.visited /\ g.copies = top.copies /\ ~ g.tested
      BY <1>2 DEF Frame
    <3> HIDE DEF g
    <3>3. ~ Asking(g)
      BY <3>2 DEF Asking
    <3> QED
      BY <3>1, <3>2, <3>3
  <2> QED
    BY <2>1, <2>2, <2>3
<1>4. ContentKept
  BY <1>1, SameStmtsKept
<1> QED
  BY <1>1, <1>3, <1>4, TopGoes

\* The conditions that callers wait at are not added again, so that the run that
\* will ask at point p is the first to.
LEMMA AddStmtDepth == DInv /\ AddStmt => AllTrack' /\ AskedApart' /\ NewlyAsked'
<1> SUFFICES ASSUME DInv, AddStmt PROVE AllTrack' /\ AskedApart' /\ NewlyAsked'
  OBVIOUS
<1> DEFINE n == Len(stmts) + 1
           s == [Offered EXCEPT !.tag = StoredAs]
<1>0. PICK g : g = Visit(Passed, n, Offered)
  OBVIOUS
<1>1. /\ Offers /\ ~ CatchingUp /\ prog' = prog /\ stack' = SetTop(g)
      /\ stmts' = Append(stmts, s) /\ ~ NullCopy(Offered) /\ ~ LoopsBack(Offered)
  BY <1>0 DEF AddStmt, IsNew
<1>2. PICK p \in DOMAIN prog.code :
         /\ Offered = StmtAt(p) /\ Offered.tag \in Tag
         /\ p = IF top.pending # <<>> THEN Head(top.pending) ELSE top.pc
  BY <1>1, OfferedAt DEF DInv
<1>3. /\ In("run") /\ stack # <<>> /\ top \in Frame /\ top.bools = <<>> /\ top.phase = "run"
      /\ TypeOK /\ top = stack[Len(stack)] /\ Len(stack) \in Nat \ {0} /\ stack \in Seq(Call)
  BY <1>1, RunAt, TopAt DEF Offers, CatchingUp, DInv, FInv, IInv
<1>4. Offered \in Stmt /\ StoredAs \in Tag /\ HeapOK
  BY <1>1, <1>2, <1>3, OfferedType, StoredTagType DEF StoredAs, TypeOK
<1>5. s \in Stmt /\ s.kind = Offered.kind /\ SameContent(s, Offered)
  BY <1>4, SetStmtTag DEF Stmt, SameContent
<1> HIDE DEF s
<1>6. ContentKept
  BY <1>1, <1>4, <1>5, AppendedKept
<1>7. Made(stmts'[n], p)
  <2>1. stmts'[n] = s
    BY <1>1, <1>4, <1>5, CreatedPlace
  <2> QED
    BY <1>2, <1>5, <2>1 DEF Made
<1> HIDE DEF n
<1>8. /\ Passed \in Frame /\ Passed.visited = top.visited /\ Passed.copies = top.copies
      /\ Passed.bools = <<>> /\ Passed.phase = "run" /\ Passed.tested = top.tested
  <2>1. Passed \in Frame /\ Passed.visited = top.visited /\ Passed.bools = <<>>
        /\ Passed.phase = "run" /\ Passed.tested = top.tested
    BY <1>1, <1>3, PassedFrame DEF DInv
  <2>2. Passed.copies = top.copies
    BY <1>3 DEF Passed, Frame
  <2> QED
    BY <2>1, <2>2
<1>9. /\ Counted(top) /\ \A k \in 1..(Len(stack) - 1) : Holds(top, stack[k].pc)
  BY <1>3 DEF DInv, AllTrack, Tracks, Live
<1>10. Counted(g)' /\ Holds(g, p)' /\ top.visited \subseteq g.visited
  BY <1>0, <1>1, <1>2, <1>3, <1>6, <1>7, <1>8, <1>9, VisitCounted
<1>11. /\ g.phase = "run" /\ g.bools = <<>> /\ g.tested = top.tested
       /\ g.pending = Passed.pending /\ g.pc = Passed.pc
  BY <1>0, <1>8 DEF Visit, Frame
<1>12. Len(stack') = Len(stack) /\ \A k \in 1..(Len(stack) - 1) : stack'[k] = stack[k]
  BY <1>1, <1>3 DEF SetTop
<1>13. Tracks(g, Len(stack))'
  <2>1. ASSUME NEW k \in 1..(Len(stack) - 1) PROVE Holds(g, stack[k].pc)'
    <3>1. PICK q : q = stack[k].pc
      OBVIOUS
    <3>2. Holds(g, q)'
      BY <1>3, <1>6, <1>9, <1>10, <3>1, HoldsKept
    <3>3. q = stack'[k].pc
      BY <1>12, <3>1
    <3> QED
      BY <3>2, <3>3 DEF Holds, Made, StmtAt
  <2> QED
    BY SMTT(30), <1>10, <1>11, <1>12, <2>1 DEF Tracks
<1>14. ASSUME Asking(g)
       PROVE  Holds(g, g.pc)' /\ \A k \in 1..(Len(stack) - 1) : stack[k].pc # g.pc
  <2>1. g.pc = p
    BY <1>1, <1>2, <1>11, <1>14, PassedLinked DEF Asking, DInv
  <2>2. ~ Holds(top, p)
    BY <1>1, <1>2, <1>3, <1>9, AskedAgain
  <2> QED
    BY <1>9, <1>10, <2>1, <2>2
<1> QED
  BY <1>1, <1>3, <1>6, <1>13, <1>14, TopTracks

-----------------------------------------------------------------------------
(* The run has ended *)

LEMMA CutDepth == DInv /\ (LoopBack \/ Memoize) => AllTrack' /\ AskedApart' /\ NewlyAsked'
<1> SUFFICES ASSUME DInv, LoopBack \/ Memoize PROVE AllTrack' /\ AskedApart' /\ NewlyAsked'
  OBVIOUS
<1>1. /\ Offers /\ ~ CatchingUp /\ prog' = prog /\ stack # <<>> /\ top \in Frame
  <2>1. Offers /\ ~ CatchingUp /\ prog' = prog
    BY DEF LoopBack, Memoize, IsNew
  <2> QED
    BY <2>1, RunAt DEF Offers, DInv
<1>2. PICK q : EndWith(q) /\ (stmts' = stmts \/ \E t \in Tag : stmts' = Append(stmts, Goto(t)))
  <2>1. CASE LoopBack
    <3>1. LoopTarget(Offered) \in Tag
      BY <2>1, <1>1, OfferedAt, LoopTargetType, OfferedType DEF LoopBack, DInv, FInv, IInv
    <3> QED
      BY <2>1, <3>1 DEF LoopBack, EndWithGoto
  <2>2. CASE Memoize
    <3>1. StoredAs \in Tag
      BY <1>1, OfferedAt, StoredTagType DEF StoredAs, DInv
    <3> QED
      BY <2>2, <3>1 DEF Memoize, EndWithGoto
  <2> QED
    BY <2>1, <2>2
<1>3. ContentKept
  <2>1. HeapOK
    BY DEF DInv, FInv, IInv, TypeOK
  <2>2. ASSUME NEW t \in Tag, stmts' = Append(stmts, Goto(t)) PROVE ContentKept
    BY <1>1, <2>1, <2>2, GotoType, AppendedKept
  <2> QED
    BY <1>1, <1>2, <2>2, SameStmtsKept
<1>4. PICK f : f = [top EXCEPT !.phase = "add", !.pending = <<>>, !.queue = q]
  OBVIOUS
<1>5. stack' = SetTop(f) /\ ~ Live(f)
  BY <1>1, <1>2, <1>4 DEF EndWith, Frame, Live
<1> QED
  BY <1>1, <1>3, <1>5, TopEnds

LEMMA ReturnDepth == DInv /\ Return => AllTrack' /\ AskedApart' /\ NewlyAsked'
<1> SUFFICES ASSUME DInv, Return PROVE AllTrack' /\ AskedApart' /\ NewlyAsked'
  OBVIOUS
<1>1. prog' = prog /\ stack # <<>> /\ top \in Frame /\ HeapOK
  BY RunAt DEF Return, DInv, FInv, IInv, TypeOK
<1> DEFINE i == Len(stmts) + 1
           r == Statement("return", Copy(NoTag, uniques + 1), NoWhat, 0)
           e == [top EXCEPT !.phase = "add"]
<1>2. e.phase = "add" /\ e \in Frame
  BY <1>1 DEF Frame, Phases
<1>3. r \in Stmt
  <2>1. Copy(NoTag, uniques + 1) \in Tag
    BY DEF DInv, FInv, IInv, TypeOK, Copy, NoTag, Tag
  <2>2. 0 \in 0..Len(blocks) /\ NoTag \in Tag
    BY <1>1, LenProperties DEF HeapOK, NoTag, Tag
  <2> QED
    BY <2>1, <2>2 DEF Statement, Stmt
<1>4. PICK f : /\ stack' = SetTop(f)
               /\ \/ f = e /\ stmts' = stmts
                  \/ f = Visit(e, i, r) /\ stmts' = Append(stmts, r)
  BY DEF Return
<1> HIDE DEF r, e, i
<1>5. ContentKept
  BY <1>1, <1>3, <1>4, SameStmtsKept, AppendedKept
<1>6. ~ Live(f)
  <2>1. f.phase = "add"
    BY <1>2, <1>4 DEF Visit, Frame
  <2> QED
    BY <2>1 DEF Live
<1> QED
  BY <1>1, <1>4, <1>5, <1>6, TopEnds

\* An if that is split is no statement of the staged function, and its condition
\* variables come behind all statements.
LEMMA SplitKept == ASSUME FInv, TrimSplit PROVE ContentKept
<1> DEFINE v == splits + 1
           if1 == Last(blocks[top.thn])
           n == Len(stmts)
           kept == [stmts EXCEPT ![if1] = [@ EXCEPT !.what = NoWhat, !.var = v]]
           decl == Statement("decl", BackThen.tag, NoWhat, v)
           assign(s) == [Statement("expr", s.tag, s.what, v) EXCEPT !.from = s.var]
           made == <<decl, assign(BackThen), assign(BackElse)>>
<1>1. stmts' = kept \o made /\ BothArms /\ NeedsSplitting(BackThen, BackElse) /\ prog' = prog
  BY DEF TrimSplit, Split
<1>2. if1 \in DOMAIN stmts /\ stmts[if1].kind = "if"
  BY <1>1, ArmsType DEF FInv, IInv, BackThen, NeedsSplitting
<1>3. n \in Nat /\ stmts \in Seq(Stmt) /\ DOMAIN stmts = 1..n
  BY LenProperties DEF FInv, IInv, TypeOK, HeapOK
<1>4. DOMAIN kept = 1..n /\ \A i \in 1..n : i # if1 => kept[i] = stmts[i]
  BY <1>3
<1> HIDE DEF decl, assign
<1> DEFINE S == {kept[i] : i \in 1..n} \cup {decl, assign(BackThen), assign(BackElse)}
<1>5. kept \in Seq(S) /\ Len(kept) = n
  <2>1. kept = [i \in 1..n |-> kept[i]]
    BY <1>4 DEF kept
  <2>2. kept \in [1..n -> S]
    BY <2>1
  <2> HIDE DEF kept, n, S
  <2> QED
    BY <1>3, <2>2, FunctionSeq
<1>6. made \in Seq(S)
  OBVIOUS
<1> HIDE DEF kept, made, S, if1
<1>7. \A i \in 1..Len(kept) : stmts'[i] = kept[i]
  <2>1. PICK u : u = kept \o made
    OBVIOUS
  <2>2. \A i \in 1..Len(kept) : u[i] = kept[i]
    BY <1>5, <1>6, <2>1, Joined
  <2> QED
    BY <1>1, <2>1, <2>2
<1> HIDE DEF n
<1>8. ASSUME NEW i \in DOMAIN stmts, stmts[i].kind \in {"expr", "decl"}
      PROVE  stmts'[i] = stmts[i]
  BY <1>2, <1>3, <1>4, <1>5, <1>7, <1>8
<1> QED
  BY <1>1, <1>8 DEF ContentKept, SameContent

LEMMA TrimDepth == DInv /\ Trim => AllTrack' /\ AskedApart' /\ NewlyAsked'
<1> SUFFICES ASSUME DInv, Trim PROVE AllTrack' /\ AskedApart' /\ NewlyAsked'
  OBVIOUS
<1>1. stack # <<>> /\ top.phase = "trim" /\ top \in Call /\ top \in Frame /\ prog' = prog /\ HeapOK
  BY TopAt DEF Trim, TrimCommon, Common, TrimSplit, Split, BothArms, BuildIf, In, DInv, FInv, IInv,
               TypeOK
<1>2. CASE TrimCommon
  <2>1. PICK q : stack' = SetTop([top EXCEPT !.tail = q])
    BY <1>2 DEF TrimCommon
  <2>2. PICK f : f = [top EXCEPT !.tail = q]
    OBVIOUS
  <2>3. stack' = SetTop(f) /\ ~ Live(f)
    BY <1>1, <2>1, <2>2 DEF Frame, Live
  <2>4. ContentKept
    BY <1>2, SameStmtsKept DEF TrimCommon
  <2> QED
    BY <1>1, <2>3, <2>4, TopEnds
<1>3. CASE TrimSplit
  <2>1. PICK t, q : stack' = SetTop([top EXCEPT !.tail = t, !.queue = q])
    BY <1>3 DEF TrimSplit
  <2>2. PICK f : f = [top EXCEPT !.tail = t, !.queue = q]
    OBVIOUS
  <2>3. stack' = SetTop(f) /\ ~ Live(f)
    BY <1>1, <2>1, <2>2 DEF Frame, Live
  <2> QED
    BY <1>1, <1>3, <2>3, SplitKept, TopEnds DEF DInv
<1>4. CASE BuildIf
  <2>1. PICK v, q, t : stack' = SetTop([top EXCEPT !.phase = "add", !.visited = v,
                                                   !.queue = q, !.tail = t])
    BY <1>4 DEF BuildIf
  <2>2. PICK f : f = [top EXCEPT !.phase = "add", !.visited = v, !.queue = q, !.tail = t]
    OBVIOUS
  <2>3. stack' = SetTop(f) /\ ~ Live(f)
    BY <1>1, <2>1, <2>2 DEF Frame, Live
  <2> DEFINE s == If(top.ifTag, top.cond, top.thn, top.els)
  <2>4. s \in Stmt
    <3>1. /\ top.ifTag \in Tag /\ top.cond.what \in What \cup {NoWhat} /\ top.cond.var \in Nat
          /\ top.thn \in 0..Len(blocks) /\ top.els \in 0..Len(blocks)
      BY <1>1, Fields DEF DInv, FInv, IInv
    <3>2. top.thn # 0 /\ top.els # 0
      BY <1>1 DEF Call
    <3>3. NoTag \in Tag
      BY DEF NoTag, Tag
    <3> QED
      BY <3>1, <3>2, <3>3 DEF If, Statement, Stmt
  <2>5. stmts' = Append(stmts, s)
    BY <1>4 DEF BuildIf
  <2> HIDE DEF s
  <2>6. ContentKept
    BY <1>1, <2>4, <2>5, AppendedKept
  <2> QED
    BY <1>1, <2>3, <2>6, TopEnds
<1> QED
  BY <1>2, <1>3, <1>4 DEF Trim

LEMMA EndingDepth ==
    DInv /\ (AddQueued \/ AppendTail \/ UpdateMemo) => AllTrack' /\ AskedApart' /\ NewlyAsked'
<1> SUFFICES ASSUME DInv, AddQueued \/ AppendTail \/ UpdateMemo
             PROVE  AllTrack' /\ AskedApart' /\ NewlyAsked'
  OBVIOUS
<1>1. stack # <<>> /\ top.phase \in {"add", "memo"} /\ top \in Frame /\ prog' = prog
  BY TopAt DEF AddQueued, HasQueued, AppendTail, UpdateMemo, In, DInv, FInv
<1>2. CASE AddQueued
  <2>1. PICK i : i = Head(top.queue)
    OBVIOUS
  <2>2. /\ stmts' = [stmts EXCEPT ![i].tag = StoredTag(Queued)]
        /\ stack' = SetTop([Visit(top, i, Queued) EXCEPT !.queue = Tail(@)])
        /\ top.queue # <<>>
    BY <1>2, <2>1 DEF AddQueued, HasQueued
  <2>3. PICK g : g = Visit(top, i, Queued)
    OBVIOUS
  <2>4. PICK f : f = [g EXCEPT !.queue = Tail(g.queue)]
    OBVIOUS
  <2>5. stack' = SetTop(f) /\ ~ Live(f)
    <3>1. f.phase = top.phase
      BY <1>1, <2>3, <2>4 DEF Visit, Frame
    <3> QED
      BY <1>1, <2>2, <2>3, <2>4, <3>1 DEF Live
  <2>6. ContentKept
    <3>1. i \in DOMAIN stmts
      BY <1>1, <2>1, <2>2, Fields, HeadTailProperties
    <3>2. stmts[i] \in Stmt
      BY <3>1, ElementOfSeq, LenProperties DEF DInv, FInv, IInv, TypeOK, HeapOK
    <3>3. stmts'[i].kind = stmts[i].kind /\ SameContent(stmts'[i], stmts[i])
      <4>1. stmts'[i] = [stmts[i] EXCEPT !.tag = StoredTag(Queued)]
        BY <2>2, <3>1
      <4> QED
        BY <3>2, <4>1 DEF Stmt, SameContent
    <3>4. \A j \in DOMAIN stmts : j # i => stmts'[j] = stmts[j]
      BY <2>2
    <3> QED
      BY <1>1, <3>3, <3>4 DEF ContentKept, SameContent
  <2> QED
    BY <1>1, <2>5, <2>6, TopEnds
<1>3. CASE AppendTail \/ UpdateMemo
  <2>1. PICK f : /\ stack' = SetTop(f)
                 /\ \/ f = [top EXCEPT !.phase = "memo", !.tail = <<>>]
                    \/ f = [top EXCEPT !.cursor = top.cursor + 1]
    BY <1>3 DEF AppendTail, UpdateMemo
  <2>2. ~ Live(f)
    <3>1. f.phase \in {"add", "memo"}
      BY <1>1, <2>1 DEF Frame
    <3> QED
      BY <3>1 DEF Live
  <2>3. ContentKept
    BY <1>3, SameStmtsKept DEF AppendTail, UpdateMemo
  <2> QED
    BY <1>1, <2>1, <2>2, <2>3, TopEnds
<1> QED
  BY <1>2, <1>3

-----------------------------------------------------------------------------
(* Runs start and return *)

LEMMA WaitsOn ==
    ASSUME DInv, NEW n \in 1..(Len(stack) - 1)
    PROVE  stack[n] \in Frame /\ Live(stack[n]) /\ stack[n].phase # "run" /\ Tracks(stack[n], n)
<1>1. stack \in Seq(Call) /\ Len(stack) \in Nat
  BY LenProperties DEF DInv, FInv, IInv, TypeOK
<1>2. stack[n].phase \in {"then", "else"}
  BY DEF DInv, FInv, IInv, WaitingAligned, Waits
<1> QED
  BY <1>1, <1>2 DEF Live, DInv, AllTrack, Call

\* A call with the maps of h, and the points its callers wait at
LEMMA NewTracks ==
    ASSUME ContentKept, NEW h \in Frame, Counted(h), NEW j,
           \A k \in 1..(j - 1) : Holds(h, stack'[k].pc),
           NEW g, g.visited = h.visited, g.copies = h.copies,
           g.phase # "run" => Holds(h, g.pc)
    PROVE  Tracks(g, j)'
<1>1. Counted(g)'
  BY CountedKept
<1>2. \A p : Holds(h, p) => Holds(g, p)'
  BY SMTT(30), HoldsKept
<1>3. ASSUME NEW k \in 1..(j - 1) PROVE Holds(g, stack[k].pc)'
  <2>1. PICK p : p = stack'[k].pc
    OBVIOUS
  <2>2. Holds(h, p)
    BY <2>1 DEF Holds, Made, StmtAt
  <2>3. Holds(g, p)'
    BY <1>2, <2>2
  <2> QED
    BY <2>1, <2>3 DEF Holds, Made, StmtAt
<1>4. ASSUME g.phase # "run" PROVE Holds(g, g.pc)'
  BY <1>2, <1>4
<1> QED
  BY <1>1, <1>3, <1>4 DEF Tracks

\* The call f waits at its condition, and has started a run.
LEMMA ForkTracks ==
    ASSUME DInv, ContentKept, NEW n \in Nat, n < Len(stack), Len(stack') = n + 2,
           \A k \in 1..n : stack'[k] = stack[k],
           NEW f \in Frame, Tracks(f, n + 1), Live(f), Holds(f, f.pc),
           NEW g, stack'[n + 1] = g, g.visited = f.visited, g.copies = f.copies,
           g.pc = f.pc,
           NEW run, stack'[n + 2] = run, run.phase = "run",
           run.visited = f.visited, run.copies = f.copies
    PROVE  AllTrack'
<1>1. Counted(f) /\ \A k \in 1..n : Holds(f, stack[k].pc)
  BY DEF Tracks
<1>2. \A k \in 1..(n + 1) : Holds(f, stack'[k].pc)
  <2>1. \A k \in 1..n : Holds(f, stack'[k].pc)
    BY <1>1
  <2>2. Holds(f, stack'[n + 1].pc)
    OBVIOUS
  <2>3. \A k \in 1..(n + 1) : k \in 1..n \/ k = n + 1
    OBVIOUS
  <2> QED
    BY <2>1, <2>2, <2>3
<1>3. PICK i : i = n + 1
  OBVIOUS
<1>4. PICK j : j = n + 2
  OBVIOUS
<1>5. Tracks(g, i)'
  <2>1. \A k \in 1..(i - 1) : Holds(f, stack'[k].pc)
    BY <1>2, <1>3
  <2> QED
    BY <1>1, <2>1, NewTracks
<1>6. Tracks(run, j)'
  <2>1. \A k \in 1..(j - 1) : Holds(f, stack'[k].pc)
    BY <1>2, <1>4
  <2> QED
    BY <1>1, <2>1, NewTracks
<1>7. \A k \in (n + 1)..(n + 2) : \E h : h = stack'[k] /\ Tracks(h, k)'
  <2>1. \A k \in (n + 1)..(n + 2) : k = i \/ k = j
    BY <1>3, <1>4
  <2> QED
    BY <1>3, <1>4, <1>5, <1>6, <2>1
<1>8. n <= Len(stack) /\ n + 2 \in Nat
  BY LenProperties DEF DInv, FInv, IInv, TypeOK
<1> QED
  BY <1>7, <1>8, CallsTrack

LEMMA OutOfBoolsDepth == DInv /\ OutOfBools => AllTrack' /\ AskedApart' /\ NewlyAsked'
<1> SUFFICES ASSUME DInv, OutOfBools PROVE AllTrack' /\ AskedApart' /\ NewlyAsked'
  OBVIOUS
<1> DEFINE s == stmts[Last(Body)]
<1>0. PICK n : n = Len(stack) - 1
  OBVIOUS
<1>1. PICK f : f = [top EXCEPT !.phase = "then", !.ifTag = StmtAt(top.pc).tag,
                               !.cond = [what |-> s.what, var |-> s.var]]
  OBVIOUS
<1>2. PICK run : run = NewRun(Answers(f, TRUE), f, Len(blocks) + 1)
  OBVIOUS
<1>3. /\ Asks /\ ~ CatchingUp /\ stack # <<>> /\ top \in Frame /\ prog' = prog /\ stmts' = stmts
      /\ stack \in Seq(Call) /\ Len(stack) \in Nat \ {0} /\ top = stack[Len(stack)]
      /\ stack' = Append(SetTop(f), run) /\ top.phase = "run"
  BY <1>1, <1>2, TopAt DEF OutOfBools, Asks, In, DInv, FInv
<1> HIDE DEF s
<1>4. /\ f.phase = "then" /\ f.pc = top.pc /\ f.visited = top.visited /\ f.copies = top.copies
      /\ run.phase = "run" /\ run.visited = top.visited /\ run.copies = top.copies
      /\ ~ run.tested
  <2>1. f.phase = "then" /\ f.pc = top.pc /\ f.visited = top.visited /\ f.copies = top.copies
    BY <1>1, <1>3 DEF Frame
  <2> QED
    BY <1>2, <2>1 DEF NewRun
<1>5. /\ n \in Nat /\ n < Len(stack) /\ n + 1 = Len(stack) /\ Len(stack') = n + 2
      /\ \A k \in 1..n : stack'[k] = stack[k]
      /\ stack'[n + 1] = f /\ stack'[n + 2] = run
  BY <1>0, <1>3 DEF SetTop
<1>6. Holds(top, top.pc) /\ \A k \in 1..n : stack[k].pc # top.pc
  BY <1>0, <1>3 DEF DInv, NewlyAsked, Asking, Asks, CatchingUp
<1>7. AllTrack'
  <2>1. PICK h \in Frame : h = top
    BY <1>3
  <2>2. Tracks(h, n + 1) /\ Live(h) /\ Holds(h, h.pc)
    <3>1. Tracks(top, Len(stack))
      BY <1>3 DEF DInv, AllTrack
    <3> QED
      BY <1>3, <1>5, <1>6, <2>1, <3>1 DEF Live
  <2>3. ContentKept
    BY <1>3, SameStmtsKept
  <2> QED
    BY <1>4, <1>5, <2>1, <2>2, <2>3, ForkTracks
<1>8. AskedApart'
  <2> SUFFICES ASSUME NEW j \in 1..(n + 1), NEW k \in 1..(n + 1), stack'[j].pc = stack'[k].pc
               PROVE  j = k
    BY <1>5 DEF AskedApart
  <2>1. \A i \in 1..(n + 1) : i = n + 1 \/ i \in 1..(Len(stack) - 1)
    BY <1>5
  <2>2. \A i \in 1..(Len(stack) - 1) : stack'[i] = stack[i] /\ stack[i].pc # stack'[n + 1].pc
    BY <1>4, <1>5, <1>6
  <2> QED
    BY <2>1, <2>2 DEF DInv, AskedApart
<1>9. NewlyAsked'
  <2>1. top' = run
    BY <1>5 DEF top, Last
  <2> QED
    BY <1>4, <2>1 DEF NewlyAsked, Asking
<1> QED
  BY <1>7, <1>8, <1>9

LEMMA ReturnThenDepth == DInv /\ ReturnThen => AllTrack' /\ AskedApart' /\ NewlyAsked'
<1> SUFFICES ASSUME DInv, ReturnThen PROVE AllTrack' /\ AskedApart' /\ NewlyAsked'
  OBVIOUS
<1>0. PICK n : n = Len(stack) - 2
  OBVIOUS
<1>1. PICK f : f = [caller EXCEPT !.phase = "else", !.thn = top.block]
  OBVIOUS
<1>2. PICK run : run = NewRun(Answers(f, FALSE), f, Len(blocks) + 1)
  OBVIOUS
<1>3. /\ prog' = prog /\ stmts' = stmts /\ stack \in Seq(Call) /\ Len(stack) \in Nat
      /\ Len(stack) > 1 /\ stack' = SubSeq(stack, 1, n) \o <<f, run>>
  BY <1>0, <1>1, <1>2, LenProperties DEF ReturnThen, DInv, FInv, IInv, TypeOK
<1>4. n \in Nat /\ n < Len(stack) /\ n + 1 \in 1..(Len(stack) - 1) /\ n + 2 = Len(stack)
      /\ caller = stack[n + 1]
  BY <1>0, <1>3 DEF caller
<1>5. PICK h \in Frame : /\ h = caller /\ Live(h) /\ h.phase # "run" /\ Tracks(h, n + 1)
  BY <1>4, WaitsOn
<1>6. /\ f.pc = h.pc /\ f.visited = h.visited /\ f.copies = h.copies
      /\ run.phase = "run" /\ run.visited = h.visited /\ run.copies = h.copies /\ ~ run.tested
  <2>1. f.pc = h.pc /\ f.visited = h.visited /\ f.copies = h.copies
    BY <1>1, <1>5 DEF Frame
  <2> QED
    BY <1>2, <2>1 DEF NewRun
<1>7. /\ Len(stack') = n + 2 /\ \A k \in 1..n : stack'[k] = stack[k]
      /\ stack'[n + 1] = f /\ stack'[n + 2] = run
  <2>1. /\ SubSeq(stack, 1, n) \in Seq(Call) /\ Len(SubSeq(stack, 1, n)) = n
        /\ \A k \in 1..n : SubSeq(stack, 1, n)[k] = stack[k]
    BY <1>3, <1>4, Cut
  <2> QED
    BY <1>3, <1>4, <2>1
<1>8. AllTrack'
  <2>1. Holds(h, h.pc)
    BY <1>5 DEF Tracks
  <2>2. ContentKept
    BY <1>3, SameStmtsKept
  <2> QED
    BY <1>4, <1>5, <1>6, <1>7, <2>1, <2>2, ForkTracks
<1>9. AskedApart'
  <2>1. \A i \in 1..(n + 1) : stack'[i].pc = stack[i].pc
    <3>1. \A i \in 1..(n + 1) : i \in 1..n \/ i = n + 1
      BY <1>4
    <3> QED
      BY <1>4, <1>5, <1>6, <1>7, <3>1
  <2>2. Len(stack') - 1 = n + 1 /\ Len(stack) - 1 = n + 1
    BY <1>4, <1>7
  <2> QED
    BY <2>1, <2>2 DEF DInv, AskedApart
<1>10. NewlyAsked'
  <2>1. top' = run
    BY <1>4, <1>7 DEF top, Last
  <2> QED
    BY <1>6, <2>1 DEF NewlyAsked, Asking
<1> QED
  BY <1>8, <1>9, <1>10

LEMMA ReturnElseDepth == DInv /\ ReturnElse => AllTrack' /\ AskedApart' /\ NewlyAsked'
<1> SUFFICES ASSUME DInv, ReturnElse PROVE AllTrack' /\ AskedApart' /\ NewlyAsked'
  OBVIOUS
<1>0. PICK n : n = Len(stack) - 2
  OBVIOUS
<1>1. PICK f : f = [caller EXCEPT !.phase = "trim", !.els = top.block]
  OBVIOUS
<1>2. /\ prog' = prog /\ stmts' = stmts /\ stack \in Seq(Call) /\ Len(stack) \in Nat
      /\ Len(stack) > 1 /\ stack' = Append(SubSeq(stack, 1, n), f)
  BY <1>0, <1>1, LenProperties DEF ReturnElse, DInv, FInv, IInv, TypeOK
<1>3. n \in Nat /\ n < Len(stack) /\ n + 1 \in 1..(Len(stack) - 1) /\ n + 2 = Len(stack)
      /\ caller = stack[n + 1]
  BY <1>0, <1>2 DEF caller
<1>4. ~ Live(f)
  <2>1. f.phase = "trim"
    BY <1>1, <1>3, WaitsOn DEF Frame
  <2> QED
    BY <2>1 DEF Live
<1>5. /\ Len(stack') = n + 1 /\ stack'[n + 1] = f /\ \A k \in 1..n : stack'[k] = stack[k]
  <2>1. /\ SubSeq(stack, 1, n) \in Seq(Call) /\ Len(SubSeq(stack, 1, n)) = n
        /\ \A k \in 1..n : SubSeq(stack, 1, n)[k] = stack[k]
    BY <1>2, <1>3, Cut
  <2> QED
    BY <1>2, <1>3, <2>1
<1>6. AllTrack'
  <2>1. \A k \in (n + 1)..(n + 1) : \E g : g = stack'[k] /\ Tracks(g, k)'
    <3>1. \A k : Tracks(f, k)'
      BY <1>4 DEF Tracks, Live
    <3>2. \A k \in (n + 1)..(n + 1) : k = n + 1
      BY <1>3
    <3> QED
      BY <1>5, <3>1, <3>2
  <2>2. n <= Len(stack) /\ n + 1 \in Nat
    BY <1>2, <1>3
  <2>3. ContentKept
    BY <1>2, SameStmtsKept
  <2> QED
    BY <1>3, <1>5, <2>1, <2>2, <2>3, CallsTrack
<1>7. AskedApart'
  <2>1. \A i \in 1..(Len(stack') - 1) : stack'[i] = stack[i] /\ i \in 1..(Len(stack) - 1)
    BY <1>3, <1>5
  <2> QED
    BY <2>1 DEF DInv, AskedApart
<1>8. NewlyAsked'
  <2>1. top' = f
    BY <1>3, <1>5 DEF top, Last
  <2> QED
    BY <1>4, <2>1 DEF NewlyAsked, Asking, Live
<1> QED
  BY <1>6, <1>7, <1>8

-----------------------------------------------------------------------------
(* The theorem *)

LEMMA DepthInit == Init => DInv
<1> SUFFICES ASSUME Init PROVE DInv
  OBVIOUS
<1> DEFINE run == NewRun(<<>>, [exprs |-> <<>>, visited |-> {}, copies |-> {}], 1)
<1>1. FInv /\ stack = <<run>>
  BY ForksInit DEF Init
<1>2. run.phase = "run" /\ run.tested = FALSE /\ run.visited = {} /\ run.copies = {}
  BY DEF NewRun
<1> HIDE DEF run
<1>3. Len(stack) = 1 /\ stack[1] = run /\ top = run
  BY <1>1 DEF top, Last
<1>4. AllTrack
  BY <1>2, <1>3 DEF AllTrack, Tracks, Counted
<1> QED
  BY <1>1, <1>2, <1>3, <1>4 DEF DInv, AskedApart, NewlyAsked, Asking

LEMMA DepthStep == DInv /\ [Next]_vars => DInv'
<1> SUFFICES ASSUME DInv, [Next]_vars PROVE DInv'
  OBVIOUS
<1>1. FInv'
  BY ForksStep DEF DInv
<1>2. AllTrack' /\ AskedApart' /\ NewlyAsked'
  <2>1. CASE Run
    BY <2>1, GoingDepth, AddStmtDepth, CutDepth, OutOfBoolsDepth, ReturnDepth DEF Run
  <2>2. CASE Trim
    BY <2>2, TrimDepth
  <2>3. CASE ReturnRoot
    <3>1. stack' = <<>>
      BY <2>3 DEF ReturnRoot
    <3> QED
      BY <3>1 DEF AllTrack, AskedApart, NewlyAsked
  <2>4. CASE EndOfRun /\ ~ ReturnRoot
    BY <2>4, EndingDepth, ReturnThenDepth, ReturnElseDepth DEF EndOfRun
  <2>5. CASE UNCHANGED vars
    <3>1. prog' = prog /\ stack' = stack /\ stmts' = stmts
      BY <2>5 DEF vars
    <3>2. AskedApart'
      BY <3>1 DEF DInv, AskedApart
    <3>3. AllTrack'
      BY SMTT(30), <3>1 DEF DInv, AllTrack, Tracks, Live, Counted, Holds, Made, SameContent, StmtAt,
                  Statement, NoTag, NoLoc, Copy
    <3>4. NewlyAsked'
      BY <3>1 DEF DInv, NewlyAsked, Asking, top, Last, Holds, Made, SameContent, StmtAt,
                  Statement, NoTag, NoLoc
    <3> QED
      BY <3>2, <3>3, <3>4
  <2> QED
    BY <2>1, <2>2, <2>3, <2>4, <2>5 DEF Next, Extract, Extracted
<1> QED
  BY <1>1, <1>2 DEF DInv

LEMMA DepthEnough == DInv => DepthBounded
<1> SUFFICES ASSUME DInv PROVE DepthBounded
  OBVIOUS
<1>1. Len(stack) \in Nat /\ IsFiniteSet(Branches) /\ Cardinality(Branches) \in Nat
  <2>1. Len(prog.code) \in Nat /\ DOMAIN prog.code = 1..Len(prog.code)
    BY LenProperties DEF DInv, FInv, IInv, TypeOK, Program
  <2>2. IsFiniteSet(1..Len(prog.code))
    BY <2>1, FS_Interval
  <2>3. Branches \subseteq 1..Len(prog.code)
    BY <2>1 DEF Branches
  <2>4. IsFiniteSet(Branches)
    BY <2>2, <2>3, FS_Subset
  <2>5. Len(stack) \in Nat
    BY LenProperties DEF DInv, FInv, IInv, TypeOK
  <2> QED
    BY <2>4, <2>5, FS_CardinalityType
<1>2. CASE Len(stack) <= 1
  BY <1>1, <1>2 DEF DepthBounded
<1>3. CASE Len(stack) > 1
  <2>1. PICK n : n = Len(stack) - 1
    OBVIOUS
  <2>2. n \in Nat \ {0} /\ Len(stack) = n + 1
    BY <1>1, <1>3, <2>1
  <2> DEFINE at == [k \in 1..n |-> stack[k].pc]
  <2>3. \A k \in 1..n : at[k] \in Branches
    BY <2>1 DEF DInv, FInv, IInv, WaitingAligned, Waits, Branches
  <2>4. \A j, k \in 1..n : at[j] = at[k] => j = k
    BY <2>1 DEF DInv, AskedApart
  <2>5. at \in [1..n -> Branches]
    BY <2>3
  <2> HIDE DEF at
  <2>6. at \in Injection(1..n, Branches)
    BY <2>4, <2>5 DEF Injection, IsInjective
  <2>7. Cardinality(1..n) <= Cardinality(Branches)
    BY <1>1, <2>6, FS_Injection
  <2>8. Cardinality(1..n) = n
    <3>1. 1 \in Int /\ n \in Int /\ ~ (1 > n) /\ n - 1 + 1 = n
      BY <2>2
    <3>2. Cardinality(1..n) = IF 1 > n THEN 0 ELSE n - 1 + 1
      BY <3>1, FS_Interval
    <3> QED
      BY <3>1, <3>2
  <2>9. n <= Cardinality(Branches)
    BY <2>7, <2>8
  <2> QED
    BY <1>1, <2>2, <2>9 DEF DepthBounded
<1> QED
  BY <1>1, <1>2, <1>3

\* The recursion of extract_ast_from_run is never deeper than the staged function has
\* branches, whatever loops and tags it has.
THEOREM DepthCorrect == Spec => []DepthBounded
BY DepthInit, DepthStep, DepthEnough, PTL DEF Spec
=============================================================================
