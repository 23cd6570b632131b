----------------------- MODULE ExtractionFlow_proofs -----------------------
(***************************************************************************)
(* The statements that have been extracted follow each other as the points *)
(* of the staged function do, if no two points share a tag.  While the     *)
(* extraction goes on every call has a place where what it has extracted   *)
(* leads to: where its run is, the condition it waits at, or, when its run *)
(* has ended, the end of the function.  The place behind an if is chosen   *)
(* when the if is built.                                                   *)
(***************************************************************************)
EXTENDS ExtractionMemo_proofs, ExtractedFlow

\* What the call f has extracted, without the condition it is about to ask, and where
\* that leads to
Extracts(f) ==
    LET b == blocks[f.block]
    IN  CASE f.phase = "run" -> IF Asking(f) THEN Front(b) ELSE b
          [] Waiting(f) -> b
          [] OTHER -> (b \o f.queue) \o f.tail
LeadsTo(f, c) ==
    CASE f.phase = "run" -> NextPlace(f, c)
      [] Waiting(f) -> f.pc
      [] OTHER -> Exit
StartOf(k) ==
    IF k = 1 THEN 1
    ELSE LET point == prog.code[stack[k - 1].pc]
         IN  IF stack[k - 1].phase = "then" THEN point.next ELSE point.other
CallLeads(f, c, from, after) == Leads(Extracts(f), from, LeadsTo(f, c), after)

\* The branches of the condition that f waits at, the last of which is being trimmed,
\* lead to what has been trimmed.
Arms(f) == IF f.phase = "else" THEN {f.thn}
           ELSE IF f.phase = "trim" THEN {f.thn, f.els} ELSE {}
ArmsLead(f, after) ==
    LET point == prog.code[f.pc]
        p == Enters(f.tail, Exit)
    IN  /\ f.phase \in {"else", "trim"} => Leads(blocks[f.thn], point.next, p, after)
        /\ f.phase = "trim" => /\ Leads(blocks[f.els], point.other, p, after)
                               /\ FlowsTo(f.tail, Exit, after) /\ f.thn # f.els
ArmsOwn(k) ==
    \A b \in Arms(stack[k]) :
       /\ \A i \in DOMAIN stmts : b \notin {stmts[i].thn, stmts[i].els}
       /\ \A j \in 1..Len(stack) : b \in Arms(stack[j]) => j = k

\* Every other block leads to the end of the function, unless it is a branch of an if.
Open(b) ==
    /\ \A k \in 1..Len(stack) : stack[k].block # b
    /\ \A i \in Ifs : b \notin {stmts[i].thn, stmts[i].els}
    /\ b \in Arms(top) => top.phase # "trim"

GotoTo(s) ==
    s.kind = "goto" =>
       s.tag = NoTag /\ \E p \in DOMAIN prog.code : s.to.loc = prog.code[p].loc

\* Holds while functions whose points are apart are extracted, with the places behind
\* the ifs as they have been chosen
Flowing(after) ==
    /\ after \in [Nat -> PlacesOf]
    /\ \A i \in DOMAIN stmts : GotoTo(stmts[i])
    /\ \A i \in Ifs : Branching(i, after)
    /\ \A b \in DOMAIN blocks : Open(b) => FlowsTo(blocks[b], Exit, after)
    /\ \A k \in 1..Len(stack) :
          /\ CallLeads(stack[k], stack[k - 1], StartOf(k), after)
          /\ ArmsLead(stack[k], after) /\ ArmsOwn(k)
    /\ stack[1].block = 1

\* The inductive invariant
WInv == MInv /\ (PointsApart /\ stack # <<>> => \E after : Flowing(after)) /\ Flows

-----------------------------------------------------------------------------
(* Sequences of statements that lead from one place to another *)

LEMMA LeadsNone == \A p, after : Leads(<<>>, p, p, after)
BY DEF Leads, FlowsTo, Enters

LEMMA LeadsOne ==
    ASSUME NEW i, NEW p, NEW after, GoesTo(i, p, after)
    PROVE  Leads(<<i>>, At(stmts[i]), p, after)
<1>1. PICK q : q = <<i>>
  OBVIOUS
<1>2. DOMAIN q = {1} /\ Len(q) = 1 /\ q[1] = i /\ Head(q) = i /\ q # <<>>
  BY <1>1
<1>3. FlowsTo(q, p, after) /\ Enters(q, p) = At(stmts[i])
  BY <1>2 DEF FlowsTo, Enters
<1> QED
  BY <1>1, <1>3 DEF Leads

LEMMA LeadsJoin ==
    ASSUME NEW S, NEW q \in Seq(S), NEW r \in Seq(S), NEW from, NEW p, NEW to, NEW after,
           Leads(q, from, p, after), Leads(r, p, to, after), NEW u, u = q \o r
    PROVE  Leads(u, from, to, after)
<1>1. PICK n, m : n = Len(q) /\ m = Len(r)
  OBVIOUS
<1>2. /\ n \in Nat /\ m \in Nat /\ Len(u) = n + m /\ DOMAIN u = 1..(n + m)
      /\ DOMAIN q = 1..n /\ DOMAIN r = 1..m
      /\ \A k \in 1..n : u[k] = q[k]
      /\ \A k \in 1..m : u[n + k] = r[k]
  BY <1>1, Joined
<1>3. /\ q = <<>> <=> n = 0
      /\ r = <<>> <=> m = 0
      /\ u = <<>> <=> n + m = 0
      /\ q # <<>> => Head(q) = q[1]
      /\ r # <<>> => Head(r) = r[1]
      /\ u # <<>> => Head(u) = u[1]
  <2>1. u \in Seq(S)
    OBVIOUS
  <2> QED
    BY <1>1, <1>2, <2>1, EmptySeq
<1>4. p = IF m = 0 THEN to ELSE At(stmts[r[1]])
  BY <1>3 DEF Leads, Enters
<1>5. ASSUME NEW k \in DOMAIN u
      PROVE  GoesTo(u[k], IF k = Len(u) THEN to ELSE At(stmts[u[k + 1]]), after)
  <2>1. CASE k \in 1..n
    <3>1. GoesTo(q[k], IF k = n THEN p ELSE At(stmts[q[k + 1]]), after) /\ u[k] = q[k]
      BY <1>1, <1>2, <2>1 DEF Leads, FlowsTo
    <3>2. CASE k = n
      <4>1. m # 0 => k # n + m /\ u[k + 1] = r[1]
        <5>1. m # 0 => 1 \in 1..m
          BY <1>2
        <5> QED
          BY <1>2, <3>2, <5>1
      <4>2. m = 0 => k = n + m
        BY <1>2, <3>2
      <4> QED
        BY <1>2, <1>4, <3>1, <3>2, <4>1, <4>2
    <3>3. CASE k # n
      <4>1. k + 1 \in 1..n /\ k # n + m
        BY <1>2, <2>1, <3>3
      <4>2. u[k + 1] = q[k + 1]
        BY <1>2, <4>1
      <4> QED
        BY <1>2, <3>1, <3>3, <4>1, <4>2
    <3> QED
      BY <3>2, <3>3
  <2>2. CASE k \notin 1..n
    <3>1. PICK j \in 1..m : k = n + j
      <4>1. k - n \in 1..m /\ k = n + (k - n)
        BY <1>2, <2>2
      <4> QED
        BY <4>1
    <3>2. GoesTo(r[j], IF j = m THEN to ELSE At(stmts[r[j + 1]]), after)
      BY <1>1, <1>2, <3>1 DEF Leads, FlowsTo
    <3>3. u[k] = r[j] /\ (k = n + m <=> j = m)
      BY <1>2, <3>1
    <3>4. j # m => u[k + 1] = r[j + 1]
      <4>1. j # m => j + 1 \in 1..m /\ k + 1 = n + (j + 1)
        BY <1>2, <3>1
      <4> QED
        BY <1>2, <4>1
    <3> QED
      BY <1>2, <3>2, <3>3, <3>4
  <2> QED
    BY <2>1, <2>2
<1>6. Enters(u, to) = from
  <2>1. CASE n = 0
    <3>1. p = from
      BY <1>3, <2>1 DEF Leads, Enters
    <3>2. u = <<>> <=> m = 0
      BY <1>2, <1>3, <2>1
    <3>3. m # 0 => u[1] = r[1]
      <4>1. m # 0 => 1 \in 1..m /\ n + 1 = 1
        BY <1>2, <2>1
      <4> QED
        BY <1>2, <4>1
    <3> QED
      BY <1>3, <1>4, <3>1, <3>2, <3>3 DEF Enters
  <2>2. CASE n # 0
    <3>1. 1 \in 1..n /\ n + m # 0
      BY <1>2, <2>2
    <3>2. u # <<>> /\ u[1] = q[1]
      BY <1>2, <1>3, <3>1
    <3> QED
      BY <1>3, <2>2, <3>2 DEF Leads, Enters
  <2> QED
    BY <2>1, <2>2
<1> QED
  BY <1>5, <1>6 DEF Leads, FlowsTo

LEMMA LeadsAppend ==
    ASSUME NEW S, NEW q \in Seq(S), NEW i \in S, NEW from, NEW p, NEW to, NEW after,
           Leads(q, from, p, after), At(stmts[i]) = p, GoesTo(i, to, after),
           NEW u, u = Append(q, i)
    PROVE  Leads(u, from, to, after)
<1>1. PICK r : r = <<i>>
  OBVIOUS
<1>2. r \in Seq(S) /\ u = q \o r
  BY <1>1
<1>3. Leads(r, p, to, after)
  BY <1>1, LeadsOne
<1> QED
  BY <1>2, <1>3, LeadsJoin

LEMMA LeadsFront ==
    ASSUME NEW S, NEW q \in Seq(S), q # <<>>, NEW from, NEW to, NEW after,
           Leads(q, from, to, after), NEW u, u = Front(q), NEW i, i = Last(q)
    PROVE  Leads(u, from, At(stmts[i]), after) /\ GoesTo(i, to, after)
<1>1. /\ Len(q) \in Nat \ {0} /\ u \in Seq(S) /\ Len(u) = Len(q) - 1 /\ i = q[Len(q)]
      /\ DOMAIN u = 1..(Len(q) - 1) /\ \A k \in 1..(Len(q) - 1) : u[k] = q[k]
      /\ DOMAIN q = 1..Len(q) /\ Head(q) = q[1]
      /\ u # <<>> => Head(u) = u[1]
  <2>1. Len(q) \in Nat \ {0} /\ DOMAIN q = 1..Len(q) /\ Head(q) = q[1] /\ i = q[Len(q)]
    BY EmptySeq DEF Last
  <2>2. u \in Seq(S) /\ Len(u) = Len(q) - 1 /\ \A k \in 1..(Len(q) - 1) : u[k] = q[k]
    BY <2>1 DEF Front
  <2> QED
    BY <2>1, <2>2
<1>2. ASSUME NEW k \in DOMAIN u
      PROVE  GoesTo(u[k], IF k = Len(u) THEN At(stmts[i]) ELSE At(stmts[u[k + 1]]), after)
  <2>1. k \in DOMAIN q /\ k # Len(q) /\ u[k] = q[k]
    BY <1>1
  <2>2. GoesTo(q[k], At(stmts[q[k + 1]]), after)
    BY <2>1 DEF Leads, FlowsTo
  <2>3. CASE k = Len(u)
    <3>1. q[k + 1] = i
      BY <1>1, <2>3
    <3> QED
      BY <2>1, <2>2, <2>3, <3>1
  <2>4. CASE k # Len(u)
    <3>1. u[k + 1] = q[k + 1]
      BY <1>1, <2>4
    <3> QED
      BY <2>1, <2>2, <2>4, <3>1
  <2> QED
    BY <2>3, <2>4
<1>3. GoesTo(i, to, after)
  <2>1. Len(q) \in DOMAIN q
    BY <1>1
  <2> QED
    BY <1>1, <2>1 DEF Leads, FlowsTo
<1>4. Enters(u, At(stmts[i])) = from
  <2>1. from = At(stmts[q[1]])
    BY <1>1 DEF Leads, Enters
  <2>2. u = <<>> => q[1] = i
    <3>1. u = <<>> => Len(u) = 0
      OBVIOUS
    <3>2. u = <<>> => Len(q) = 1
      BY <1>1, <3>1
    <3> QED
      BY <1>1, <3>2
  <2>3. u # <<>> => u[1] = q[1]
    <3>1. u # <<>> => Len(u) # 0
      BY <1>1, EmptySeq
    <3>2. u # <<>> => 1 \in 1..(Len(q) - 1)
      BY <1>1, <3>1
    <3> QED
      BY <1>1, <3>2
  <2> QED
    BY <1>1, <2>1, <2>2, <2>3 DEF Enters
<1> QED
  BY <1>2, <1>3, <1>4 DEF Leads, FlowsTo

\* What ends in a goto or a return leads anywhere.
LEMMA LeadsAnywhere ==
    ASSUME NEW S, NEW q \in Seq(S), q # <<>>, NEW from, NEW to, NEW after,
           Leads(q, from, to, after), Leaves(stmts[Last(q)])
    PROVE  \A p : Leads(q, from, p, after)
<1> SUFFICES ASSUME NEW p PROVE Leads(q, from, p, after)
  OBVIOUS
<1>1. Len(q) \in Nat \ {0} /\ DOMAIN q = 1..Len(q) /\ Last(q) = q[Len(q)]
  BY EmptySeq DEF Last
<1>2. ASSUME NEW k \in DOMAIN q
      PROVE  GoesTo(q[k], IF k = Len(q) THEN p ELSE At(stmts[q[k + 1]]), after)
  <2>1. CASE k = Len(q)
    <3>1. stmts[q[k]].kind \in {"goto", "return"}
      BY <1>1, <2>1 DEF Leaves
    <3> QED
      BY <3>1 DEF GoesTo
  <2>2. CASE k # Len(q)
    BY <2>2 DEF Leads, FlowsTo
  <2> QED
    BY <2>1, <2>2
<1> QED
  BY <1>2 DEF Leads, FlowsTo, Enters

LEMMA LeadsSuffix ==
    ASSUME NEW S, NEW q \in Seq(S), NEW m \in 1..Len(q), NEW to, NEW after,
           FlowsTo(q, to, after), NEW u, u = SubSeq(q, m, Len(q))
    PROVE  Leads(u, At(stmts[q[m]]), to, after)
<1>1. PICK n : n = Len(q) - m + 1
  OBVIOUS
<1>2. /\ n \in Nat \ {0} /\ Len(u) = n /\ u \in Seq(S) /\ DOMAIN u = 1..n /\ DOMAIN q = 1..Len(q)
      /\ Len(q) \in Nat /\ \A k \in 1..n : u[k] = q[m + k - 1]
  BY <1>1
<1>3. ASSUME NEW k \in DOMAIN u
      PROVE  GoesTo(u[k], IF k = Len(u) THEN to ELSE At(stmts[u[k + 1]]), after)
  <2>1. PICK j : j = m + k - 1
    OBVIOUS
  <2>2. j \in DOMAIN q /\ u[k] = q[j] /\ (k = Len(u) <=> j = Len(q))
    BY <1>1, <1>2, <2>1
  <2>3. GoesTo(q[j], IF j = Len(q) THEN to ELSE At(stmts[q[j + 1]]), after)
    BY <2>2 DEF FlowsTo
  <2>4. k # Len(u) => u[k + 1] = q[j + 1]
    <3>1. k # Len(u) => k + 1 \in 1..n /\ m + (k + 1) - 1 = j + 1
      BY <1>1, <1>2, <2>1
    <3> QED
      BY <1>2, <3>1
  <2> QED
    BY <2>2, <2>3, <2>4
<1>4. u # <<>> /\ Head(u) = q[m]
  <2>1. u # <<>> /\ Head(u) = u[1] /\ 1 \in 1..n
    <3>1. u = <<>> => Len(u) = 0
      OBVIOUS
    <3>2. u # <<>> /\ 1 \in 1..n
      BY <1>2, <3>1
    <3> QED
      BY <1>2, <3>2
  <2>2. m + 1 - 1 = m
    BY <1>1
  <2> QED
    BY <1>2, <2>1, <2>2
<1> QED
  BY <1>3, <1>4 DEF Leads, FlowsTo, Enters

-----------------------------------------------------------------------------
(* The places of statements *)

LEMMA PointFound ==
    ASSUME PointsApart, NEW p \in DOMAIN prog.code
    PROVE  PointAt(prog.code[p].loc) = p
BY DEF PointsApart, PointAt

LEMMA AtOf ==
    ASSUME PointsApart, NEW s, s.kind \notin {"goto", "return"},
           NEW p \in DOMAIN prog.code, s.tag.loc = prog.code[p].loc
    PROVE  At(s) = p
BY PointFound DEF At

LEMMA AtGoto ==
    ASSUME PointsApart, NEW s, s.kind = "goto",
           NEW p \in DOMAIN prog.code, s.to.loc = prog.code[p].loc
    PROVE  At(s) = p
BY PointFound DEF At

LEMMA AtKnown ==
    ASSUME PointsApart, NEW s, FromPoint(s), GotoTo(s),
           s.kind \in {"expr", "decl", "if", "goto", "return"}
    PROVE  /\ At(s) \in PlacesOf
           /\ s.kind \in {"expr", "decl", "if"} =>
                 /\ At(s) \in DOMAIN prog.code /\ IsOf(s, At(s))
                 /\ s.kind = "if" => At(s) \in Branches
                 /\ s.kind # "if" => s.kind = StmtAt(At(s)).kind
<1>1. CASE s.kind = "return"
  BY <1>1 DEF At, PlacesOf
<1>2. CASE s.kind = "goto"
  BY <1>2, AtGoto DEF GotoTo, PlacesOf
<1>3. CASE s.kind \in {"expr", "decl"}
  <2>1. PICK p \in DOMAIN prog.code : IsOf(s, p) /\ s.kind = StmtAt(p).kind
    BY <1>3 DEF FromPoint
  <2>2. At(s) = p
    BY <1>3, <2>1, AtOf DEF IsOf
  <2> QED
    BY <1>3, <2>1, <2>2 DEF PlacesOf
<1>4. CASE s.kind = "if"
  <2>1. PICK p \in Branches : IsOf(s, p)
    BY <1>4 DEF FromPoint
  <2>2. p \in DOMAIN prog.code
    BY DEF Branches
  <2>3. At(s) = p
    BY <1>4, <2>1, <2>2, AtOf DEF IsOf
  <2> QED
    BY <1>4, <2>1, <2>2, <2>3 DEF PlacesOf
<1> QED
  BY <1>1, <1>2, <1>3, <1>4

LEMMA HeapPlaces ==
    ASSUME Apart, PointsApart, NEW after, Flowing(after)
    PROVE  \A i \in DOMAIN stmts :
              /\ At(stmts[i]) \in PlacesOf
              /\ stmts[i].kind \in {"expr", "decl", "if"} =>
                    /\ At(stmts[i]) \in DOMAIN prog.code /\ IsOf(stmts[i], At(stmts[i]))
                    /\ stmts[i].kind = "if" => At(stmts[i]) \in Branches
<1> SUFFICES ASSUME NEW i \in DOMAIN stmts
             PROVE  /\ At(stmts[i]) \in PlacesOf
                    /\ stmts[i].kind \in {"expr", "decl", "if"} =>
                          /\ At(stmts[i]) \in DOMAIN prog.code /\ IsOf(stmts[i], At(stmts[i]))
                          /\ stmts[i].kind = "if" => At(stmts[i]) \in Branches
  OBVIOUS
<1>1. stmts[i] \in Stmt /\ FromPoint(stmts[i]) /\ GotoTo(stmts[i])
  BY InnerAt, HeapAt DEF Apart, Shape, AllMade, Flowing
<1>2. stmts[i].kind \in {"expr", "decl", "if", "goto", "return"}
  BY <1>1 DEF Stmt
<1> QED
  BY <1>1, <1>2, AtKnown

LEMMA EntersPlace ==
    ASSUME Apart, PointsApart, NEW after, Flowing(after), NEW q \in Seq(DOMAIN stmts)
    PROVE  Enters(q, Exit) \in PlacesOf
<1>1. q # <<>> => Head(q) \in DOMAIN stmts
  OBVIOUS
<1> QED
  BY <1>1, HeapPlaces DEF Enters, PlacesOf

LEMMA PointsEnough == PointsApart => ConditionsApart
BY DEF PointsApart, ConditionsApart

-----------------------------------------------------------------------------
(* What is kept when the heap grows *)

\* The statements there are stay what and where they are; the tag of one may get
\* another dedup id.
FlowKept(after, after2) ==
    /\ prog' = prog
    /\ \A i \in DOMAIN stmts :
          /\ i \in DOMAIN stmts' /\ after2[i] = after[i]
          /\ stmts'[i].kind = stmts[i].kind /\ stmts'[i].what = stmts[i].what
          /\ stmts'[i].thn = stmts[i].thn /\ stmts'[i].els = stmts[i].els
          /\ stmts'[i].to = stmts[i].to /\ stmts'[i].tag.loc = stmts[i].tag.loc
          /\ stmts[i].kind = "goto" => stmts'[i].tag = stmts[i].tag

LEMMA PlacesSame ==
    ASSUME prog' = prog
    PROVE  /\ PlacesOf' = PlacesOf
           /\ \A s : At(s)' = At(s)
           /\ \A s : GotoTo(s)' <=> GotoTo(s)
BY DEF PlacesOf, At, PointAt, GotoTo, NoTag, NoLoc

LEMMA AtKept ==
    ASSUME NEW after, NEW after2, FlowKept(after, after2)
    PROVE  \A i \in DOMAIN stmts : At(stmts[i])' = At(stmts[i])
<1> SUFFICES ASSUME NEW i \in DOMAIN stmts PROVE At(stmts[i])' = At(stmts[i])
  OBVIOUS
<1>1. PICK s : s = stmts'[i]
  OBVIOUS
<1>2. At(s)' = At(s)
  BY PlacesSame DEF FlowKept
<1>3. At(s) = At(stmts[i])
  BY <1>1 DEF FlowKept, At
<1> QED
  BY <1>1, <1>2, <1>3

LEMMA GoesKept ==
    ASSUME NEW after, NEW after2, FlowKept(after, after2)
    PROVE  \A i \in DOMAIN stmts : \A p : GoesTo(i, p, after2)' <=> GoesTo(i, p, after)
<1> SUFFICES ASSUME NEW i \in DOMAIN stmts, NEW p
             PROVE  GoesTo(i, p, after2)' <=> GoesTo(i, p, after)
  OBVIOUS
<1>1. At(stmts[i])' = At(stmts[i])
  BY AtKept
<1> QED
  BY <1>1 DEF FlowKept, GoesTo

LEMMA FlowsKept ==
    ASSUME NEW after, NEW after2, FlowKept(after, after2), NEW q \in Seq(DOMAIN stmts)
    PROVE  /\ \A p : FlowsTo(q, p, after2)' <=> FlowsTo(q, p, after)
           /\ \A p : Enters(q, p)' = Enters(q, p)
           /\ \A from, p : Leads(q, from, p, after2)' <=> Leads(q, from, p, after)
<1>1. DOMAIN q = 1..Len(q) /\ Len(q) \in Nat /\ \A k \in 1..Len(q) : q[k] \in DOMAIN stmts
  OBVIOUS
<1>2. ASSUME NEW p PROVE FlowsTo(q, p, after2)' <=> FlowsTo(q, p, after)
  <2> SUFFICES ASSUME NEW k \in DOMAIN q
               PROVE  GoesTo(q[k], IF k = Len(q) THEN p ELSE At(stmts[q[k + 1]]), after2)' <=>
                      GoesTo(q[k], IF k = Len(q) THEN p ELSE At(stmts[q[k + 1]]), after)
    BY DEF FlowsTo
  <2>1. PICK i \in DOMAIN stmts : i = q[k]
    BY <1>1
  <2>2. CASE k = Len(q)
    <3>1. GoesTo(i, p, after2)' <=> GoesTo(i, p, after)
      BY GoesKept
    <3> QED
      BY <2>1, <2>2, <3>1
  <2>3. CASE k # Len(q)
    <3>1. k + 1 \in 1..Len(q)
      BY <1>1, <2>3
    <3>2. PICK j \in DOMAIN stmts : j = q[k + 1]
      BY <1>1, <3>1
    <3>3. PICK r : r = At(stmts[j])
      OBVIOUS
    <3>4. r = At(stmts[j])'
      BY <3>3, AtKept
    <3>5. GoesTo(i, r, after2)' <=> GoesTo(i, r, after)
      BY GoesKept
    <3> QED
      BY <2>1, <2>3, <3>2, <3>3, <3>4, <3>5
  <2> QED
    BY <2>2, <2>3
<1>3. ASSUME NEW p PROVE Enters(q, p)' = Enters(q, p)
  <2>1. CASE q = <<>>
    BY <2>1 DEF Enters
  <2>2. CASE q # <<>>
    <3>1. PICK i \in DOMAIN stmts : i = Head(q)
      BY <2>2
    <3>2. At(stmts[i])' = At(stmts[i])
      BY AtKept
    <3> QED
      BY <2>2, <3>1, <3>2 DEF Enters
  <2> QED
    BY <2>1, <2>2
<1>4. ASSUME NEW from, NEW p PROVE Leads(q, from, p, after2)' <=> Leads(q, from, p, after)
  BY <1>2, <1>3 DEF Leads
<1> QED
  BY <1>2, <1>3, <1>4

LEMMA BranchingKept ==
    ASSUME TypeOK, NEW after, NEW after2, FlowKept(after, after2), NEW i \in Ifs,
           Branching(i, after), NEW b, NEW c, b = stmts[i].thn, c = stmts[i].els,
           blocks'[b] = blocks[b], blocks'[c] = blocks[c]
    PROVE  Branching(i, after2)'
<1>1. i \in DOMAIN stmts /\ stmts[i] \in Stmt /\ stmts[i].kind = "if"
  BY HeapAt DEF Ifs
<1>2. b \in DOMAIN blocks /\ c \in DOMAIN blocks
  <2>1. b \in 0..Len(blocks) /\ c \in 0..Len(blocks) /\ b # 0 /\ c # 0
    BY <1>1 DEF Stmt
  <2> QED
    BY <2>1, HeapAt
<1>3. PICK q, r : q = blocks[b] /\ r = blocks[c]
  OBVIOUS
<1>4. q \in Seq(DOMAIN stmts) /\ r \in Seq(DOMAIN stmts)
  BY <1>2, <1>3, HeapAt
<1>5. PICK at : at = At(stmts[i])
  OBVIOUS
<1>6. PICK point : point = prog.code[at]
  OBVIOUS
<1>7. PICK p : p = after[i]
  OBVIOUS
<1>8. /\ stmts[i].what = point.what /\ point.op = "branch"
      /\ Leads(q, point.next, p, after) /\ Leads(r, point.other, p, after)
  BY <1>3, <1>5, <1>6, <1>7 DEF Branching
<1>9. Leads(q, point.next, p, after2)' /\ Leads(r, point.other, p, after2)'
  BY <1>4, <1>8, FlowsKept
<1>10. At(stmts[i])' = at
  BY <1>1, <1>5, AtKept
<1>11. /\ stmts'[i].what = point.what /\ stmts'[i].thn = b /\ stmts'[i].els = c
       /\ prog'.code[at] = point /\ after2[i] = p /\ blocks'[b] = q /\ blocks'[c] = r
  BY <1>1, <1>3, <1>6, <1>7, <1>8 DEF FlowKept
<1> QED
  BY <1>8, <1>9, <1>10, <1>11 DEF Branching

-----------------------------------------------------------------------------
(* What is kept when only the innermost call goes on *)

LEMMA StartSame ==
    ASSUME prog' = prog, NEW k \in Nat, k # 1 => stack'[k - 1] = stack[k - 1]
    PROVE  StartOf(k)' = StartOf(k)
BY DEF StartOf

LEMMA FlowOuter ==
    ASSUME Apart, NEW after, Flowing(after), NEW after2, FlowKept(after, after2),
           NEW k \in 1..(Len(stack) - 1), stack'[k] = stack[k],
           k # 1 => stack'[k - 1] = stack[k - 1],
           \A b \in {stack[k].block} \cup Arms(stack[k]) : blocks'[b] = blocks[b]
    PROVE  /\ CallLeads(stack[k], stack[k - 1], StartOf(k), after2)'
           /\ ArmsLead(stack[k], after2)'
<1>1. PICK f, c, from : f = stack[k] /\ c = stack'[k - 1] /\ from = StartOf(k)
  OBVIOUS
<1>2. /\ TypeOK /\ f \in Frame /\ f.phase \in {"then", "else"} /\ Waiting(f) /\ Idle(f) /\ Live(f)
      /\ f.block \in DOMAIN blocks /\ k \in 1..Len(stack) /\ stack \in Seq(Call) /\ k \in Nat
  BY <1>1, OuterAt, InnerAt DEF Sound
<1>3. f \in Call /\ f.tail = <<>>
  BY <1>1, <1>2 DEF Idle
<1>4. PICK q, p : q = blocks[f.block] /\ p = f.pc
  OBVIOUS
<1>5. q \in Seq(DOMAIN stmts) /\ blocks'[f.block] = q
  BY <1>1, <1>2, <1>4, HeapAt
<1>6. Leads(q, from, p, after)
  BY <1>1, <1>2, <1>4 DEF Flowing, CallLeads, Extracts, LeadsTo, Waiting
<1>7. Leads(q, from, p, after2)'
  BY <1>5, <1>6, FlowsKept
<1>8. from = StartOf(k)'
  BY <1>1, <1>2, StartSame DEF FlowKept
<1>9. CallLeads(f, c, from, after2)'
  <2>1. Extracts(f)' = q
    BY <1>2, <1>4, <1>5 DEF Extracts, Waiting
  <2>2. LeadsTo(f, c)' = p
    BY <1>2, <1>4 DEF LeadsTo, Waiting
  <2> QED
    BY <1>7, <2>1, <2>2 DEF CallLeads
<1>10. ArmsLead(f, after2)'
  <2>1. CASE f.phase = "then"
    BY <2>1 DEF ArmsLead
  <2>2. CASE f.phase = "else"
    <3>1. f.thn \in DOMAIN blocks /\ f.thn \in Arms(f)
      <4>1. f.thn \in 0..Len(blocks) /\ f.thn # 0
        BY <1>2, <1>3, <2>2, Fields DEF Call
      <4>2. Len(blocks) \in Nat /\ DOMAIN blocks = 1..Len(blocks)
        BY <1>2, HeapAt
      <4>3. f.thn \in DOMAIN blocks
        BY <4>1, <4>2
      <4> QED
        BY <2>2, <4>3 DEF Arms
    <3>2. PICK r, to : r = blocks[f.thn] /\ to = prog.code[f.pc].next
      OBVIOUS
    <3>3. r \in Seq(DOMAIN stmts) /\ blocks'[f.thn] = r
      BY <1>1, <1>2, <3>1, <3>2, HeapAt
    <3>4. Leads(r, to, Exit, after)
      BY <1>1, <1>2, <1>3, <2>2, <3>2 DEF Flowing, ArmsLead, Enters
    <3>5. Leads(r, to, Exit, after2)'
      BY <3>3, <3>4, FlowsKept
    <3>6. Enters(f.tail, Exit)' = Exit /\ to = prog'.code[f.pc].next
      BY <1>3, <3>2 DEF Enters, FlowKept
    <3> QED
      BY <2>2, <3>3, <3>5, <3>6 DEF ArmsLead
  <2> QED
    BY <1>2, <2>1, <2>2
<1> QED
  BY <1>1, <1>8, <1>9, <1>10

\* The blocks that a call at the end of the stack may change
Trimmed(f) == IF f.phase = "trim" THEN Arms(f) ELSE {}

LEMMA TrimmedOwn ==
    ASSUME Apart, NEW after, Flowing(after), NEW b \in {top.block} \cup Trimmed(top)
    PROVE  /\ b # 0 /\ \A i \in DOMAIN stmts : b \notin {stmts[i].thn, stmts[i].els}
           /\ \A k \in 1..(Len(stack) - 1) : b \notin {stack[k].block} \cup Arms(stack[k])
<1>1. /\ TypeOK /\ top = stack[Len(stack)] /\ Len(stack) \in 1..Len(stack) /\ Len(stack) \in Nat \ {0}
      /\ top \in Call /\ top.block \in DOMAIN blocks /\ AllOwn /\ top \in Frame
      /\ \A k \in 1..Len(stack) : ArmsOwn(k)
      /\ \A k \in 1..(Len(stack) - 1) : k \in 1..Len(stack) /\ k # Len(stack)
  BY InnerAt DEF Apart, Ownership, Flowing
<1>2. CASE b = top.block
  <2>1. b \in DOMAIN blocks /\ DOMAIN blocks = 1..Len(blocks)
    BY <1>1, <1>2, HeapAt
  <2>2. b # 0
    BY <2>1
  <2>3. Owns(Len(stack))
    BY <1>1 DEF AllOwn
  <2>4. \A k \in 1..(Len(stack) - 1) : b \notin {stack[k].block} \cup Arms(stack[k])
    BY <1>1, <1>2, <2>3 DEF Owns, Arms
  <2> QED
    BY <1>1, <1>2, <2>2, <2>3, <2>4 DEF Owns
<1>3. CASE b \in Trimmed(top)
  <2>1. top.phase = "trim" /\ b \in Arms(top) /\ b \in {top.thn, top.els}
    BY <1>3 DEF Trimmed, Arms
  <2>2. b # 0
    BY <1>1, <2>1 DEF Call
  <2>3. ArmsOwn(Len(stack))
    BY <1>1
  <2>4. ASSUME NEW k \in 1..(Len(stack) - 1) PROVE b \notin {stack[k].block} \cup Arms(stack[k])
    <3>1. Owns(k) /\ k # Len(stack) /\ k \in 1..Len(stack)
      BY <1>1 DEF AllOwn
    <3> QED
      BY <1>1, <2>1, <2>3, <3>1 DEF Owns, ArmsOwn
  <2> QED
    BY <1>1, <2>1, <2>2, <2>3, <2>4 DEF ArmsOwn
<1> QED
  BY <1>2, <1>3

LEMMA GotoKept ==
    ASSUME NEW after, NEW after2, FlowKept(after, after2), NEW i \in DOMAIN stmts,
           GotoTo(stmts[i]), NEW s, s = stmts'[i]
    PROVE  GotoTo(s)
<1>1. s.kind = stmts[i].kind /\ s.to = stmts[i].to
  BY DEF FlowKept
<1>2. s.kind = "goto" => s.tag = stmts[i].tag
  BY <1>1 DEF FlowKept
<1> QED
  BY <1>1, <1>2 DEF GotoTo

LEMMA FlowTop ==
    ASSUME Apart, PointsApart, NEW after, Flowing(after),
           NEW after2 \in [Nat -> PlacesOf], FlowKept(after, after2),
           DOMAIN blocks' = DOMAIN blocks,
           \A b \in DOMAIN blocks :
              b \notin {top.block} \cup Trimmed(top) => blocks'[b] = blocks[b],
           NEW g, stack' = SetTop(g), g.block = top.block,
           \A i \in DOMAIN stmts' : i \notin DOMAIN stmts =>
              /\ GotoTo(stmts'[i])
              /\ {stmts'[i].thn, stmts'[i].els} \subseteq {0} \cup Trimmed(top)
              /\ stmts'[i].kind = "if" => Branching(i, after2)',
           \/ Arms(g) = {} /\ Trimmed(top) = {}
           \/ g.phase = "trim" /\ Arms(g) = Trimmed(top) /\ stmts' = stmts
           \/ /\ Arms(g) = {}
              /\ \E i \in Ifs' : Trimmed(top) \subseteq {stmts'[i].thn, stmts'[i].els},
           NEW c, c = stack[Len(stack) - 1], NEW from, from = StartOf(Len(stack)),
           Len(stack) # 1 => CallLeads(g, c, from, after2)',
           Len(stack) = 1 => \A d : CallLeads(g, d, from, after2)',
           ArmsLead(g, after2)'
    PROVE  Flowing(after2)'
<1>1. PICK n : n = Len(stack)
  OBVIOUS
<1>2. /\ TypeOK /\ n \in Nat \ {0} /\ n \in 1..n /\ prog' = prog /\ stack \in Seq(Call)
      /\ top' = g /\ Len(stack') = n /\ stack'[n] = g /\ top = stack[n]
      /\ \A k \in 1..(n - 1) : stack'[k] = stack[k] /\ k \in 1..n /\ k # n /\ k \in Nat
      /\ \A k \in 1..n : k = n \/ k \in 1..(n - 1)
      /\ DOMAIN blocks = 1..Len(blocks)
  <2>1. TypeOK /\ stack \in Seq(Call) /\ n \in Nat \ {0} /\ top = stack[n]
    BY <1>1, InnerAt
  <2>2. top' = g /\ Len(stack') = n /\ stack'[n] = g /\ \A k \in 1..(n - 1) : stack'[k] = stack[k]
    BY <1>1, InnerSet
  <2>3. /\ n \in 1..n /\ \A k \in 1..n : k = n \/ k \in 1..(n - 1)
        /\ \A k \in 1..(n - 1) : k \in 1..n /\ k # n /\ k \in Nat
    BY <2>1
  <2>4. prog' = prog
    BY DEF FlowKept
  <2>5. DOMAIN blocks = 1..Len(blocks)
    BY <2>1, HeapAt
  <2> QED
    BY <2>1, <2>2, <2>3, <2>4, <2>5
<1>3. /\ \A b \in {top.block} \cup Trimmed(top) :
            /\ b # 0 /\ \A i \in DOMAIN stmts : b \notin {stmts[i].thn, stmts[i].els}
            /\ \A k \in 1..(n - 1) : b \notin {stack[k].block} \cup Arms(stack[k])
  BY <1>1, TrimmedOwn
<1>4. after2 \in [Nat -> PlacesOf']
  BY <1>2, PlacesSame
<1>5. ASSUME NEW i \in DOMAIN stmts' PROVE GotoTo(stmts[i])'
  <2>1. PICK s : s = stmts'[i]
    OBVIOUS
  <2>2. GotoTo(s)
    <3>1. CASE i \in DOMAIN stmts
      <4>1. GotoTo(stmts[i])
        BY <3>1 DEF Flowing
      <4> QED
        BY <2>1, <3>1, <4>1, GotoKept
    <3>2. CASE i \notin DOMAIN stmts
      BY <2>1, <3>2
    <3> QED
      BY <3>1, <3>2
  <2> QED
    BY <1>2, <2>1, <2>2, PlacesSame
<1>6. ASSUME NEW i \in Ifs' PROVE Branching(i, after2)'
  <2>1. i \in DOMAIN stmts' /\ stmts'[i].kind = "if"
    BY DEF Ifs
  <2>2. CASE i \notin DOMAIN stmts
    BY <2>1, <2>2
  <2>3. CASE i \in DOMAIN stmts
    <3>1. PICK b, d : b = stmts[i].thn /\ d = stmts[i].els
      OBVIOUS
    <3>2. i \in Ifs /\ Branching(i, after)
      BY <2>1, <2>3 DEF FlowKept, Ifs, Flowing
    <3>3. stmts[i] \in Stmt /\ stmts[i].kind = "if"
      BY <1>2, <2>3, <3>2, HeapAt DEF Ifs
    <3>4. b \in 0..Len(blocks) /\ b # 0 /\ d \in 0..Len(blocks) /\ d # 0 /\ Len(blocks) \in Nat
      BY <1>2, <3>1, <3>3, HeapAt DEF Stmt
    <3>5. b \in DOMAIN blocks /\ d \in DOMAIN blocks
      BY <1>2, <3>4
    <3>6. b \notin {top.block} \cup Trimmed(top) /\ d \notin {top.block} \cup Trimmed(top)
      BY <1>3, <2>3, <3>1
    <3>7. blocks'[b] = blocks[b] /\ blocks'[d] = blocks[d]
      BY <3>5, <3>6
    <3> QED
      BY <1>2, <3>1, <3>2, <3>7, BranchingKept
  <2> QED
    BY <2>2, <2>3
<1>7. ASSUME NEW b \in DOMAIN blocks', Open(b)' PROVE FlowsTo(blocks[b], Exit, after2)'
  <2>1. /\ \A k \in 1..n : stack'[k].block # b
        /\ \A i \in Ifs' : b \notin {stmts'[i].thn, stmts'[i].els}
        /\ b \in Arms(g) => g.phase # "trim"
    BY <1>2, <1>7 DEF Open
  <2>2. b \notin {top.block} \cup Trimmed(top)
    BY <1>2, <2>1
  <2>3. Open(b)
    <3>1. \A k \in 1..n : stack[k].block # b
      BY <1>2, <2>1
    <3>2. \A i \in Ifs : b \notin {stmts[i].thn, stmts[i].els}
      BY <2>1 DEF FlowKept, Ifs
    <3>3. b \in Arms(top) => top.phase # "trim"
      BY <2>2 DEF Trimmed
    <3> QED
      BY <1>1, <3>1, <3>2, <3>3 DEF Open
  <2>4. PICK q : q = blocks[b]
    OBVIOUS
  <2>5. q \in Seq(DOMAIN stmts) /\ blocks'[b] = q
    BY <1>2, <2>2, <2>4, HeapAt
  <2>6. FlowsTo(q, Exit, after)
    BY <2>3, <2>4 DEF Flowing
  <2>7. FlowsTo(q, Exit, after2)'
    BY <2>5, <2>6, FlowsKept
  <2> QED
    BY <2>5, <2>7
<1>8. ASSUME NEW k \in 1..(n - 1)
      PROVE  /\ CallLeads(stack[k], stack[k - 1], StartOf(k), after2)'
             /\ ArmsLead(stack[k], after2)' /\ ArmsOwn(k)'
  <2>1. k # 1 => stack'[k - 1] = stack[k - 1]
    <3>1. k # 1 => k - 1 \in 1..(n - 1)
      BY <1>2
    <3> QED
      BY <1>2, <3>1
  <2>2. /\ stack[k].block \in DOMAIN blocks /\ stack[k] \in Call /\ stack[k] \in Frame
        /\ stack[k].phase \in {"then", "else"} /\ ArmsOwn(k)
        /\ Len(blocks) \in Nat
    BY <1>1, <1>2, OuterAt, HeapAt DEF Flowing
  <2>3. \A b \in Arms(stack[k]) : b \in DOMAIN blocks /\ b # 0
    <3>1. stack[k].phase = "else" => stack[k].thn # 0 /\ stack[k].thn \in 0..Len(blocks)
      BY <2>2, Fields DEF Call
    <3>2. stack[k].phase = "else" => stack[k].thn \in DOMAIN blocks
      BY <1>2, <2>2, <3>1
    <3> QED
      BY <2>2, <3>1, <3>2 DEF Arms
  <2>4. \A b \in {stack[k].block} \cup Arms(stack[k]) : blocks'[b] = blocks[b]
    BY <1>3, <2>2, <2>3
  <2>5. /\ CallLeads(stack[k], stack[k - 1], StartOf(k), after2)'
        /\ ArmsLead(stack[k], after2)'
    BY <1>1, <1>2, <2>1, <2>4, FlowOuter
  <2>6. ASSUME NEW b \in Arms(stack[k])
        PROVE  /\ \A i \in DOMAIN stmts' : b \notin {stmts'[i].thn, stmts'[i].els}
               /\ \A j \in 1..n : b \in Arms(stack'[j]) => j = k
    <3>1. \A i \in DOMAIN stmts : b \notin {stmts[i].thn, stmts[i].els}
      BY <2>2 DEF ArmsOwn
    <3>2. b \notin {0} \cup Trimmed(top)
      BY <1>3, <2>3
    <3>3. \A i \in DOMAIN stmts' : b \notin {stmts'[i].thn, stmts'[i].els}
      BY <3>1, <3>2 DEF FlowKept
    <3>4. Arms(g) \subseteq Trimmed(top)
      OBVIOUS
    <3>5. ASSUME NEW j \in 1..n, b \in Arms(stack'[j]) PROVE j = k
      <4>1. j # n
        BY <1>2, <3>2, <3>4, <3>5
      <4>2. stack'[j] = stack[j]
        BY <1>2, <4>1
      <4> QED
        BY <1>1, <2>2, <3>5, <4>2 DEF ArmsOwn
    <3> QED
      BY <3>3, <3>5
  <2>7. ArmsOwn(k)'
    BY <1>2, <2>6 DEF ArmsOwn
  <2> QED
    BY <2>5, <2>7
<1>9. /\ CallLeads(stack[n], stack[n - 1], StartOf(n), after2)'
      /\ ArmsLead(stack[n], after2)' /\ ArmsOwn(n)'
  <2>1. from = StartOf(n)'
    <3>1. n # 1 => n - 1 \in 1..(n - 1)
      BY <1>2
    <3> QED
      BY <1>1, <1>2, <3>1, StartSame
  <2>2. CallLeads(stack[n], stack[n - 1], StartOf(n), after2)'
    <3>1. PICK d : d = stack'[n - 1]
      OBVIOUS
    <3>2. n # 1 => d = c
      <4>1. n # 1 => n - 1 \in 1..(n - 1)
        BY <1>2
      <4> QED
        BY <1>1, <1>2, <3>1, <4>1
    <3>3. CallLeads(g, d, from, after2)'
      BY <1>1, <3>2
    <3> QED
      BY <1>2, <2>1, <3>1, <3>3
  <2>3. ASSUME NEW b \in Arms(g)
        PROVE  /\ \A i \in DOMAIN stmts' : b \notin {stmts'[i].thn, stmts'[i].els}
               /\ \A j \in 1..n : b \in Arms(stack'[j]) => j = n
    <3>1. g.phase = "trim" /\ b \in Trimmed(top) /\ stmts' = stmts
      BY <2>3
    <3>2. \A i \in DOMAIN stmts' : b \notin {stmts'[i].thn, stmts'[i].els}
      BY <1>3, <3>1
    <3>3. ASSUME NEW j \in 1..n, b \in Arms(stack'[j]) PROVE j = n
      <4>1. j \in 1..(n - 1) => b \notin Arms(stack[j]) /\ stack'[j] = stack[j]
        BY <1>2, <1>3, <3>1
      <4> QED
        BY <1>2, <3>3, <4>1
    <3> QED
      BY <3>2, <3>3
  <2>4. ArmsOwn(n)'
    BY <1>2, <2>3 DEF ArmsOwn
  <2> QED
    BY <1>2, <2>2, <2>4
<1>10. stack'[1].block = 1
  <2>1. stack[1].block = 1
    BY DEF Flowing
  <2>2. n = 1 \/ 1 \in 1..(n - 1)
    BY <1>2
  <2> QED
    BY <1>2, <2>1, <2>2
<1>11. \A k \in 1..Len(stack') :
          /\ CallLeads(stack[k], stack[k - 1], StartOf(k), after2)'
          /\ ArmsLead(stack[k], after2)' /\ ArmsOwn(k)'
  BY <1>2, <1>8, <1>9
<1> QED
  BY <1>4, <1>5, <1>6, <1>7, <1>10, <1>11 DEF Flowing

LEMMA HeapKept ==
    ASSUME Apart, prog' = prog, stmts' = stmts \/ \E s : Creates1(s), NEW after
    PROVE  FlowKept(after, after)
BY HeapSame DEF FlowKept

\* A call that waits for nothing goes on with its block alone.
LEMMA FlowStep ==
    ASSUME Apart, PointsApart, NEW after, Flowing(after), top.phase # "trim", prog' = prog,
           stmts' = stmts \/ \E s : Creates1(s) /\ GotoTo(s),
           DOMAIN blocks' = DOMAIN blocks,
           \A b \in DOMAIN blocks : b # top.block => blocks'[b] = blocks[b],
           NEW g, stack' = SetTop(g), g.block = top.block, g.phase \in {"run", "add", "memo"},
           NEW c, c = stack[Len(stack) - 1], NEW from, from = StartOf(Len(stack)),
           Len(stack) # 1 => CallLeads(g, c, from, after)',
           Len(stack) = 1 => \A d : CallLeads(g, d, from, after)'
    PROVE  Flowing(after)'
<1>1. stmts' = stmts \/ \E s : Creates1(s)
  OBVIOUS
<1>2. FlowKept(after, after)
  BY <1>1, HeapKept
<1>3. after \in [Nat -> PlacesOf]
  BY DEF Flowing
<1>4. Arms(g) = {} /\ Trimmed(top) = {}
  BY DEF Arms, Trimmed
<1>5. ArmsLead(g, after)'
  BY DEF ArmsLead
<1>6. ASSUME NEW i \in DOMAIN stmts', i \notin DOMAIN stmts
      PROVE  /\ GotoTo(stmts'[i])
             /\ {stmts'[i].thn, stmts'[i].els} \subseteq {0} \cup Trimmed(top)
             /\ stmts'[i].kind = "if" => Branching(i, after)'
  <2>1. PICK s : Creates1(s) /\ GotoTo(s)
    BY <1>6
  <2>2. stmts'[i] = s
    BY <1>6, <2>1, CreatedOne
  <2> QED
    BY <2>1, <2>2 DEF Creates1, NewStmt
<1>7. \A b \in DOMAIN blocks :
         b \notin {top.block} \cup Trimmed(top) => blocks'[b] = blocks[b]
  OBVIOUS
<1> QED
  BY <1>2, <1>3, <1>4, <1>5, <1>6, <1>7, FlowTop

\* Where what the innermost call has extracted leads to
LEMMA TopLeads ==
    ASSUME Apart, NEW after, Flowing(after), NEW c, c = stack[Len(stack) - 1],
           NEW from, from = StartOf(Len(stack))
    PROVE  CallLeads(top, c, from, after) /\ ArmsLead(top, after) /\ ArmsOwn(Len(stack))
BY InnerAt DEF Flowing

LEMMA FlowGoing ==
    ASSUME Apart, PointsApart, NEW after, Flowing(after), In("run"),
           UNCHANGED <<prog, stmts, blocks>>, NEW g, stack' = SetTop(g),
           g.phase = "run", g.block = top.block, g.bools = <<>> \/ Len(stack) > 1,
           UNCHANGED F!vars
    PROVE  Flowing(after)'
<1>1. PICK n, c, from : n = Len(stack) /\ c = stack[n - 1] /\ from = StartOf(n)
  OBVIOUS
<1>2. /\ TypeOK /\ n \in Nat \ {0} /\ Len(stack') = n /\ stack'[n] = g /\ top = stack[n]
      /\ top.phase = "run" /\ Body \in Seq(DOMAIN stmts) /\ DOMAIN stack = 1..n
      /\ stack \in Seq(Call)
  BY <1>1, InnerAt, InnerSet DEF In
<1>3. n # 1 => stack'[n - 1] = c
  <2>1. n # 1 => n - 1 \in 1..(n - 1)
    BY <1>2
  <2> QED
    BY <1>1, <1>2, <2>1, InnerSet
<1>4. PICK d : d = stack'[n - 1]
  OBVIOUS
<1>5. WalkOf(g, d) = WalkOf(top, c)
  <2>1. Walks' = Walks /\ prog' = prog
    BY DEF F!vars
  <2>2. n \in DOMAIN stack /\ DOMAIN stack' = DOMAIN stack
    BY <1>2 DEF SetTop
  <2>3. Walks[n] = WalkOf(top, c)
    BY <1>1, <1>2, <2>2 DEF Walks
  <2>4. Walks'[n] = WalkOf(g, d)'
    BY <1>2, <1>4, <2>2 DEF Walks
  <2> QED
    BY <2>1, <2>3, <2>4, WalkSame
<1>6. NextPlace(g, d) = NextPlace(top, c) /\ (Asking(g) <=> Asking(top))
  <2>1. PICK w : w = WalkOf(g, d)
    OBVIOUS
  <2>2. w.at = NextPlace(g, d) /\ (w.asked <=> g.bools = <<>> /\ g.pending = <<>> /\ g.tested)
    BY <2>1 DEF WalkOf
  <2>3. w.at = NextPlace(top, c) /\ (w.asked <=> top.bools = <<>> /\ top.pending = <<>> /\ top.tested)
    BY <1>2, <1>5, <2>1 DEF WalkOf
  <2> QED
    BY <1>2, <2>2, <2>3 DEF Asking
<1>7. PICK q, p : q = Extracts(top) /\ p = NextPlace(top, c)
  OBVIOUS
<1>8. q \in Seq(DOMAIN stmts) /\ Leads(q, from, p, after)
  <2>1. q = IF Asking(top) THEN Front(Body) ELSE Body
    BY <1>2, <1>7 DEF Extracts, Waiting, Body
  <2>2. q \in Seq(DOMAIN stmts)
    BY <1>2, <2>1, FrontType
  <2>3. LeadsTo(top, c) = p
    BY <1>2, <1>7 DEF LeadsTo, Waiting
  <2> QED
    BY <1>1, <1>7, <2>2, <2>3, TopLeads DEF CallLeads
<1>9. Leads(q, from, p, after)'
  BY <1>8, HeapKept, FlowsKept
<1>10. Extracts(g)' = q
  <2>1. Asking(g)' <=> Asking(g)
    BY DEF Asking
  <2>2. blocks'[g.block] = Body
    BY DEF Body
  <2> QED
    BY <1>2, <1>6, <1>7, <2>1, <2>2 DEF Extracts, Waiting, Body
<1>11. ASSUME NEW e, n # 1 => e = d
       PROVE  CallLeads(g, e, from, after)'
  <2>1. NextPlace(g, e) = NextPlace(g, d)
    BY <1>1, <1>2, <1>11 DEF NextPlace
  <2>2. NextPlace(g, e)' = NextPlace(g, e)
    BY DEF NextPlace, Destination
  <2>3. LeadsTo(g, e)' = p
    BY <1>6, <1>7, <2>1, <2>2 DEF LeadsTo, Waiting
  <2> QED
    BY <1>9, <1>10, <2>3 DEF CallLeads
<1>12. n # 1 => CallLeads(g, c, from, after)'
  BY <1>3, <1>4, <1>11
<1>13. n = 1 => \A e : CallLeads(g, e, from, after)'
  BY <1>11
<1>14. top.phase # "trim"
  BY <1>2
<1> QED
  BY <1>1, <1>12, <1>13, <1>14, FlowStep

LEMMA GoingFlow ==
    ASSUME Apart, PointsApart, NEW after, Flowing(after), CreateExpr \/ SkipStmt \/ TakeBool
    PROVE  Flowing(after)'
<1>1. FInv /\ In("run") /\ UNCHANGED <<prog, stmts, blocks>> /\ top \in Frame
  BY InnerAt DEF CreateExpr, SkipStmt, TakeBool, Creates, Offers, Asks
<1>2. UNCHANGED F!vars
  BY <1>1, CreateExprForks, SkipStmtForks, TakeBoolForks
<1>3. CatchingUp => Len(stack) > 1
  BY <1>1, RunAt
<1>4. PICK g : /\ stack' = SetTop(g) /\ g.phase = "run" /\ g.block = top.block
               /\ g.bools = top.bools \/ CatchingUp
  <2>1. CASE CreateExpr
    <3> DEFINE p == IF Op = "expr" THEN prog.code[top.pc].next ELSE top.pc
               f == [top EXCEPT !.tested = (Op = "branch"), !.pc = p]
               g == IF CatchingUp THEN [f EXCEPT !.used = @ + 1]
                    ELSE [f EXCEPT !.pending = Append(@, top.pc), !.exprs = Append(@, top.pc)]
    <3>1. stack' = SetTop(g)
      BY <1>1, <2>1 DEF CreateExpr, Frame
    <3>2. g.phase = "run" /\ g.block = top.block /\ g.bools = top.bools
      BY <1>1 DEF Frame, In
    <3> HIDE DEF g
    <3> QED
      BY <3>1, <3>2
  <2>2. CASE SkipStmt
    <3>1. PICK g : g = Passed
      OBVIOUS
    <3>2. stack' = SetTop(g) /\ g.phase = "run" /\ g.block = top.block /\ g.bools = top.bools
      BY <1>1, <2>2, <3>1 DEF SkipStmt, Passed, Frame, In
    <3> QED
      BY <3>2
  <2>3. CASE TakeBool
    <3> DEFINE p == IF Last(top.bools) THEN prog.code[top.pc].next ELSE prog.code[top.pc].other
               g == [top EXCEPT !.bools = Front(top.bools), !.tested = FALSE, !.pc = p]
    <3>1. stack' = SetTop(g) /\ CatchingUp
      BY <1>1, <2>3 DEF TakeBool, Frame
    <3>2. g.phase = "run" /\ g.block = top.block
      BY <1>1 DEF Frame, In
    <3> HIDE DEF g
    <3> QED
      BY <3>1, <3>2
  <2> QED
    BY <2>1, <2>2, <2>3
<1>5. g.bools = <<>> \/ Len(stack) > 1
  BY <1>3, <1>4 DEF CatchingUp
<1> QED
  BY <1>1, <1>2, <1>4, <1>5, FlowGoing

-----------------------------------------------------------------------------
(* A statement is added *)

\* What leads on also does so when the heap has grown.
Joining ==
    \A S, q, r, u, from, p, to, after :
       /\ q \in Seq(S) /\ r \in Seq(S) /\ u = q \o r
       /\ Leads(q, from, p, after) /\ Leads(r, p, to, after)
       => Leads(u, from, to, after)

LEMMA JoiningHolds == Joining
BY LeadsJoin, ZenonT(60) DEF Joining

LEMMA JoiningStill == Joining'
BY JoiningHolds, PTL

LEMMA LeadsJoinNext ==
    ASSUME NEW S, NEW q \in Seq(S), NEW r \in Seq(S), NEW from, NEW p, NEW to, NEW after,
           Leads(q, from, p, after)', Leads(r, p, to, after)', NEW u, u = q \o r
    PROVE  Leads(u, from, to, after)'
BY JoiningStill DEF Joining

Singly == \A i, p, after : GoesTo(i, p, after) => Leads(<<i>>, At(stmts[i]), p, after)

LEMMA SinglyHolds == Singly
BY LeadsOne DEF Singly

LEMMA SinglyStill == Singly'
BY SinglyHolds, PTL

LEMMA LeadsOneNext ==
    ASSUME prog' = prog, NEW i, NEW s, s = stmts'[i], NEW at, at = At(s),
           NEW p, NEW after, GoesTo(i, p, after)'
    PROVE  Leads(<<i>>, at, p, after)'
<1>1. at = At(stmts[i])'
  BY PlacesSame
<1> QED
  BY <1>1, SinglyStill DEF Singly

LEMMA LeadsAppendNext ==
    ASSUME prog' = prog, NEW S, NEW q \in Seq(S), NEW i \in S, NEW s, s = stmts'[i],
           NEW at, at = At(s), NEW from, NEW p, NEW after,
           Leads(q, from, at, after)', GoesTo(i, p, after)', NEW u, u = Append(q, i)
    PROVE  Leads(u, from, p, after)'
<1>1. PICK r : r = <<i>>
  OBVIOUS
<1>2. r \in Seq(S) /\ u = q \o r
  BY <1>1
<1>3. Leads(r, at, p, after)'
  BY <1>1, LeadsOneNext
<1> QED
  BY <1>2, <1>3, LeadsJoinNext

LEMMA FrontAppended ==
    ASSUME NEW S, NEW q \in Seq(S), NEW i \in S, NEW u, u = Append(q, i)
    PROVE  Front(u) = q
<1>1. /\ Len(q) \in Nat /\ Len(u) = Len(q) + 1 /\ \A k \in 1..Len(q) : u[k] = q[k]
      /\ u \in Seq(S)
  OBVIOUS
<1>2. PICK n : n = Len(q)
  OBVIOUS
<1>3. Len(u) - 1 = n /\ n \in Nat
  BY <1>1, <1>2
<1>4. Front(u) = SubSeq(u, 1, n)
  BY <1>3 DEF Front
<1>5. PICK v : v = SubSeq(u, 1, n)
  OBVIOUS
<1>6. v \in Seq(S) /\ Len(v) = n /\ \A k \in 1..n : v[k] = q[k]
  BY <1>1, <1>2, <1>3, <1>5
<1>7. v = q
  BY <1>2, <1>6
<1> QED
  BY <1>4, <1>5, <1>7

\* The statement of point p goes on to where the point goes.
LEMMA GoesOn ==
    ASSUME prog' = prog, PointsApart, TypeOK, NEW p \in DOMAIN prog.code, prog.code[p].op # "branch",
           NEW i, NEW s, s = stmts'[i], s.kind = StmtAt(p).kind,
           s.tag.loc = prog.code[p].loc, s.what = prog.code[p].what,
           NEW to, to = prog.code[p].next, NEW after
    PROVE  GoesTo(i, to, after)' /\ At(s) = p
<1>1. s.kind \in {"expr", "decl"}
  BY PointTag
<1>2. At(s) = p
  BY <1>1, AtOf
<1>3. PICK at : at = At(s)
  OBVIOUS
<1>4. at = At(stmts[i])'
  BY <1>3, PlacesSame
<1>5. prog'.code[at] = prog.code[p]
  BY <1>2, <1>3
<1>6. GoesTo(i, to, after)'
  BY <1>1, <1>4, <1>5 DEF GoesTo
<1> QED
  BY <1>2, <1>6

LEMMA AddStmtFlow ==
    ASSUME Apart, PointsApart, NEW after, Flowing(after), AddStmt
    PROVE  Flowing(after)'
<1> DEFINE s0 == [Offered EXCEPT !.tag = StoredAs]
<1>0. PICK g, i, s : g = Visit(Passed, i, Offered) /\ i = Len(stmts) + 1 /\ s = s0
  OBVIOUS
<1>1. /\ Offers /\ ~ CatchingUp /\ prog' = prog /\ stack' = SetTop(g) /\ In("run")
      /\ stmts' = Append(stmts, s) /\ blocks' = Push(i)
  BY <1>0 DEF AddStmt, IsNew, Offers
<1>2. /\ TypeOK /\ FInv /\ top \in Frame /\ Body \in Seq(DOMAIN stmts)
      /\ top.phase = "run" /\ top.bools = <<>> /\ top.block \in DOMAIN blocks
      /\ Len(stack) \in Nat \ {0}
  BY <1>1, InnerAt DEF In, CatchingUp
<1>3. PICK p \in DOMAIN prog.code :
         /\ Offered = StmtAt(p) /\ Offered.tag \in Tag
         /\ p = IF top.pending # <<>> THEN Head(top.pending) ELSE top.pc
         /\ WalkOf(top, caller) = F!StartAt(p) /\ p # 0
  BY <1>1, <1>2, OfferedAt
<1>4. /\ s.kind = StmtAt(p).kind /\ s.tag.loc = prog.code[p].loc /\ s.what = prog.code[p].what
      /\ s.thn = 0 /\ s.els = 0 /\ s \in Stmt /\ s.var = 0 /\ s.from = 0
  <2>1. Offered \in Stmt /\ StoredAs.loc = Offered.tag.loc /\ StoredAs \in Tag
    BY <1>1, <1>2, <1>3, OfferedType, StoredLoc, StoredTagType DEF StoredAs
  <2>2. StmtAt(p).tag.loc = prog.code[p].loc /\ StmtAt(p).what = prog.code[p].what
        /\ StmtAt(p).thn = 0 /\ StmtAt(p).els = 0 /\ StmtAt(p).var = 0 /\ StmtAt(p).from = 0
    BY DEF StmtAt, Statement
  <2> QED
    BY <1>0, <1>3, <2>1, <2>2, SetStmtTag DEF Stmt
<1>5. s.kind \in {"expr", "decl"}
  BY <1>2, <1>4, PointTag
<1>6. Creates1(s) /\ GotoTo(s)
  <2>1. FromPoint(s)
    BY <1>4, <1>5 DEF FromPoint, IsOf
  <2> QED
    BY <1>1, <1>4, <1>5, <2>1 DEF Creates1, NewStmt, GotoTo
<1>7. /\ stmts'[i] = s /\ FlowKept(after, after)
      /\ i \in DOMAIN stmts' /\ DOMAIN stmts \subseteq DOMAIN stmts'
  BY <1>0, <1>1, <1>6, CreatedOne, HeapKept
<1>8. /\ g.phase = "run" /\ g.bools = <<>> /\ g.tested = top.tested /\ g.block = top.block
      /\ g.pending = Passed.pending /\ g.pc = Passed.pc
  BY <1>0, <1>1, <1>2, PassedFrame DEF Visit, Frame
<1>9. PICK c, from : c = stack[Len(stack) - 1] /\ from = StartOf(Len(stack))
  OBVIOUS
<1>10. PICK q : q = Body
  OBVIOUS
<1>11. q \in Seq(DOMAIN stmts) /\ q \in Seq(DOMAIN stmts') /\ Leads(q, from, p, after)'
  <2>1. ~ Asking(top) /\ NextPlace(top, c) = p
    <3>1. PICK w : w = WalkOf(top, c)
      OBVIOUS
    <3>2. w.at = NextPlace(top, c) /\ (w.asked <=> top.bools = <<>> /\ top.pending = <<>> /\ top.tested)
      BY <1>2, <3>1 DEF WalkOf
    <3>3. w.at = p /\ w.asked = FALSE
      BY <1>3, <1>9, <3>1 DEF F!StartAt, caller
    <3> QED
      BY <3>2, <3>3 DEF Asking
  <2>2. CallLeads(top, c, from, after)
    BY <1>9, TopLeads
  <2>3. Leads(q, from, p, after)
    BY <1>2, <1>10, <2>1, <2>2 DEF CallLeads, Extracts, LeadsTo, Waiting, Body
  <2>4. q \in Seq(DOMAIN stmts) /\ q \in Seq(DOMAIN stmts')
    BY <1>2, <1>7, <1>10
  <2> QED
    BY <1>7, <2>3, <2>4, FlowsKept
<1>12. PICK u : u = Append(q, i)
  OBVIOUS
<1>13. /\ DOMAIN blocks' = DOMAIN blocks /\ blocks'[top.block] = u
       /\ \A b \in DOMAIN blocks : b # top.block => blocks'[b] = blocks[b]
  BY <1>1, <1>2, <1>10, <1>12 DEF Push, Body
<1>14. ASSUME NEW e PROVE CallLeads(g, e, from, after)'
  <2>1. WalkOf(g, caller) = IF F!IsBranch(p) THEN [F!StartAt(p) EXCEPT !.asked = TRUE]
                            ELSE F!StartAt(prog.code[p].next)
    BY <1>1, <1>2, <1>3, <1>8, PassedLinked
  <2>2. PICK w : w = WalkOf(g, caller)
    OBVIOUS
  <2>3. /\ w.at = NextPlace(g, caller)
        /\ w.asked <=> g.bools = <<>> /\ g.pending = <<>> /\ g.tested
    BY <1>8, <2>2 DEF WalkOf
  <2>4. NextPlace(g, e)' = NextPlace(g, caller)
    BY <1>8 DEF NextPlace
  <2>5. Asking(g)' <=> Asking(g)
    BY DEF Asking
  <2>6. CASE prog.code[p].op = "branch"
    <3>1. w = [F!StartAt(p) EXCEPT !.asked = TRUE]
      BY <2>1, <2>2, <2>6 DEF F!IsBranch
    <3>2. w.at = p /\ w.asked = TRUE
      BY <3>1 DEF F!StartAt
    <3>3. Asking(g)' /\ LeadsTo(g, e)' = p
      BY <1>8, <2>3, <2>4, <2>5, <3>2 DEF Asking, LeadsTo, Waiting
    <3>4. Extracts(g)' = Front(u)
      BY <1>8, <1>13, <3>3 DEF Extracts, Waiting
    <3>5. Front(u) = q
      BY <1>7, <1>11, <1>12, FrontAppended
    <3> QED
      BY <1>11, <3>3, <3>4, <3>5 DEF CallLeads
  <2>7. CASE prog.code[p].op # "branch"
    <3>1. w = F!StartAt(prog.code[p].next)
      BY <2>1, <2>2, <2>7 DEF F!IsBranch
    <3>2. w.at = prog.code[p].next /\ w.asked = FALSE
      BY <3>1 DEF F!StartAt
    <3>3. PICK to : to = prog.code[p].next
      OBVIOUS
    <3>4. ~ Asking(g)' /\ LeadsTo(g, e)' = to
      BY <1>8, <2>3, <2>4, <2>5, <3>2, <3>3 DEF Asking, LeadsTo, Waiting
    <3>5. Extracts(g)' = u
      BY <1>8, <1>13, <3>4 DEF Extracts, Waiting
    <3>6. GoesTo(i, to, after)' /\ At(s) = p
      BY <1>1, <1>2, <1>4, <1>7, <2>7, <3>3, GoesOn
    <3>7. Leads(u, from, to, after)'
      BY <1>1, <1>7, <1>11, <1>12, <3>6, LeadsAppendNext
    <3> QED
      BY <3>4, <3>5, <3>7 DEF CallLeads
  <2> QED
    BY <2>6, <2>7
<1>15. top.phase # "trim"
  BY <1>2
<1> QED
  BY <1>1, <1>6, <1>8, <1>9, <1>13, <1>14, <1>15, FlowStep

-----------------------------------------------------------------------------
(* A run ends *)

LEMMA OfferedLeads ==
    ASSUME Apart, NEW after, Flowing(after), Offers, ~ CatchingUp,
           NEW p, WalkOf(top, caller) = F!StartAt(p)
    PROVE  Leads(Body, StartOf(Len(stack)), p, after)
<1>1. PICK c, from : c = stack[Len(stack) - 1] /\ from = StartOf(Len(stack))
  OBVIOUS
<1>2. top.phase = "run" /\ top.bools = <<>> /\ c = caller
  BY <1>1 DEF Offers, In, CatchingUp, caller
<1>3. ~ Asking(top) /\ NextPlace(top, c) = p
  <2>1. PICK w : w = WalkOf(top, c)
    OBVIOUS
  <2>2. w.at = NextPlace(top, c) /\ (w.asked <=> top.bools = <<>> /\ top.pending = <<>> /\ top.tested)
    BY <1>2, <2>1 DEF WalkOf
  <2>3. w.at = p /\ w.asked = FALSE
    BY <1>2, <2>1 DEF F!StartAt
  <2> QED
    BY <2>2, <2>3 DEF Asking
<1>4. CallLeads(top, c, from, after)
  BY <1>1, TopLeads
<1> QED
  BY <1>1, <1>2, <1>3, <1>4 DEF CallLeads, Extracts, LeadsTo, Waiting, Body

\* The statements q are added to what leads to p and lead on to the end.
LEMMA EndFlow ==
    ASSUME Apart, PointsApart, NEW after, Flowing(after), In("run"),
           prog' = prog, blocks' = blocks, stmts' = stmts \/ \E s : Creates1(s) /\ GotoTo(s),
           NEW p, Leads(Body, StartOf(Len(stack)), p, after),
           NEW q \in Seq(DOMAIN stmts'), EndWith(q), Leads(q, p, Exit, after)'
    PROVE  Flowing(after)'
<1>1. PICK c, from, r : c = stack[Len(stack) - 1] /\ from = StartOf(Len(stack)) /\ r = Body
  OBVIOUS
<1>2. /\ TypeOK /\ top \in Frame /\ top.phase = "run" /\ top.tail = <<>>
      /\ r \in Seq(DOMAIN stmts) /\ top.block \in DOMAIN blocks
  BY <1>1, InnerAt DEF In, Sound, Idle, Live
<1>3. PICK g : g = [top EXCEPT !.phase = "add", !.pending = <<>>, !.queue = q]
  OBVIOUS
<1>4. /\ stack' = SetTop(g) /\ g.phase = "add" /\ g.queue = q /\ g.tail = <<>>
      /\ g.block = top.block
  BY <1>2, <1>3 DEF EndWith, Frame
<1>5. stmts' = stmts \/ \E s : Creates1(s)
  OBVIOUS
<1>6. FlowKept(after, after) /\ DOMAIN stmts \subseteq DOMAIN stmts'
  BY <1>5, HeapKept DEF FlowKept
<1>7. r \in Seq(DOMAIN stmts')
  BY <1>2, <1>6
<1>8. Leads(r, from, p, after)'
  BY <1>1, <1>2, <1>6, FlowsKept
<1>9. PICK u : u = r \o q
  OBVIOUS
<1>10. Leads(u, from, Exit, after)'
  BY <1>7, <1>8, <1>9, LeadsJoinNext
<1>11. ASSUME NEW e PROVE CallLeads(g, e, from, after)'
  <2>1. u \o <<>> = u
    <3>1. u \in Seq(DOMAIN stmts')
      BY <1>7, <1>9
    <3> QED
      BY <3>1
  <2>2. blocks'[g.block] = r
    BY <1>1, <1>4 DEF Body
  <2>3. Extracts(g)' = u
    BY <1>4, <1>9, <2>1, <2>2 DEF Extracts, Waiting
  <2>4. LeadsTo(g, e)' = Exit
    BY <1>4 DEF LeadsTo, Waiting
  <2> QED
    BY <1>10, <2>3, <2>4 DEF CallLeads
<1>12. top.phase # "trim" /\ DOMAIN blocks' = DOMAIN blocks
  BY <1>2
<1>13. \A b \in DOMAIN blocks : b # top.block => blocks'[b] = blocks[b]
  OBVIOUS
<1> QED
  BY <1>1, <1>4, <1>11, <1>12, <1>13, FlowStep

LEMMA EndGotoFlow ==
    ASSUME Apart, PointsApart, NEW after, Flowing(after), In("run"), prog' = prog, blocks' = blocks,
           NEW p \in DOMAIN prog.code, Leads(Body, StartOf(Len(stack)), p, after),
           NEW t \in Tag, t.loc = prog.code[p].loc, EndWithGoto(t)
    PROVE  Flowing(after)'
<1>1. PICK i, s : i = Len(stmts) + 1 /\ s = Goto(t)
  OBVIOUS
<1>2. /\ s.kind = "goto" /\ s.to = t /\ s.tag = NoTag /\ s.thn = 0 /\ s.els = 0
      /\ s.var = 0 /\ s.from = 0
  BY <1>1 DEF Goto, Statement
<1>3. Creates1(s) /\ GotoTo(s)
  <2>1. s \in Stmt
    BY <1>1, GotoType, InnerAt DEF TypeOK
  <2>2. FromPoint(s)
    BY <1>2 DEF FromPoint
  <2>3. GotoTo(s)
    BY <1>2 DEF GotoTo
  <2> QED
    BY <1>1, <1>2, <2>1, <2>2, <2>3 DEF Creates1, NewStmt, EndWithGoto
<1>4. PICK q : q = <<i>>
  OBVIOUS
<1>5. EndWith(q)
  BY <1>1, <1>4 DEF EndWithGoto
<1>6. i \in DOMAIN stmts' /\ stmts'[i] = s
  BY <1>1, <1>3, CreatedOne
<1>7. At(s) = p
  BY <1>2, AtGoto
<1>8. GoesTo(i, Exit, after)'
  BY <1>2, <1>6 DEF GoesTo
<1>9. Leads(q, p, Exit, after)'
  BY <1>4, <1>6, <1>7, <1>8, LeadsOneNext
<1>10. q \in Seq(DOMAIN stmts')
  BY <1>4, <1>6
<1> QED
  BY <1>3, <1>5, <1>9, <1>10, EndFlow

LEMMA LoopBackFlow ==
    ASSUME Apart, PointsApart, NEW after, Flowing(after), LoopBack
    PROVE  Flowing(after)'
<1>1. /\ Offers /\ ~ CatchingUp /\ LoopsBack(Offered) /\ prog' = prog /\ blocks' = blocks
      /\ In("run") /\ EndWithGoto(LoopTarget(Offered))
  BY DEF LoopBack, Offers
<1>2. TypeOK /\ FInv /\ top \in Frame
  BY InnerAt
<1>3. PICK p \in DOMAIN prog.code :
         Offered = StmtAt(p) /\ Offered.tag \in Tag /\ WalkOf(top, caller) = F!StartAt(p)
  BY <1>1, <1>2, OfferedAt
<1>4. PICK t : t = LoopTarget(Offered)
  OBVIOUS
<1>5. t \in Tag /\ t.loc = prog.code[p].loc
  <2>1. Offered.tag.loc = prog.code[p].loc
    <3>1. StmtAt(p).tag.loc = prog.code[p].loc
      BY DEF StmtAt, Statement
    <3> QED
      BY <1>3, <3>1
  <2>2. t \in Tag
    BY <1>1, <1>2, <1>3, <1>4, LoopTargetType
  <2>3. t.loc = Offered.tag.loc
    <3>1. CASE SameTag(Offered)
      BY <1>4, <3>1 DEF LoopTarget
    <3>2. CASE ~ SameTag(Offered)
      <4>1. Stops(Offered) # {} /\ Stops(Offered) \subseteq OtherCopies(Offered)
        BY <1>1, <3>2 DEF LoopsBack, Stops
      <4>2. OtherCopies(Offered) \subseteq Tag
        BY <1>1, <1>2, <1>3, StoredTagType DEF OtherCopies, Copy, Tag
      <4>3. First(Stops(Offered)) \in Stops(Offered)
        BY <4>1, <4>2, FirstType
      <4>4. t \in OtherCopies(Offered)
        BY <1>4, <3>2, <4>1, <4>3 DEF LoopTarget
      <4> QED
        BY <1>3, <4>4 DEF OtherCopies, Copy, Tag
    <3> QED
      BY <3>1, <3>2
  <2> QED
    BY <2>1, <2>2, <2>3
<1>6. Leads(Body, StartOf(Len(stack)), p, after)
  BY <1>1, <1>3, OfferedLeads
<1> QED
  BY <1>1, <1>4, <1>5, <1>6, EndGotoFlow

LEMMA MemoOpen ==
    ASSUME MInv, Apart, IsNew, ~ FeatureUnstructured, NEW t, t = StoredAs, t \in DOMAIN memo
    PROVE  Open(memo[t])
<1>1. In("run") /\ top.phase = "run" /\ ConditionsApart
  BY InnerAt DEF IsNew, Offers, In
<1>2. t \in Fresh
  BY StoredFresh
<1>3. \A i \in Ifs : memo[t] \notin {stmts[i].thn, stmts[i].els}
  BY <1>1, <1>2, MemoEnough DEF MemoComplete, Ifs
<1>4. \A k \in 1..Len(stack) : stack[k].block # memo[t]
  BY <1>1 DEF Apart, Ownership, AllOwn, Owns
<1> QED
  BY <1>1, <1>3, <1>4 DEF Open

LEMMA MemoizeFlow ==
    ASSUME MInv, Apart, PointsApart, NEW after, Flowing(after), Memoize
    PROVE  Flowing(after)'
<1>1. /\ Offers /\ ~ CatchingUp /\ IsNew /\ Reusable(Offered, StoredAs)
      /\ prog' = prog /\ blocks' = blocks /\ In("run")
  BY DEF Memoize, IsNew, Offers
<1>2. TypeOK /\ FInv /\ top \in Frame
  BY InnerAt
<1>3. PICK p \in DOMAIN prog.code :
         Offered = StmtAt(p) /\ Offered.tag \in Tag /\ WalkOf(top, caller) = F!StartAt(p)
  BY <1>1, <1>2, OfferedAt
<1>4. PICK t : t = StoredAs
  OBVIOUS
<1>5. t \in Tag /\ t.loc = prog.code[p].loc
  <2>1. StmtAt(p).tag.loc = prog.code[p].loc
    BY DEF StmtAt, Statement
  <2> QED
    BY <1>2, <1>3, <1>4, <2>1, StoredTagType, StoredLoc DEF StoredAs
<1>6. Leads(Body, StartOf(Len(stack)), p, after)
  BY <1>1, <1>3, OfferedLeads
<1>7. CASE FeatureUnstructured
  <2>1. EndWithGoto(t)
    BY <1>4, <1>7 DEF Memoize
  <2> QED
    BY <1>1, <1>5, <1>6, <2>1, EndGotoFlow
<1>8. CASE ~ FeatureUnstructured
  <2>1. PICK b, k, r : b = memo[t] /\ k = FirstPlace(b, t) /\ r = blocks[b]
    OBVIOUS
  <2>2. PICK q : q = SubSeq(r, k, Len(r))
    OBVIOUS
  <2>3. EndWith(q) /\ stmts' = stmts
    BY <1>4, <1>8, <2>1, <2>2 DEF Memoize
  <2>4. /\ t \in DOMAIN memo /\ b \in DOMAIN blocks /\ r \in Seq(DOMAIN stmts)
        /\ Places(b, t) # {}
    BY <1>1, <1>2, <1>4, <2>1, HeapAt DEF Reusable, Dangling
  <2>5. k \in 1..Len(r) /\ stmts[r[k]].tag = t /\ r[k] \in DOMAIN stmts
    <3>1. k \in Places(b, t)
      BY <2>1, <2>4, FirstPlaceType
    <3> QED
      BY <2>1, <2>4, <3>1 DEF Places
  <2>6. PICK m : m = stmts[r[k]]
    OBVIOUS
  <2>7. m.kind \in {"expr", "decl", "if"} /\ m.tag = t
    <3>1. Same(m, Offered) \/ m.kind = "if"
      BY <1>1, <1>4, <2>1, <2>6 DEF Reusable
    <3>2. StmtAt(p).kind \in {"expr", "decl"}
      BY <1>2, PointTag
    <3> QED
      BY <1>3, <2>5, <2>6, <3>1, <3>2 DEF Same
  <2>8. At(m) = p
    BY <1>5, <2>7, AtOf
  <2>9. FlowsTo(r, Exit, after)
    BY <1>1, <1>4, <1>8, <2>1, <2>4, MemoOpen DEF Flowing
  <2>10. Leads(q, p, Exit, after)
    BY <2>2, <2>4, <2>5, <2>6, <2>8, <2>9, LeadsSuffix
  <2>11. q \in Seq(DOMAIN stmts)
    BY <2>2, <2>4, <2>5, ElementsSub
  <2>12. Leads(q, p, Exit, after)' /\ q \in Seq(DOMAIN stmts')
    BY <1>1, <2>3, <2>10, <2>11, HeapKept, FlowsKept
  <2> QED
    BY <1>1, <1>6, <2>3, <2>12, EndFlow
<1> QED
  BY <1>7, <1>8

LEMMA ReturnFlow ==
    ASSUME Apart, PointsApart, NEW after, Flowing(after), Return
    PROVE  Flowing(after)'
<1> DEFINE e == [top EXCEPT !.phase = "add"]
<1>1. PICK i, s, r : /\ i = Len(stmts) + 1 /\ r = Body
                     /\ s = Statement("return", Copy(NoTag, uniques + 1), NoWhat, 0)
  OBVIOUS
<1>2. PICK g : /\ stack' = SetTop(g)
               /\ \/ g = e /\ stmts' = stmts /\ blocks' = blocks
                  \/ g = Visit(e, i, s) /\ stmts' = Append(stmts, s) /\ blocks' = Push(i)
  BY <1>1 DEF Return
<1>3. /\ In("run") /\ Op = "exit" /\ top.pending = <<>> /\ prog' = prog
  BY DEF Return
<1>4. /\ TypeOK /\ FInv /\ top \in Frame /\ top.phase = "run" /\ top.tail = <<>> /\ top.queue = <<>>
      /\ r \in Seq(DOMAIN stmts) /\ top.block \in DOMAIN blocks
  BY <1>1, <1>3, InnerAt DEF In, Sound, Idle, Live
<1>5. /\ g.phase = "add" /\ g.tail = <<>> /\ g.queue = <<>> /\ g.block = top.block
  <2>1. PICK f : f = e
    OBVIOUS
  <2>2. f \in Frame /\ f.phase = "add" /\ f.tail = <<>> /\ f.queue = <<>> /\ f.block = top.block
    BY <1>4, <2>1 DEF Frame, Phases
  <2>3. g = f \/ g = Visit(f, i, s)
    BY <1>2, <2>1
  <2> HIDE DEF e
  <2>4. PICK v, x : Visit(f, i, s) = [f EXCEPT !.visited = v, !.copies = x]
    BY DEF Visit
  <2>5. PICK h : h = Visit(f, i, s)
    OBVIOUS
  <2>6. h.phase = f.phase /\ h.tail = f.tail /\ h.queue = f.queue /\ h.block = f.block
    BY <2>2, <2>4, <2>5 DEF Frame
  <2> QED
    BY <2>2, <2>3, <2>5, <2>6
<1>6. ~ CatchingUp /\ top.pc = Exit
  <2>1. ~ CatchingUp
    BY <1>3, <1>4, ReplayHolds DEF FInv, ReplayAligned
  <2>2. top.pc = Exit
    <3> SUFFICES ASSUME top.pc # Exit PROVE FALSE
      OBVIOUS
    <3>1. prog.code[top.pc].op = "exit" /\ prog \in Program
      BY <1>3, <1>4 DEF Op, TypeOK
    <3>2. top.pc \in 1..Len(prog.code) /\ DOMAIN prog.code = 1..Len(prog.code)
      BY <1>4, <3>1, Fields DEF Exit, Program
    <3>3. prog.code[top.pc].op \in Ops
      BY <3>1, <3>2, PointType DEF Point
    <3> QED
      BY <3>1, <3>3 DEF Ops
  <2> QED
    BY <2>1, <2>2
<1>7. PICK c, from : c = stack[Len(stack) - 1] /\ from = StartOf(Len(stack))
  OBVIOUS
<1>8. Leads(r, from, Exit, after)
  <2>1. CallLeads(top, c, from, after)
    BY <1>7, TopLeads
  <2>2. ~ Asking(top)
    <3>1. ~ top.tested
      BY <1>3, <1>4, <1>6, RunAt DEF Linked, Exit, TypeOK, Program
    <3> QED
      BY <3>1 DEF Asking
  <2>3. NextPlace(top, c) = Exit
    BY <1>3, <1>6 DEF NextPlace, CatchingUp
  <2> QED
    BY <1>1, <1>4, <2>1, <2>2, <2>3 DEF CallLeads, Extracts, LeadsTo, Waiting, Body
<1>9. /\ stmts' = stmts \/ \E x : Creates1(x) /\ GotoTo(x)
      /\ stmts' # stmts => Creates1(s)
  <2>1. CASE stmts' = Append(stmts, s)
    <3>1. s \in Stmt
      BY <1>1, <1>4 DEF TypeOK, Statement, Stmt, Copy, NoTag, Tag, HeapOK
    <3>2. s.kind = "return" /\ s.thn = 0 /\ s.els = 0 /\ s.var = 0 /\ s.from = 0
      BY <1>1 DEF Statement
    <3> QED
      BY <2>1, <3>1, <3>2 DEF Creates1, NewStmt, FromPoint, GotoTo
  <2> QED
    BY <1>2, <2>1
<1>10. FlowKept(after, after)
  BY <1>3, <1>9, HeapKept
<1>11. Leads(r, from, Exit, after)'
  BY <1>4, <1>8, <1>10, FlowsKept
<1>12. PICK u : u = blocks'[top.block]
  OBVIOUS
<1>13. /\ Leads(u, from, Exit, after)' /\ u \in Seq(DOMAIN stmts')
       /\ DOMAIN blocks' = DOMAIN blocks
       /\ \A b \in DOMAIN blocks : b # top.block => blocks'[b] = blocks[b]
  <2>1. CASE stmts' = stmts /\ blocks' = blocks
    BY <1>1, <1>4, <1>11, <1>12, <2>1 DEF Body
  <2>2. CASE stmts' = Append(stmts, s) /\ blocks' = Push(i)
    <3>1. u = Append(r, i)
      BY <1>1, <1>4, <1>12, <2>2 DEF Push, Body
    <3>2. stmts'[i] = s /\ i \in DOMAIN stmts' /\ DOMAIN stmts \subseteq DOMAIN stmts'
      <4>1. stmts' # stmts
        <5>1. Len(stmts) \in Nat /\ Len(Append(stmts, s)) = Len(stmts) + 1
          BY <1>4, HeapAt
        <5> QED
          BY <2>2, <5>1
      <4> QED
        BY <1>1, <1>9, <4>1, CreatedOne
    <3>3. s.kind = "return" /\ At(s) = Exit
      BY <1>1 DEF Statement, At
    <3>4. GoesTo(i, Exit, after)'
      BY <3>2, <3>3 DEF GoesTo
    <3>5. r \in Seq(DOMAIN stmts') /\ u \in Seq(DOMAIN stmts')
      BY <1>4, <3>1, <3>2
    <3>6. Leads(u, from, Exit, after)'
      BY <1>3, <1>11, <3>1, <3>2, <3>3, <3>4, <3>5, LeadsAppendNext
    <3> QED
      BY <1>4, <2>2, <3>5, <3>6 DEF Push
  <2> QED
    BY <1>2, <2>1, <2>2
<1>14. ASSUME NEW d PROVE CallLeads(g, d, from, after)'
  <2>1. (u \o <<>>) \o <<>> = u
    BY <1>13
  <2>2. Extracts(g)' = u /\ LeadsTo(g, d)' = Exit
    BY <1>5, <1>12, <2>1 DEF Extracts, LeadsTo, Waiting
  <2> QED
    BY <1>13, <2>2 DEF CallLeads
<1>15. top.phase # "trim"
  BY <1>4
<1> QED
  BY <1>2, <1>3, <1>5, <1>7, <1>9, <1>13, <1>14, <1>15, FlowStep

-----------------------------------------------------------------------------
(* The end of a run *)

LEMMA SameFlow ==
    ASSUME Apart, PointsApart, NEW after, Flowing(after), top.phase \in {"add", "memo"},
           FlowKept(after, after), DOMAIN stmts' = DOMAIN stmts,
           DOMAIN blocks' = DOMAIN blocks,
           \A b \in DOMAIN blocks : b # top.block => blocks'[b] = blocks[b],
           NEW g, stack' = SetTop(g), g.block = top.block, g.phase \in {"add", "memo"},
           (blocks'[top.block] \o g.queue) \o g.tail = (Body \o top.queue) \o top.tail
    PROVE  Flowing(after)'
<1>1. PICK c, from : c = stack[Len(stack) - 1] /\ from = StartOf(Len(stack))
  OBVIOUS
<1>2. PICK u : u = (Body \o top.queue) \o top.tail
  OBVIOUS
<1>3. u \in Seq(DOMAIN stmts)
  BY <1>2, InnerAt
<1>4. Leads(u, from, Exit, after)
  <2>1. CallLeads(top, c, from, after)
    BY <1>1, TopLeads
  <2> QED
    BY <1>2, <2>1 DEF CallLeads, Extracts, LeadsTo, Waiting, Body
<1>5. Leads(u, from, Exit, after)'
  BY <1>3, <1>4, FlowsKept
<1>6. ASSUME NEW d PROVE CallLeads(g, d, from, after)'
  <2>1. Extracts(g)' = u /\ LeadsTo(g, d)' = Exit
    BY <1>2 DEF Extracts, LeadsTo, Waiting
  <2> QED
    BY <1>5, <2>1 DEF CallLeads
<1>7. /\ after \in [Nat -> PlacesOf] /\ Arms(g) = {} /\ Trimmed(top) = {} /\ ArmsLead(g, after)'
  BY DEF Flowing, Arms, Trimmed, ArmsLead
<1>8. \A i \in DOMAIN stmts' : i \in DOMAIN stmts
  OBVIOUS
<1> HIDE DEF Flowing, FlowKept
<1> QED
  BY <1>1, <1>6, <1>7, <1>8, FlowTop

LEMMA QueueShifts ==
    ASSUME NEW S, NEW b \in Seq(S), NEW q \in Seq(S), q # <<>>
    PROVE  Append(b, Head(q)) \o Tail(q) = b \o q
<1>1. PICK u, v, r : u = Append(b, Head(q)) /\ v = Tail(q) /\ r = b \o q
  OBVIOUS
<1>2. PICK n, m : n = Len(b) /\ m = Len(v)
  OBVIOUS
<1>3. /\ Head(q) \in S /\ n \in Nat /\ m \in Nat /\ Len(q) = m + 1 /\ q[1] = Head(q)
      /\ v \in Seq(S) /\ \A k \in 1..m : v[k] = q[k + 1]
  BY <1>1, <1>2, Shortened, HeadTailProperties
<1>4. /\ u \in Seq(S) /\ Len(u) = n + 1 /\ u[n + 1] = Head(q) /\ \A k \in 1..n : u[k] = b[k]
  BY <1>1, <1>2, <1>3, Appended
<1>5. PICK w : w = u \o v
  OBVIOUS
<1>6. /\ w \in Seq(S) /\ Len(w) = (n + 1) + m
      /\ \A k \in 1..(n + 1) : w[k] = u[k]
      /\ \A k \in 1..m : w[(n + 1) + k] = v[k]
  <2>1. u \in Seq(S) /\ v \in Seq(S)
    BY <1>3, <1>4
  <2>2. w \in Seq(S)
    BY <1>5, <2>1
  <2>3. /\ Len(w) = Len(u) + Len(v) /\ \A k \in 1..Len(u) : w[k] = u[k]
        /\ \A k \in 1..Len(v) : w[Len(u) + k] = v[k]
    BY <1>5, <2>1, Joined
  <2>4. Len(u) = n + 1 /\ Len(v) = m
    BY <1>2, <1>4
  <2> QED
    BY <2>2, <2>3, <2>4
<1>7. /\ r \in Seq(S) /\ Len(r) = n + (m + 1)
      /\ \A k \in 1..n : r[k] = b[k]
      /\ \A k \in 1..(m + 1) : r[n + k] = q[k]
  BY <1>1, <1>2, <1>3, Joined
<1>8. ASSUME NEW k \in 1..(n + m + 1) PROVE w[k] = r[k]
  <2>1. CASE k \in 1..n
    <3>1. k \in 1..(n + 1)
      BY <1>3, <2>1
    <3> QED
      BY <1>4, <1>6, <1>7, <2>1, <3>1
  <2>2. CASE k = n + 1
    <3>1. k \in 1..(n + 1) /\ 1 \in 1..(m + 1)
      BY <1>3, <2>2
    <3> QED
      BY <1>3, <1>4, <1>6, <1>7, <2>2, <3>1
  <2>3. CASE k \notin 1..n /\ k # n + 1
    <3>1. PICK j : j = k - (n + 1)
      OBVIOUS
    <3>2. j \in 1..m /\ k = (n + 1) + j /\ j + 1 \in 1..(m + 1) /\ k = n + (j + 1)
      BY <1>3, <2>3, <3>1
    <3>3. w[k] = v[j] /\ r[k] = q[j + 1]
      BY <1>6, <1>7, <3>2
    <3> QED
      BY <1>3, <3>2, <3>3
  <2> QED
    BY <2>1, <2>2, <2>3
<1>9. w = r
  BY <1>3, <1>6, <1>7, <1>8
<1> QED
  BY <1>1, <1>5, <1>9

LEMMA AddQueuedFlow ==
    ASSUME Apart, PointsApart, NEW after, Flowing(after), AddQueued
    PROVE  Flowing(after)'
<1>1. PICK i, s : i = Head(top.queue) /\ s = StoredTag(Queued)
  OBVIOUS
<1>2. /\ In("add") /\ top.queue # <<>> /\ prog' = prog
      /\ stmts' = [stmts EXCEPT ![i].tag = s] /\ blocks' = Push(i)
      /\ stack' = SetTop([Visit(top, i, Queued) EXCEPT !.queue = Tail(@)])
  BY <1>1 DEF AddQueued, HasQueued
<1>3. /\ TypeOK /\ top \in Frame /\ top.phase = "add" /\ Body \in Seq(DOMAIN stmts)
      /\ top.queue \in Seq(DOMAIN stmts) /\ top.tail \in Seq(DOMAIN stmts)
      /\ top.block \in DOMAIN blocks
  BY <1>2, InnerAt DEF In
<1>4. i \in DOMAIN stmts /\ stmts[i] \in Stmt /\ stmts[i].tag \in Tag /\ Queued = stmts[i]
  BY <1>1, <1>2, <1>3, HeapAt DEF Queued
<1>5. s.loc = stmts[i].tag.loc
  BY <1>1, <1>4, StoredLoc
<1>6. stmts[i].kind = "goto" => s = stmts[i].tag
  BY <1>1, <1>4 DEF Flowing, GotoTo, StoredTag, Seen
<1>7. PICK x : x = [stmts[i] EXCEPT !.tag = s]
  OBVIOUS
<1>8. /\ x.kind = stmts[i].kind /\ x.what = stmts[i].what /\ x.thn = stmts[i].thn
      /\ x.els = stmts[i].els /\ x.to = stmts[i].to /\ x.tag = s
  BY <1>4, <1>7 DEF Stmt
<1>9. stmts' = [stmts EXCEPT ![i] = x]
  BY <1>2, <1>4, <1>7
<1>10. DOMAIN stmts' = DOMAIN stmts /\ \A j \in DOMAIN stmts : stmts'[j] = IF j = i THEN x ELSE stmts[j]
  BY <1>4, <1>9
<1>11. FlowKept(after, after)
  BY <1>2, <1>5, <1>6, <1>8, <1>10 DEF FlowKept
<1>12. PICK g : g = [Visit(top, i, Queued) EXCEPT !.queue = Tail(@)]
  OBVIOUS
<1>13. /\ stack' = SetTop(g) /\ g.block = top.block /\ g.phase = "add"
       /\ g.queue = Tail(top.queue) /\ g.tail = top.tail
  <2>1. PICK v, y : Visit(top, i, Queued) = [top EXCEPT !.visited = v, !.copies = y]
    BY DEF Visit
  <2>2. PICK h : h = Visit(top, i, Queued)
    OBVIOUS
  <2>3. /\ h.phase = "add" /\ h.tail = top.tail /\ h.queue = top.queue /\ h.block = top.block
        /\ DOMAIN h = DOMAIN top
    BY <1>3, <2>1, <2>2 DEF Frame
  <2>4. g = [h EXCEPT !.queue = Tail(@)]
    BY <1>12, <2>2
  <2>5. g.block = h.block /\ g.phase = h.phase /\ g.queue = Tail(h.queue) /\ g.tail = h.tail
    BY <1>3, <2>3, <2>4 DEF Frame
  <2> QED
    BY <1>2, <1>12, <2>3, <2>5
<1>14. /\ DOMAIN blocks' = DOMAIN blocks /\ blocks'[top.block] = Append(Body, i)
       /\ \A b \in DOMAIN blocks : b # top.block => blocks'[b] = blocks[b]
  BY <1>2, <1>3 DEF Push, Body
<1>15. Append(Body, i) \o g.queue = Body \o top.queue
  BY <1>1, <1>2, <1>3, <1>13, QueueShifts
<1>16. (blocks'[top.block] \o g.queue) \o g.tail = (Body \o top.queue) \o top.tail
  BY <1>13, <1>14, <1>15
<1> QED
  BY <1>3, <1>10, <1>11, <1>13, <1>14, <1>16, SameFlow

LEMMA AppendTailFlow ==
    ASSUME Apart, PointsApart, NEW after, Flowing(after), AppendTail
    PROVE  Flowing(after)'
<1>1. /\ In("add") /\ top.queue = <<>> /\ prog' = prog /\ stmts' = stmts
      /\ blocks' = [blocks EXCEPT ![top.block] = @ \o top.tail]
      /\ stack' = SetTop([top EXCEPT !.phase = "memo", !.tail = <<>>])
  BY DEF AppendTail
<1>2. /\ TypeOK /\ top \in Frame /\ top.phase = "add" /\ Body \in Seq(DOMAIN stmts)
      /\ top.tail \in Seq(DOMAIN stmts) /\ top.block \in DOMAIN blocks
  BY <1>1, InnerAt DEF In
<1>3. PICK g : g = [top EXCEPT !.phase = "memo", !.tail = <<>>]
  OBVIOUS
<1>4. /\ stack' = SetTop(g) /\ g.block = top.block /\ g.phase = "memo"
      /\ g.queue = <<>> /\ g.tail = <<>>
  BY <1>1, <1>2, <1>3 DEF Frame
<1>5. /\ DOMAIN blocks' = DOMAIN blocks /\ blocks'[top.block] = Body \o top.tail
      /\ \A b \in DOMAIN blocks : b # top.block => blocks'[b] = blocks[b]
  BY <1>1, <1>2 DEF Body
<1>6. (blocks'[top.block] \o g.queue) \o g.tail = (Body \o top.queue) \o top.tail
  <2>1. PICK u : u = Body \o top.tail
    OBVIOUS
  <2>2. u \in Seq(DOMAIN stmts)
    BY <1>2, <2>1
  <2>3. (u \o <<>>) \o <<>> = u
    BY <2>2
  <2>4. Body \o <<>> = Body
    BY <1>2
  <2> QED
    BY <1>1, <1>4, <1>5, <2>1, <2>3, <2>4
<1>7. FlowKept(after, after)
  BY <1>1, HeapKept
<1> QED
  BY <1>1, <1>2, <1>4, <1>5, <1>6, <1>7, SameFlow

LEMMA UpdateMemoFlow ==
    ASSUME Apart, PointsApart, NEW after, Flowing(after), UpdateMemo
    PROVE  Flowing(after)'
<1>1. /\ In("memo") /\ UNCHANGED <<prog, stmts, blocks>>
      /\ stack' = SetTop([top EXCEPT !.cursor = @ + 1])
  BY DEF UpdateMemo
<1>2. top \in Frame /\ top.phase = "memo"
  BY <1>1, InnerAt DEF In
<1>3. PICK g : g = [top EXCEPT !.cursor = @ + 1]
  OBVIOUS
<1>4. /\ stack' = SetTop(g) /\ g.block = top.block /\ g.phase = "memo"
      /\ g.queue = top.queue /\ g.tail = top.tail
  BY <1>1, <1>2, <1>3 DEF Frame
<1>5. (blocks'[top.block] \o g.queue) \o g.tail = (Body \o top.queue) \o top.tail
  BY <1>1, <1>4 DEF Body
<1>6. FlowKept(after, after)
  BY <1>1, HeapKept
<1> QED
  BY <1>1, <1>2, <1>4, <1>5, <1>6, SameFlow

-----------------------------------------------------------------------------
(* Trimming *)

\* A call that trims: what its branches and the statements behind them lead to
LEMMA TrimLeads ==
    ASSUME Apart, NEW after, Flowing(after), In("trim"), NEW x, x = blocks[top.thn],
           NEW y, y = blocks[top.els], NEW r, r = top.tail, NEW p, p = Enters(r, Exit)
    PROVE  /\ x \in Seq(DOMAIN stmts) /\ y \in Seq(DOMAIN stmts) /\ r \in Seq(DOMAIN stmts)
           /\ Leads(x, prog.code[top.pc].next, p, after)
           /\ Leads(y, prog.code[top.pc].other, p, after)
           /\ Leads(r, p, Exit, after) /\ top.thn # top.els
           /\ \A c, from : c = stack[Len(stack) - 1] /\ from = StartOf(Len(stack)) =>
                 Leads(Body, from, top.pc, after)
           /\ Trimmed(top) = {top.thn, top.els}
<1>1. /\ TypeOK /\ top.phase = "trim" /\ Waiting(top) /\ top.thn \in DOMAIN blocks
      /\ top.els \in DOMAIN blocks /\ r \in Seq(DOMAIN stmts)
  BY TrimAt
<1>2. x \in Seq(DOMAIN stmts) /\ y \in Seq(DOMAIN stmts)
  BY <1>1, HeapAt
<1>3. PICK c, from : c = stack[Len(stack) - 1] /\ from = StartOf(Len(stack))
  OBVIOUS
<1>4. CallLeads(top, c, from, after) /\ ArmsLead(top, after)
  BY <1>3, TopLeads
<1>5. /\ Leads(x, prog.code[top.pc].next, p, after) /\ Leads(y, prog.code[top.pc].other, p, after)
      /\ FlowsTo(r, Exit, after) /\ top.thn # top.els
  BY <1>1, <1>4 DEF ArmsLead
<1>6. Leads(Body, from, top.pc, after)
  BY <1>1, <1>4 DEF CallLeads, Extracts, LeadsTo, Body
<1>7. Trimmed(top) = {top.thn, top.els}
  BY <1>1 DEF Trimmed, Arms
<1> QED
  BY <1>1, <1>2, <1>3, <1>5, <1>6, <1>7 DEF Leads

LEMMA TrimCommonFlow ==
    ASSUME Apart, PointsApart, NEW after, Flowing(after), TrimCommon
    PROVE  Flowing(after)'
<1>1. PICK x, y, r, p : /\ x = blocks[top.thn] /\ y = blocks[top.els] /\ r = top.tail
                        /\ p = Enters(r, Exit)
  OBVIOUS
<1>2. PICK i, j, a, b : i = Last(x) /\ j = Last(y) /\ a = Front(x) /\ b = Front(y)
  OBVIOUS
<1>3. PICK q, g : q = <<i>> \o r /\ g = [top EXCEPT !.tail = q]
  OBVIOUS
<1>4. /\ BothArms /\ In("trim") /\ prog' = prog /\ stmts' = stmts /\ blocks' = WithArms(a, b)
      /\ Same(stmts[i], stmts[j]) /\ stmts[i].tag = stmts[j].tag
      /\ stmts[i].tag = NoTag => stmts[i].to = stmts[j].to
  BY <1>1, <1>2 DEF TrimCommon, Common, BothArms, BackThen, BackElse
<1>5. /\ TypeOK /\ top \in Frame /\ top.phase = "trim" /\ Waiting(top)
      /\ top.block # top.thn /\ top.block # top.els /\ top.block \in DOMAIN blocks
      /\ top.thn \in DOMAIN blocks /\ top.els \in DOMAIN blocks
  BY <1>4, TrimAt
<1>6. stack' = SetTop(g)
  BY <1>1, <1>2, <1>3, <1>5 DEF TrimCommon, Frame
<1>7. /\ g.phase = "trim" /\ g.block = top.block /\ g.thn = top.thn /\ g.els = top.els
      /\ g.tail = q /\ g.pc = top.pc
  BY <1>3, <1>5 DEF Frame
<1>8. PICK t, e : t = prog.code[top.pc].next /\ e = prog.code[top.pc].other
  OBVIOUS
<1>9. PICK from : from = StartOf(Len(stack))
  OBVIOUS
<1>10. /\ x \in Seq(DOMAIN stmts) /\ y \in Seq(DOMAIN stmts) /\ r \in Seq(DOMAIN stmts)
       /\ Leads(x, t, p, after) /\ Leads(y, e, p, after) /\ Leads(r, p, Exit, after)
       /\ top.thn # top.els /\ Leads(Body, from, top.pc, after)
       /\ Trimmed(top) = {top.thn, top.els}
  BY <1>1, <1>4, <1>8, <1>9, TrimLeads
<1>11. /\ i \in DOMAIN stmts /\ j \in DOMAIN stmts /\ x # <<>> /\ y # <<>>
       /\ a \in Seq(DOMAIN stmts) /\ b \in Seq(DOMAIN stmts)
  <2>1. i \in DOMAIN stmts /\ j \in DOMAIN stmts /\ x # <<>> /\ y # <<>>
    BY <1>1, <1>2, <1>4, <1>5, ArmsType
  <2> QED
    BY <1>2, <1>10, <2>1, FrontType
<1>12. PICK s, u : s = stmts[i] /\ u = stmts[j]
  OBVIOUS
<1>13. At(s) = At(u)
  <2>1. s.kind = u.kind /\ s.tag = u.tag
    BY <1>4, <1>12 DEF Same
  <2>2. s.kind = "goto" => s.to = u.to
    BY <1>4, <1>11, <1>12 DEF Flowing, GotoTo
  <2> QED
    BY <2>1, <2>2 DEF At
<1>14. /\ Leads(a, t, At(s), after) /\ GoesTo(i, p, after)
       /\ Leads(b, e, At(s), after)
  BY <1>2, <1>10, <1>11, <1>12, <1>13, LeadsFront
<1>15. Leads(<<i>>, At(s), p, after)
  BY <1>12, <1>14, LeadsOne
<1>16. <<i>> \in Seq(DOMAIN stmts)
  BY <1>11
<1>17. q \in Seq(DOMAIN stmts) /\ Leads(q, At(s), Exit, after)
  <2>1. Leads(q, At(s), Exit, after)
    BY <1>3, <1>10, <1>15, <1>16, LeadsJoin
  <2> QED
    BY <1>3, <1>10, <1>16, <2>1
<1>18. PICK m : m = At(s)
  OBVIOUS
<1>19. /\ Leads(a, t, m, after) /\ Leads(b, e, m, after) /\ FlowsTo(q, Exit, after)
       /\ Enters(q, Exit) = m
  BY <1>14, <1>17, <1>18 DEF Leads
<1>20. FlowKept(after, after)
  BY <1>4, HeapKept
<1>21. /\ Leads(a, t, m, after)' /\ Leads(b, e, m, after)' /\ FlowsTo(q, Exit, after)'
       /\ Enters(q, Exit)' = m
  BY <1>11, <1>17, <1>19, <1>20, FlowsKept
<1>22. /\ DOMAIN blocks' = DOMAIN blocks /\ blocks'[top.thn] = a /\ blocks'[top.els] = b
       /\ \A c \in DOMAIN blocks : c \notin {top.thn, top.els} => blocks'[c] = blocks[c]
  BY <1>4, <1>5, <1>10 DEF WithArms
<1>23. ArmsLead(g, after)'
  <2>1. prog'.code[g.pc].next = t /\ prog'.code[g.pc].other = e /\ g.thn # g.els
        /\ blocks'[g.thn] = a /\ blocks'[g.els] = b
    BY <1>4, <1>7, <1>8, <1>10, <1>22
  <2>2. Enters(g.tail, Exit)' = m /\ FlowsTo(g.tail, Exit, after)'
    BY <1>7, <1>21
  <2> QED
    BY <1>21, <2>1, <2>2 DEF ArmsLead
<1>24. ASSUME NEW d PROVE CallLeads(g, d, from, after)'
  <2>1. PICK z, n : z = Body /\ n = top.pc
    OBVIOUS
  <2>2. z \in Seq(DOMAIN stmts) /\ Leads(z, from, n, after)
    BY <1>5, <1>10, <2>1, HeapAt DEF Body
  <2>3. Leads(z, from, n, after)'
    BY <1>20, <2>2, FlowsKept
  <2>4. Extracts(g)' = z /\ LeadsTo(g, d)' = n
    BY <1>5, <1>7, <1>22, <2>1 DEF Extracts, LeadsTo, Waiting, Body
  <2> QED
    BY <2>3, <2>4 DEF CallLeads
<1>25. after \in [Nat -> PlacesOf] /\ Arms(g) = Trimmed(top)
  BY <1>5, <1>7 DEF Flowing, Arms, Trimmed
<1>26. PICK c : c = stack[Len(stack) - 1]
  OBVIOUS
<1>27. \A k \in DOMAIN stmts' : k \in DOMAIN stmts
  BY <1>4
<1> HIDE DEF Flowing
<1> QED
  BY <1>4, <1>6, <1>7, <1>9, <1>10, <1>20, <1>22, <1>23, <1>24, <1>25, <1>26, <1>27, FlowTop

\* Where the branches of the if that is built join: what is moved behind it comes from
\* the branch that does not leave.
LEMMA MovedBehind ==
    ASSUME Apart, NEW after, Flowing(after), In("trim"), NEW x, x = blocks[top.thn],
           NEW y, y = blocks[top.els], NEW r, r = top.tail,
           NEW a, a = (IF EmptiesThen THEN <<>> ELSE x),
           NEW b, b = (IF EmptiesElse THEN <<>> ELSE y),
           NEW w, w = (IF EmptiesThen THEN x ELSE <<>>) \o (IF EmptiesElse THEN y ELSE <<>>) \o r,
           NEW m, m = Enters(w, Exit)
    PROVE  /\ a \in Seq(DOMAIN stmts) /\ b \in Seq(DOMAIN stmts) /\ w \in Seq(DOMAIN stmts)
           /\ Leads(a, prog.code[top.pc].next, m, after)
           /\ Leads(b, prog.code[top.pc].other, m, after)
           /\ Leads(w, m, Exit, after)
<1>1. PICK t, e, p : /\ t = prog.code[top.pc].next /\ e = prog.code[top.pc].other
                     /\ p = Enters(r, Exit)
  OBVIOUS
<1>2. PICK S : S = DOMAIN stmts
  OBVIOUS
<1>3. /\ x \in Seq(S) /\ y \in Seq(S) /\ r \in Seq(S) /\ <<>> \in Seq(S)
      /\ Leads(x, t, p, after) /\ Leads(y, e, p, after) /\ Leads(r, p, Exit, after)
  BY <1>1, <1>2, TrimLeads, SMTT(30)
<1>4. CASE EmptiesThen
  <2>1. ~ EmptiesElse /\ y # <<>> /\ Leaves(stmts[Last(y)])
    BY <1>4 DEF EmptiesThen, EmptiesElse, BothArms, BackElse
  <2>2. a = <<>> /\ b = y /\ w = x \o r
    <3>1. x \o <<>> = x
      BY <1>3
    <3> QED
      BY <1>4, <2>1, <3>1
  <2>3. w \in Seq(S)
    BY <1>3, <2>2
  <2>4. Leads(w, t, Exit, after)
    <3>1. w = x \o r
      BY <2>2
    <3>2. Leads(x, t, p, after) /\ Leads(r, p, Exit, after)
      BY <1>3
    <3>3. x \in Seq(S) /\ r \in Seq(S)
      BY <1>3
    <3> QED
      BY <3>1, <3>2, <3>3, LeadsJoin
  <2>5. m = t
    BY <2>4 DEF Leads
  <2>6. Leads(b, e, m, after)
    BY <1>3, <2>1, <2>2, LeadsAnywhere, SMTT(30)
  <2> QED
    BY <1>1, <1>2, <1>3, <2>2, <2>3, <2>4, <2>5, <2>6, LeadsNone
<1>5. CASE EmptiesElse
  <2>1. ~ EmptiesThen /\ x # <<>> /\ Leaves(stmts[Last(x)])
    BY <1>5 DEF EmptiesThen, EmptiesElse, BothArms, BackThen
  <2>2. a = x /\ b = <<>> /\ w = y \o r
    <3>1. <<>> \o y = y
      BY <1>3
    <3> QED
      BY <1>5, <2>1, <3>1
  <2>3. w \in Seq(S)
    BY <1>3, <2>2
  <2>4. Leads(w, e, Exit, after)
    <3>1. w = y \o r
      BY <2>2
    <3>2. Leads(y, e, p, after) /\ Leads(r, p, Exit, after)
      BY <1>3
    <3>3. y \in Seq(S) /\ r \in Seq(S)
      BY <1>3
    <3> QED
      BY <3>1, <3>2, <3>3, LeadsJoin
  <2>5. m = e
    BY <2>4 DEF Leads
  <2>6. Leads(a, t, m, after)
    BY <1>3, <2>1, <2>2, LeadsAnywhere
  <2> QED
    BY <1>1, <1>2, <1>3, <2>2, <2>3, <2>4, <2>5, <2>6, LeadsNone
<1>6. CASE ~ EmptiesThen /\ ~ EmptiesElse
  <2>1. a = x /\ b = y /\ w = r
    <3>1. <<>> \o <<>> = <<>> /\ <<>> \o r = r
      BY <1>3
    <3> QED
      BY <1>6, <3>1
  <2> QED
    BY <1>1, <1>2, <1>3, <2>1
<1> QED
  BY <1>4, <1>5, <1>6

LEMMA BuildIfFlow ==
    ASSUME Apart, PointsApart, NEW after, Flowing(after), BuildIf
    PROVE  \E after2 : Flowing(after2)'
<1>1. PICK x, y, r : x = blocks[top.thn] /\ y = blocks[top.els] /\ r = top.tail
  OBVIOUS
<1>2. PICK a, b : /\ a = (IF EmptiesThen THEN <<>> ELSE x)
                  /\ b = (IF EmptiesElse THEN <<>> ELSE y)
  OBVIOUS
<1>3. PICK w : w = (IF EmptiesThen THEN x ELSE <<>>) \o (IF EmptiesElse THEN y ELSE <<>>) \o r
  OBVIOUS
<1>4. PICK m, t, e, pc : /\ m = Enters(w, Exit) /\ t = prog.code[top.pc].next
                         /\ e = prog.code[top.pc].other /\ pc = top.pc
  OBVIOUS
<1>5. PICK i, s, q, v : /\ i = Len(stmts) + 1 /\ s = If(top.ifTag, top.cond, top.thn, top.els)
                        /\ q = Append(top.queue, i)
                        /\ v = {z \in top.visited : z.tag # top.ifTag}
  OBVIOUS
<1>6. PICK g : g = [top EXCEPT !.phase = "add", !.visited = v, !.queue = q, !.tail = w]
  OBVIOUS
<1>7. /\ In("trim") /\ prog' = prog /\ blocks' = WithArms(a, b) /\ stmts' = Append(stmts, s)
  BY <1>1, <1>2, <1>5 DEF BuildIf
<1>8. /\ TypeOK /\ top \in Frame /\ Sound(top) /\ top.phase = "trim" /\ Waiting(top)
      /\ top.block \in DOMAIN blocks /\ top.thn \in DOMAIN blocks /\ top.els \in DOMAIN blocks
      /\ top.block # top.thn /\ top.block # top.els /\ top.queue = <<>>
  BY <1>7, TrimAt
<1>9. stack' = SetTop(g)
  BY <1>1, <1>3, <1>5, <1>6, <1>8 DEF BuildIf, Frame
<1>10. q = <<i>>
  BY <1>5, <1>8
<1>11. g.phase = "add" /\ g.block = top.block /\ g.queue = <<i>> /\ g.tail = w
  BY <1>6, <1>8, <1>10 DEF Frame
<1>12. /\ a \in Seq(DOMAIN stmts) /\ b \in Seq(DOMAIN stmts) /\ w \in Seq(DOMAIN stmts)
       /\ Leads(a, t, m, after) /\ Leads(b, e, m, after) /\ Leads(w, m, Exit, after)
  BY <1>1, <1>2, <1>3, <1>4, <1>7, MovedBehind
<1>13. PICK c, from : c = stack[Len(stack) - 1] /\ from = StartOf(Len(stack))
  OBVIOUS
<1>14. /\ Leads(Body, from, pc, after) /\ top.thn # top.els
       /\ Trimmed(top) = {top.thn, top.els}
  BY <1>4, <1>7, <1>13, TrimLeads
<1>15. m \in PlacesOf
  BY <1>4, <1>12, EntersPlace
<1>16. /\ Len(stmts) \in Nat /\ i \in Nat /\ i \notin DOMAIN stmts /\ stmts'[i] = s
       /\ i \in DOMAIN stmts'
       /\ \A k \in DOMAIN stmts : k \in DOMAIN stmts' /\ stmts'[k] = stmts[k] /\ k \in Nat
       /\ \A k \in DOMAIN stmts' : k \in DOMAIN stmts \/ k = i
  <2>1. Len(stmts) \in Nat /\ DOMAIN stmts = 1..Len(stmts) /\ stmts \in Seq(Stmt)
    BY <1>8, HeapAt
  <2> QED
    BY <1>5, <1>7, <2>1
<1>17. PICK after2 : after2 = [after EXCEPT ![i] = m]
  OBVIOUS
<1>18. after \in [Nat -> PlacesOf]
  BY DEF Flowing
<1>19. /\ after2 \in [Nat -> PlacesOf] /\ after2[i] = m
       /\ \A k \in DOMAIN stmts : after2[k] = after[k]
  BY <1>15, <1>16, <1>17, <1>18
<1>20. FlowKept(after, after2)
  BY <1>7, <1>16, <1>19 DEF FlowKept
<1>21. PICK z : z = Body
  OBVIOUS
<1>22. z \in Seq(DOMAIN stmts)
  BY <1>8, <1>21, HeapAt DEF Body
<1>23. /\ Leads(a, t, m, after2)' /\ Leads(b, e, m, after2)' /\ Leads(w, m, Exit, after2)'
       /\ Leads(z, from, pc, after2)'
  BY <1>12, <1>14, <1>20, <1>21, <1>22, FlowsKept
<1>24. /\ s.kind = "if" /\ s.thn = top.thn /\ s.els = top.els /\ pc \in Branches
       /\ s.tag.loc = prog.code[pc].loc /\ s.what = prog.code[pc].what
  <2>1. /\ s.kind = "if" /\ s.tag = top.ifTag /\ s.thn = top.thn /\ s.els = top.els
        /\ s.what = top.cond.what
    BY <1>5 DEF If, Statement
  <2>2. /\ pc \in Branches /\ top.ifTag = StmtAt(pc).tag /\ top.cond.what = prog.code[pc].what
    BY <1>4, <1>8 DEF Sound, Interrupted
  <2>3. StmtAt(pc).tag.loc = prog.code[pc].loc
    BY DEF StmtAt, Statement
  <2> QED
    BY <2>1, <2>2, <2>3
<1>25. At(s) = pc
  <2>1. pc \in DOMAIN prog.code
    BY <1>24 DEF Branches
  <2> QED
    BY <1>24, <2>1, AtOf
<1>26. /\ DOMAIN blocks' = DOMAIN blocks /\ blocks'[top.thn] = a /\ blocks'[top.els] = b
       /\ \A d \in DOMAIN blocks : d \notin {top.thn, top.els} => blocks'[d] = blocks[d]
  BY <1>7, <1>8, <1>14 DEF WithArms
<1>27. Branching(i, after2)'
  <2>1. At(stmts[i])' = pc
    BY <1>7, <1>16, <1>25, PlacesSame
  <2>2. prog'.code[pc].op = "branch" /\ prog'.code[pc].next = t /\ prog'.code[pc].other = e
        /\ prog'.code[pc].what = s.what
    BY <1>4, <1>7, <1>24 DEF Branches
  <2>3. PICK th, el : th = s.thn /\ el = s.els
    OBVIOUS
  <2>4. blocks'[th] = a /\ blocks'[el] = b
    BY <1>24, <1>26, <2>3
  <2> QED
    BY <1>16, <1>19, <1>23, <2>1, <2>2, <2>3, <2>4 DEF Branching
<1>28. GoesTo(i, m, after2)'
  BY <1>16, <1>19, <1>24 DEF GoesTo
<1>29. Leads(<<i>>, pc, m, after2)'
  BY <1>7, <1>16, <1>25, <1>28, LeadsOneNext
<1>30. PICK u : u = z \o <<i>>
  OBVIOUS
<1>31. PICK o : o = u \o w
  OBVIOUS
<1>32. Leads(o, from, Exit, after2)'
  <2>1. PICK S : S = DOMAIN stmts'
    OBVIOUS
  <2>2. z \in Seq(S) /\ <<i>> \in Seq(S) /\ w \in Seq(S)
    <3>1. DOMAIN stmts \subseteq S /\ i \in S
      BY <1>16, <2>1
    <3> QED
      BY <1>12, <1>22, <3>1
  <2>3. u \in Seq(S)
    BY <1>30, <2>2
  <2>4. Leads(u, from, m, after2)'
    BY <1>23, <1>29, <1>30, <2>2, LeadsJoinNext
  <2> QED
    BY <1>23, <1>31, <2>2, <2>3, <2>4, LeadsJoinNext
<1>33. ASSUME NEW d PROVE CallLeads(g, d, from, after2)'
  <2>1. Extracts(g)' = o /\ LeadsTo(g, d)' = Exit
    BY <1>8, <1>11, <1>21, <1>26, <1>30, <1>31 DEF Extracts, LeadsTo, Waiting, Body
  <2> QED
    BY <1>32, <2>1 DEF CallLeads
<1>34. Arms(g) = {} /\ ArmsLead(g, after2)'
  BY <1>11 DEF Arms, ArmsLead
<1>35. i \in Ifs' /\ Trimmed(top) \subseteq {stmts'[i].thn, stmts'[i].els}
  BY <1>14, <1>16, <1>24 DEF Ifs
<1>36. ASSUME NEW k \in DOMAIN stmts', k \notin DOMAIN stmts
       PROVE  /\ GotoTo(stmts'[k]) /\ {stmts'[k].thn, stmts'[k].els} \subseteq {0} \cup Trimmed(top)
              /\ Branching(k, after2)'
  BY <1>14, <1>16, <1>24, <1>27, <1>36 DEF GotoTo
<1>37. \A d \in DOMAIN blocks : d \notin {top.block} \cup Trimmed(top) => blocks'[d] = blocks[d]
  BY <1>14, <1>26
<1> HIDE DEF Flowing
<1>38. Flowing(after2)'
  BY <1>9, <1>11, <1>13, <1>19, <1>20, <1>26, <1>33, <1>34, <1>35, <1>36, <1>37, FlowTop
<1> QED
  BY <1>38

-----------------------------------------------------------------------------
(* The branches of an if *)

\* The n outermost calls stay; the next one, now f, waits for its branches.
LEMMA FlowCalls ==
    ASSUME Apart, PointsApart, NEW after, Flowing(after), UNCHANGED <<prog, stmts>>,
           top.phase \in {"run", "memo"},
           NEW n \in Nat, n < Len(stack), n + 1 = Len(stack) \/ n + 2 = Len(stack),
           NEW f, stack'[n + 1] = f, f.block = stack[n + 1].block, Waiting(f),
           \A k \in 1..n : stack'[k] = stack[k],
           Len(stack') \in {n + 1, n + 2}, top' = stack'[Len(stack')],
           \A b \in DOMAIN blocks : b # f.block => blocks'[b] = blocks[b],
           \A b \in DOMAIN blocks' : b \in DOMAIN blocks \/ blocks'[b] = <<>>,
           \A b \in Arms(f) :
              /\ \A i \in DOMAIN stmts : b \notin {stmts[i].thn, stmts[i].els}
              /\ \A k \in 1..n : b \notin Arms(stack[k]),
           n + 2 = Len(stack) => FlowsTo(Body, Exit, after),
           NEW from, from = StartOf(n + 1), \A d : CallLeads(f, d, from, after)',
           ArmsLead(f, after)',
           Len(stack') = n + 2 =>
              /\ stack'[n + 2].phase = "run" /\ CallLeads(stack[n + 2], f, StartOf(n + 2), after)'
    PROVE  Flowing(after)'
<1>1. PICK m : m = Len(stack)
  OBVIOUS
<1>2. /\ TypeOK /\ m \in Nat \ {0} /\ stack \in Seq(Call) /\ top = stack[m] /\ n < m
      /\ \A k \in 1..n : k \in 1..(m - 1) /\ k \in 1..m /\ k # n + 1 /\ k \in Nat
      /\ n + 1 \in 1..m /\ n + 1 \in Nat
      /\ \A k \in 1..(n + 1) : k \in 1..n \/ k = n + 1
      /\ \A k \in 1..(n + 2) : k \in 1..n \/ k = n + 1 \/ k = n + 2
      /\ top.block \in DOMAIN blocks /\ top.phase # "trim"
  <2>1. TypeOK /\ m \in Nat \ {0} /\ stack \in Seq(Call) /\ top = stack[m] /\ n < m
        /\ top.block \in DOMAIN blocks
    BY <1>1, InnerAt
  <2> QED
    BY <2>1
<1>3. FlowKept(after, after)
  BY HeapKept
<1>4. after \in [Nat -> PlacesOf'] /\ PlacesOf' = PlacesOf
  BY PlacesSame DEF Flowing
<1>5. ASSUME NEW i \in DOMAIN stmts' PROVE GotoTo(stmts[i])'
  <2>1. PICK s : s = stmts'[i]
    OBVIOUS
  <2>2. GotoTo(s)
    BY <2>1 DEF Flowing
  <2> QED
    BY <2>1, <2>2, PlacesSame
<1>6. PICK o : o = f.block
  OBVIOUS
<1>7. /\ o \in DOMAIN blocks /\ Owns(n + 1) /\ stack[n + 1].block = o
  <2>1. n + 1 = m \/ n + 1 \in 1..(m - 1)
    BY <1>1, <1>2
  <2>2. stack[n + 1].block \in DOMAIN blocks
    BY <1>1, <1>2, <2>1, OuterAt
  <2> QED
    BY <1>1, <1>2, <1>6, <2>2 DEF Apart, Ownership, AllOwn
<1>8. \A b \in DOMAIN blocks : b # o => blocks'[b] = blocks[b]
  BY <1>6
<1>9. ASSUME NEW i \in Ifs' PROVE Branching(i, after)'
  <2>1. i \in Ifs /\ Branching(i, after) /\ i \in DOMAIN stmts
    BY DEF Ifs, Flowing
  <2>2. PICK b, d : b = stmts[i].thn /\ d = stmts[i].els
    OBVIOUS
  <2>3. b \in DOMAIN blocks /\ d \in DOMAIN blocks
    <3>1. stmts[i] \in Stmt /\ stmts[i].kind = "if"
      BY <1>2, <2>1, HeapAt DEF Ifs
    <3>2. b \in 0..Len(blocks) /\ b # 0 /\ d \in 0..Len(blocks) /\ d # 0 /\ Len(blocks) \in Nat
          /\ DOMAIN blocks = 1..Len(blocks)
      BY <1>2, <2>2, <3>1, HeapAt DEF Stmt
    <3> QED
      BY <3>2
  <2>4. b # o /\ d # o
    BY <1>7, <2>1, <2>2 DEF Owns
  <2>5. blocks'[b] = blocks[b] /\ blocks'[d] = blocks[d]
    BY <1>8, <2>3, <2>4
  <2> QED
    BY <1>2, <1>3, <2>1, <2>2, <2>5, BranchingKept
<1>10. ASSUME NEW b \in DOMAIN blocks', Open(b)' PROVE FlowsTo(blocks[b], Exit, after)'
  <2>1. CASE b \notin DOMAIN blocks
    <3>1. blocks'[b] = <<>>
      BY <2>1
    <3> QED
      BY <3>1 DEF FlowsTo
  <2>2. CASE b \in DOMAIN blocks
    <3>1. /\ \A k \in 1..Len(stack') : stack'[k].block # b
          /\ \A i \in Ifs : b \notin {stmts[i].thn, stmts[i].els}
      BY <1>10 DEF Open, Ifs
    <3>2. b # o /\ \A k \in 1..n : stack[k].block # b
      <4>1. n + 1 \in 1..Len(stack') /\ \A k \in 1..n : k \in 1..Len(stack')
        BY <1>2
      <4> QED
        BY <1>6, <3>1, <4>1
    <3>3. PICK q : q = blocks[b]
      OBVIOUS
    <3>4. q \in Seq(DOMAIN stmts) /\ blocks'[b] = q
      BY <1>2, <1>8, <2>2, <3>2, <3>3, HeapAt
    <3>5. FlowsTo(q, Exit, after)
      <4>1. CASE b = top.block
        <5>1. m = n + 2
          BY <1>1, <1>2, <1>7, <3>2, <4>1
        <5> QED
          BY <1>1, <3>3, <4>1, <5>1 DEF Body
      <4>2. CASE b # top.block
        <5>1. ASSUME NEW k \in 1..m PROVE stack[k].block # b
          <6>1. k \in 1..n \/ k = n + 1 \/ k = m
            BY <1>1, <1>2
          <6> QED
            BY <1>2, <1>7, <3>2, <4>2, <6>1
        <5>2. Open(b)
          BY <1>1, <1>2, <3>1, <5>1 DEF Open
        <5> QED
          BY <2>2, <3>3, <5>2 DEF Flowing
      <4> QED
        BY <4>1, <4>2
    <3>6. FlowsTo(q, Exit, after)'
      BY <1>3, <3>4, <3>5, FlowsKept
    <3> QED
      BY <3>4, <3>6
  <2> QED
    BY <2>1, <2>2
<1>11. Len(stack') = n + 2 => Arms(stack'[n + 2]) = {}
  BY DEF Arms
<1>12. ASSUME NEW k \in 1..n
       PROVE  /\ CallLeads(stack[k], stack[k - 1], StartOf(k), after)'
              /\ ArmsLead(stack[k], after)' /\ ArmsOwn(k)'
  <2>1. k \in 1..(m - 1) /\ k \in 1..m /\ k # n + 1 /\ k \in Nat /\ stack'[k] = stack[k]
    BY <1>2
  <2>2. k # 1 => stack'[k - 1] = stack[k - 1]
    <3>1. k # 1 => k - 1 \in 1..n
      BY <1>2
    <3> QED
      BY <3>1
  <2>3. /\ stack[k].block \in DOMAIN blocks /\ stack[k] \in Call /\ stack[k] \in Frame
        /\ stack[k].phase \in {"then", "else"} /\ ArmsOwn(k)
        /\ Len(blocks) \in Nat /\ DOMAIN blocks = 1..Len(blocks)
    <3>1. stack[k] \in Call /\ ArmsOwn(k)
      BY <1>1, <1>2, <2>1 DEF Flowing
    <3>2. /\ stack[k].block \in DOMAIN blocks /\ stack[k] \in Frame
          /\ stack[k].phase \in {"then", "else"}
      BY <1>1, <2>1, OuterAt
    <3> QED
      BY <1>2, <3>1, <3>2, HeapAt
  <2>4. \A b \in Arms(stack[k]) : b \in DOMAIN blocks /\ b = stack[k].thn
    <3>1. stack[k].phase = "else" => stack[k].thn # 0 /\ stack[k].thn \in 0..Len(blocks)
      BY <2>3, Fields DEF Call
    <3>2. stack[k].phase = "else" => stack[k].thn \in DOMAIN blocks
      BY <2>3, <3>1
    <3> QED
      BY <2>3, <3>2 DEF Arms
  <2>5. stack[k].block # o /\ stack[k].thn # o
    BY <1>1, <1>7, <2>1 DEF Owns
  <2>6. \A b \in {stack[k].block} \cup Arms(stack[k]) : blocks'[b] = blocks[b]
    BY <1>8, <2>3, <2>4, <2>5
  <2>7. /\ CallLeads(stack[k], stack[k - 1], StartOf(k), after)'
        /\ ArmsLead(stack[k], after)'
    BY <1>1, <1>3, <2>1, <2>2, <2>6, FlowOuter
  <2>8. ASSUME NEW b \in Arms(stack[k])
        PROVE  /\ \A i \in DOMAIN stmts' : b \notin {stmts'[i].thn, stmts'[i].els}
               /\ \A j \in 1..Len(stack') : b \in Arms(stack'[j]) => j = k
    <3>1. \A i \in DOMAIN stmts' : b \notin {stmts'[i].thn, stmts'[i].els}
      BY <2>3 DEF ArmsOwn
    <3>2. ASSUME NEW j \in 1..Len(stack'), b \in Arms(stack'[j]) PROVE j = k
      <4>1. j \in 1..n \/ j = n + 1 \/ (j = n + 2 /\ Len(stack') = n + 2)
        BY <1>2
      <4>2. j # n + 1
        BY <3>2
      <4>3. j \in 1..n
        BY <1>11, <3>2, <4>1, <4>2
      <4>4. stack'[j] = stack[j] /\ j \in 1..Len(stack)
        BY <1>1, <1>2, <4>3
      <4> QED
        BY <2>3, <3>2, <4>4 DEF ArmsOwn
    <3> QED
      BY <3>1, <3>2
  <2>9. ArmsOwn(k)'
    BY <2>1, <2>8 DEF ArmsOwn
  <2> QED
    BY <2>7, <2>9
<1>13. /\ CallLeads(stack[n + 1], stack[n], StartOf(n + 1), after)'
       /\ ArmsLead(stack[n + 1], after)' /\ ArmsOwn(n + 1)'
  <2>1. from = StartOf(n + 1)'
    <3>1. n + 1 # 1 => (n + 1) - 1 \in 1..n
      BY <1>2
    <3> QED
      BY <1>2, <3>1, StartSame
  <2>2. PICK d : d = stack'[n]
    OBVIOUS
  <2>3. CallLeads(f, d, from, after)'
    OBVIOUS
  <2>4. ASSUME NEW b \in Arms(f)
        PROVE  /\ \A i \in DOMAIN stmts' : b \notin {stmts'[i].thn, stmts'[i].els}
               /\ \A j \in 1..Len(stack') : b \in Arms(stack'[j]) => j = n + 1
    <3>1. ASSUME NEW j \in 1..Len(stack'), b \in Arms(stack'[j]) PROVE j = n + 1
      <4>1. j \in 1..n \/ j = n + 1 \/ (j = n + 2 /\ Len(stack') = n + 2)
        BY <1>2
      <4> QED
        BY <1>11, <3>1, <4>1
    <3> QED
      BY <3>1
  <2>5. ArmsOwn(n + 1)'
    BY <2>4 DEF ArmsOwn
  <2> QED
    BY <2>1, <2>2, <2>3, <2>5
<1>14. Len(stack') = n + 2 =>
          /\ CallLeads(stack[n + 2], stack[n + 1], StartOf(n + 2), after)'
          /\ ArmsLead(stack[n + 2], after)' /\ ArmsOwn(n + 2)'
  <2> SUFFICES ASSUME Len(stack') = n + 2
               PROVE  /\ CallLeads(stack[n + 2], stack[n + 1], StartOf(n + 2), after)'
                      /\ ArmsLead(stack[n + 2], after)' /\ ArmsOwn(n + 2)'
    OBVIOUS
  <2>1. ArmsLead(stack[n + 2], after)'
    BY DEF ArmsLead
  <2>2. ArmsOwn(n + 2)'
    BY <1>11 DEF ArmsOwn
  <2> QED
    BY <2>1, <2>2
<1>15. stack'[1].block = 1
  <2>1. stack[1].block = 1
    BY DEF Flowing
  <2>2. n = 0 \/ 1 \in 1..n
    BY <1>2
  <2> QED
    BY <2>1, <2>2
<1>16. ASSUME NEW k \in 1..Len(stack')
       PROVE  /\ CallLeads(stack[k], stack[k - 1], StartOf(k), after)'
              /\ ArmsLead(stack[k], after)' /\ ArmsOwn(k)'
  <2>1. k \in 1..n \/ k = n + 1 \/ (k = n + 2 /\ Len(stack') = n + 2)
    BY <1>2
  <2>2. (n + 1) - 1 = n /\ (n + 2) - 1 = n + 1
    OBVIOUS
  <2> QED
    BY <1>12, <1>13, <1>14, <2>1, <2>2
<1> QED
  BY <1>4, <1>5, <1>9, <1>10, <1>15, <1>16 DEF Flowing

LEMMA StartedFlow ==
    ASSUME prog' = prog, NEW n \in Nat, NEW f, f.given \in Seq(BOOLEAN), NEW a \in BOOLEAN, NEW b,
           stack'[n + 1] = f, stack'[n + 2] = NewRun(Answers(f, a), f, b), blocks'[b] = <<>>,
           IF a THEN f.phase = "then" ELSE f.phase = "else", NEW after
    PROVE  CallLeads(stack[n + 2], f, StartOf(n + 2), after)'
<1>1. PICK run, g : run = NewRun(Answers(f, a), f, b) /\ g = Answers(f, a)
  OBVIOUS
<1>2. g # <<>> /\ Head(g) = a
  BY <1>1 DEF Answers
<1>3. run.phase = "run" /\ run.given = g /\ run.bools = g /\ run.block = b
  BY <1>1 DEF NewRun
<1>4. PICK p : p = IF a THEN prog.code[f.pc].next ELSE prog.code[f.pc].other
  OBVIOUS
<1>5. Extracts(run)' = <<>> /\ LeadsTo(run, f)' = p
  BY <1>2, <1>3, <1>4 DEF Extracts, LeadsTo, Asking, Waiting, NextPlace, Destination
<1>6. StartOf(n + 2)' = p
  <2>1. (n + 2) - 1 = n + 1 /\ n + 2 # 1
    OBVIOUS
  <2> QED
    BY <1>4, <2>1 DEF StartOf
<1>7. Leads(<<>>, p, p, after)'
  BY DEF Leads, FlowsTo, Enters
<1> QED
  BY <1>1, <1>5, <1>6, <1>7 DEF CallLeads

LEMMA OutOfBoolsFlow ==
    ASSUME Apart, PointsApart, NEW after, Flowing(after), OutOfBools
    PROVE  Flowing(after)'
<1>1. PICK n, c, s : n = Len(stack) - 1 /\ c = Last(Body) /\ s = stmts[c]
  OBVIOUS
<1>2. PICK f : f = [top EXCEPT !.phase = "then", !.ifTag = StmtAt(top.pc).tag,
                               !.cond = [what |-> s.what, var |-> s.var]]
  OBVIOUS
<1>3. PICK run, b : run = NewRun(Answers(f, TRUE), f, b) /\ b = Len(blocks) + 1
  OBVIOUS
<1>4. /\ Asks /\ ~ CatchingUp /\ UNCHANGED <<prog, stmts>>
      /\ blocks' = Append([blocks EXCEPT ![top.block] = Front(@)], <<>>)
      /\ stack' = Append(SetTop(f), run)
  BY <1>1, <1>2, <1>3 DEF OutOfBools
<1>5. /\ TypeOK /\ stack \in Seq(Call) /\ top \in Frame /\ top.phase = "run"
      /\ top.block \in DOMAIN blocks /\ top = stack[Len(stack)] /\ Len(stack) \in Nat \ {0}
      /\ Body \in Seq(DOMAIN stmts) /\ top.bools = <<>> /\ top.pending = <<>> /\ top.tested
  BY <1>4, InnerAt DEF Asks, In, CatchingUp
<1>6. /\ f.phase = "then" /\ f.pc = top.pc /\ f.block = top.block /\ f.given \in Seq(BOOLEAN)
      /\ run.phase = "run"
  BY <1>2, <1>3, <1>5, Fields DEF Frame, NewRun
<1>7. /\ n \in Nat /\ n < Len(stack) /\ n + 1 = Len(stack) /\ Len(stack') = n + 2
      /\ \A k \in 1..n : stack'[k] = stack[k]
      /\ stack'[n + 1] = f /\ stack'[n + 2] = run
  BY <1>1, <1>4, <1>5 DEF SetTop
<1>8. top' = stack'[Len(stack')]
  BY DEF top, Last
<1>9. PICK q, p, from, e : /\ q = Front(Body) /\ p = top.pc /\ from = StartOf(n + 1)
                           /\ e = stack[Len(stack) - 1]
  OBVIOUS
<1>10. q \in Seq(DOMAIN stmts) /\ Leads(q, from, p, after)
  <2>1. CallLeads(top, e, from, after)
    BY <1>7, <1>9, TopLeads
  <2>2. Asking(top) /\ NextPlace(top, e) = p
    BY <1>5, <1>9 DEF Asking, NextPlace
  <2>3. q \in Seq(DOMAIN stmts)
    BY <1>5, <1>9, FrontType
  <2> QED
    BY <1>5, <1>9, <2>1, <2>2, <2>3 DEF CallLeads, Extracts, LeadsTo, Waiting, Body
<1>11. FlowKept(after, after)
  BY <1>4, HeapKept
<1>12. Leads(q, from, p, after)'
  BY <1>10, <1>11, FlowsKept
<1>13. /\ blocks'[b] = <<>> /\ blocks'[top.block] = q
       /\ \A d \in DOMAIN blocks' : d \in DOMAIN blocks \/ d = b
       /\ \A d \in DOMAIN blocks : d # top.block => blocks'[d] = blocks[d]
  <2>1. blocks \in Seq(Seq(DOMAIN stmts))
    BY <1>5 DEF TypeOK, HeapOK
  <2>2. PICK r : r = [blocks EXCEPT ![top.block] = Front(@)]
    OBVIOUS
  <2>3. /\ Len(r) = Len(blocks) /\ Len(blocks) \in Nat /\ DOMAIN r = 1..Len(blocks)
        /\ DOMAIN blocks = 1..Len(blocks)
        /\ \A d \in DOMAIN blocks : r[d] = IF d = top.block THEN q ELSE blocks[d]
    BY <1>5, <1>9, <2>1, <2>2 DEF Body
  <2>4. /\ b \in DOMAIN blocks' /\ blocks'[b] = <<>>
        /\ DOMAIN blocks' = 1..(Len(blocks) + 1) /\ \A d \in DOMAIN blocks : blocks'[d] = r[d]
    BY <1>3, <1>4, <2>2, <2>3
  <2> QED
    BY <1>3, <1>5, <2>3, <2>4
<1>14. ASSUME NEW d PROVE CallLeads(f, d, from, after)'
  <2>1. Extracts(f)' = q /\ LeadsTo(f, d)' = p
    BY <1>6, <1>9, <1>13 DEF Extracts, LeadsTo, Waiting
  <2> QED
    BY <1>12, <2>1 DEF CallLeads
<1>15. Waiting(f) /\ Arms(f) = {} /\ ArmsLead(f, after)'
  BY <1>6 DEF Waiting, Arms, ArmsLead
<1>16. CallLeads(stack[n + 2], f, StartOf(n + 2), after)'
  BY <1>3, <1>4, <1>6, <1>7, <1>13, StartedFlow
<1>17. /\ UNCHANGED <<prog, stmts>> /\ top.phase \in {"run", "memo"} /\ from = StartOf(n + 1)
       /\ f.block = stack[n + 1].block /\ (n + 1 = Len(stack) \/ n + 2 = Len(stack))
       /\ (n + 2 = Len(stack) => FlowsTo(Body, Exit, after)) /\ Len(stack') \in {n + 1, n + 2}
       /\ \A d \in DOMAIN blocks : d # f.block => blocks'[d] = blocks[d]
       /\ \A d \in DOMAIN blocks' : d \in DOMAIN blocks \/ blocks'[d] = <<>>
  BY <1>4, <1>5, <1>6, <1>7, <1>9, <1>13
<1> HIDE DEF Flowing
<1> QED
  BY <1>6, <1>7, <1>8, <1>14, <1>15, <1>16, <1>17, FlowCalls

\* What a call that has finished has extracted
LEMMA FinishedLeads ==
    ASSUME Apart, NEW after, Flowing(after), Finished
    PROVE  Leads(Body, StartOf(Len(stack)), Exit, after)
<1>1. /\ top.phase = "memo" /\ top.queue = <<>> /\ top.tail = <<>> /\ Body \in Seq(DOMAIN stmts)
  BY InnerAt DEF Finished, In, Sound, Idle
<1>2. PICK c, from, q : /\ c = stack[Len(stack) - 1] /\ from = StartOf(Len(stack))
                        /\ q = Body
  OBVIOUS
<1>3. CallLeads(top, c, from, after)
  BY <1>2, TopLeads
<1>4. (q \o <<>>) \o <<>> = q
  BY <1>1, <1>2
<1>5. Extracts(top) = q /\ LeadsTo(top, c) = Exit
  BY <1>1, <1>2, <1>4 DEF Extracts, LeadsTo, Waiting, Body
<1> QED
  BY <1>2, <1>3, <1>5 DEF CallLeads

\* The caller h of a call that returns: the condition it waits at and the branches it has
LEMMA CallerLeads ==
    ASSUME Apart, NEW after, Flowing(after), Finished, Len(stack) > 1,
           NEW n, n = Len(stack) - 2, NEW h, h = caller, NEW p, p = h.pc
    PROVE  /\ Leads(blocks[h.block], StartOf(n + 1), p, after)
           /\ h.phase = "then" => Leads(Body, prog.code[p].next, Exit, after)
           /\ h.phase = "else" => /\ Leads(Body, prog.code[p].other, Exit, after)
                                  /\ Leads(blocks[h.thn], prog.code[p].next, Exit, after)
                                  /\ \A i \in DOMAIN stmts : h.thn \notin {stmts[i].thn, stmts[i].els}
                                  /\ \A k \in 1..n : h.thn \notin Arms(stack[k])
           /\ top.block # h.thn
           /\ \A i \in DOMAIN stmts : top.block \notin {stmts[i].thn, stmts[i].els}
           /\ \A k \in 1..n : top.block \notin Arms(stack[k])
<1>1. /\ n \in Nat /\ n + 1 \in 1..(Len(stack) - 1) /\ n + 2 = Len(stack)
      /\ h = stack[n + 1] /\ h.phase \in {"then", "else"} /\ Waiting(h)
      /\ h.tail = <<>>
  BY ReturnedAt
<1>2. n + 1 \in 1..Len(stack) /\ \A k \in 1..n : k \in 1..Len(stack) /\ k # n + 1
  BY <1>1
<1>3. PICK m : m = n + 1
  OBVIOUS
<1>4. /\ CallLeads(stack[m], stack[m - 1], StartOf(m), after)
      /\ ArmsLead(stack[m], after) /\ ArmsOwn(m)
  BY <1>2, <1>3 DEF Flowing
<1>5. Leads(blocks[h.block], StartOf(n + 1), p, after)
  BY <1>1, <1>3, <1>4 DEF CallLeads, Extracts, LeadsTo
<1>6. StartOf(Len(stack)) = IF h.phase = "then" THEN prog.code[p].next ELSE prog.code[p].other
  <2>1. Len(stack) # 1 /\ stack[Len(stack) - 1] = h
    BY <1>1
  <2> QED
    BY <2>1 DEF StartOf
<1>7. Leads(Body, StartOf(Len(stack)), Exit, after)
  BY FinishedLeads
<1>8. /\ top.block # h.thn
      /\ \A i \in DOMAIN stmts : top.block \notin {stmts[i].thn, stmts[i].els}
      /\ \A k \in 1..n : top.block \notin Arms(stack[k])
  <2>1. top = stack[Len(stack)] /\ Owns(Len(stack))
    BY InnerAt DEF Apart, Ownership, AllOwn
  <2> QED
    BY <1>1, <1>2, <2>1 DEF Owns, Arms
<1>9. h.phase = "else" => /\ Leads(blocks[h.thn], prog.code[p].next, Exit, after)
                          /\ h.thn \in Arms(h)
  BY <1>1, <1>3, <1>4 DEF ArmsLead, Enters, Arms
<1>10. h.phase = "else" => /\ \A i \in DOMAIN stmts : h.thn \notin {stmts[i].thn, stmts[i].els}
                           /\ \A k \in 1..n : h.thn \notin Arms(stack[k])
  BY <1>1, <1>2, <1>3, <1>4, <1>9 DEF ArmsOwn
<1> QED
  BY <1>5, <1>6, <1>7, <1>8, <1>9, <1>10

LEMMA ReturnThenFlow ==
    ASSUME Apart, PointsApart, NEW after, Flowing(after), ReturnThen
    PROVE  Flowing(after)'
<1>1. PICK n, h, b : n = Len(stack) - 2 /\ h = caller /\ b = Len(blocks) + 1
  OBVIOUS
<1>2. PICK f : f = [h EXCEPT !.phase = "else", !.thn = top.block]
  OBVIOUS
<1>3. PICK run : run = NewRun(Answers(f, FALSE), f, b)
  OBVIOUS
<1>4. /\ Finished /\ Len(stack) > 1 /\ UNCHANGED <<prog, stmts>>
      /\ blocks' = Append(blocks, <<>>) /\ h.phase = "then"
      /\ stack' = SubSeq(stack, 1, n) \o <<f, run>> /\ top.phase = "memo"
  BY <1>1, <1>2, <1>3 DEF ReturnThen, Finished, In
<1>5. TypeOK /\ stack \in Seq(Call) /\ top.block \in DOMAIN blocks /\ Body \in Seq(DOMAIN stmts)
  BY InnerAt
<1>6. /\ n \in Nat /\ n < Len(stack) /\ n + 1 \in 1..(Len(stack) - 1) /\ n + 2 = Len(stack)
      /\ h = stack[n + 1] /\ h \in Frame /\ Waiting(h) /\ h.block \in DOMAIN blocks
      /\ h.tail = <<>>
  BY <1>1, <1>4, ReturnedAt
<1>7. /\ f.phase = "else" /\ f.pc = h.pc /\ f.block = h.block /\ f.thn = top.block
      /\ f.tail = <<>> /\ f.given \in Seq(BOOLEAN) /\ run.phase = "run"
  BY <1>2, <1>3, <1>6, Fields DEF Frame, NewRun
<1>8. /\ Len(stack') = n + 2 /\ stack'[n + 1] = f /\ stack'[n + 2] = run
      /\ \A k \in 1..n : stack'[k] = stack[k]
  <2>1. PICK q, r : q = SubSeq(stack, 1, n) /\ r = <<f, run>>
    OBVIOUS
  <2>2. q \in Seq(Call) /\ Len(q) = n /\ \A k \in 1..n : q[k] = stack[k]
    BY <1>5, <1>6, <2>1, Cut
  <2>3. PICK S : S = Call \cup {f, run}
    OBVIOUS
  <2>4. q \in Seq(S) /\ r \in Seq(S)
    BY <2>1, <2>2, <2>3
  <2>5. PICK u : u = q \o r
    OBVIOUS
  <2>6. /\ Len(u) = Len(q) + Len(r) /\ \A i \in 1..Len(q) : u[i] = q[i]
        /\ \A i \in 1..Len(r) : u[Len(q) + i] = r[i]
    BY <2>4, <2>5, Joined
  <2>7. stack' = u
    BY <1>4, <2>1, <2>5
  <2>8. Len(r) = 2 /\ r[1] = f /\ r[2] = run
    BY <2>1
  <2>9. 1 \in 1..Len(r) /\ 2 \in 1..Len(r)
    BY <2>8
  <2> QED
    BY <1>5, <2>2, <2>6, <2>7, <2>8, <2>9
<1>9. top' = stack'[Len(stack')]
  BY DEF top, Last
<1>10. /\ blocks'[b] = <<>> /\ \A d \in DOMAIN blocks' : d \in DOMAIN blocks \/ d = b
       /\ \A d \in DOMAIN blocks : blocks'[d] = blocks[d]
  <2>1. blocks \in Seq(Seq(DOMAIN stmts))
    BY <1>5 DEF TypeOK, HeapOK
  <2> QED
    BY <1>1, <1>4, <2>1
<1>11. PICK p, q, r, from, t : /\ p = h.pc /\ q = blocks[h.block] /\ r = Body /\ from = StartOf(n + 1)
                               /\ t = prog.code[p].next
  OBVIOUS
<1>12. /\ q \in Seq(DOMAIN stmts) /\ r \in Seq(DOMAIN stmts)
       /\ Leads(q, from, p, after) /\ Leads(r, t, Exit, after)
       /\ \A i \in DOMAIN stmts : top.block \notin {stmts[i].thn, stmts[i].els}
       /\ \A k \in 1..n : top.block \notin Arms(stack[k])
  <2>1. q \in Seq(DOMAIN stmts)
    BY <1>5, <1>6, <1>11, HeapAt
  <2> QED
    BY <1>1, <1>4, <1>5, <1>11, <2>1, CallerLeads
<1>13. FlowKept(after, after)
  BY <1>4, HeapKept
<1>14. Leads(q, from, p, after)' /\ Leads(r, t, Exit, after)'
  BY <1>12, <1>13, FlowsKept
<1>15. ASSUME NEW d PROVE CallLeads(f, d, from, after)'
  <2>1. Extracts(f)' = q /\ LeadsTo(f, d)' = p
    BY <1>6, <1>7, <1>10, <1>11 DEF Extracts, LeadsTo, Waiting
  <2> QED
    BY <1>14, <2>1 DEF CallLeads
<1>16. ArmsLead(f, after)'
  <2>1. blocks'[f.thn] = r /\ prog'.code[f.pc].next = t
    BY <1>4, <1>5, <1>7, <1>10, <1>11 DEF Body
  <2>2. Enters(f.tail, Exit)' = Exit
    BY <1>7 DEF Enters
  <2> QED
    BY <1>7, <1>14, <2>1, <2>2 DEF ArmsLead
<1>17. Waiting(f) /\ Arms(f) = {top.block}
  BY <1>7 DEF Waiting, Arms
<1>18. FlowsTo(Body, Exit, after)
  BY <1>11, <1>12 DEF Leads
<1>19. CallLeads(stack[n + 2], f, StartOf(n + 2), after)'
  BY <1>3, <1>4, <1>6, <1>7, <1>8, <1>10, StartedFlow
<1> HIDE DEF Flowing
<1> QED
  BY <1>4, <1>6, <1>7, <1>8, <1>9, <1>10, <1>11, <1>12, <1>15, <1>16, <1>17, <1>18, <1>19, FlowCalls

LEMMA ReturnElseFlow ==
    ASSUME Apart, PointsApart, NEW after, Flowing(after), ReturnElse
    PROVE  Flowing(after)'
<1>1. PICK n, h : n = Len(stack) - 2 /\ h = caller
  OBVIOUS
<1>2. PICK f : f = [h EXCEPT !.phase = "trim", !.els = top.block]
  OBVIOUS
<1>3. /\ Finished /\ Len(stack) > 1 /\ UNCHANGED <<prog, stmts, blocks>> /\ h.phase = "else"
      /\ stack' = Append(SubSeq(stack, 1, n), f) /\ top.phase = "memo"
  BY <1>1, <1>2 DEF ReturnElse, Finished, In
<1>4. TypeOK /\ stack \in Seq(Call) /\ top.block \in DOMAIN blocks /\ Body \in Seq(DOMAIN stmts)
  BY InnerAt
<1>5. /\ n \in Nat /\ n < Len(stack) /\ n + 1 \in 1..(Len(stack) - 1) /\ n + 2 = Len(stack)
      /\ h = stack[n + 1] /\ h \in Frame /\ Waiting(h) /\ h.block \in DOMAIN blocks
      /\ h.tail = <<>>
  BY <1>1, <1>3, ReturnedAt
<1>6. /\ f.phase = "trim" /\ f.pc = h.pc /\ f.block = h.block /\ f.thn = h.thn
      /\ f.els = top.block /\ f.tail = <<>>
  BY <1>2, <1>5 DEF Frame
<1>7. Len(stack') = n + 1 /\ stack'[n + 1] = f /\ \A k \in 1..n : stack'[k] = stack[k]
  <2>1. /\ SubSeq(stack, 1, n) \in Seq(Call) /\ Len(SubSeq(stack, 1, n)) = n
        /\ \A k \in 1..n : SubSeq(stack, 1, n)[k] = stack[k]
    BY <1>4, <1>5, Cut
  <2> QED
    BY <1>3, <1>5, <2>1
<1>8. top' = stack'[Len(stack')]
  BY DEF top, Last
<1>9. PICK p, q, r, x : /\ p = h.pc /\ q = blocks[h.block] /\ r = Body /\ x = blocks[h.thn]
  OBVIOUS
<1>10. PICK from, t, e : /\ from = StartOf(n + 1) /\ t = prog.code[p].next
                         /\ e = prog.code[p].other
  OBVIOUS
<1>11. h.thn \in DOMAIN blocks
  <2>1. h.thn # 0 /\ h.thn \in 0..Len(blocks)
    <3>1. h \in Call
      <4>1. n + 1 \in 1..Len(stack)
        BY <1>5
      <4> QED
        BY <1>4, <1>5, <4>1
    <3> QED
      BY <1>3, <1>5, <3>1, Fields DEF Call
  <2> QED
    BY <1>4, <2>1, HeapAt
<1>12. /\ q \in Seq(DOMAIN stmts) /\ r \in Seq(DOMAIN stmts) /\ x \in Seq(DOMAIN stmts)
       /\ Leads(q, from, p, after) /\ Leads(r, e, Exit, after) /\ Leads(x, t, Exit, after)
  <2>1. q \in Seq(DOMAIN stmts) /\ x \in Seq(DOMAIN stmts)
    BY <1>4, <1>5, <1>9, <1>11, HeapAt
  <2> QED
    BY <1>1, <1>3, <1>4, <1>9, <1>10, <2>1, CallerLeads
<1>13. FlowKept(after, after)
  BY <1>3, HeapKept
<1>14. Leads(q, from, p, after)' /\ Leads(r, e, Exit, after)' /\ Leads(x, t, Exit, after)'
  BY <1>12, <1>13, FlowsKept
<1>15. ASSUME NEW d PROVE CallLeads(f, d, from, after)'
  <2>1. Extracts(f)' = q /\ LeadsTo(f, d)' = p
    BY <1>3, <1>6, <1>9 DEF Extracts, LeadsTo, Waiting
  <2> QED
    BY <1>14, <2>1 DEF CallLeads
<1>16. f.thn # f.els
  BY <1>1, <1>3, <1>6, CallerLeads
<1>17. ArmsLead(f, after)'
  <2>1. /\ blocks'[f.thn] = x /\ blocks'[f.els] = r
        /\ prog'.code[f.pc].next = t /\ prog'.code[f.pc].other = e
    BY <1>3, <1>6, <1>9, <1>10 DEF Body
  <2>2. Enters(f.tail, Exit)' = Exit /\ FlowsTo(f.tail, Exit, after)'
    BY <1>6 DEF Enters, FlowsTo
  <2> QED
    BY <1>14, <1>16, <2>1, <2>2 DEF ArmsLead
<1>18. Waiting(f) /\ Arms(f) = {h.thn, top.block}
  BY <1>6 DEF Waiting, Arms
<1>19. ASSUME NEW b \in Arms(f)
       PROVE  /\ \A i \in DOMAIN stmts : b \notin {stmts[i].thn, stmts[i].els}
              /\ \A k \in 1..n : b \notin Arms(stack[k])
  BY <1>1, <1>3, <1>18, CallerLeads
<1>20. FlowsTo(Body, Exit, after)
  BY <1>9, <1>12 DEF Leads
<1> HIDE DEF Flowing
<1> QED
  BY <1>3, <1>5, <1>6, <1>7, <1>8, <1>10, <1>15, <1>17, <1>18, <1>19, <1>20, FlowCalls

-----------------------------------------------------------------------------
(* The engine *)

\* What is kept when no statement changes
LEMMA HeapStill ==
    ASSUME UNCHANGED <<prog, stmts, blocks>>
    PROVE  /\ \A q, from, p, after : Leads(q, from, p, after)' <=> Leads(q, from, p, after)
           /\ \A q, p, after : FlowsTo(q, p, after)' <=> FlowsTo(q, p, after)
           /\ \A q, p : Enters(q, p)' = Enters(q, p)
           /\ \A i, after : Branching(i, after)' <=> Branching(i, after)
           /\ Ifs' = Ifs /\ PlacesOf' = PlacesOf /\ \A s : GotoTo(s)' <=> GotoTo(s)
<1>1. \A s : At(s)' = At(s)
  BY PlacesSame
<1>2. \A i, p, after : GoesTo(i, p, after)' <=> GoesTo(i, p, after)
  <2> SUFFICES ASSUME NEW i, NEW p, NEW after
               PROVE  GoesTo(i, p, after)' <=> GoesTo(i, p, after)
    OBVIOUS
  <2>1. PICK s, m : s = stmts[i] /\ m = At(s)
    OBVIOUS
  <2>2. m = At(stmts[i])'
    BY <1>1, <2>1
  <2> QED
    BY <2>1, <2>2 DEF GoesTo
<1>3. \A q, p : Enters(q, p)' = Enters(q, p)
  <2> SUFFICES ASSUME NEW q, NEW p PROVE Enters(q, p)' = Enters(q, p)
    OBVIOUS
  <2>1. PICK s, m : s = stmts[Head(q)] /\ m = At(s)
    OBVIOUS
  <2>2. m = At(stmts[Head(q)])'
    BY <1>1, <2>1
  <2> QED
    BY <2>1, <2>2 DEF Enters
<1>4. \A q, p, after : FlowsTo(q, p, after)' <=> FlowsTo(q, p, after)
  <2> SUFFICES ASSUME NEW q, NEW p, NEW after
               PROVE  FlowsTo(q, p, after)' <=> FlowsTo(q, p, after)
    OBVIOUS
  <2>1. ASSUME NEW k \in DOMAIN q
        PROVE  GoesTo(q[k], IF k = Len(q) THEN p ELSE At(stmts[q[k + 1]]), after)'
                  <=> GoesTo(q[k], IF k = Len(q) THEN p ELSE At(stmts[q[k + 1]]), after)
    <3>1. PICK s, m : s = stmts[q[k + 1]] /\ m = At(s)
      OBVIOUS
    <3>2. m = At(stmts[q[k + 1]])'
      BY <1>1, <3>1
    <3>3. PICK i, to : i = q[k] /\ to = IF k = Len(q) THEN p ELSE m
      OBVIOUS
    <3>4. GoesTo(i, to, after)' <=> GoesTo(i, to, after)
      BY <1>2
    <3> QED
      BY <3>1, <3>2, <3>3, <3>4
  <2> QED
    BY <2>1 DEF FlowsTo
<1>5. \A q, from, p, after : Leads(q, from, p, after)' <=> Leads(q, from, p, after)
  BY <1>3, <1>4 DEF Leads
<1>6. \A i, after : Branching(i, after)' <=> Branching(i, after)
  <2> SUFFICES ASSUME NEW i, NEW after PROVE Branching(i, after)' <=> Branching(i, after)
    OBVIOUS
  <2>1. PICK s, m : s = stmts[i] /\ m = At(s)
    OBVIOUS
  <2>2. m = At(stmts[i])'
    BY <1>1, <2>1
  <2>3. PICK x, y, t, e, p : /\ x = blocks[s.thn] /\ y = blocks[s.els] /\ p = after[i]
                             /\ t = prog.code[m].next /\ e = prog.code[m].other
    OBVIOUS
  <2>4. (Leads(x, t, p, after)' <=> Leads(x, t, p, after))
        /\ (Leads(y, e, p, after)' <=> Leads(y, e, p, after))
    BY <1>5
  <2> QED
    BY <2>1, <2>2, <2>3, <2>4 DEF Branching
<1> QED
  BY <1>3, <1>4, <1>5, <1>6, PlacesSame DEF Ifs

LEMMA FlowSame ==
    ASSUME NEW after, Flowing(after), UNCHANGED vars
    PROVE  Flowing(after)'
<1>1. /\ prog' = prog /\ stmts' = stmts /\ blocks' = blocks /\ stack' = stack /\ top' = top
      /\ UNCHANGED <<prog, stmts, blocks>>
  BY DEF vars, top, Last
<1>2. ASSUME NEW b \in DOMAIN blocks, Open(b)' PROVE FlowsTo(blocks[b], Exit, after)'
  <2>1. PICK q : q = blocks[b]
    OBVIOUS
  <2>2. Open(b)
    BY <1>1, <1>2 DEF Open, Ifs, Arms
  <2>3. FlowsTo(q, Exit, after)
    BY <2>1, <2>2 DEF Flowing
  <2>4. FlowsTo(q, Exit, after)'
    BY <1>1, <2>3, HeapStill
  <2> QED
    BY <1>1, <2>1, <2>4
<1>3. ASSUME NEW k \in 1..Len(stack)
      PROVE  /\ CallLeads(stack[k], stack[k - 1], StartOf(k), after)'
             /\ ArmsLead(stack[k], after)' /\ ArmsOwn(k)'
  <2>1. /\ CallLeads(stack[k], stack[k - 1], StartOf(k), after)
        /\ ArmsLead(stack[k], after) /\ ArmsOwn(k)
    BY DEF Flowing
  <2>2. PICK f, c, from : f = stack[k] /\ c = stack[k - 1] /\ from = StartOf(k)
    OBVIOUS
  <2>3. from = StartOf(k)'
    BY <1>1, <2>2 DEF StartOf
  <2>4. CallLeads(f, c, from, after)'
    <3>1. PICK q, p : q = Extracts(f) /\ p = LeadsTo(f, c)
      OBVIOUS
    <3>2. Leads(q, from, p, after)
      BY <2>1, <2>2, <3>1 DEF CallLeads
    <3>3. Leads(q, from, p, after)'
      BY <1>1, <3>2, HeapStill
    <3>4. Extracts(f)' = q /\ LeadsTo(f, c)' = p
      BY <1>1, <3>1 DEF Extracts, LeadsTo, Asking, Waiting, NextPlace, Destination
    <3> QED
      BY <3>3, <3>4 DEF CallLeads
  <2>5. ArmsLead(f, after)'
    <3>1. PICK p, r : p = Enters(f.tail, Exit) /\ r = f.tail
      OBVIOUS
    <3>2. PICK x, y, t, e : /\ x = blocks[f.thn] /\ y = blocks[f.els]
                            /\ t = prog.code[f.pc].next /\ e = prog.code[f.pc].other
      OBVIOUS
    <3>3. p = Enters(f.tail, Exit)'
      BY <1>1, <3>1, HeapStill
    <3>4. /\ Leads(x, t, p, after)' <=> Leads(x, t, p, after)
          /\ Leads(y, e, p, after)' <=> Leads(y, e, p, after)
          /\ FlowsTo(r, Exit, after)' <=> FlowsTo(r, Exit, after)
      BY <1>1, HeapStill
    <3>5. /\ f.phase \in {"else", "trim"} => Leads(x, t, p, after)'
          /\ f.phase = "trim" => /\ Leads(y, e, p, after)' /\ FlowsTo(r, Exit, after)'
                                 /\ f.thn # f.els
      BY <2>1, <2>2, <3>1, <3>2, <3>4 DEF ArmsLead
    <3>6. /\ x = blocks'[f.thn] /\ y = blocks'[f.els]
          /\ t = prog'.code[f.pc].next /\ e = prog'.code[f.pc].other
      BY <1>1, <3>2
    <3> QED
      BY <3>1, <3>3, <3>5, <3>6 DEF ArmsLead
  <2>6. ArmsOwn(k)'
    BY <1>1, <2>1 DEF ArmsOwn, Arms
  <2> QED
    BY <1>1, <2>2, <2>3, <2>4, <2>5, <2>6
<1>4. /\ after \in [Nat -> PlacesOf]' /\ \A i \in DOMAIN stmts' : GotoTo(stmts[i])'
      /\ \A i \in Ifs' : Branching(i, after)'
  <2>1. \A s : GotoTo(s)' <=> GotoTo(s)
    BY <1>1, HeapStill
  <2>2. ASSUME NEW i \in DOMAIN stmts PROVE GotoTo(stmts[i])'
    <3>1. PICK s : s = stmts[i]
      OBVIOUS
    <3>2. GotoTo(s)
      BY <3>1 DEF Flowing
    <3> QED
      BY <1>1, <2>1, <3>1, <3>2
  <2> QED
    BY <1>1, <2>2, HeapStill DEF Flowing
<1> QED
  BY <1>1, <1>2, <1>3, <1>4 DEF Flowing

\* Only the outermost call ends the extraction.
LEMMA RootEnds ==
    ASSUME Apart, Extract, stack' = <<>>
    PROVE  ReturnRoot
<1> SUFFICES ASSUME ~ ReturnRoot PROVE FALSE
  OBVIOUS
<1>1. \A g : stack' # SetTop(g)
  BY InnerSet
<1>3. stack \in Seq(Call) /\ Len(stack) \in Nat \ {0}
  BY InnerAt
<1>4. ~ OutOfBools
  <2> SUFFICES ASSUME OutOfBools PROVE FALSE
    OBVIOUS
  <2>1. PICK f, g : stack' = Append(SetTop(f), g)
    BY DEF OutOfBools
  <2>2. PICK s : s = SetTop(f)
    OBVIOUS
  <2>3. s \in Seq(Call \cup {f, g})
    BY <1>3, <2>2 DEF SetTop
  <2>4. Len(Append(s, g)) = Len(s) + 1 /\ Len(s) \in Nat
    BY <2>3
  <2> QED
    BY <2>1, <2>2, <2>4
<1>5. ~ Run
  BY <1>1, <1>4 DEF Run, CreateExpr, SkipStmt, AddStmt, LoopBack, Memoize, EndWithGoto, EndWith,
                    TakeBool, Return
<1>6. ~ Trim
  BY <1>1 DEF Trim, TrimCommon, TrimSplit, BuildIf
<1>7. ~ ReturnThen /\ ~ ReturnElse
  <2> SUFFICES ASSUME ReturnThen \/ ReturnElse PROVE FALSE
    OBVIOUS
  <2>1. PICK n : n = Len(stack) - 2
    OBVIOUS
  <2>2. PICK q : q = SubSeq(stack, 1, n)
    OBVIOUS
  <2>3. n \in Nat /\ n <= Len(stack)
    BY <1>3, <2>1 DEF ReturnThen, ReturnElse
  <2>4. q \in Seq(Call) /\ Len(q) = n
    BY <1>3, <2>2, <2>3, Cut
  <2>5. PICK f, g : stack' = q \o <<f, g>> \/ stack' = Append(q, f)
    BY <2>1, <2>2 DEF ReturnThen, ReturnElse
  <2>6. PICK S : S = Call \cup {f, g}
    OBVIOUS
  <2>7. q \in Seq(S) /\ <<f, g>> \in Seq(S) /\ Len(<<f, g>>) = 2 /\ f \in S
    BY <2>4, <2>6
  <2>8. Len(q \o <<f, g>>) = Len(q) + 2 /\ Len(Append(q, f)) = Len(q) + 1
    BY <2>7
  <2>9. CASE stack' = q \o <<f, g>>
    <3>1. PICK u : u = q \o <<f, g>>
      OBVIOUS
    <3>2. u = <<>> /\ Len(u) = n + 2
      BY <2>4, <2>8, <2>9, <3>1
    <3>3. Len(u) = 0
      BY <3>2
    <3> QED
      BY <2>3, <3>2, <3>3
  <2>10. CASE stack' = Append(q, f)
    <3>1. PICK u : u = Append(q, f)
      OBVIOUS
    <3>2. u = <<>> /\ Len(u) = n + 1
      BY <2>4, <2>8, <2>10, <3>1
    <3>3. Len(u) = 0
      BY <3>2
    <3> QED
      BY <2>3, <3>2, <3>3
  <2> QED
    BY <2>5, <2>9, <2>10
<1>8. ~ EndOfRun
  BY <1>1, <1>7 DEF EndOfRun, AddQueued, AppendTail, UpdateMemo
<1> QED
  BY <1>5, <1>6, <1>8 DEF Extract

LEMMA FlowExtract ==
    ASSUME MInv, Apart, PointsApart, NEW after, Flowing(after), Extract, ~ ReturnRoot
    PROVE  \E after2 : Flowing(after2)'
<1>1. CASE Run
  BY <1>1, GoingFlow, AddStmtFlow, LoopBackFlow, MemoizeFlow, OutOfBoolsFlow, ReturnFlow DEF Run
<1>2. CASE Trim
  BY <1>2, TrimCommonFlow, NoSplit, BuildIfFlow DEF Trim, TrimSplit
<1>3. CASE EndOfRun
  BY <1>3, AddQueuedFlow, AppendTailFlow, UpdateMemoFlow, ReturnThenFlow, ReturnElseFlow
     DEF EndOfRun
<1> QED
  BY <1>1, <1>2, <1>3 DEF Extract

\* What the outermost call returns is a program that does what the staged function does.
LEMMA FlowReturned ==
    ASSUME Apart, PointsApart, NEW after, Flowing(after), ReturnRoot
    PROVE  Flows'
<1>1. Finished /\ Len(stack) = 1 /\ UNCHANGED <<prog, stmts, blocks>>
  BY DEF ReturnRoot
<1>2. TypeOK /\ Body \in Seq(DOMAIN stmts) /\ top = stack[Len(stack)]
  BY InnerAt
<1>3. PICK q : q = Body
  OBVIOUS
<1>4. q = blocks[1] /\ q \in Seq(DOMAIN stmts)
  BY <1>1, <1>2, <1>3 DEF Flowing, Body
<1>5. Leads(q, 1, Exit, after)
  <2>1. StartOf(Len(stack)) = 1
    BY <1>1 DEF StartOf
  <2> QED
    BY <1>1, <1>3, <2>1, FinishedLeads
<1>6. PICK places : places = [i \in Ifs |-> after[i]]
  OBVIOUS
<1>7. places \in [Ifs -> PlacesOf]
  <2>1. \A i \in Ifs : i \in Nat
    BY <1>2, HeapAt DEF Ifs
  <2> QED
    BY <1>6, <2>1 DEF Flowing
<1>8. ASSUME NEW i \in DOMAIN stmts, NEW p, GoesTo(i, p, after) PROVE GoesTo(i, p, places)
  <2>1. stmts[i].kind = "if" => i \in Ifs
    BY DEF Ifs
  <2> QED
    BY <1>6, <1>8, <2>1 DEF GoesTo
<1>9. ASSUME NEW r \in Seq(DOMAIN stmts), NEW from, NEW p, Leads(r, from, p, after)
      PROVE  Leads(r, from, p, places)
  <2>1. \A k \in DOMAIN r : r[k] \in DOMAIN stmts
    BY ElementOfSeq, LenProperties
  <2> QED
    BY <1>8, <1>9, <2>1 DEF Leads, FlowsTo
<1>10. ASSUME NEW i \in Ifs PROVE Branching(i, places)
  <2>1. Branching(i, after) /\ places[i] = after[i] /\ i \in DOMAIN stmts
    BY <1>6 DEF Flowing, Ifs
  <2>2. PICK b, c : b = stmts[i].thn /\ c = stmts[i].els
    OBVIOUS
  <2>3. b \in DOMAIN blocks /\ c \in DOMAIN blocks
    <3>1. stmts[i] \in Stmt /\ stmts[i].kind = "if"
      BY <1>2, <2>1, HeapAt DEF Ifs
    <3>2. b \in 0..Len(blocks) /\ b # 0 /\ c \in 0..Len(blocks) /\ c # 0 /\ Len(blocks) \in Nat
          /\ DOMAIN blocks = 1..Len(blocks)
      BY <1>2, <2>2, <3>1, HeapAt DEF Stmt
    <3> QED
      BY <3>2
  <2>4. blocks[b] \in Seq(DOMAIN stmts) /\ blocks[c] \in Seq(DOMAIN stmts)
    BY <1>2, <2>3, HeapAt
  <2> QED
    BY <1>9, <2>1, <2>2, <2>4 DEF Branching
<1>11. Leads(q, 1, Exit, places)
  BY <1>4, <1>5, <1>9
<1>12. Leads(q, 1, Exit, places)' /\ Ifs' = Ifs /\ PlacesOf' = PlacesOf
  BY <1>1, <1>11, HeapStill
<1>13. \A i \in Ifs' : Branching(i, places)'
  BY <1>1, <1>10, HeapStill
<1> QED
  BY <1>1, <1>4, <1>7, <1>12, <1>13 DEF Flows

LEMMA FlowsStill ==
    ASSUME Flows, UNCHANGED vars
    PROVE  Flows'
<1>1. UNCHANGED <<prog, stmts, blocks>> /\ stack' = stack
  BY DEF vars
<1> SUFFICES ASSUME stack = <<>>, PointsApart
             PROVE  \E after \in [Ifs' -> PlacesOf'] :
                       /\ Leads(blocks[1], 1, Exit, after)'
                       /\ \A i \in Ifs' : Branching(i, after)'
  BY <1>1 DEF Flows, PointsApart
<1>2. PICK after \in [Ifs -> PlacesOf] :
         Leads(blocks[1], 1, Exit, after) /\ \A i \in Ifs : Branching(i, after)
  BY DEF Flows
<1>3. PICK q : q = blocks[1]
  OBVIOUS
<1>4. Leads(q, 1, Exit, after)'
  BY <1>1, <1>2, <1>3, HeapStill
<1>5. Ifs' = Ifs /\ PlacesOf' = PlacesOf /\ \A i \in Ifs : Branching(i, after)'
  BY <1>1, <1>2, HeapStill
<1> QED
  BY <1>1, <1>2, <1>3, <1>4, <1>5

LEMMA FlowInit == Init => WInv
<1> SUFFICES ASSUME Init PROVE WInv
  OBVIOUS
<1>1. PICK run : run = NewRun(<<>>, [exprs |-> <<>>, visited |-> {}, copies |-> {}], 1)
  OBVIOUS
<1>2. MInv /\ stack = <<run>> /\ stmts = <<>> /\ blocks = <<<<>>>>
  BY <1>1, MemoInit DEF Init
<1>3. /\ run.phase = "run" /\ run.bools = <<>> /\ run.block = 1 /\ run.pending = <<>>
      /\ run.tested = FALSE /\ run.pc = 1
  BY <1>1 DEF NewRun
<1>4. Len(stack) = 1 /\ stack[1] = run /\ (\A k \in 1..Len(stack) : k = 1) /\ stack # <<>>
  BY <1>2
<1>5. DOMAIN stmts = {} /\ DOMAIN blocks = {1} /\ blocks[1] = <<>> /\ Ifs = {}
  BY <1>2 DEF Ifs
<1>6. PICK after : after = [i \in Nat |-> Exit]
  OBVIOUS
<1>7. after \in [Nat -> PlacesOf]
  BY <1>6 DEF PlacesOf
<1>8. ASSUME NEW c PROVE CallLeads(run, c, 1, after)
  <2>1. Extracts(run) = <<>> /\ LeadsTo(run, c) = 1
    BY <1>3, <1>5 DEF Extracts, LeadsTo, Asking, Waiting, NextPlace
  <2> QED
    BY <2>1, LeadsNone DEF CallLeads
<1>9. StartOf(1) = 1 /\ ArmsLead(run, after) /\ Arms(run) = {}
  BY <1>3 DEF StartOf, ArmsLead, Arms
<1>10. ArmsOwn(1)
  BY <1>4, <1>9 DEF ArmsOwn
<1>11. \A b \in DOMAIN blocks : ~ Open(b)
  BY <1>3, <1>4, <1>5 DEF Open
<1>12. Flowing(after)
  BY <1>3, <1>4, <1>5, <1>7, <1>8, <1>9, <1>10, <1>11 DEF Flowing
<1> QED
  BY <1>2, <1>4, <1>12 DEF WInv, Flows

LEMMA FlowNext == WInv /\ [Next]_vars => WInv'
<1> SUFFICES ASSUME WInv, [Next]_vars PROVE WInv'
  OBVIOUS
<1>1. MInv /\ MInv'
  BY MemoStep DEF WInv
<1>2. Extract \/ UNCHANGED vars
  BY DEF Next, Extracted
<1>3. ASSUME Extract, PointsApart' 
      PROVE  /\ Apart /\ PointsApart /\ \E after : Flowing(after)
  <2>1. stack # <<>> /\ prog' = prog
    BY <1>3, ExtractGoesOn
  <2>2. PointsApart
    BY <1>3, <2>1 DEF PointsApart
  <2> QED
    BY <1>1, <2>1, <2>2, PointsEnough DEF WInv, MInv
<1>4. ASSUME PointsApart', stack' # <<>> PROVE (\E after : Flowing(after))'
  <2>1. CASE Extract
    <3>1. ~ ReturnRoot
      BY <1>4 DEF ReturnRoot
    <3> QED
      BY <1>1, <1>3, <1>4, <2>1, <3>1, FlowExtract
  <2>2. CASE UNCHANGED vars
    <3>1. PointsApart /\ stack # <<>>
      BY <1>4, <2>2 DEF vars, PointsApart
    <3> QED
      BY <2>2, <3>1, FlowSame DEF WInv
  <2> QED
    BY <1>2, <2>1, <2>2
<1>5. Flows'
  <2> SUFFICES ASSUME stack' = <<>>, PointsApart' PROVE Flows'
    BY DEF Flows
  <2>1. CASE Extract
    BY <1>3, <2>1, RootEnds, FlowReturned
  <2>2. CASE UNCHANGED vars
    BY <2>2, FlowsStill DEF WInv
  <2> QED
    BY <1>2, <2>1, <2>2
<1> QED
  BY <1>1, <1>4, <1>5 DEF WInv

\* What the extraction of a staged function returns, if it returns, does what the function
\* does, whatever branches and loops the function has, if no two points of it share a tag:
\* from the first statement to the last each one is followed by the statement, or by a goto
\* to the statement, of the point that follows in the function, through every if, every
\* goto, all that has been copied from other runs, and all that trim_common_from_back has
\* moved behind an if.
THEOREM FlowCorrect == Spec => []Flows
<1>1. WInv => Flows
  BY DEF WInv
<1> QED
  BY <1>1, FlowInit, FlowNext, PTL DEF Spec
=============================================================================
