--------------------------- MODULE Forking_proofs ---------------------------
(***************************************************************************)
(* Cutting a walk short loses nothing: for every staged function whose     *)
(* points can be told apart, every point it can reach is passed.           *)
(***************************************************************************)
EXTENDS Forking, SequenceTheorems, TLAPS

\* Only the last walk is under way, or has ended; the others wait.
Waiting ==
    \A k \in 1..(Len(walks) - 1) :
        walks[k].is \in {"true", "false"} /\ walks[k].at \in DOMAIN source.code
LastMoves == walks # <<>> => last.is \in {"going", "ended"}
Asking == Going /\ last.asked => last.at \in DOMAIN source.code /\ IsBranch(last.at)
                                  /\ Place(last.at) \in passed

\* Point i has been passed, or is about to be.
Reached(i) == Passed(i) \/ (Meets /\ last.at = i)

\* What may follow point i: the last walk asks for the answer at i, or is past
\* it, and if it was a condition its false branch is due or reached.
Forked(i) ==
    /\ Reached(source.code[i].next)
    /\ IsBranch(i) => \/ Reached(source.code[i].other)
                      \/ \E k \in 1..(Len(walks) - 1) : walks[k].is = "true" /\ walks[k].at = i
Followed(i) == (Going /\ last.asked /\ last.at = i) \/ Forked(i)

NothingLost ==
    PlacesApart => /\ Reached(1)
                   /\ \A i \in DOMAIN source.code : Place(i) \in passed => Followed(i)

IInv == TypeOK /\ Waiting /\ LastMoves /\ Asking /\ NothingLost

-----------------------------------------------------------------------------
LEMMA LastWalk ==
    ASSUME IInv, walks # <<>>
    PROVE  /\ Len(walks) \in Nat \ {0} /\ walks \in Seq(Walk)
           /\ last = walks[Len(walks)] /\ last \in Walk
           /\ last.is \in {"going", "ended"}
BY EmptySeq, ElementOfSeq DEF IInv, TypeOK, last, Last, LastMoves

LEMMA Appended ==
    ASSUME NEW S, NEW s \in Seq(S), NEW e \in S, NEW t, t = Append(s, e)
    PROVE  /\ t \in Seq(S) /\ Len(t) = Len(s) + 1 /\ t[Len(s) + 1] = e
           /\ \A k \in 1..Len(s) : t[k] = s[k]
BY AppendProperties, LenProperties

\* The last walk becomes w.
LEMMA BecomesWalk ==
    ASSUME IInv, walks # <<>>, NEW w \in Walk, Becomes(w)
    PROVE  /\ walks' \in Seq(Walk) /\ Len(walks') = Len(walks) /\ walks' # <<>> /\ last' = w
           /\ \A k \in 1..(Len(walks) - 1) : walks'[k] = walks[k]
<1>1. Len(walks) \in Nat \ {0} /\ walks \in Seq(Walk)
  BY LastWalk
<1>2. /\ walks' \in Seq(Walk) /\ Len(walks') = Len(walks) /\ walks'[Len(walks)] = w
      /\ \A k \in 1..(Len(walks) - 1) : walks'[k] = walks[k]
  BY <1>1, ExceptSeq DEF Becomes
<1>3. walks' # <<>>
  BY <1>1, <1>2
<1> QED
  BY <1>2, <1>3 DEF last, Last

\* The code of the staged function does not change.
LEMMA SourceSame ==
    ASSUME source' = source
    PROVE  /\ Walk' = Walk /\ PlacesApart' = PlacesApart
           /\ \A i : Place(i)' = Place(i) /\ IsBranch(i)' = IsBranch(i)
           /\ \A i : (Place(i) \in passed => Place(i) \in passed') => (Passed(i) => Passed(i)')
BY DEF Walk, PlacesApart, Place, IsBranch, Passed

LEMMA Points ==
    ASSUME IInv, NEW i \in DOMAIN source.code
    PROVE  /\ source.code[i].next \in 0..Len(source.code)
           /\ source.code[i].other \in 0..Len(source.code)
           /\ Place(i) \in [loc : Loc, what : What]
           /\ DOMAIN source.code = 1..Len(source.code) /\ Len(source.code) \in Nat
<1>1. source \in Program /\ source.code \in Seq(Point)
  BY DEF IInv, TypeOK, Program
<1>2. source.code[i] \in Point
  BY <1>1, ElementOfSeq, LenProperties
<1>3. DOMAIN source.code = 1..Len(source.code) /\ Len(source.code) \in Nat
  BY <1>1, LenProperties
<1> QED
  BY <1>1, <1>2, <1>3 DEF Program, Point, Place

LEMMA MeetsPoint ==
    ASSUME IInv, Meets
    PROVE  walks # <<>> /\ last.at \in DOMAIN source.code
<1>1. walks # <<>> /\ last \in Walk /\ last.at # 0
  BY LastWalk DEF Meets, Going, Exit
<1>2. source.code \in Seq(Point)
  BY DEF IInv, TypeOK, Program
<1> QED
  BY <1>1, <1>2, LenProperties DEF Walk

LEMMA StartType ==
    ASSUME IInv, NEW i \in 0..Len(source.code)
    PROVE  StartAt(i) \in Walk /\ Ended \in Walk
<1>1. 0 \in 0..Len(source.code)
  BY LenProperties DEF IInv, TypeOK, Program
<1> QED
  BY <1>1 DEF StartAt, Ended, Walk, Exit

\* What has been forked stays so while what was reached stays reached and no walk
\* that waits in a true branch goes away.
LEMMA ForkedKept ==
    ASSUME source' = source, \A i : Reached(i) => Reached(i)',
           NEW i, Forked(i),
           \A k \in 1..(Len(walks) - 1) : walks[k].is = "true" /\ walks[k].at = i =>
               \/ Reached(source.code[i].other)'
               \/ \E l \in 1..(Len(walks') - 1) : walks'[l].is = "true" /\ walks'[l].at = i
    PROVE  Forked(i)'
BY SourceSame DEF Forked

\* What the last walk is about to pass is reached.
LEMMA ReachedNext ==
    ASSUME NEW i, Going', ~ last'.asked, last'.at = i
    PROVE  Reached(i)'
BY DEF Reached, Passed, Meets

-----------------------------------------------------------------------------
(* Steps of the last walk *)

LEMMA PassHolds == IInv /\ Pass => IInv'
<1> SUFFICES ASSUME IInv, Pass PROVE IInv'
  OBVIOUS
<1> DEFINE x == last.at
           w == IF IsBranch(x) THEN [last EXCEPT !.asked = TRUE] ELSE StartAt(source.code[x].next)
<1>1. /\ Meets /\ walks # <<>> /\ x \in DOMAIN source.code /\ ~ last.asked
      /\ last \in Walk /\ last.is = "going"
      /\ passed' = passed \cup {Place(x)} /\ Becomes(w) /\ source' = source
  BY MeetsPoint, LastWalk DEF Pass, Meets, Going
<1>2. w \in Walk /\ w.is = "going"
  <2>1. StartAt(source.code[x].next) \in Walk
    BY <1>1, Points, StartType
  <2>2. [last EXCEPT !.asked = TRUE] \in Walk /\ [last EXCEPT !.asked = TRUE].is = "going"
    BY <1>1 DEF Walk
  <2> QED
    BY <2>1, <2>2 DEF StartAt
<1>3. IF IsBranch(x) THEN w.asked /\ w.at = x ELSE ~ w.asked /\ w.at = source.code[x].next
  BY <1>1 DEF StartAt, Walk
<1> HIDE DEF w
<1>4. /\ walks' \in Seq(Walk) /\ Len(walks') = Len(walks) /\ walks' # <<>> /\ last' = w
      /\ \A k \in 1..(Len(walks) - 1) : walks'[k] = walks[k]
  BY <1>1, <1>2, BecomesWalk
<1>5. TypeOK'
  BY <1>1, <1>4, Points, SourceSame DEF IInv, TypeOK
<1>6. Waiting' /\ LastMoves'
  BY <1>1, <1>2, <1>4 DEF IInv, Waiting, LastMoves
<1>7. Asking'
  BY <1>1, <1>3, <1>4, SourceSame DEF Asking
<1>8. NothingLost'
  <2> SUFFICES ASSUME PlacesApart
               PROVE  /\ Reached(1)'
                      /\ \A i \in DOMAIN source.code : Place(i) \in passed' => Followed(i)'
    BY <1>1, SourceSame DEF NothingLost
  <2>0. PICK y \in DOMAIN source.code : y = x
    BY <1>1
  <2>1. \A i : Passed(i) => Passed(i)'
    BY <1>1, SourceSame
  <2>2. Passed(y)'
    BY <1>1, <2>0, SourceSame DEF Passed
  <2>3. \A i : Reached(i) => Reached(i)'
    BY <2>0, <2>1, <2>2 DEF Reached
  <2>4. ASSUME NEW i \in DOMAIN source.code, Place(i) \in passed PROVE Followed(i)'
    <3>1. Forked(i)
      BY <1>1, <2>4 DEF IInv, NothingLost, Followed
    <3>2. Forked(i)'
      BY <1>1, <1>4, <2>3, <3>1, SourceSame, ForkedKept
    <3> QED
      BY <3>2 DEF Followed
  <2>5. Followed(y)'
    <3>1. CASE IsBranch(y)
      BY <1>2, <1>3, <1>4, <2>0, <3>1 DEF Followed, Going
    <3>2. CASE ~ IsBranch(y)
      <4>1. PICK z : z = source.code[y].next
        OBVIOUS
      <4>2. Reached(z)'
        BY <1>2, <1>3, <1>4, <2>0, <3>2, <4>1, ReachedNext DEF Going
      <4>3. source'.code[y].next = z /\ ~ IsBranch(y)'
        BY <1>1, <3>2, <4>1, SourceSame
      <4> QED
        BY <4>2, <4>3 DEF Followed, Forked
    <3> QED
      BY <3>1, <3>2
  <2>6. \A i \in DOMAIN source.code : Place(i) \in passed' => i = y \/ Place(i) \in passed
    BY <1>1, <2>0 DEF PlacesApart
  <2> QED
    BY <2>3, <2>4, <2>5, <2>6 DEF IInv, NothingLost
<1> QED
  BY <1>5, <1>6, <1>7, <1>8 DEF IInv

\* The last walk ends: nothing is passed, and what it was about to pass is.
LEMMA EndHolds == IInv /\ (Cut \/ Finish) => IInv'
<1> SUFFICES ASSUME IInv, Cut \/ Finish PROVE IInv'
  OBVIOUS
<1>1. /\ walks # <<>> /\ Becomes(Ended) /\ source' = source /\ passed' = passed
      /\ ~ last.asked /\ (Meets => Place(last.at) \in passed)
  <2>1. CASE Cut
    BY <2>1 DEF Cut, Meets, Going
  <2>2. CASE Finish
    <3>1. Going /\ last.at = 0 /\ walks # <<>>
      BY <2>2 DEF Finish, Going, Exit
    <3>2. 0 \notin DOMAIN source.code
      BY LenProperties DEF IInv, TypeOK, Program
    <3> QED
      BY <2>2, <3>1, <3>2 DEF Finish, IInv, Asking, Meets, Exit
  <2> QED
    BY <2>1, <2>2
<1>2. Ended \in Walk /\ Ended.is = "ended"
  <2>1. 0 \in 0..Len(source.code)
    BY LenProperties DEF IInv, TypeOK, Program
  <2> QED
    BY <2>1, StartType DEF Ended
<1>3. /\ walks' \in Seq(Walk) /\ Len(walks') = Len(walks) /\ walks' # <<>> /\ last' = Ended
      /\ \A k \in 1..(Len(walks) - 1) : walks'[k] = walks[k]
  BY <1>1, <1>2, BecomesWalk
<1>4. TypeOK' /\ Waiting' /\ LastMoves' /\ Asking'
  BY <1>1, <1>2, <1>3, SourceSame
     DEF IInv, TypeOK, Waiting, LastMoves, Asking, Going
<1>5. NothingLost'
  <2>1. \A i : Reached(i) => Reached(i)'
    BY <1>1, SourceSame DEF Reached, Passed
  <2>2. \A i \in DOMAIN source.code : Followed(i) => Followed(i)'
    BY <1>1, <1>3, <2>1, SourceSame DEF Followed, Forked
  <2> QED
    BY <1>1, <2>1, <2>2, SourceSame DEF IInv, NothingLost
<1> QED
  BY <1>4, <1>5 DEF IInv

-----------------------------------------------------------------------------
(* Steps of two walks *)

LEMMA ForkHolds == IInv /\ Fork => IInv'
<1> SUFFICES ASSUME IInv, Fork PROVE IInv'
  OBVIOUS
<1> DEFINE n == Len(walks)
           x == last.at
           w == StartAt(source.code[x].next)
           v == [last EXCEPT !.is = "true"]
<1>1. /\ Going /\ last.asked /\ walks # <<>> /\ n \in Nat \ {0} /\ walks \in Seq(Walk)
      /\ last = walks[n] /\ last \in Walk /\ x \in DOMAIN source.code
      /\ Place(x) \in passed /\ IsBranch(x)
      /\ walks' = Append([walks EXCEPT ![n].is = "true"], w)
      /\ source' = source /\ passed' = passed
  BY LastWalk DEF Fork, Going, IInv, Asking
<1>2. w \in Walk /\ w.is = "going" /\ ~ w.asked /\ w.at = source.code[x].next
  BY <1>1, Points, StartType DEF StartAt
<1>3. v \in Walk /\ v.is = "true" /\ v.at = x
  BY <1>1 DEF Walk
<1>4. [walks EXCEPT ![n].is = "true"] = [walks EXCEPT ![n] = v]
  BY <1>1
<1> HIDE DEF w, v
<1>5. /\ walks' \in Seq(Walk) /\ Len(walks') = n + 1 /\ walks'[n] = v /\ last' = w
      /\ \A k \in 1..(n - 1) : walks'[k] = walks[k]
  <2> DEFINE u == [walks EXCEPT ![n] = v]
  <2>1. u \in Seq(Walk) /\ Len(u) = n /\ u[n] = v /\ \A k \in 1..(n - 1) : u[k] = walks[k]
    BY <1>1, <1>3, ExceptSeq
  <2>0. walks' = Append(u, w)
    BY <1>1, <1>4
  <2> HIDE DEF u
  <2>2. /\ walks' \in Seq(Walk) /\ Len(walks') = n + 1 /\ walks'[n + 1] = w
        /\ \A k \in 1..n : walks'[k] = u[k]
    BY <1>2, <2>0, <2>1, Appended
  <2> QED
    BY <1>1, <2>1, <2>2 DEF last, Last
<1>6. walks' # <<>> /\ Len(walks') - 1 = n
  BY <1>1, <1>5
<1>7. TypeOK' /\ LastMoves' /\ Asking'
  BY <1>1, <1>2, <1>5, SourceSame DEF IInv, TypeOK, LastMoves, Asking
<1>8. Waiting'
  <2>1. ASSUME NEW k \in 1..n
        PROVE  walks'[k].is \in {"true", "false"} /\ walks'[k].at \in DOMAIN source.code
    <3>1. CASE k = n
      BY <1>1, <1>3, <1>5, <3>1
    <3>2. CASE k # n
      BY <1>1, <1>5, <3>2 DEF IInv, Waiting
    <3> QED
      BY <3>1, <3>2
  <2> QED
    BY <1>1, <1>6, <2>1 DEF Waiting
<1>9. NothingLost'
  <2>1. \A i : Reached(i) => Reached(i)'
    BY <1>1, SourceSame DEF Reached, Passed, Meets
  <2>2. ASSUME NEW i \in DOMAIN source.code, Forked(i) PROVE Forked(i)'
    <3>1. ASSUME NEW k \in 1..(n - 1), walks[k].is = "true", walks[k].at = i
          PROVE  \E l \in 1..(Len(walks') - 1) : walks'[l].is = "true" /\ walks'[l].at = i
      BY <1>1, <1>5, <1>6, <3>1
    <3> QED
      BY <1>1, <2>1, <2>2, <3>1, SourceSame DEF Forked
  <2>3. PICK y \in DOMAIN source.code : y = x
    BY <1>1
  <2>4. Forked(y)'
    <3>1. PICK z : z = source.code[y].next
      OBVIOUS
    <3>2. Reached(z)'
      BY <1>2, <1>5, <1>6, <2>3, <3>1, ReachedNext DEF Going
    <3>3. n \in 1..(Len(walks') - 1) /\ walks'[n].is = "true" /\ walks'[n].at = y
      BY <1>1, <1>3, <1>5, <1>6, <2>3
    <3>4. source'.code[y].next = z
      BY <1>1, <3>1
    <3> QED
      BY <3>2, <3>3, <3>4 DEF Forked
  <2>5. ASSUME NEW i \in DOMAIN source.code, Followed(i) PROVE Followed(i)'
    BY <2>2, <2>3, <2>4, <2>5 DEF Followed
  <2> QED
    BY <1>1, <2>1, <2>5, SourceSame DEF IInv, NothingLost
<1> QED
  BY <1>7, <1>8, <1>9 DEF IInv

LEMMA TurnHolds == IInv /\ Turn => IInv'
<1> SUFFICES ASSUME IInv, Turn PROVE IInv'
  OBVIOUS
<1> DEFINE n == Len(walks) - 2
           x == waiting.at
           w == StartAt(source.code[x].other)
           v == [waiting EXCEPT !.is = "false"]
           u == SubSeq(walks, 1, n)
<1>1. /\ walks \in Seq(Walk) /\ Len(walks) \in Nat /\ n \in Nat /\ n + 2 = Len(walks)
      /\ waiting = walks[n + 1] /\ waiting \in Walk /\ waiting.is = "true"
      /\ x \in DOMAIN source.code /\ last.is = "ended"
      /\ walks' = u \o <<v, w>> /\ source' = source /\ passed' = passed
  <2>1. Len(walks) \in Nat /\ Len(walks) > 1 /\ walks \in Seq(Walk)
    BY LastWalk DEF Turn, HasEnded
  <2>2. Len(walks) - 1 \in 1..(Len(walks) - 1) /\ Len(walks) - 1 \in 1..Len(walks)
    BY <2>1
  <2>3. waiting \in Walk /\ waiting.at \in DOMAIN source.code
    BY <2>1, <2>2, ElementOfSeq DEF IInv, Waiting, waiting
  <2> QED
    BY <2>1, <2>3 DEF Turn, HasEnded, waiting
<1>2. w \in Walk /\ w.is = "going" /\ ~ w.asked /\ w.at = source.code[x].other
  BY <1>1, Points, StartType DEF StartAt
<1>3. v \in Walk /\ v.is = "false" /\ v.at = x
  BY <1>1 DEF Walk
<1>4. u \in Seq(Walk) /\ Len(u) = n /\ \A k \in 1..n : u[k] = walks[k]
  BY <1>1
<1> HIDE DEF w, v, u, n
<1>5. /\ walks' \in Seq(Walk) /\ Len(walks') = n + 2 /\ walks'[n + 1] = v /\ walks'[n + 2] = w
      /\ \A k \in 1..n : walks'[k] = walks[k]
  BY <1>1, <1>2, <1>3, <1>4
<1>6. last' = w /\ walks' # <<>> /\ Len(walks') - 1 = n + 1 /\ Len(walks) - 1 = n + 1
  BY <1>1, <1>5 DEF last, Last
<1>7. TypeOK' /\ LastMoves' /\ Asking'
  BY <1>1, <1>2, <1>5, <1>6, SourceSame DEF IInv, TypeOK, LastMoves, Asking
<1>8. Waiting'
  <2>1. ASSUME NEW k \in 1..(n + 1)
        PROVE  walks'[k].is \in {"true", "false"} /\ walks'[k].at \in DOMAIN source.code
    <3>1. CASE k = n + 1
      BY <1>1, <1>3, <1>5, <3>1
    <3>2. CASE k # n + 1
      <4>1. k \in 1..n /\ k \in 1..(Len(walks) - 1)
        BY <1>1, <1>6, <3>2
      <4> QED
        BY <1>5, <4>1 DEF IInv, Waiting
    <3> QED
      BY <3>1, <3>2
  <2> QED
    BY <1>1, <1>6, <2>1 DEF Waiting
<1>9. NothingLost'
  <2>1. \A i : Reached(i) => Reached(i)'
    BY <1>1, SourceSame DEF Reached, Passed, Meets, Going
  <2>2. PICK y : y = source.code[x].other
    OBVIOUS
  <2>3. ASSUME NEW i \in DOMAIN source.code, Forked(i) PROVE Forked(i)'
    <3>1. ASSUME NEW k \in 1..(n + 1), walks[k].is = "true", walks[k].at = i
          PROVE  \/ Reached(source.code[i].other)'
                 \/ \E l \in 1..(Len(walks') - 1) : walks'[l].is = "true" /\ walks'[l].at = i
      <4>1. CASE k = n + 1
        <5>1. i = x /\ source'.code[i].other = y
          BY <1>1, <2>2, <3>1, <4>1
        <5>2. Reached(y)'
          BY <1>2, <1>6, <2>2, ReachedNext DEF Going
        <5> QED
          BY <5>1, <5>2
      <4>2. CASE k # n + 1
        <5>1. k \in 1..n /\ k \in 1..(Len(walks') - 1)
          BY <1>1, <1>6, <4>2
        <5> QED
          BY <1>5, <3>1, <5>1
      <4> QED
        BY <4>1, <4>2
    <3> QED
      BY <1>1, <1>6, <2>1, <2>3, <3>1, SourceSame DEF Forked
  <2>4. \A i \in DOMAIN source.code : Followed(i) => Followed(i)'
    BY <1>1, <2>3 DEF Followed, Going
  <2> QED
    BY <1>1, <2>1, <2>4, SourceSame DEF IInv, NothingLost
<1> QED
  BY <1>7, <1>8, <1>9 DEF IInv

LEMMA JoinHolds == IInv /\ Join => IInv'
<1> SUFFICES ASSUME IInv, Join PROVE IInv'
  OBVIOUS
<1> DEFINE n == Len(walks) - 2
           u == SubSeq(walks, 1, n)
<1>1. /\ walks \in Seq(Walk) /\ n \in Nat /\ n + 2 = Len(walks)
      /\ walks[n + 1].is = "false" /\ last.is = "ended"
      /\ walks' = Append(u, Ended) /\ source' = source /\ passed' = passed
  <2>1. Len(walks) \in Nat /\ Len(walks) > 1 /\ walks \in Seq(Walk)
    BY LastWalk DEF Join, HasEnded
  <2> QED
    BY <2>1 DEF Join, HasEnded, waiting
<1>2. Ended \in Walk /\ Ended.is = "ended"
  <2>1. 0 \in 0..Len(source.code)
    BY LenProperties DEF IInv, TypeOK, Program
  <2> QED
    BY <2>1, StartType DEF Ended
<1>3. u \in Seq(Walk) /\ Len(u) = n /\ \A k \in 1..n : u[k] = walks[k]
  BY <1>1
<1> HIDE DEF u, n
<1>4. /\ walks' \in Seq(Walk) /\ Len(walks') = n + 1 /\ walks'[n + 1] = Ended
      /\ \A k \in 1..n : walks'[k] = walks[k]
  BY <1>1, <1>2, <1>3
<1>5. last' = Ended /\ walks' # <<>> /\ Len(walks') - 1 = n /\ Len(walks) - 1 = n + 1
  BY <1>1, <1>4 DEF last, Last
<1>6. \A k \in 1..n : k \in 1..(Len(walks) - 1)
  BY <1>1, <1>5
<1>7. TypeOK' /\ LastMoves' /\ Asking' /\ Waiting'
  BY <1>1, <1>2, <1>4, <1>5, <1>6, SourceSame
     DEF IInv, TypeOK, LastMoves, Asking, Going, Waiting
<1>8. NothingLost'
  <2>1. \A i : Reached(i) => Reached(i)'
    BY <1>1, SourceSame DEF Reached, Passed, Meets, Going
  <2>2. ASSUME NEW i \in DOMAIN source.code, Forked(i) PROVE Forked(i)'
    <3>1. ASSUME NEW k \in 1..(n + 1), walks[k].is = "true", walks[k].at = i
          PROVE  \E l \in 1..(Len(walks') - 1) : walks'[l].is = "true" /\ walks'[l].at = i
      <4>1. k # n + 1
        BY <1>1, <3>1
      <4>2. k \in 1..n /\ k \in 1..(Len(walks') - 1)
        BY <1>1, <1>5, <4>1
      <4> QED
        BY <1>4, <3>1, <4>2
    <3> QED
      BY <1>1, <1>5, <2>1, <2>2, <3>1, SourceSame DEF Forked
  <2>3. \A i \in DOMAIN source.code : Followed(i) => Followed(i)'
    BY <1>1, <2>2 DEF Followed, Going
  <2> QED
    BY <1>1, <2>1, <2>3, SourceSame DEF IInv, NothingLost
<1> QED
  BY <1>7, <1>8 DEF IInv

LEMMA DoneHolds == IInv /\ Done => IInv'
<1> SUFFICES ASSUME IInv, Done PROVE IInv'
  OBVIOUS
<1>1. /\ walks' = <<>> /\ Len(walks) = 1 /\ last.is = "ended"
      /\ source' = source /\ passed' = passed
  BY DEF Done, HasEnded
<1>2. TypeOK' /\ LastMoves' /\ Asking' /\ Waiting'
  BY <1>1, SourceSame DEF IInv, TypeOK, LastMoves, Asking, Going, Waiting
<1>3. \A i : Reached(i) => Reached(i)'
  BY <1>1, SourceSame DEF Reached, Passed, Meets, Going
<1>4. \A i \in DOMAIN source.code : Followed(i) => Followed(i)'
  BY <1>1, <1>3, SourceSame DEF Followed, Forked, Going
<1> QED
  BY <1>1, <1>2, <1>3, <1>4, SourceSame DEF IInv, NothingLost

-----------------------------------------------------------------------------
(* Theorems *)

LEMMA ForkingInit == Init => IInv
<1> SUFFICES ASSUME Init PROVE IInv
  OBVIOUS
<1>1. source \in Program /\ walks = <<StartAt(1)>> /\ passed = {}
  BY DEF Init
<1>2. 1 \in 0..Len(source.code) /\ 1 # 0 /\ Len(walks) = 1
  BY <1>1, LenProperties DEF Program
<1>3. StartAt(1) \in Walk /\ last = StartAt(1)
  BY <1>1, <1>2 DEF StartAt, Walk, last, Last
<1>4. TypeOK /\ Waiting /\ LastMoves /\ Asking
  BY <1>1, <1>2, <1>3 DEF TypeOK, Waiting, LastMoves, Asking, StartAt
<1>5. Reached(1)
  BY <1>1, <1>2, <1>3 DEF Reached, Meets, Going, StartAt, Exit
<1> QED
  BY <1>1, <1>4, <1>5 DEF IInv, NothingLost

LEMMA ForkingStep == IInv /\ [Next]_vars => IInv'
<1> SUFFICES ASSUME IInv, [Next]_vars PROVE IInv'
  OBVIOUS
<1>1. CASE Next
  BY <1>1, PassHolds, EndHolds, ForkHolds, TurnHolds, JoinHolds, DoneHolds DEF Next
<1>2. CASE UNCHANGED vars
  <2>1. source' = source /\ walks' = walks /\ passed' = passed /\ last' = last
    BY <1>2 DEF vars, last
  <2>2. TypeOK' /\ Waiting' /\ LastMoves' /\ Asking'
    BY <2>1, SourceSame DEF IInv, TypeOK, Waiting, LastMoves, Asking, Going
  <2>3. \A i : Reached(i) => Reached(i)'
    BY <2>1, SourceSame DEF Reached, Passed, Meets, Going
  <2>4. \A i \in DOMAIN source.code : Followed(i) => Followed(i)'
    BY <2>1, <2>3, SourceSame DEF Followed, Forked, Going
  <2> QED
    BY <2>1, <2>2, <2>3, <2>4, SourceSame DEF IInv, NothingLost
<1> QED
  BY <1>1, <1>2

LEMMA InvExplores == IInv => Explored
<1> SUFFICES ASSUME IInv, walks = <<>>, PlacesApart
             PROVE  /\ Passed(1)
                    /\ \A i \in DOMAIN source.code :
                          Passed(i) => \A j \in Successors(i) : Passed(j)
  BY DEF Explored
<1>1. \A i : Reached(i) => Passed(i)
  BY DEF Reached, Meets, Going
<1>2. ASSUME NEW i \in DOMAIN source.code, Passed(i) PROVE \A j \in Successors(i) : Passed(j)
  <2>1. Place(i) \in passed
    BY <1>2, LenProperties DEF Passed, Exit, IInv, TypeOK, Program
  <2>2. Forked(i)
    BY <2>1 DEF IInv, NothingLost, Followed, Going
  <2>3. 1..(Len(walks) - 1) = {}
    OBVIOUS
  <2> QED
    BY <1>1, <2>2, <2>3 DEF Forked, Successors
<1> QED
  BY <1>1, <1>2 DEF IInv, NothingLost

\* Cutting walks short loses nothing: when no walk is left, every point that the
\* staged function can reach has been passed.
THEOREM ExploredCorrect == Spec => []Explored
BY ForkingInit, ForkingStep, InvExplores, PTL DEF Spec
=============================================================================
