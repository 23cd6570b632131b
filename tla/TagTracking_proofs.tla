-------------------------- MODULE TagTracking_proofs --------------------------
(***************************************************************************)
(* Proofs about static tags, for any number of places, values, variables,  *)
(* ids and runs.  The argument: the tag of a new dyn_var holds the ids of  *)
(* those alive, so the tag factory can only have given it a greater id.    *)
(* The sorted vector of live ids therefore grows at its end, in step with  *)
(* the dyn_vars, and never holds an id twice.                              *)
(***************************************************************************)
EXTENDS TagTracking, SequenceTheorems, FiniteSetTheorems, WellFoundedInduction, TLAPS

Ascending(s) == \A i, j \in DOMAIN s : i < j => s[i] < s[j]

\* The ids in s are those of the tags in t.
Names(s, t) ==
    /\ Len(s) = Len(t)
    /\ \A i \in DOMAIN s : s[i] \in DOMAIN ids /\ ids[s[i]] = t[i]

Typed ==
    /\ tuples \in Seq(Value \union {Null})
    /\ deferred \in Seq(Value)
    /\ live \in Seq(Nat)
    /\ dyns \in Seq(Tag) /\ moved \in Seq(Tag)
    /\ ids \in Seq(Tag)
    /\ mark.tag \in Tag /\ mark.dyns \in Seq(Tag)

IdsDistinct == \A i, j \in DOMAIN ids : ids[i] = ids[j] => i = j

\* A tag has a greater id than the dyn_vars that were alive when it was taken.
IdsOlder == \A i \in DOMAIN ids : \A k \in DOMAIN ids[i].live : ids[i].live[k] < i

LiveNamed == Names(live, dyns) /\ Ascending(live)

Apart ==
    /\ \A i \in DOMAIN dyns : dyns[i].loc \notin DeferredLoc
    /\ \A i \in DOMAIN moved : moved[i].loc \in DeferredLoc /\ Known(moved[i])

MarkNamed == Names(mark.tag.live, mark.dyns)

IInv == Typed /\ IdsDistinct /\ IdsOlder /\ LiveNamed /\ Apart /\ MarkNamed

-----------------------------------------------------------------------------
(* The sorted vector *)

LEMMA LowerBoundAt ==
    ASSUME NEW s \in Seq(Nat), NEW n \in Nat, NEW k \in 1..(Len(s) + 1),
           \A i \in DOMAIN s : s[i] < n <=> i < k
    PROVE  LowerBound(s, n) = k
<1>1. Len(s) \in Nat /\ DOMAIN s = 1..Len(s)
  BY LenProperties
<1>2. {i \in DOMAIN s : s[i] < n} = 1..(k - 1)
  BY <1>1
<1>3. Cardinality(1..(k - 1)) = k - 1
  BY <1>1, FS_Interval
<1>4. Cardinality({i \in DOMAIN s : s[i] < n}) = k - 1
  BY <1>2, <1>3, Zenon
<1> QED
  BY <1>1, <1>4 DEF LowerBound

LEMMA InsertedLast ==
    ASSUME NEW s \in Seq(Nat), NEW n \in Nat, \A i \in DOMAIN s : s[i] < n
    PROVE  Inserted(s, n) = Append(s, n)
<1>1. Len(s) \in Nat /\ DOMAIN s = 1..Len(s)
  BY LenProperties
<1>2. LowerBound(s, n) = Len(s) + 1
  <2>1. \A i \in DOMAIN s : s[i] < n <=> i < Len(s) + 1
    BY <1>1
  <2>2. Len(s) + 1 \in 1..(Len(s) + 1)
    BY <1>1
  <2> QED
    BY <2>1, <2>2, LowerBoundAt
<1>3. SubSeq(s, 1, Len(s)) = s /\ SubSeq(s, Len(s) + 1, Len(s)) = <<>>
  BY <1>1
<1>4. InsertAt(s, Len(s) + 1, n) = s \o <<n>> \o <<>>
  <2>1. (Len(s) + 1) - 1 = Len(s)
    BY <1>1
  <2> QED
    BY <1>3, <2>1, Zenon DEF InsertAt
<1>5. s \o <<n>> \o <<>> = Append(s, n)
  BY <1>1
<1> QED
  BY <1>2, <1>4, <1>5 DEF Inserted

LEMMA RemoveAtIs ==
    ASSUME NEW S, NEW s \in Seq(S), NEW k \in DOMAIN s
    PROVE  /\ RemoveAt(s, k) \in Seq(S)
           /\ Len(RemoveAt(s, k)) = Len(s) - 1
           /\ \A i \in 1..(Len(s) - 1) :
                 RemoveAt(s, k)[i] = IF i < k THEN s[i] ELSE s[i + 1]
<1> DEFINE a == SubSeq(s, 1, k - 1)
           b == SubSeq(s, k + 1, Len(s))
<1>1. Len(s) \in Nat /\ k \in 1..Len(s) /\ DOMAIN s = 1..Len(s) /\ k \in Nat
  BY LenProperties
<1>2. \A i \in DOMAIN s : s[i] \in S
  BY <1>1, ElementOfSeq
<1>3. a \in Seq(S) /\ Len(a) = k - 1 /\ \A i \in 1..(k - 1) : a[i] = s[i]
  BY <1>1, <1>2, SubSeqProperties
<1>4. /\ b \in Seq(S) /\ Len(b) = Len(s) - k
      /\ \A i \in 1..(Len(s) - k) : b[i] = s[k + i]
  BY <1>1, <1>2, SubSeqProperties
<1>5. RemoveAt(s, k) = a \o b
  BY DEF RemoveAt
<1> HIDE DEF a, b
<1>6. /\ a \o b \in Seq(S) /\ Len(a \o b) = Len(a) + Len(b)
      /\ \A i \in 1..(Len(a) + Len(b)) :
            (a \o b)[i] = IF i <= Len(a) THEN a[i] ELSE b[i - Len(a)]
  BY <1>3, <1>4, ConcatProperties
<1>7. \A i \in 1..(Len(s) - 1) : (a \o b)[i] = IF i < k THEN s[i] ELSE s[i + 1]
  <2> SUFFICES ASSUME NEW i \in 1..(Len(s) - 1)
               PROVE  (a \o b)[i] = IF i < k THEN s[i] ELSE s[i + 1]
    OBVIOUS
  <2>1. (a \o b)[i] = IF i <= Len(a) THEN a[i] ELSE b[i - Len(a)]
    BY SMTT(30), <1>1, <1>3, <1>4, <1>6
  <2>2. CASE i < k
    <3>1. i <= Len(a) /\ i \in 1..(k - 1)
      BY <1>1, <1>3, <2>2
    <3> QED
      BY <1>3, <2>1, <2>2, <3>1
  <2>3. CASE ~ (i < k)
    <3>1. ~ (i <= Len(a)) /\ i - Len(a) \in 1..(Len(s) - k) /\ k + (i - Len(a)) = i + 1
      BY <1>1, <1>3, <2>3
    <3>2. b[i - Len(a)] = s[k + (i - Len(a))]
      BY <1>4, <3>1
    <3> QED
      BY <2>1, <2>3, <3>1, <3>2
  <2> QED
    BY <2>2, <2>3
<1> QED
  BY <1>1, <1>3, <1>4, <1>5, <1>6, <1>7

LEMMA RemovedAt ==
    ASSUME NEW s \in Seq(Nat), Ascending(s), NEW k \in DOMAIN s
    PROVE  Removed(s, s[k]) = RemoveAt(s, k)
<1>1. Len(s) \in Nat /\ DOMAIN s = 1..Len(s) /\ \A i \in DOMAIN s : s[i] \in Nat
  BY LenProperties, ElementOfSeq
<1>2. \A i \in DOMAIN s : s[i] < s[k] <=> i < k
  BY <1>1 DEF Ascending
<1>3. s[k] \in Nat /\ k \in 1..(Len(s) + 1)
  BY <1>1
<1>4. LowerBound(s, s[k]) = k
  BY <1>2, <1>3, LowerBoundAt
<1> QED
  BY <1>4 DEF Removed

LEMMA RemovedNone ==
    ASSUME NEW s, NEW n, \A i \in DOMAIN s : s[i] # n
    PROVE  Removed(s, n) = s
BY DEF Removed

LEMMA InsertedAndRemoved ==
    ASSUME NEW s \in Seq(Nat), Ascending(s), NEW n \in Nat, \A i \in DOMAIN s : s[i] < n
    PROVE  Removed(Inserted(s, n), n) = s
<1> DEFINE a == Append(s, n)
<1>1. /\ Len(s) \in Nat /\ DOMAIN s = 1..Len(s)
      /\ a \in Seq(Nat) /\ Len(a) = Len(s) + 1 /\ DOMAIN a = 1..(Len(s) + 1)
      /\ a[Len(s) + 1] = n /\ \A i \in DOMAIN s : a[i] = s[i]
  BY LenProperties, AppendProperties
<1>2. Ascending(a)
  BY <1>1 DEF Ascending
<1> HIDE DEF a
<1>3. Len(s) + 1 \in DOMAIN a
  BY <1>1
<1>4. Removed(a, n) = RemoveAt(a, Len(s) + 1)
  BY <1>1, <1>2, <1>3, RemovedAt
<1>5. RemoveAt(a, Len(s) + 1) = s
  <2> DEFINE last == Len(s) + 1
             r == RemoveAt(a, last)
  <2>1. a \in Seq(Nat) /\ last \in DOMAIN a
    BY <1>1, <1>3
  <2> HIDE DEF last
  <2>2. /\ RemoveAt(a, last) \in Seq(Nat)
        /\ Len(RemoveAt(a, last)) = Len(a) - 1
        /\ \A i \in 1..(Len(a) - 1) :
              RemoveAt(a, last)[i] = IF i < last THEN a[i] ELSE a[i + 1]
    BY <2>1, RemoveAtIs
  <2> HIDE DEF r
  <2>3. r \in Seq(Nat) /\ Len(r) = Len(s) /\ \A i \in 1..Len(r) : r[i] = s[i]
    BY SMTT(30), <1>1, <2>2 DEF r, last
  <2>4. r = s
    BY <2>3, SeqEqual
  <2> QED
    BY <2>4 DEF r, last
<1> QED
  BY <1>1, <1>4, <1>5, InsertedLast DEF a

-----------------------------------------------------------------------------
(* The tag factory *)

LEMMA IdOfKnown ==
    ASSUME IdsDistinct, NEW i \in DOMAIN ids
    PROVE  Known(ids[i]) /\ IdOf(ids[i]) = i
BY DEF IdsDistinct, Known, IdOf

LEMMA KnownId ==
    ASSUME NEW t, Known(t)
    PROVE  IdOf(t) \in DOMAIN ids /\ ids[IdOf(t)] = t
BY DEF Known, IdOf

\* Making the tag of a place an id keeps what is known of the factory, and the
\* id is greater than those of the dyn_vars alive.
LEMMA NewId ==
    ASSUME Typed, IdsDistinct, IdsOlder, LiveNamed, NEW l \in Loc, CreateTagId(TagAt(l))
    PROVE  /\ TagAt(l) \in Tag
           /\ ids' \in Seq(Tag)
           /\ DOMAIN ids \subseteq DOMAIN ids'
           /\ \A i \in DOMAIN ids : ids'[i] = ids[i]
           /\ IdsDistinct'
           /\ IdsOlder'
           /\ IdOf(TagAt(l)) \in DOMAIN ids'
           /\ IdOf(TagAt(l)) \in Nat
           /\ ids'[IdOf(TagAt(l))] = TagAt(l)
           /\ \A i \in DOMAIN live : live[i] < IdOf(TagAt(l))
<1> DEFINE t == TagAt(l)
<1>1. Len(ids) \in Nat /\ DOMAIN ids = 1..Len(ids) /\ \A i \in DOMAIN ids : ids[i] \in Tag
  BY LenProperties, ElementOfSeq DEF Typed
<1>2. t.live = live /\ t \in Tag
  <2>1. Value \subseteq Value \union {Null}
    OBVIOUS
  <2>2. deferred \in Seq(Value \union {Null})
    BY <2>1, SeqMonotonic DEF Typed
  <2>3. Snapshot \in Seq(Value \union {Null})
    BY <2>2, ConcatProperties DEF Typed, Snapshot
  <2> QED
    BY <2>3 DEF TagAt, Tag, Typed
<1>3. \A i \in DOMAIN live : live[i] \in 1..Len(ids)
  BY <1>1 DEF LiveNamed, Names
<1> HIDE DEF t
<1>4. CASE Known(t)
  <2>1. ids' = ids
    BY <1>4 DEF CreateTagId, t
  <2>2. IdOf(t) \in DOMAIN ids /\ ids[IdOf(t)] = t
    BY <1>4, KnownId
  <2>3. \A i \in DOMAIN live : live[i] < IdOf(t)
    BY <1>2, <2>2 DEF IdsOlder
  <2> QED
    BY <1>1, <1>2, <2>1, <2>2, <2>3 DEF Typed, IdsDistinct, IdsOlder, t
<1>5. CASE ~ Known(t)
  <2>1. ids' = Append(ids, t) /\ IdOf(t) = Len(ids) + 1
    BY <1>5 DEF CreateTagId, IdOf, t
  <2>2. /\ ids' \in Seq(Tag) /\ Len(ids') = Len(ids) + 1
        /\ DOMAIN ids' = 1..(Len(ids) + 1)
        /\ ids'[Len(ids) + 1] = t /\ \A i \in DOMAIN ids : ids'[i] = ids[i]
    BY <1>1, <1>2, <2>1, AppendProperties DEF Typed
  <2>3. \A i \in DOMAIN live : live[i] < IdOf(t)
    BY <1>1, <1>3, <2>1
  <2>4. IdsDistinct'
    <3>1. \A i \in DOMAIN ids : ids[i] # t
      BY <1>5 DEF Known
    <3> QED
      BY <1>1, <2>2, <3>1 DEF IdsDistinct
  <2>5. IdsOlder'
    <3> SUFFICES ASSUME NEW i \in DOMAIN ids', NEW k \in DOMAIN ids'[i].live
                 PROVE  ids'[i].live[k] < i
      BY DEF IdsOlder
    <3>1. CASE i \in DOMAIN ids
      BY <2>2, <3>1 DEF IdsOlder
    <3>2. CASE i = Len(ids) + 1
      BY <1>2, <2>1, <2>2, <2>3, <3>2
    <3> QED
      BY <1>1, <2>2, <3>1, <3>2
  <2> QED
    BY <1>1, <1>2, <2>1, <2>2, <2>3, <2>4, <2>5 DEF t
<1> QED
  BY <1>4, <1>5

-----------------------------------------------------------------------------
(* The invariant *)

LEMMA IInvInit == Init => IInv
<1> SUFFICES ASSUME Init PROVE IInv
  OBVIOUS
<1>1. /\ tuples = <<>> /\ deferred = <<>> /\ live = <<>> /\ dyns = <<>>
      /\ moved = <<>> /\ ids = <<>>
  BY DEF Init
<1>2. PICK l \in Loc : mark = Moment(l)
  BY DEF Init
<1>3. mark.tag = TagAt(l) /\ mark.dyns = <<>>
  BY <1>1, <1>2 DEF Moment
<1>4. TagAt(l) \in Tag /\ TagAt(l).live = <<>>
  BY <1>1 DEF TagAt, Tag, Snapshot
<1>5. Len(<<>>) = 0 /\ DOMAIN <<>> = {}
  OBVIOUS
<1>6. Typed
  BY <1>1, <1>3, <1>4 DEF Typed
<1> QED
  BY <1>1, <1>3, <1>4, <1>5, <1>6
  DEF IInv, IdsDistinct, IdsOlder, LiveNamed, Apart, MarkNamed, Names, Ascending

\* A front of the sequence is left, whose last element is alive.
LEMMA PoppedIs ==
    ASSUME NEW S, NEW s \in Seq(S)
    PROVE  \E k \in 0..Len(s) :
              /\ Popped(s) \in Seq(S) /\ Len(Popped(s)) = k
              /\ \A i \in 1..k : Popped(s)[i] = s[i]
              /\ k > 0 => Alive(s[k])
<1> DEFINE Rest(n) == \A i \in (n + 1)..Len(s) : ~ Alive(s[i])
           N == {n \in 0..Len(s) : Rest(n)}
<1>1. Len(s) \in Nat /\ \A i \in 1..Len(s) : s[i] \in S
  BY ElementOfSeq, LenProperties
<1>2. Len(s) \in N /\ N \subseteq Nat
  BY <1>1
<1>3. PICK m \in N : \A n \in N : m <= n
  <2>1. PICK m \in N : \A n \in N : <<n, m>> \notin OpToRel(<, Nat)
    BY <1>2, NatLessThanWellFounded, WFMin
  <2>2. \A n \in N : ~ (n < m)
    BY <1>2, <2>1 DEF OpToRel
  <2> HIDE DEF N
  <2> QED
    BY <1>2, <2>2
<1>4. m > 0 => Alive(s[m])
  <2> SUFFICES ASSUME m > 0, ~ Alive(s[m]) PROVE FALSE
    OBVIOUS
  <2>1. m \in 1..Len(s) /\ m - 1 \in 0..Len(s) /\ (m - 1) + 1 = m
    BY <1>1, <1>2
  <2>2. ASSUME NEW i \in m..Len(s) PROVE ~ Alive(s[i])
    <3>1. i = m \/ i \in (m + 1)..Len(s)
      BY <2>1
    <3> QED
      BY <2>1, <3>1
  <2>3. m - 1 \in N
    BY <2>1, <2>2
  <2> HIDE DEF N
  <2> QED
    BY <1>2, <1>3, <2>1, <2>3
<1>5. \E n \in 0..Len(s) : (n > 0 => Alive(s[n])) /\ Rest(n)
  BY <1>3, <1>4
<1> DEFINE k == CHOOSE n \in 0..Len(s) : /\ n > 0 => Alive(s[n])
                                         /\ \A i \in (n + 1)..Len(s) : ~ Alive(s[i])
<1>6. k \in 0..Len(s) /\ (k > 0 => Alive(s[k]))
  BY <1>5
<1>7. Popped(s) = SubSeq(s, 1, k)
  BY DEF Popped
<1> HIDE DEF k
<1>8. /\ SubSeq(s, 1, k) \in Seq(S) /\ Len(SubSeq(s, 1, k)) = k
      /\ \A i \in 1..k : SubSeq(s, 1, k)[i] = s[i]
  BY <1>1, <1>6, SubSeqProperties
<1> QED
  BY <1>6, <1>7, <1>8

LEMMA PoppedType ==
    ASSUME NEW S, NEW s \in Seq(S)
    PROVE  Popped(s) \in Seq(S)
BY PoppedIs

\* What only concerns static_vars.
LEMMA StaticsStep ==
    ASSUME IInv, UNCHANGED <<live, dyns, moved, ids, mark>>,
           tuples' \in Seq(Value \union {Null}), deferred' \in Seq(Value)
    PROVE  IInv'
BY DEF IInv, Typed, IdsDistinct, IdsOlder, LiveNamed, Apart, MarkNamed, Names,
       Ascending, Known

LEMMA NewStaticStep ==
    ASSUME IInv, NEW v \in Value, NewStatic(v) \/ DeferStatic(v)
    PROVE  IInv'
<1>1. tuples \in Seq(Value \union {Null}) /\ deferred \in Seq(Value)
  BY DEF IInv, Typed
<1>2. Append(tuples, v) \in Seq(Value \union {Null}) /\ Append(deferred, v) \in Seq(Value)
  BY <1>1, AppendProperties
<1> QED
  BY <1>1, <1>2, StaticsStep DEF NewStatic, DeferStatic

LEMMA AssignStep ==
    ASSUME IInv, NEW i \in DOMAIN Snapshot, NEW v \in Value, Assign(i, v)
    PROVE  IInv'
<1>1. tuples \in Seq(Value \union {Null}) /\ deferred \in Seq(Value)
  BY DEF IInv, Typed
<1>2. CASE i \in DOMAIN deferred
  <2>1. [deferred EXCEPT ![i] = v] \in Seq(Value)
    BY <1>1, <1>2
  <2> QED
    BY <1>1, <1>2, <2>1, StaticsStep DEF Assign
<1>3. CASE i \notin DOMAIN deferred
  <2>1. i - Len(deferred) \in DOMAIN tuples
    <3>1. deferred \in Seq(Value \union {Null})
      BY <1>1
    <3>2. i \in 1..(Len(deferred) + Len(tuples))
      BY <1>1, <3>1, ConcatProperties, LenProperties DEF Snapshot
    <3> QED
      BY <1>1, <1>3, <3>2, LenProperties
  <2>2. [tuples EXCEPT ![i - Len(deferred)] = v] \in Seq(Value \union {Null})
    BY <1>1, <2>1
  <2> QED
    BY <1>1, <1>3, <2>2, StaticsStep DEF Assign
<1> QED
  BY <1>2, <1>3

LEMMA DestroyStaticStep ==
    ASSUME IInv, NEW i \in DOMAIN tuples, DestroyStatic(i)
    PROVE  IInv'
<1>1. tuples \in Seq(Value \union {Null}) /\ deferred \in Seq(Value)
  BY DEF IInv, Typed
<1>2. [tuples EXCEPT ![i] = Null] \in Seq(Value \union {Null})
  BY <1>1
<1>3. tuples' \in Seq(Value \union {Null})
  BY <1>2, PoppedType DEF DestroyStatic
<1> QED
  BY <1>1, <1>3, StaticsStep DEF DestroyStatic

LEMMA NewDynStep ==
    ASSUME IInv, NEW l \in Loc, NewDyn(l)
    PROVE  IInv'
<1> DEFINE t == TagAt(l)
           n == IdOf(t)
<1>1. /\ t \in Tag /\ ids' \in Seq(Tag)
      /\ DOMAIN ids \subseteq DOMAIN ids' /\ \A i \in DOMAIN ids : ids'[i] = ids[i]
      /\ IdsDistinct' /\ IdsOlder'
      /\ n \in DOMAIN ids' /\ n \in Nat /\ ids'[n] = t
      /\ \A i \in DOMAIN live : live[i] < n
  BY NewId DEF NewDyn, IInv
<1>2. live \in Seq(Nat) /\ dyns \in Seq(Tag) /\ Names(live, dyns) /\ Ascending(live)
  BY DEF IInv, Typed, LiveNamed
<1>3. live' = Append(live, n) /\ dyns' = Append(dyns, t)
  BY <1>1, <1>2, InsertedLast DEF NewDyn
<1>4. t.loc \notin DeferredLoc
  BY DEF NewDyn, TagAt
<1>5. UNCHANGED <<tuples, deferred, moved, mark>>
  BY DEF NewDyn
<1> HIDE DEF t, n
<1>6. /\ live' \in Seq(Nat) /\ Len(live') = Len(live) + 1 /\ DOMAIN live' = 1..(Len(live) + 1)
      /\ live'[Len(live) + 1] = n /\ \A i \in DOMAIN live : live'[i] = live[i]
  BY <1>1, <1>2, <1>3, AppendProperties
<1>7. /\ dyns' \in Seq(Tag) /\ Len(dyns') = Len(dyns) + 1 /\ DOMAIN dyns' = 1..(Len(dyns) + 1)
      /\ dyns'[Len(dyns) + 1] = t /\ \A i \in DOMAIN dyns : dyns'[i] = dyns[i]
  BY <1>1, <1>2, <1>3, AppendProperties
<1>8. /\ Len(live) \in Nat /\ DOMAIN live = 1..Len(live) /\ Len(dyns) = Len(live)
      /\ DOMAIN dyns = 1..Len(live)
  BY <1>2, LenProperties DEF Names
<1>9. Typed'
  BY <1>1, <1>5, <1>6, <1>7 DEF IInv, Typed
<1>10. LiveNamed'
  <2>1. ASSUME NEW i \in DOMAIN live'
        PROVE  live'[i] \in DOMAIN ids' /\ ids'[live'[i]] = dyns'[i]
    <3>1. CASE i \in DOMAIN live
      <4>1. live'[i] = live[i] /\ dyns'[i] = dyns[i]
        BY <1>6, <1>7, <1>8, <3>1
      <4>2. live[i] \in DOMAIN ids /\ ids[live[i]] = dyns[i]
        BY <1>2, <3>1 DEF Names
      <4> QED
        BY <1>1, <4>1, <4>2
    <3>2. CASE i = Len(live) + 1
      BY <1>1, <1>6, <1>7, <1>8, <3>2
    <3> QED
      BY <1>6, <1>8, <3>1, <3>2
  <2>2. ASSUME NEW i \in DOMAIN live', NEW j \in DOMAIN live', i < j
        PROVE  live'[i] < live'[j]
    <3>1. i \in DOMAIN live /\ live'[i] = live[i]
      BY <1>6, <1>8, <2>2
    <3>2. CASE j \in DOMAIN live
      BY <1>2, <1>6, <2>2, <3>1, <3>2 DEF Ascending
    <3>3. CASE j = Len(live) + 1
      BY <1>1, <1>6, <3>1, <3>3
    <3> QED
      BY <1>6, <1>8, <3>2, <3>3
  <2> QED
    BY <1>6, <1>7, <1>8, <2>1, <2>2 DEF LiveNamed, Names, Ascending
<1>11. Apart'
  BY <1>1, <1>4, <1>5, <1>7, <1>8 DEF IInv, Apart, Known
<1>12. MarkNamed'
  BY <1>1, <1>5 DEF IInv, MarkNamed, Names
<1> QED
  BY <1>1, <1>9, <1>10, <1>11, <1>12 DEF IInv

LEMMA InitDeferredStep ==
    ASSUME IInv, NEW l \in Loc, InitDeferred(l)
    PROVE  IInv'
<1> DEFINE t == TagAt(l)
           n == IdOf(t)
<1>1. /\ t \in Tag /\ ids' \in Seq(Tag)
      /\ DOMAIN ids \subseteq DOMAIN ids' /\ \A i \in DOMAIN ids : ids'[i] = ids[i]
      /\ IdsDistinct' /\ IdsOlder'
      /\ n \in DOMAIN ids' /\ n \in Nat /\ ids'[n] = t
      /\ \A i \in DOMAIN live : live[i] < n
  BY NewId DEF InitDeferred, IInv
<1>2. live \in Seq(Nat) /\ moved \in Seq(Tag) /\ Ascending(live)
  BY DEF IInv, Typed, LiveNamed
<1>3. live' = live /\ moved' = Append(moved, t)
  BY <1>1, <1>2, InsertedAndRemoved DEF InitDeferred
<1>4. t.loc \in DeferredLoc
  BY DEF InitDeferred, TagAt
<1>5. UNCHANGED <<tuples, deferred, dyns, mark>>
  BY DEF InitDeferred
<1> HIDE DEF t, n
<1>6. /\ moved' \in Seq(Tag) /\ DOMAIN moved' = 1..(Len(moved) + 1)
      /\ moved'[Len(moved) + 1] = t /\ \A i \in DOMAIN moved : moved'[i] = moved[i]
      /\ DOMAIN moved = 1..Len(moved) /\ Len(moved) \in Nat
  BY <1>1, <1>2, <1>3, AppendProperties, LenProperties
<1>7. Typed'
  BY <1>1, <1>3, <1>5, <1>6 DEF IInv, Typed
<1>8. LiveNamed' /\ MarkNamed'
  BY <1>1, <1>3, <1>5 DEF IInv, LiveNamed, MarkNamed, Names, Ascending
<1>9. Apart'
  <2>1. ASSUME NEW i \in DOMAIN moved'
        PROVE  moved'[i].loc \in DeferredLoc /\ \E j \in DOMAIN ids' : ids'[j] = moved'[i]
    <3>1. CASE i \in DOMAIN moved
      <4>1. moved'[i] = moved[i]
        BY <1>6, <3>1
      <4>2. moved[i].loc \in DeferredLoc /\ \E j \in DOMAIN ids : ids[j] = moved[i]
        BY <3>1 DEF IInv, Apart, Known
      <4> QED
        BY <1>1, <4>1, <4>2
    <3>2. CASE i = Len(moved) + 1
      BY <1>1, <1>4, <1>6, <3>2
    <3> QED
      BY <1>6, <3>1, <3>2
  <2>2. \A i \in DOMAIN dyns' : dyns'[i].loc \notin DeferredLoc
    BY <1>5 DEF IInv, Apart
  <2> QED
    BY <2>1, <2>2 DEF Apart, Known
<1> QED
  BY <1>1, <1>7, <1>8, <1>9 DEF IInv

LEMMA DestroyDynStep ==
    ASSUME IInv, NEW i \in DOMAIN dyns, DestroyDyn(i)
    PROVE  IInv'
<1>1. /\ live \in Seq(Nat) /\ dyns \in Seq(Tag) /\ Names(live, dyns) /\ Ascending(live)
      /\ IdsDistinct
  BY DEF IInv, Typed, LiveNamed
<1>2. /\ Len(live) \in Nat /\ DOMAIN live = 1..Len(live)
      /\ Len(dyns) = Len(live) /\ DOMAIN dyns = 1..Len(live)
      /\ \A k \in DOMAIN live : live[k] \in Nat
  BY <1>1, LenProperties, ElementOfSeq DEF Names
<1>3. i \in DOMAIN live /\ live[i] \in DOMAIN ids /\ ids[live[i]] = dyns[i]
  BY <1>1, <1>2 DEF Names
<1>4. Known(dyns[i]) /\ IdOf(dyns[i]) = live[i]
  BY <1>1, <1>3, IdOfKnown
<1>5. ids' = ids /\ live' = RemoveAt(live, i) /\ dyns' = RemoveAt(dyns, i)
  BY <1>1, <1>3, <1>4, RemovedAt DEF DestroyDyn, CreateTagId
<1>6. UNCHANGED <<tuples, deferred, moved, mark>>
  BY DEF DestroyDyn
<1>7. /\ live' \in Seq(Nat) /\ Len(live') = Len(live) - 1
      /\ \A k \in 1..(Len(live) - 1) : live'[k] = IF k < i THEN live[k] ELSE live[k + 1]
  BY <1>1, <1>3, <1>5, RemoveAtIs
<1>8. /\ dyns' \in Seq(Tag) /\ Len(dyns') = Len(live) - 1
      /\ \A k \in 1..(Len(live) - 1) : dyns'[k] = IF k < i THEN dyns[k] ELSE dyns[k + 1]
  BY <1>1, <1>2, <1>5, RemoveAtIs
<1>9. DOMAIN live' = 1..(Len(live) - 1) /\ DOMAIN dyns' = 1..(Len(live) - 1)
  BY <1>7, <1>8, LenProperties
<1>10. Typed'
  BY <1>5, <1>6, <1>7, <1>8 DEF IInv, Typed
<1> DEFINE Old(k) == IF k < i THEN k ELSE k + 1
<1>11. \A k \in 1..(Len(live) - 1) :
          Old(k) \in DOMAIN live /\ live'[k] = live[Old(k)] /\ dyns'[k] = dyns[Old(k)]
  <2> SUFFICES ASSUME NEW k \in 1..(Len(live) - 1)
               PROVE  /\ Old(k) \in DOMAIN live
                      /\ live'[k] = live[Old(k)] /\ dyns'[k] = dyns[Old(k)]
    OBVIOUS
  <2>1. CASE k < i
    BY SMTT(30), <1>2, <1>3, <1>7, <1>8, <2>1
  <2>2. CASE ~ (k < i)
    BY <1>2, <1>3, <1>7, <1>8, <2>2
  <2> QED
    BY <2>1, <2>2
<1>12. \A k, j \in 1..(Len(live) - 1) : k < j => Old(k) < Old(j)
  BY <1>2, <1>3
<1> HIDE DEF Old
<1>13. LiveNamed'
  <2>1. \A k \in 1..(Len(live) - 1) : live'[k] \in DOMAIN ids' /\ ids'[live'[k]] = dyns'[k]
    BY <1>1, <1>5, <1>11 DEF Names
  <2>2. \A k, j \in 1..(Len(live) - 1) : k < j => live'[k] < live'[j]
    BY <1>1, <1>11, <1>12 DEF Ascending
  <2> QED
    BY <1>7, <1>8, <1>9, <2>1, <2>2 DEF LiveNamed, Names, Ascending
<1>14. Apart'
  <2>1. \A k \in DOMAIN dyns' : dyns'[k].loc \notin DeferredLoc
    BY <1>2, <1>9, <1>11 DEF IInv, Apart
  <2> QED
    BY <1>5, <1>6, <2>1 DEF IInv, Apart, Known
<1> QED
  BY <1>5, <1>6, <1>10, <1>13, <1>14
  DEF IInv, IdsDistinct, IdsOlder, MarkNamed, Names

LEMMA DestroyMovedStep ==
    ASSUME IInv, NEW i \in DOMAIN moved, DestroyMoved(i)
    PROVE  IInv'
<1>1. Known(moved[i]) /\ moved[i].loc \in DeferredLoc /\ moved \in Seq(Tag)
  BY DEF IInv, Apart, Typed
<1>2. ids[IdOf(moved[i])] = moved[i]
  BY <1>1, KnownId
<1>3. \A k \in DOMAIN live : live[k] # IdOf(moved[i])
  <2> SUFFICES ASSUME NEW k \in DOMAIN live, live[k] = IdOf(moved[i]) PROVE FALSE
    OBVIOUS
  <2>1. dyns[k] = moved[i] /\ k \in DOMAIN dyns
    BY <1>2, LenProperties DEF IInv, Typed, LiveNamed, Names
  <2> QED
    BY <1>1, <2>1 DEF IInv, Apart
<1>4. ids' = ids /\ live' = live /\ moved' = RemoveAt(moved, i)
  BY <1>1, <1>3, RemovedNone DEF DestroyMoved, CreateTagId
<1>5. UNCHANGED <<tuples, deferred, dyns, mark>>
  BY DEF DestroyMoved
<1>6. /\ moved' \in Seq(Tag) /\ Len(moved') = Len(moved) - 1
      /\ \A k \in 1..(Len(moved) - 1) : moved'[k] = IF k < i THEN moved[k] ELSE moved[k + 1]
  BY <1>1, <1>4, RemoveAtIs
<1>7. /\ Len(moved) \in Nat /\ DOMAIN moved = 1..Len(moved)
      /\ DOMAIN moved' = 1..(Len(moved) - 1)
  BY <1>1, <1>6, LenProperties
<1>8. Apart'
  <2>1. ASSUME NEW k \in DOMAIN moved' PROVE \E j \in DOMAIN moved : moved'[k] = moved[j]
    BY <1>6, <1>7
  <2> QED
    BY <1>4, <1>5, <2>1 DEF IInv, Apart, Known
<1> QED
  BY <1>4, <1>5, <1>6, <1>8
  DEF IInv, Typed, IdsDistinct, IdsOlder, LiveNamed, MarkNamed, Names, Ascending

LEMMA RestartStep ==
    ASSUME IInv, Restart
    PROVE  IInv'
<1>1. Len(<<>>) = 0 /\ DOMAIN <<>> = {}
  OBVIOUS
<1>2. Typed'
  BY DEF Restart, IInv, Typed
<1> QED
  BY <1>1, <1>2 DEF Restart, IInv, IdsDistinct, IdsOlder, LiveNamed, Apart, MarkNamed,
     Names, Ascending

LEMMA RememberStep ==
    ASSUME IInv, NEW l \in Loc, Remember(l)
    PROVE  IInv'
<1>1. mark'.tag = TagAt(l) /\ mark'.dyns = dyns
  BY DEF Remember, Moment
<1>2. TagAt(l) \in Tag /\ TagAt(l).live = live
  <2>1. deferred \in Seq(Value \union {Null})
    BY DEF IInv, Typed
  <2>2. Snapshot \in Seq(Value \union {Null})
    BY <2>1, ConcatProperties DEF IInv, Typed, Snapshot
  <2> QED
    BY <2>2 DEF TagAt, Tag, IInv, Typed
<1>3. UNCHANGED <<tuples, deferred, live, dyns, moved, ids>>
  BY DEF Remember
<1> QED
  BY <1>1, <1>2, <1>3
  DEF IInv, Typed, IdsDistinct, IdsOlder, LiveNamed, Apart, MarkNamed, Names,
      Ascending, Known

LEMMA IInvStep == IInv /\ [Next]_vars => IInv'
<1> SUFFICES ASSUME IInv, [Next]_vars PROVE IInv'
  OBVIOUS
<1>1. CASE \E v \in Value : NewStatic(v) \/ DeferStatic(v)
  BY <1>1, NewStaticStep
<1>2. CASE \E i \in DOMAIN Snapshot, v \in Value : Assign(i, v)
  BY <1>2, AssignStep
<1>3. CASE \E i \in DOMAIN tuples : DestroyStatic(i)
  BY <1>3, DestroyStaticStep
<1>4. CASE \E l \in Loc : NewDyn(l) \/ InitDeferred(l) \/ Remember(l)
  BY <1>4, NewDynStep, InitDeferredStep, RememberStep
<1>5. CASE \E i \in DOMAIN dyns : DestroyDyn(i)
  BY <1>5, DestroyDynStep
<1>6. CASE \E i \in DOMAIN moved : DestroyMoved(i)
  BY <1>6, DestroyMovedStep
<1>7. CASE Restart
  BY <1>7, RestartStep
<1>8. CASE UNCHANGED vars
  BY <1>8, StaticsStep DEF vars, IInv, Typed
<1> QED
  BY <1>1, <1>2, <1>3, <1>4, <1>5, <1>6, <1>7, <1>8 DEF Next

LEMMA Invariant == Spec => []IInv
BY IInvInit, IInvStep, PTL DEF Spec

-----------------------------------------------------------------------------
(* Holes *)

NoHoles(s) == \A i \in DOMAIN s : Alive(s[i])

\* As long as static_vars are destroyed last first there is no hole, neither now nor
\* in the tag that is remembered.
Solid == ordered => NoHoles(tuples) /\ NoHoles(mark.tag.statics)

HInv == TypeOK /\ Solid

LEMMA AliveValue == \A v \in Value : Alive(v)
BY ConstantsAssumption DEF Alive

LEMMA SnapshotIs ==
    ASSUME TypeOK
    PROVE  /\ Snapshot \in Seq(Value \union {Null})
           /\ NoHoles(tuples) => NoHoles(Snapshot)
<1>1. /\ tuples \in Seq(Value \union {Null}) /\ deferred \in Seq(Value)
      /\ deferred \in Seq(Value \union {Null})
  <2>1. Value \subseteq Value \union {Null}
    OBVIOUS
  <2> QED
    BY <2>1, SeqMonotonic DEF TypeOK
<1>2. /\ deferred \o tuples \in Seq(Value \union {Null})
      /\ Len(deferred \o tuples) = Len(deferred) + Len(tuples)
      /\ \A i \in 1..(Len(deferred) + Len(tuples)) :
            (deferred \o tuples)[i] = IF i <= Len(deferred) THEN deferred[i]
                                     ELSE tuples[i - Len(deferred)]
  BY <1>1, ConcatProperties
<1>3. /\ Len(deferred) \in Nat /\ Len(tuples) \in Nat /\ DOMAIN tuples = 1..Len(tuples)
      /\ \A i \in 1..Len(deferred) : deferred[i] \in Value
      /\ DOMAIN (deferred \o tuples) = 1..(Len(deferred) + Len(tuples))
  BY <1>1, <1>2, LenProperties, ElementOfSeq
<1>4. ASSUME NoHoles(tuples), NEW i \in 1..(Len(deferred) + Len(tuples))
      PROVE  Alive((deferred \o tuples)[i])
  <2>1. CASE i <= Len(deferred)
    <3>1. i \in 1..Len(deferred)
      BY <1>3, <2>1
    <3> QED
      BY <1>2, <1>3, <2>1, <3>1, AliveValue
  <2>2. CASE ~ (i <= Len(deferred))
    <3>1. i - Len(deferred) \in DOMAIN tuples
      BY <1>3, <2>2
    <3> QED
      BY <1>2, <1>4, <2>2, <3>1 DEF NoHoles
  <2> QED
    BY <2>1, <2>2
<1> QED
  BY <1>2, <1>3, <1>4 DEF Snapshot, NoHoles

\* What leaves the static_vars and the mark alone
LEMMA HolesKept ==
    ASSUME HInv, Typed', UNCHANGED <<tuples, mark, ordered>>
    PROVE  HInv'
BY DEF HInv, TypeOK, Typed, Solid, NoHoles

LEMMA HolesNewStatic ==
    ASSUME HInv, Typed', NEW v \in Value, NewStatic(v)
    PROVE  HInv'
<1>1. tuples \in Seq(Value \union {Null}) /\ v \in Value \union {Null}
  BY DEF HInv, TypeOK
<1>2. /\ Len(tuples) \in Nat /\ DOMAIN tuples = 1..Len(tuples)
      /\ Len(tuples') = Len(tuples) + 1 /\ DOMAIN tuples' = 1..(Len(tuples) + 1)
      /\ tuples'[Len(tuples) + 1] = v
      /\ \A i \in 1..Len(tuples) : tuples'[i] = tuples[i]
  BY <1>1, AppendProperties, LenProperties DEF NewStatic
<1>3. Alive(Last(tuples'))
  BY <1>2, AliveValue DEF Last
<1>4. ASSUME NoHoles(tuples), NEW i \in DOMAIN tuples' PROVE Alive(tuples'[i])
  <2>1. i = Len(tuples) + 1 \/ i \in 1..Len(tuples)
    BY <1>2
  <2> QED
    BY <1>2, <1>4, <2>1, AliveValue DEF NoHoles
<1>5. UNCHANGED <<mark, ordered>>
  BY DEF NewStatic
<1>6. TypeOK'
  BY <1>3, <1>5 DEF HInv, TypeOK, Typed
<1> QED
  BY <1>4, <1>5, <1>6 DEF HInv, Solid, NoHoles

LEMMA HolesAssign ==
    ASSUME HInv, Typed', NEW i \in DOMAIN Snapshot, NEW v \in Value, Assign(i, v)
    PROVE  HInv'
<1>1. CASE i \in DOMAIN deferred
  BY <1>1, HolesKept DEF Assign
<1>2. CASE i \notin DOMAIN deferred
  <2> DEFINE k == i - Len(deferred)
  <2>1. tuples' = [tuples EXCEPT ![k] = v] /\ UNCHANGED <<mark, ordered>>
    BY <1>2 DEF Assign
  <2>2. tuples \in Seq(Value \union {Null}) /\ tuples' \in Seq(Value \union {Null})
    BY DEF HInv, TypeOK, Typed
  <2>3. DOMAIN tuples' = DOMAIN tuples
    BY <2>1
  <2>4. Len(tuples') = Len(tuples)
    BY <2>2, <2>3, LenProperties
  <2>5. \A j \in DOMAIN tuples : Alive(tuples[j]) => Alive(tuples'[j])
    BY <2>1, <2>2, AliveValue
  <2>6. tuples' # <<>> => Alive(Last(tuples'))
    <3> SUFFICES ASSUME tuples' # <<>> PROVE Alive(tuples'[Len(tuples)])
      BY <2>4 DEF Last
    <3>1. tuples # <<>> /\ Len(tuples) \in DOMAIN tuples
      BY <2>2, <2>4, LenProperties, EmptySeq
    <3>2. Alive(tuples[Len(tuples)])
      BY <3>1 DEF HInv, TypeOK, Last
    <3> QED
      BY <2>5, <3>1, <3>2
  <2>7. TypeOK'
    BY <2>1, <2>6 DEF HInv, TypeOK, Typed
  <2> QED
    BY <2>1, <2>3, <2>5, <2>7 DEF HInv, Solid, NoHoles
<1> QED
  BY <1>1, <1>2

\* The destructor of the youngest static_var leaves no hole, whatever it leaves ends in
\* none.
LEMMA HolesDestroyStatic ==
    ASSUME HInv, Typed', NEW i \in DOMAIN tuples, DestroyStatic(i)
    PROVE  HInv'
<1> DEFINE s == [tuples EXCEPT ![i] = Null]
<1>1. /\ tuples' = Popped(s) /\ ordered' = (ordered /\ i = Len(tuples))
      /\ UNCHANGED mark
  BY DEF DestroyStatic
<1>2. tuples \in Seq(Value \union {Null})
  BY DEF HInv, TypeOK
<1>3. s \in Seq(Value \union {Null}) /\ DOMAIN s = DOMAIN tuples
  BY <1>2
<1>4. \A j \in DOMAIN tuples : j # i => s[j] = tuples[j]
  BY <1>2
<1>5. ~ Alive(s[i])
  BY <1>2 DEF Alive
<1> HIDE DEF s
<1>6. PICK k \in 0..Len(s) :
         /\ Popped(s) \in Seq(Value \union {Null}) /\ Len(Popped(s)) = k
         /\ \A j \in 1..k : Popped(s)[j] = s[j]
         /\ k > 0 => Alive(s[k])
  BY <1>3, PoppedIs
<1>7. Len(s) = Len(tuples) /\ Len(s) \in Nat /\ DOMAIN tuples = 1..Len(s)
  BY <1>2, <1>3, LenProperties
<1>8. tuples' # <<>> => Alive(Last(tuples'))
  <2> SUFFICES ASSUME tuples' # <<>> PROVE Alive(Popped(s)[k])
    BY <1>1, <1>6 DEF Last
  <2>1. k # 0
    BY <1>1, <1>6, EmptySeq
  <2>2. k \in 1..k /\ k > 0
    BY <1>7, <2>1
  <2> QED
    BY <1>6, <2>2
<1>9. ordered' \in BOOLEAN
  BY <1>1
<1>10. TypeOK'
  BY <1>1, <1>8, <1>9 DEF HInv, TypeOK, Typed
<1>11. ASSUME ordered' PROVE NoHoles(tuples')
  <2>1. ordered /\ i = Len(s) /\ NoHoles(tuples)
    BY <1>1, <1>7, <1>11 DEF HInv, Solid
  <2>2. k # i
    BY <1>5, <1>6, <1>7, <2>1
  <2>3. \A j \in 1..k : j \in DOMAIN tuples /\ j # i
    BY <1>7, <2>1, <2>2
  <2>4. DOMAIN tuples' = 1..k
    BY <1>1, <1>6, LenProperties
  <2> QED
    BY <1>1, <1>4, <1>6, <2>1, <2>3, <2>4 DEF NoHoles
<1> QED
  BY <1>1, <1>10, <1>11 DEF HInv, Solid

LEMMA HolesRemember ==
    ASSUME HInv, Typed', NEW l \in Loc, Remember(l)
    PROVE  HInv'
<1>1. mark' = Moment(l) /\ UNCHANGED <<tuples, deferred, ordered>>
  BY DEF Remember
<1>2. mark' = [tag |-> TagAt(l), dyns |-> dyns] /\ mark'.tag.statics = Snapshot
  BY <1>1 DEF Moment, TagAt
<1>3. mark'.tag \in Tag /\ mark'.dyns \in Seq(Tag)
  BY DEF Typed
<1>4. mark' \in [tag : Tag, dyns : Seq(Tag)]
  BY <1>2, <1>3
<1>5. TypeOK'
  BY <1>1, <1>4 DEF HInv, TypeOK, Typed
<1>6. ordered' => NoHoles(tuples') /\ NoHoles(mark'.tag.statics)
  BY <1>1, <1>2, SnapshotIs DEF HInv, Solid
<1> QED
  BY <1>5, <1>6 DEF HInv, Solid

LEMMA HInvInit == Init => HInv
<1> SUFFICES ASSUME Init PROVE HInv
  OBVIOUS
<1>1. tuples = <<>> /\ deferred = <<>> /\ ordered = TRUE /\ dyns = <<>>
  BY DEF Init
<1>2. PICK l \in Loc : mark = Moment(l)
  BY DEF Init
<1>3. mark = [tag |-> TagAt(l), dyns |-> <<>>] /\ mark.tag.statics = <<>>
  BY <1>1, <1>2 DEF Moment, TagAt, Snapshot
<1>4. Typed
  BY IInvInit DEF IInv
<1>5. mark \in [tag : Tag, dyns : Seq(Tag)]
  BY <1>3, <1>4 DEF Typed
<1>6. NoHoles(<<>>)
  BY DEF NoHoles
<1> QED
  BY <1>1, <1>3, <1>4, <1>5, <1>6 DEF HInv, TypeOK, Typed, Solid

LEMMA HInvStep == HInv /\ Typed' /\ [Next]_vars => HInv'
<1> SUFFICES ASSUME HInv, Typed', [Next]_vars PROVE HInv'
  OBVIOUS
<1>1. CASE \E v \in Value : NewStatic(v) \/ DeferStatic(v)
  BY <1>1, HolesNewStatic, HolesKept DEF DeferStatic
<1>2. CASE \E i \in DOMAIN Snapshot, v \in Value : Assign(i, v)
  BY <1>2, HolesAssign
<1>3. CASE \E i \in DOMAIN tuples : DestroyStatic(i)
  BY <1>3, HolesDestroyStatic
<1>4. CASE \E l \in Loc : NewDyn(l) \/ InitDeferred(l) \/ Remember(l)
  BY <1>4, HolesKept, HolesRemember DEF NewDyn, InitDeferred
<1>5. CASE \E i \in DOMAIN dyns : DestroyDyn(i)
  BY <1>5, HolesKept DEF DestroyDyn
<1>6. CASE \E i \in DOMAIN moved : DestroyMoved(i)
  BY <1>6, HolesKept DEF DestroyMoved
<1>7. CASE Restart
  <2>1. tuples' = <<>> /\ UNCHANGED <<mark, ordered>>
    BY <1>7 DEF Restart
  <2>2. NoHoles(<<>>)
    BY DEF NoHoles
  <2> QED
    BY <2>1, <2>2 DEF HInv, TypeOK, Typed, Solid
<1>8. CASE UNCHANGED vars
  BY <1>8, HolesKept DEF vars
<1> QED
  BY <1>1, <1>2, <1>3, <1>4, <1>5, <1>6, <1>7, <1>8 DEF Next

LEMMA HolesInvariant == Spec => []HInv
<1>1. IInv => Typed
  BY DEF IInv
<1> QED
  BY <1>1, HInvInit, HInvStep, Invariant, PTL DEF Spec

\* The values in a snapshot without holes
LEMMA ValuesAre ==
    ASSUME NEW S, NEW s \in Seq(S), NoHoles(s)
    PROVE  Values(s) = s
<1> DEFINE alive == {i \in DOMAIN s : Alive(s[i])}
           Place(k) == CHOOSE i \in alive : Cardinality({j \in alive : j <= i}) = k
<1>1. Len(s) \in Nat /\ DOMAIN s = 1..Len(s)
  BY LenProperties
<1>2. alive = 1..Len(s)
  BY <1>1 DEF NoHoles
<1>3. \A i \in 0..Len(s) : Cardinality(1..i) = i
  <2> TAKE i \in 0..Len(s)
  <2>1. 1 \in Int /\ i \in Int /\ i - 1 + 1 = i /\ ~ (1 > i /\ i # 0)
    BY <1>1
  <2>2. Cardinality(1..i) = IF 1 > i THEN 0 ELSE i - 1 + 1
    BY <2>1, FS_Interval
  <2> QED
    BY <1>1, <2>1, <2>2
<1>4. ASSUME NEW i \in 1..Len(s) PROVE Cardinality({j \in alive : j <= i}) = i
  <2>1. {j \in alive : j <= i} = 1..i
    BY <1>1, <1>2
  <2>2. Cardinality(1..i) = i
    BY <1>3, <1>1
  <2> QED
    BY <2>1, <2>2, Zenon
<1>5. Values(s) = [k \in 1..Len(s) |-> s[Place(k)]]
  <2>1. Cardinality(1..Len(s)) = Len(s)
    BY <1>1, <1>3
  <2>2. Cardinality(alive) = Len(s)
    BY <1>2, <2>1, Zenon
  <2> QED
    BY <2>2, Zenon DEF Values
<1> HIDE DEF alive
<1>6. ASSUME NEW k \in 1..Len(s) PROVE Place(k) = k
  <2>1. \A i \in alive : Cardinality({j \in alive : j <= i}) = k <=> i = k
    BY <1>2, <1>4
  <2> QED
    BY <1>2, <2>1
<1> HIDE DEF Place
<1> QED
  BY <1>1, <1>5, <1>6, LenProperties

-----------------------------------------------------------------------------
(* The theorems *)

\* live_dyn_vars has the ids of exactly the declared dyn_vars that are alive,
\* in the order of their declaration, whichever of them are destroyed when.
THEOREM LiveCorrect == Spec => []LiveTracked
<1>1. IInv => LiveTracked
  <2> SUFFICES ASSUME IInv PROVE LiveTracked
    OBVIOUS
  <2>1. \A i \in DOMAIN live : live[i] = IdOf(dyns[i])
    BY IdOfKnown DEF IInv, LiveNamed, Names
  <2> QED
    BY <2>1 DEF LiveTracked, IInv, LiveNamed, Names
<1> QED
  BY <1>1, Invariant, PTL

\* Two declared dyn_vars that are alive at once never have the same tag.
THEOREM DynsCorrect == Spec => []DistinctDyns
<1>1. IInv => DistinctDyns
  <2> SUFFICES ASSUME IInv, NEW i \in DOMAIN dyns, NEW j \in DOMAIN dyns,
                      dyns[i] = dyns[j], i # j
               PROVE  FALSE
    BY DEF DistinctDyns
  <2>1. /\ DOMAIN live = 1..Len(live) /\ DOMAIN dyns = 1..Len(live) /\ Len(live) \in Nat
        /\ \A k \in DOMAIN live : live[k] \in Nat
    BY LenProperties, ElementOfSeq DEF IInv, Typed, LiveNamed, Names
  <2>2. live[i] = live[j]
    BY <2>1 DEF IInv, IdsDistinct, LiveNamed, Names
  <2>3. i < j \/ j < i
    BY <2>1
  <2> QED
    BY <2>1, <2>2, <2>3 DEF IInv, LiveNamed, Ascending
<1> QED
  BY <1>1, Invariant, PTL

\* When a place has the tag it had at some earlier moment, of this or another
\* run, the declared dyn_vars alive are those that were alive then.
THEOREM SoundCorrect == Spec => []TagsSound
<1>1. IInv => TagsSound
  <2> SUFFICES ASSUME IInv, mark.tag = TagAt(mark.tag.loc) PROVE mark.dyns = dyns
    BY DEF TagsSound
  <2>1. mark.tag.live = live
    BY DEF TagAt
  <2>2. /\ Len(mark.dyns) = Len(live) /\ Len(dyns) = Len(live)
        /\ DOMAIN live = 1..Len(live)
        /\ \A i \in DOMAIN live : mark.dyns[i] = ids[live[i]] /\ dyns[i] = ids[live[i]]
    BY <2>1, LenProperties DEF IInv, Typed, LiveNamed, MarkNamed, Names
  <2>3. mark.dyns \in Seq(Tag) /\ dyns \in Seq(Tag)
    BY DEF IInv, Typed
  <2> QED
    BY <2>2, <2>3, SeqEqual
<1> QED
  BY <1>1, Invariant, PTL

\* Every variable has its type, and no snapshot ends in a hole, whichever static_vars
\* are destroyed when.
THEOREM TypeCorrect == Spec => []TypeOK
<1>1. HInv => TypeOK
  BY DEF HInv
<1> QED
  BY <1>1, HolesInvariant, PTL

\* If static_vars are destroyed last first, a moment that is as an earlier one, of
\* this or another run, has the tag of that moment.
THEOREM RecurCorrect == Spec => []TagsRecur
<1>1. IInv /\ HInv => TagsRecur
  <2> SUFFICES ASSUME IInv, HInv, ordered, Values(mark.tag.statics) = Values(Snapshot),
                      mark.dyns = dyns
               PROVE  mark.tag = TagAt(mark.tag.loc)
    BY DEF TagsRecur
  <2>1. mark.tag \in Tag
    BY DEF IInv, Typed
  <2>2. /\ mark.tag.statics \in Seq(Value \union {Null}) /\ mark.tag.live \in Seq(Nat)
        /\ mark.tag = [loc |-> mark.tag.loc, statics |-> mark.tag.statics,
                       live |-> mark.tag.live]
    BY <2>1 DEF Tag
  <2>3. mark.tag.statics = Snapshot
    <3>1. NoHoles(mark.tag.statics) /\ NoHoles(Snapshot)
      BY SnapshotIs DEF HInv, Solid
    <3>2. Snapshot \in Seq(Value \union {Null})
      BY SnapshotIs DEF HInv
    <3>3. Values(mark.tag.statics) = mark.tag.statics
      BY <2>2, <3>1, ValuesAre
    <3>4. Values(Snapshot) = Snapshot
      BY <3>1, <3>2, ValuesAre
    <3> QED
      BY <3>3, <3>4
  <2>4. mark.tag.live = live
    <3>1. live \in Seq(Nat) /\ Names(live, dyns) /\ Names(mark.tag.live, dyns)
      BY DEF IInv, Typed, LiveNamed, MarkNamed
    <3>2. /\ Len(live) = Len(mark.tag.live) /\ DOMAIN live = 1..Len(live)
          /\ DOMAIN mark.tag.live = 1..Len(live)
      BY <2>2, <3>1, LenProperties DEF Names
    <3>3. \A i \in 1..Len(live) : live[i] = mark.tag.live[i]
      BY <3>1, <3>2 DEF Names, IInv, IdsDistinct
    <3> QED
      BY <2>2, <3>1, <3>2, <3>3, SeqEqual
  <2> QED
    BY <2>2, <2>3, <2>4 DEF TagAt
<1> QED
  BY <1>1, Invariant, HolesInvariant, PTL
=============================================================================
