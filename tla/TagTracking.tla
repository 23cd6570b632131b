----------------------------- MODULE TagTracking -----------------------------
(***************************************************************************)
(* What static tags are made of.  A tag is taken at every operation of a   *)
(* dyn_var: the return addresses of the place, a snapshot of the tracked   *)
(* static_vars and the ids of the dyn_vars that are alive.  Ids come from  *)
(* a table of the whole invocation, everything else from the run.          *)
(*                                                                         *)
(* A static_var is the slot of static_var_tuples that points to it, and    *)
(* the slot holds its value; Null is the pointer its destructor leaves.    *)
(***************************************************************************)
EXTENDS SequencesExt

CONSTANTS
    Loc,          \* places of the staged function: return addresses
    DeferredLoc,  \* the places that call dyn_var::deferred_init(value)
    Value,        \* values of static_vars
    Null,         \* nullptr
    MaxStatics,   \* bound: static_vars, plain and deferred
    MaxDyns,      \* bound: dyn_vars in dyns and in moved
    MaxIds        \* bound: tags with an id

ASSUME ConstantsAssumption ==
    /\ DeferredLoc \subseteq Loc
    /\ Null \notin Value
    /\ {MaxStatics, MaxDyns, MaxIds} \subseteq Nat

VARIABLES
    tuples,    \* static_var_tuples
    deferred,  \* deferred_static_var_tuples
    live,      \* live_dyn_vars: ids, ascending
    dyns,      \* the live dyn_vars, oldest first: block_var->static_offset
    moved,     \* the live dyn_vars that deferred_init(value) gave a temporary's
    ids,       \* the tag factory: ids[i] is the tag with id i
    mark,      \* some moment of this or an earlier run, and the tag it had
    ordered    \* have static_vars always been destroyed last first?

vars == <<tuples, deferred, live, dyns, moved, ids, mark, ordered>>

Snapshot == deferred \o tuples

Tag == [loc : Loc, statics : Seq(Value \union {Null}), live : Seq(Nat)]

\* a mistake: the live dyn_vars are not part of a tag.
TagAtStatics(l) == [loc |-> l, statics |-> Snapshot, live |-> <<>>]

\* get_offset_in_function
TagAt(l) == [loc |-> l, statics |-> Snapshot, live |-> live]

Alive(value) == value # Null

\* What is to be known of the moment the staged function passes l.
Moment(l) == [tag |-> TagAt(l), dyns |-> dyns]

\* The values in a snapshot, without its holes: all that the staged function can
\* tell of its static_vars.
Values(s) ==
    LET alive == {i \in DOMAIN s : Alive(s[i])}
        Place(k) == CHOOSE i \in alive : Cardinality({j \in alive : j <= i}) = k
    IN  [k \in 1..Cardinality(alive) |-> s[Place(k)]]

-----------------------------------------------------------------------------
(* The tag factory, and the sorted vector of live ids *)

Known(t) == \E i \in DOMAIN ids : ids[i] = t

IdOf(t) == IF Known(t) THEN CHOOSE i \in DOMAIN ids : ids[i] = t ELSE Len(ids) + 1

CreateTagId(t) == ids' = IF Known(t) THEN ids ELSE Append(ids, t)

LowerBound(s, n) == Cardinality({i \in DOMAIN s : s[i] < n}) + 1

\* push_back and sort
Inserted(s, n) == InsertAt(s, LowerBound(s, n), n)

\* a mistake: the youngest is taken for the one that is destroyed.
RemovedYoungest(s, n) == IF s = <<>> THEN s ELSE Front(s)

Removed(s, n) == LET k == LowerBound(s, n)
                 IN IF k \in DOMAIN s /\ s[k] = n THEN RemoveAt(s, k) ELSE s

-----------------------------------------------------------------------------
Init ==
    /\ tuples = <<>> /\ deferred = <<>>
    /\ live = <<>> /\ dyns = <<>> /\ moved = <<>> /\ ids = <<>>
    /\ mark \in {Moment(l) : l \in Loc}
    /\ ordered = TRUE

NewStatic(v) ==
    /\ Len(Snapshot) < MaxStatics
    /\ tuples' = Append(tuples, v)
    /\ UNCHANGED <<deferred, live, dyns, moved, ids, mark, ordered>>

\* static_var::deferred_init: never untracked.
DeferStatic(v) ==
    /\ Len(Snapshot) < MaxStatics
    /\ deferred' = Append(deferred, v)
    /\ UNCHANGED <<tuples, live, dyns, moved, ids, mark, ordered>>

\* The staged function assigns a static_var.
Assign(i, v) ==
    /\ Alive(Snapshot[i]) /\ Snapshot[i] # v
    /\ IF i \in DOMAIN deferred
       THEN deferred' = [deferred EXCEPT ![i] = v] /\ UNCHANGED tuples
       ELSE tuples' = [tuples EXCEPT ![i - Len(deferred)] = v] /\ UNCHANGED deferred
    /\ UNCHANGED <<live, dyns, moved, ids, mark, ordered>>

\* a mistake: the trailing nullptrs stay.
PoppedNone(s) == s

\* The trailing nullptrs are popped.
Popped(s) == SubSeq(s, 1, CHOOSE n \in 0..Len(s) :
                              /\ n > 0 => Alive(s[n])
                              /\ \A i \in (n + 1)..Len(s) : ~ Alive(s[i]))

DestroyStatic(i) ==
    /\ Alive(tuples[i])
    /\ tuples' = Popped([tuples EXCEPT ![i] = Null])
    /\ ordered' = (ordered /\ i = Len(tuples))
    /\ UNCHANGED <<deferred, live, dyns, moved, ids, mark>>

\* create_block_var of a standalone variable
NewDyn(l) ==
    LET t == TagAt(l) IN
    /\ l \notin DeferredLoc /\ Len(dyns \o moved) < MaxDyns
    /\ Known(t) \/ Len(ids) < MaxIds
    /\ CreateTagId(t)
    /\ live' = Inserted(live, IdOf(t))
    /\ dyns' = Append(dyns, t)
    /\ UNCHANGED <<tuples, deferred, moved, mark, ordered>>

\* deferred_init(value): a temporary is created, moved from, and destroyed.
InitDeferred(l) ==
    LET t == TagAt(l) IN
    /\ l \in DeferredLoc /\ Len(dyns \o moved) < MaxDyns
    /\ Known(t) \/ Len(ids) < MaxIds
    /\ CreateTagId(t)
    /\ live' = Removed(Inserted(live, IdOf(t)), IdOf(t))
    /\ moved' = Append(moved, t)
    /\ UNCHANGED <<tuples, deferred, dyns, mark, ordered>>

\* ~dyn_var_impl, in any order: dyn_vars may be on the heap.
DestroyDyn(i) ==
    /\ CreateTagId(dyns[i])
    /\ live' = Removed(live, IdOf(dyns[i]))
    /\ dyns' = RemoveAt(dyns, i)
    /\ UNCHANGED <<tuples, deferred, moved, mark, ordered>>

DestroyMoved(i) ==
    /\ CreateTagId(moved[i])
    /\ live' = Removed(live, IdOf(moved[i]))
    /\ moved' = RemoveAt(moved, i)
    /\ UNCHANGED <<tuples, deferred, dyns, mark, ordered>>

\* a mistake: every run has a tag factory of its own.
RestartFactory ==
    /\ tuples' = <<>> /\ deferred' = <<>> /\ live' = <<>> /\ dyns' = <<>> /\ moved' = <<>>
    /\ ids' = <<>> /\ UNCHANGED <<mark, ordered>>

\* The run ends: its variables are destroyed and the next run_state is new.
Restart ==
    /\ tuples' = <<>> /\ deferred' = <<>> /\ live' = <<>> /\ dyns' = <<>> /\ moved' = <<>>
    /\ UNCHANGED <<ids, mark, ordered>>

Remember(l) ==
    /\ mark' = Moment(l)
    /\ UNCHANGED <<tuples, deferred, live, dyns, moved, ids, ordered>>

Next ==
    \/ \E v \in Value : NewStatic(v) \/ DeferStatic(v)
    \/ \E i \in DOMAIN Snapshot, v \in Value : Assign(i, v)
    \/ \E i \in DOMAIN tuples : DestroyStatic(i)
    \/ \E l \in Loc : NewDyn(l) \/ InitDeferred(l) \/ Remember(l)
    \/ \E i \in DOMAIN dyns : DestroyDyn(i)
    \/ \E i \in DOMAIN moved : DestroyMoved(i)
    \/ Restart

Spec == Init /\ [][Next]_vars

-----------------------------------------------------------------------------
(* Properties *)

\* Types; and no snapshot ends in a hole: the destructor clears the trailing
\* nullptrs, also those an earlier one left (static_var.h:137-140).
TypeOK ==
    /\ tuples \in Seq(Value \union {Null})
    /\ tuples # <<>> => Alive(Last(tuples))
    /\ deferred \in Seq(Value)
    /\ live \in Seq(Nat)
    /\ dyns \in Seq(Tag) /\ moved \in Seq(Tag)
    /\ ids \in Seq(Tag)
    /\ mark \in [tag : Tag, dyns : Seq(Tag)]
    /\ ordered \in BOOLEAN

\* live_dyn_vars holds the ids of the declared dyn_vars that are alive, each
\* once and no other, oldest first although the vector is sorted: an id is
\* never smaller than those that were alive when it was given.
LiveTracked ==
    /\ Len(live) = Len(dyns)
    /\ \A i \in DOMAIN live : live[i] = IdOf(dyns[i])

\* Two declared dyn_vars that are alive at once never have one tag, whatever loop or
\* function declares them: var_namer takes variables with one tag for one.
DistinctDyns == \A i, j \in DOMAIN dyns : dyns[i] = dyns[j] => i = j

\* Equal tags mean equal variables: when the tag of some place is the one that
\* was taken there before, maybe in another run, the dyn_vars alive are those
\* that were alive then, each declared at the same place and under the same
\* static values.  Loop-back and memoization rest on this.
TagsSound == mark.tag = TagAt(mark.tag.loc) => mark.dyns = dyns

\* The converse: a moment that is as an earlier one, of this or another run,
\* has the tag of that moment.  A loop whose static_vars return to what they
\* were is recognised, so its extraction ends.  This needs static_vars that are
\* destroyed last first: one that is made before the one it takes the place of
\* is destroyed leaves a hole in front of it.
TagsRecur ==
    ordered /\ Values(mark.tag.statics) = Values(Snapshot) /\ mark.dyns = dyns
        => mark.tag = TagAt(mark.tag.loc)

\* tag::operator==, comparing snapshots one by one until two differ, meets a
\* nullptr of its argument at i where its own snapshot is not null.
NullCompared(t, u, i) ==
    /\ t.loc = u.loc /\ Len(t.statics) = Len(u.statics)
    /\ \A j \in 1..(i - 1) : t.statics[j] = u.statics[j]
    /\ Alive(t.statics[i]) /\ ~ Alive(u.statics[i])

\* Comparing a tag taken before (left) with the present one (right), as
\* add_stmt_to_current_block does, never compares a snapshot with a nullptr
\* (the comment at tracer.cpp:142).
ComparesSafely ==
    \A i \in DOMAIN mark.tag.statics : ~ NullCompared(mark.tag, TagAt(mark.tag.loc), i)

=============================================================================
