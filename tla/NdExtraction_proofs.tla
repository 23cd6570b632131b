------------------------- MODULE NdExtraction_proofs -------------------------
(***************************************************************************)
(* Proofs about extraction with nd_vars and about the arena, for all       *)
(* staged functions, places of nd_vars, types and sizes of a chunk.  The   *)
(* value of an nd_var is either made, where nothing has been read of it,   *)
(* or changed, and then all that was read is given up.                     *)
(***************************************************************************)
EXTENDS NdExtraction, SequenceTheorems, TLAPS

\* No list has more objects than its chunks hold.
ArenaFits == \A t \in Type : used[t] <= chunks[t] * PerChunk

IInv == TypeOK /\ GuessesHold /\ ArenaHolds /\ ArenaFits

-----------------------------------------------------------------------------
(* Instructions and nd_vars *)

LEMMA InstrTyped ==
    ASSUME TypeOK, pc \in DOMAIN program
    PROVE  Instr \in Instruction
<1>1. program \in Seq(Instruction)
  BY DEF TypeOK
<1> QED
  BY <1>1, ElementOfSeq DEF Instr

LEMMA Operands ==
    ASSUME TypeOK
    PROVE  /\ At("read") => Instr.tag \in Tag
           /\ At("require") => Instr.tag \in Tag /\ Instr.value \in BOOLEAN
           /\ At("dyn") => Instr.type \in Type
<1> SUFFICES ASSUME pc \in DOMAIN program
             PROVE  /\ Instr.op = "read" => Instr.tag \in Tag
                    /\ Instr.op = "require" => Instr.tag \in Tag /\ Instr.value \in BOOLEAN
                    /\ Instr.op = "dyn" => Instr.type \in Type
  BY DEF At, Instr
<1>1. Instr \in Instruction
  BY InstrTyped
<1> QED
  BY <1>1 DEF Instruction

\* Constructing an nd_var changes no other and, once it exists, not even itself.
LEMMA WithVarKeeps ==
    ASSUME TypeOK, NEW tag \in Tag
    PROVE  /\ DOMAIN WithVar(tag) = DOMAIN nd \cup {tag}
           /\ DOMAIN nd \cup {tag} \in SUBSET Tag
           /\ WithVar(tag) \in [DOMAIN nd \cup {tag} -> BOOLEAN]
           /\ \A t \in DOMAIN nd : WithVar(tag)[t] = nd[t]
<1>1. DOMAIN nd \subseteq Tag /\ \A t \in DOMAIN nd : nd[t] \in BOOLEAN
  BY DEF TypeOK
<1>2. \A t \in Tag : Initially[t] \in BOOLEAN
  BY ConstantsAssumption
<1> QED
  BY <1>1, <1>2 DEF WithVar

-----------------------------------------------------------------------------
(* The arena *)

LEMMA Room ==
    ASSUME NEW c \in Nat, NEW n \in Nat
    PROVE  (c + 1) * n = c * n + n
OBVIOUS

LEMMA AllocateHolds ==
    ASSUME TypeOK, ArenaHolds, ArenaFits, NEW type \in Type, Allocate(type)
    PROVE  /\ chunks' \in [Type -> Nat] /\ used' \in [Type -> Nat]
           /\ alive' \subseteq [type : Type, index : Nat]
           /\ ArenaHolds' /\ ArenaFits'
<1>1. /\ chunks \in [Type -> Nat] /\ used \in [Type -> Nat]
      /\ alive \subseteq [type : Type, index : Nat]
      /\ PerChunk \in Nat \ {0}
  BY ConstantsAssumption DEF TypeOK
<1>2. chunks' \in [Type -> Nat] /\ used' \in [Type -> Nat]
  BY <1>1 DEF Allocate
<1>3. alive' \subseteq [type : Type, index : Nat]
  BY <1>1 DEF Allocate
<1>4. used'[type] = used[type] + 1 /\ \A t \in Type \ {type} : used'[t] = used[t] /\ chunks'[t] = chunks[t]
  BY <1>1 DEF Allocate
<1>5. used'[type] <= chunks'[type] * PerChunk
  <2>1. CASE IsFull(type)
    <3>1. chunks'[type] = chunks[type] + 1
      BY <1>1, <2>1 DEF Allocate
    <3>2. chunks'[type] * PerChunk = chunks[type] * PerChunk + PerChunk
      BY <1>1, <3>1, Room
    <3>3. chunks[type] * PerChunk \in Nat /\ used[type] = chunks[type] * PerChunk
      BY <1>1, <2>1 DEF IsFull
    <3> QED
      BY <1>1, <1>4, <3>2, <3>3
  <2>2. CASE ~IsFull(type)
    <3>1. chunks'[type] = chunks[type]
      BY <2>2 DEF Allocate
    <3>2. used[type] <= chunks[type] * PerChunk /\ used[type] # chunks[type] * PerChunk
      BY <2>2 DEF IsFull, ArenaFits
    <3>3. chunks[type] * PerChunk \in Nat /\ used[type] \in Nat
      BY <1>1
    <3> QED
      BY <1>4, <3>1, <3>2, <3>3
  <2> QED
    BY <2>1, <2>2
<1>6. ArenaFits'
  BY <1>4, <1>5 DEF ArenaFits
<1>7. ArenaHolds'
  <2> SUFFICES ASSUME NEW o \in alive'
               PROVE  o.index < used'[o.type]
    BY <1>3, <1>6 DEF ArenaHolds, ArenaFits
  <2>1. CASE o \in alive
    <3>1. o.index < used[o.type] /\ o.type \in Type /\ o.index \in Nat
      BY <1>1, <2>1 DEF ArenaHolds
    <3>2. used'[o.type] \in Nat /\ used[o.type] \in Nat /\ used[o.type] <= used'[o.type]
      BY <1>1, <1>2, <1>4, <3>1
    <3> QED
      BY <3>1, <3>2
  <2>2. CASE o = [type |-> type, index |-> used[type]]
    BY <1>1, <1>4, <2>2
  <2> QED
    BY <2>1, <2>2 DEF Allocate
<1> QED
  BY <1>2, <1>3, <1>6, <1>7

LEMMA ResetHolds ==
    ASSUME TypeOK, ArenaHolds, ArenaFits, ResetArena
    PROVE  /\ chunks' \in [Type -> Nat] /\ used' \in [Type -> Nat]
           /\ alive' = {} /\ ArenaHolds' /\ ArenaFits'
<1>1. /\ chunks \in [Type -> Nat] /\ used \in [Type -> Nat]
      /\ alive \subseteq [type : Type, index : Nat]
      /\ PerChunk \in Nat \ {0}
  BY ConstantsAssumption DEF TypeOK
<1>2. chunks' = chunks /\ used' = [t \in Type |-> 0]
  BY DEF ResetArena
<1>3. alive' = {}
  <2> SUFFICES ASSUME NEW o \in alive, o.index >= used[o.type] PROVE FALSE
    BY DEF ResetArena
  <2>1. o.index < used[o.type] /\ o.index \in Nat /\ used[o.type] \in Nat
    BY <1>1 DEF ArenaHolds
  <2> QED
    BY <2>1
<1>4. ArenaFits'
  <2> SUFFICES ASSUME NEW t \in Type PROVE used'[t] <= chunks'[t] * PerChunk
    BY DEF ArenaFits
  <2>1. chunks[t] * PerChunk \in Nat
    BY <1>1
  <2> QED
    BY <1>2, <2>1
<1> QED
  BY <1>1, <1>2, <1>3, <1>4 DEF ArenaHolds

-----------------------------------------------------------------------------
(* The invariant *)

LEMMA InitHolds == Init => IInv
<1> SUFFICES ASSUME Init PROVE IInv
  OBVIOUS
<1>1. TypeOK
  <2>1. program \in Seq(Instruction)
    BY ProgramsAssumption DEF Init
  <2>2. {} \in SUBSET Tag /\ nd \in [{} -> BOOLEAN]
    BY DEF Init
  <2>3. pending \in Seq(Seq(BOOLEAN)) /\ way \in Seq(BOOLEAN)
    BY DEF Init, Start
  <2> QED
    BY <2>1, <2>2, <2>3 DEF Init, TypeOK, NoRun
<1>2. ArenaFits
  BY ConstantsAssumption DEF Init, ArenaFits
<1> QED
  BY <1>1, <1>2 DEF Init, IInv, GuessesHold, ArenaHolds

LEMMA NextPc ==
    ASSUME TypeOK, NEW op, At(op), NEW taken, Skip(taken)
    PROVE  pc' \in Nat /\ pc # NoRun /\ pending # <<>>
<1>1. program \in Seq(Instruction) /\ pc \in DOMAIN program /\ pc \in Nat
  BY DEF TypeOK, At
<1>2. pc # 0
  BY <1>1
<1> QED
  BY <1>1, <1>2 DEF Skip, TypeOK, NoRun

LEMMA StartRunHolds == IInv /\ StartRun => IInv'
<1> SUFFICES ASSUME IInv, StartRun PROVE IInv'
  OBVIOUS
<1>1. pending \in Seq(Seq(BOOLEAN)) /\ pending # <<>>
  BY DEF IInv, TypeOK, StartRun
<1>2. Head(pending) \in Seq(BOOLEAN)
  BY <1>1, HeadTailProperties
<1>3. TypeOK'
  BY <1>1, <1>2 DEF IInv, TypeOK, StartRun, arena
<1> QED
  BY <1>3 DEF IInv, StartRun, arena, GuessesHold, ArenaHolds, ArenaFits, Checks

LEMMA ReadHolds == IInv /\ Read => IInv'
<1> SUFFICES ASSUME IInv, Read PROVE IInv'
  OBVIOUS
<1> DEFINE tag == Instr.tag
<1>1. tag \in Tag /\ TypeOK
  BY Operands DEF IInv, Read
<1>2. /\ DOMAIN nd' = DOMAIN nd \cup {tag} /\ DOMAIN nd' \in SUBSET Tag
      /\ nd' \in [DOMAIN nd' -> BOOLEAN]
      /\ \A t \in DOMAIN nd : nd'[t] = nd[t]
  BY <1>1, WithVarKeeps DEF Read
<1>3. read' = read \cup {<<tag, nd'[tag]>>}
  BY DEF Read
<1>4. TypeOK'
  <2>1. pc' \in Nat /\ pending # <<>>
    BY <1>1, NextPc DEF Read
  <2>2. read' \subseteq Tag \X BOOLEAN
    BY <1>1, <1>2, <1>3 DEF TypeOK
  <2>3. \E known \in SUBSET Tag : nd' \in [known -> BOOLEAN]
    BY <1>2
  <2> QED
    BY <1>1, <2>1, <2>2, <2>3 DEF TypeOK, Read, arena
<1>5. GuessesHold'
  BY <1>2, <1>3 DEF IInv, GuessesHold, Read, Checks
<1> QED
  BY <1>4, <1>5 DEF IInv, Read, arena, ArenaHolds, ArenaFits

LEMMA RequireHolds == IInv /\ Require => IInv'
<1> SUFFICES ASSUME IInv, Require PROVE IInv'
  OBVIOUS
<1> DEFINE tag == Instr.tag
<1>1. tag \in Tag /\ Instr.value \in BOOLEAN /\ TypeOK
  BY Operands DEF IInv, Require
<1>2. /\ DOMAIN nd' = DOMAIN nd \cup {tag} /\ DOMAIN nd' \in SUBSET Tag
      /\ nd' \in [DOMAIN nd' -> BOOLEAN]
      /\ \A t \in DOMAIN nd : nd'[t] = nd[t]
  BY <1>1, WithVarKeeps DEF Require
<1>3. required' = required \cup {<<tag, Instr.value>>} /\ Checks(nd'[tag], Instr.value)
  BY DEF Require
<1>4. TypeOK'
  <2>1. pc' \in Nat /\ pending # <<>>
    BY <1>1, NextPc DEF Require, Skip
  <2>2. required' \subseteq Tag \X BOOLEAN
    BY <1>1, <1>3 DEF TypeOK
  <2>3. \E known \in SUBSET Tag : nd' \in [known -> BOOLEAN]
    BY <1>2
  <2> QED
    BY <1>1, <2>1, <2>2, <2>3 DEF TypeOK, Require, arena
<1>5. GuessesHold'
  <2>1. \A r \in read' : r[1] \in DOMAIN nd' /\ nd'[r[1]] = r[2]
    BY <1>2 DEF IInv, GuessesHold, Require
  <2>2. \A r \in required' : r[1] \in DOMAIN nd' /\ Checks(nd'[r[1]], r[2])
    <3> SUFFICES ASSUME NEW r \in required'
                 PROVE  r[1] \in DOMAIN nd' /\ Checks(nd'[r[1]], r[2])
      OBVIOUS
    <3>1. CASE r \in required
      BY <1>2, <3>1 DEF IInv, GuessesHold, Checks
    <3>2. CASE r = <<tag, Instr.value>>
      BY <1>2, <1>3, <3>2 DEF Checks
    <3> QED
      BY <1>3, <3>1, <3>2
  <2> QED
    BY <2>1, <2>2 DEF GuessesHold
<1> QED
  BY <1>4, <1>5 DEF IInv, Require, arena, ArenaHolds, ArenaFits

\* Everything that was read with the old value has been given up.
LEMMA FailHolds == IInv /\ Fail => IInv'
<1> SUFFICES ASSUME IInv, Fail PROVE IInv'
  OBVIOUS
<1> DEFINE tag == Instr.tag
           known == DOMAIN nd \cup {tag}
<1>1. tag \in Tag /\ Instr.value \in BOOLEAN /\ TypeOK
  BY Operands DEF IInv, Fail
<1>2. known \in SUBSET Tag /\ WithVar(tag) \in [known -> BOOLEAN]
  BY <1>1, WithVarKeeps
<1>3. nd' \in [known -> BOOLEAN]
  BY <1>1, <1>2 DEF Fail
<1>4. pending' \in Seq(Seq(BOOLEAN)) /\ way' \in Seq(BOOLEAN)
  BY DEF Fail, Restart, Start
<1>5. TypeOK'
  BY <1>1, <1>2, <1>3, <1>4 DEF TypeOK, Fail, Restart, NoRun, arena
<1>6. GuessesHold'
  BY DEF GuessesHold, Fail, Restart
<1> QED
  BY <1>5, <1>6 DEF IInv, Fail, arena, ArenaHolds, ArenaFits

LEMMA DynHolds == IInv /\ Dyn => IInv'
<1> SUFFICES ASSUME IInv, Dyn PROVE IInv'
  OBVIOUS
<1>1. Instr.type \in Type /\ TypeOK
  BY Operands DEF IInv, Dyn
<1>2. /\ chunks' \in [Type -> Nat] /\ used' \in [Type -> Nat]
      /\ alive' \subseteq [type : Type, index : Nat] /\ ArenaHolds' /\ ArenaFits'
  BY <1>1, AllocateHolds DEF IInv, Dyn
<1>3. pc' \in Nat /\ pending # <<>>
  BY <1>1, NextPc DEF Dyn, Skip
<1>4. TypeOK'
  BY <1>1, <1>2, <1>3 DEF TypeOK, Dyn
<1>5. GuessesHold'
  BY DEF IInv, GuessesHold, Dyn, Checks
<1> QED
  BY <1>2, <1>4, <1>5 DEF IInv

LEMMA TestHolds == IInv /\ Test => IInv'
<1> SUFFICES ASSUME IInv, Test PROVE IInv'
  OBVIOUS
<1>1. TestedType \in Type /\ TypeOK
  BY ConstantsAssumption DEF IInv
<1>2. /\ chunks' \in [Type -> Nat] /\ used' \in [Type -> Nat]
      /\ alive' \subseteq [type : Type, index : Nat] /\ ArenaHolds' /\ ArenaFits'
  BY <1>1, AllocateHolds DEF IInv, Test
<1>3. pc' \in Nat /\ pending # <<>>
  BY <1>1, NextPc DEF Test
<1>4. Tail(way) \in Seq(BOOLEAN)
  BY <1>1, HeadTailProperties DEF TypeOK, Test
<1>5. TypeOK'
  BY <1>1, <1>2, <1>3, <1>4 DEF TypeOK, Test
<1>6. GuessesHold'
  BY DEF IInv, GuessesHold, Test, Checks
<1> QED
  BY <1>2, <1>5, <1>6 DEF IInv

LEMMA ForkHolds == IInv /\ Fork => IInv'
<1> SUFFICES ASSUME IInv, Fork PROVE IInv'
  OBVIOUS
<1>1. TypeOK /\ ArenaHolds /\ ArenaFits
  BY DEF IInv
<1>2. /\ chunks' \in [Type -> Nat] /\ used' \in [Type -> Nat]
      /\ alive' = {} /\ ArenaHolds' /\ ArenaFits'
  BY <1>1, ResetHolds DEF Fork
<1>3. pending # <<>> /\ pending \in Seq(Seq(BOOLEAN))
  <2>1. pc # NoRun
    BY <1>1 DEF Fork, At, NoRun, TypeOK
  <2> QED
    BY <1>1, <2>1 DEF TypeOK
<1>4. Head(pending) \in Seq(BOOLEAN) /\ Tail(pending) \in Seq(Seq(BOOLEAN))
  BY <1>3, HeadTailProperties
<1>5. Append(Head(pending), TRUE) \in Seq(BOOLEAN) /\ Append(Head(pending), FALSE) \in Seq(BOOLEAN)
  BY <1>4, AppendProperties
<1>6. pending' \in Seq(Seq(BOOLEAN))
  BY <1>4, <1>5, ConcatProperties DEF Fork, Forked
<1>7. TypeOK'
  BY <1>1, <1>2, <1>6 DEF TypeOK, Fork, NoRun
<1>8. GuessesHold'
  BY DEF IInv, GuessesHold, Fork, Checks
<1> QED
  BY <1>2, <1>7, <1>8 DEF IInv

LEMMA FinishHolds == IInv /\ Finish => IInv'
<1> SUFFICES ASSUME IInv, Finish PROVE IInv'
  OBVIOUS
<1>1. TypeOK /\ ArenaHolds /\ ArenaFits
  BY DEF IInv
<1>2. /\ chunks' \in [Type -> Nat] /\ used' \in [Type -> Nat]
      /\ alive' = {} /\ ArenaHolds' /\ ArenaFits'
  BY <1>1, ResetHolds DEF Finish
<1>3. pending # <<>> /\ pending \in Seq(Seq(BOOLEAN))
  BY <1>1 DEF TypeOK, Finish
<1>4. pending' \in Seq(Seq(BOOLEAN))
  BY <1>3, HeadTailProperties DEF Finish, RunsLeft
<1>5. TypeOK'
  BY <1>1, <1>2, <1>4 DEF TypeOK, Finish, NoRun
<1>6. GuessesHold'
  BY DEF IInv, GuessesHold, Finish, Checks
<1> QED
  BY <1>2, <1>5, <1>6 DEF IInv

LEMMA StutterHolds == IInv /\ UNCHANGED vars => IInv'
BY DEF IInv, vars, TypeOK, GuessesHold, Checks, ArenaHolds, ArenaFits

LEMMA Inductive == Spec => []IInv
<1>1. IInv /\ [Next]_vars => IInv'
  BY StartRunHolds, ReadHolds, RequireHolds, FailHolds, DynHolds, TestHolds,
     ForkHolds, FinishHolds, StutterHolds DEF Next
<1> QED
  BY InitHolds, <1>1, PTL DEF Spec

-----------------------------------------------------------------------------
(* The theorems *)

\* The variables of extract_function_ast_impl with nd_vars keep their types.
THEOREM NdTypeCorrect == Spec => []TypeOK
<1>1. IInv => TypeOK
  BY DEF IInv
<1> QED
  BY Inductive, <1>1, PTL

\* All paths of an attempt were staged with the guesses the attempt has, for
\* every staged function (true_top::check, the restart in
\* extract_function_ast_impl).
THEOREM GuessesCorrect == Spec => []GuessesHold
<1>1. IInv => GuessesHold
  BY DEF IInv
<1> QED
  BY Inductive, <1>1, PTL

\* The objects of dyn_arena are in chunks that exist and are destroyed before
\* they are forgotten, also when an attempt ends without reset_arena.
THEOREM ArenaCorrect == Spec => []ArenaHolds
<1>1. IInv => ArenaHolds
  BY DEF IInv
<1> QED
  BY Inductive, <1>1, PTL

\* nd_state_map is monotone (true_top::merge, get_or_create_generator).
THEOREM GuessesUpCorrect == Spec => GuessesGoUp
<1> DEFINE Up == \A t \in DOMAIN nd : t \in DOMAIN nd' /\ (nd[t] => nd'[t])
<1>1. TypeOK /\ Next => Up
  <2> SUFFICES ASSUME TypeOK, Next PROVE Up
    OBVIOUS
  <2>1. CASE Read
    BY <2>1, Operands, WithVarKeeps DEF Read
  <2>2. CASE Require
    BY <2>2, Operands, WithVarKeeps DEF Require
  <2>3. CASE Fail
    <3>1. Instr.tag \in Tag
      BY <2>3, Operands DEF Fail
    <3>2. /\ DOMAIN WithVar(Instr.tag) = DOMAIN nd \cup {Instr.tag}
          /\ \A t \in DOMAIN nd : WithVar(Instr.tag)[t] = nd[t]
      BY <3>1, WithVarKeeps
    <3> QED
      BY <2>3, <3>2 DEF Fail
  <2>4. CASE UNCHANGED nd
    BY <2>4
  <2> QED
    BY <2>1, <2>2, <2>3, <2>4 DEF Next, StartRun, Dyn, Test, Fork, Finish
<1>2. TypeOK /\ [Next]_vars => [Up]_vars
  BY <1>1
<1> QED
  BY NdTypeCorrect, <1>2, PTL DEF Spec, GuessesGoUp

\* dyn_arena::allocate never hands out the place of a dyn_var that is alive.
THEOREM AllocationCorrect == Spec => AllocatesFresh
<1> DEFINE Fresh == \A t \in Type : used'[t] > used[t] =>
                        [type |-> t, index |-> used[t]] \notin alive
<1>1. IInv => \A t \in Type : [type |-> t, index |-> used[t]] \notin alive
  <2> SUFFICES ASSUME IInv, NEW t \in Type, [type |-> t, index |-> used[t]] \in alive
               PROVE  FALSE
    OBVIOUS
  <2>1. used[t] < used[t] /\ used[t] \in Nat
    BY DEF IInv, ArenaHolds, TypeOK
  <2> QED
    BY <2>1
<1>2. IInv /\ [Next]_vars => [Fresh]_vars
  BY <1>1
<1> QED
  BY Inductive, <1>2, PTL DEF Spec, AllocatesFresh
=============================================================================
