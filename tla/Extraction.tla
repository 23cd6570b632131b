----------------------------- MODULE Extraction -----------------------------
(***************************************************************************)
(* The extraction engine of BuildIt (src/src/builder/builder_context.cpp,  *)
(* src/src/builder/run_states.cpp): it turns a staged function into an AST *)
(* by running the function again and again.  A run that asks for a branch  *)
(* it has no answer for ends; the engine then runs the function twice      *)
(* more, once for each answer, every run starting again at the entry and   *)
(* replaying ("catching up") the answers of the runs it descends from.     *)
(* A run that comes back to a tag it has visited ends in a goto; a run     *)
(* that reaches a tag another run has already extracted ends by copying    *)
(* the statements that follow that tag.                                    *)
(*                                                                         *)
(* The C++ recursion of extract_ast_from_run is the variable `stack'; a    *)
(* frame is a run_state with the locals of its call.  A shared_ptr to a    *)
(* statement or to a statement block is an index of `stmts' or `blocks':   *)
(* statements are shared between blocks, and mutated while they are.       *)
(***************************************************************************)
EXTENDS StagedProgram, SequencesExt

CONSTANT
    FeatureUnstructured     \* builder_context::feature_unstructured

VARIABLES
    prog,       \* the staged function being extracted
    stack,      \* the calls of extract_ast_from_run, innermost last
    memo,       \* execution_state::memoized_tags: tag -> block
    stmts,      \* every statement created
    blocks,     \* every stmt_block created
    splits,     \* condition variables made by trim_common_from_back
    uniques     \* tracer::unique_tag_counter

vars == <<prog, stack, memo, stmts, blocks, splits, uniques>>

-----------------------------------------------------------------------------
(* Tags and statements *)

\* tracer::tag.  A unique tag has no location, a goto has the empty tag.
NoLoc == "no location"
NoTag == [loc |-> NoLoc, dedup |-> 0]
Tag == [loc : Loc \cup {NoLoc}, dedup : Nat]
Copy(t, d) == [t EXCEPT !.dedup = d]
ASSUME NoLocAssumption == NoLoc \notin Loc

NoWhat == "nothing"
ASSUME NoWhatAssumption == NoWhat \notin What

\* what, var and from are the content: what is the user's content, for an if
\* its condition; var the condition variable a split declares, assigns or tests
\* and `from' the one it assigns to it (0 for the user's own).  `to' is a
\* goto's temporary_label_number, thn and els are the branches of an if, which
\* has both (0 is the null pointer).
Stmt == {s \in [kind : {"expr", "decl", "if", "goto", "return"}, tag : Tag,
                what : What \cup {NoWhat}, var : Nat, from : Nat,
                to : Tag, thn : 0..Len(blocks), els : 0..Len(blocks)] :
            s.kind = "if" => s.thn # 0 /\ s.els # 0}

Statement(kind, tag, what, var) ==
    [kind |-> kind, tag |-> tag, what |-> what, var |-> var, from |-> 0,
     to |-> NoTag, thn |-> 0, els |-> 0]
Goto(t) == [Statement("goto", NoTag, NoWhat, 0) EXCEPT !.to = t]
If(tag, cond, thn, els) ==
    [Statement("if", tag, cond.what, cond.var) EXCEPT !.thn = thn, !.els = els]

\* block::is_same ignores tags, and a goto is the same as any goto (stmt.h
\* compares temporary_label_number with itself).
SameContent(s, r) == s.what = r.what /\ s.var = r.var /\ s.from = r.from

SameBlock[b \in Nat, c \in Nat] ==
    /\ Len(blocks[b]) = Len(blocks[c])
    /\ \A k \in DOMAIN blocks[b] :
          LET s == stmts[blocks[b][k]]
              r == stmts[blocks[c][k]]
          IN  /\ s.kind = r.kind
              /\ s.kind # "goto" => SameContent(s, r)
              /\ s.kind = "if" => SameBlock[s.thn, r.thn] /\ SameBlock[s.els, r.els]

\* is_same also compares the statements of a block with themselves, which are the same.
SameArms(s, r) ==
    \/ s.thn = r.thn /\ s.els = r.els
    \/ SameBlock[s.thn, r.thn] /\ SameBlock[s.els, r.els]
Same(s, r) ==
    /\ s.kind = r.kind
    /\ s.kind # "goto" => SameContent(s, r)
    /\ s.kind = "if" => SameArms(s, r)

\* if_stmt::needs_splitting: the same tag and arms, another condition
NeedsSplitting(s, r) ==
    /\ s.kind = "if" /\ r.kind = "if" /\ s.tag = r.tag
    /\ SameArms(s, r)
    /\ ~ SameContent(s, r)

-----------------------------------------------------------------------------
(* Runs *)

Phases == {"run",   \* the staged function is executing
           "then",  \* waiting for the extraction of the true branch
           "else",  \* waiting for the extraction of the false branch
           "trim",  \* in the loop of trim_common_from_back
           "add",   \* adding the statements a handler of the run's end made
           "memo"}  \* updating memoized_tags

Frame == [phase   : Phases,
          given   : Seq(BOOLEAN),   \* bool_vector_copy
          bools   : Seq(BOOLEAN),   \* bool_vector, consumed from the back
          pc      : 0..Len(prog.code),      \* where the staged function is
          tested  : BOOLEAN,        \* the condition at pc has been created
          pending : Seq(DOMAIN prog.code),  \* uncommitted_sequence, as points
          exprs   : Seq(DOMAIN prog.code),  \* cached_expr_sequence, as points
          used    : Nat,            \* cached_expr_counter
          visited : SUBSET [tag : Tag, stmt : DOMAIN stmts],    \* visited_offsets
          copies  : SUBSET [tag : Tag, n : Nat],    \* tag_deduplication_map
          block   : DOMAIN blocks,  \* current_stmt_block
          ifTag   : Tag,            \* OutOfBoolsException::static_offset
          cond    : [what : What \cup {NoWhat}, var : Nat],     \* cond_expr
          thn     : 0..Len(blocks), \* true_ast
          els     : 0..Len(blocks), \* false_ast
          queue   : Seq(DOMAIN stmts),      \* statements still to be added
          tail    : Seq(DOMAIN stmts),      \* trimmed_stmts
          cursor  : Nat \ {0}]      \* the loop index of the memo update

\* A call has the branches that have been extracted.
Call == {f \in Frame : /\ f.phase \in {"else", "trim"} => f.thn # 0
                       /\ f.phase = "trim" => f.els # 0}

\* The answers of a run that descends from f: bool_vector is consumed from the
\* back.
AnswersAtBack(f, answer) == Append(f.given, answer)     \* a mistake: the wrong end
Answers(f, answer) == <<answer>> \o f.given

\* A run that has been given `answers', extracting into the new block b.
NewRun(answers, parent, b) ==
    [phase |-> "run", given |-> answers, bools |-> answers, pc |-> 1,
     tested |-> FALSE, pending |-> <<>>, exprs |-> parent.exprs, used |-> 0,
     visited |-> parent.visited, copies |-> parent.copies, block |-> b,
     ifTag |-> NoTag, cond |-> [what |-> NoWhat, var |-> 0], thn |-> 0, els |-> 0,
     queue |-> <<>>, tail |-> <<>>, cursor |-> 1]

Init ==
    /\ prog \in Programs
    /\ stack = <<NewRun(<<>>, [exprs |-> <<>>, visited |-> {}, copies |-> {}], 1)>>
    /\ memo = <<>>
    /\ stmts = <<>>
    /\ blocks = <<<<>>>>
    /\ splits = 0 /\ uniques = 0

-----------------------------------------------------------------------------
(* The innermost call *)

top == Last(stack)
SetTop(f) == [stack EXCEPT ![Len(stack)] = f]
In(phase) == stack # <<>> /\ top.phase = phase
Body == blocks[top.block]

CatchingUp == top.bools # <<>>
Op == IF top.pc = Exit THEN "exit" ELSE prog.code[top.pc].op

\* The statement create_expr or create_var_decl_stmt makes of point p
StmtAt(p) == Statement(IF prog.code[p].op = "decl" THEN "decl" ELSE "expr",
                       [loc |-> prog.code[p].loc, dedup |-> 0], prog.code[p].what, 0)

-----------------------------------------------------------------------------
(* run_state::add_stmt_to_current_block, first half: visited tags *)

IsVisited(t) == \E v \in top.visited : v.tag = t
VisitedAs(t) == stmts[(CHOOSE v \in top.visited : v.tag = t).stmt]
SameAsVisited(s, t) == IsVisited(t) /\ Same(VisitedAs(t), s)

\* How many statements share the tag t
Copies(t) == IF \E c \in top.copies : c.tag = t
             THEN (CHOOSE c \in top.copies : c.tag = t).n ELSE 1

Seen(s) == s.tag # NoTag /\ IsVisited(s.tag)
OtherCopies(s) == {Copy(s.tag, d) : d \in 1..(Copies(s.tag) - 1)}
First(tags) == CHOOSE t \in tags : \A u \in tags : t.dedup <= u.dedup

\* Where the search among the copies stops: the first that is the same
\* statement, or that is not there at all
Stops(s) == {t \in OtherCopies(s) : ~ IsVisited(t) \/ SameAsVisited(s, t)}
SameTag(s) == SameAsVisited(s, s.tag)
NullCopy(s) == Seen(s) /\ ~ SameTag(s) /\ Stops(s) # {} /\ ~ IsVisited(First(Stops(s)))
LoopsBackFirst(s) == Seen(s) /\ SameTag(s)      \* a mistake: the copies are not searched
LoopsBack(s) == Seen(s) /\ (SameTag(s) \/ (Stops(s) # {} /\ ~ NullCopy(s)))
LoopTargetStored(s) == Copy(s.tag, Copies(s.tag))   \* a mistake: the tag of a new copy
LoopTarget(s) == IF SameTag(s) THEN s.tag ELSE First(Stops(s))

\* The tag s is stored under: a statement that differs from all visited under
\* its tag becomes one more copy.
StoredTagNext(s) ==     \* a mistake: counted before it is numbered
    IF Seen(s) THEN Copy(s.tag, Copies(s.tag) + 1) ELSE s.tag
StoredTag(s) == IF Seen(s) THEN Copy(s.tag, Copies(s.tag)) ELSE s.tag

\* The frame f once the statement i, until now s, has been pushed to its block
Visit(f, i, s) ==
    LET t == StoredTag(s)
    IN  [f EXCEPT
          !.visited = {v \in @ : v.tag # t} \cup {[tag |-> t, stmt |-> i]},
          !.copies = IF ~ Seen(s) THEN @
                     ELSE {c \in @ : c.tag # Copy(t, 0)}
                            \cup {[tag |-> Copy(t, 0), n |-> Copies(s.tag) + 1]}]
Push(i) == [blocks EXCEPT ![top.block] = Append(@, i)]

-----------------------------------------------------------------------------
(* add_stmt_to_current_block, second half: tags memoized by other runs *)

Places(b, t) == {k \in DOMAIN blocks[b] : stmts[blocks[b][k]].tag = t}
FirstPlace(b, t) == CHOOSE k \in Places(b, t) : \A l \in Places(b, t) : k <= l

\* The search for t in the block memoized for it runs off the block's end.
Dangling(t) == t \in DOMAIN memo /\ Places(memo[t], t) = {}

\* A condition is memoized as the `if' it has become.
ReusableByTag(s, t) == t \in DOMAIN memo /\ ~ Dangling(t)  \* a mistake: whatever has the tag
Reusable(s, t) ==
    /\ t \in DOMAIN memo /\ ~ Dangling(t)
    /\ LET m == stmts[blocks[memo[t]][FirstPlace(memo[t], t)]]
       IN  \/ Same(m, s)
           \/ /\ m.kind = "if" /\ s.kind = "expr"
              /\ m.what = s.what /\ m.var = s.var

-----------------------------------------------------------------------------
(* The staged function executes *)

Creates == In("run") /\ (Op = "expr" \/ (Op = "branch" /\ ~ top.tested))

\* create_expr: a catching-up run takes the next cached expression, any other
\* run creates one and leaves it uncommitted.
CreateExpr ==
    /\ Creates
    /\ CatchingUp => top.used < Len(top.exprs)
    /\ LET f == [top EXCEPT !.tested = (Op = "branch"),
                            !.pc = IF Op = "expr" THEN prog.code[@].next ELSE @]
       IN  stack' = SetTop(
             IF CatchingUp THEN [f EXCEPT !.used = @ + 1]
             ELSE [f EXCEPT !.pending = Append(@, top.pc),
                            !.exprs = Append(@, top.pc)])
    /\ UNCHANGED <<prog, memo, stmts, blocks, splits, uniques>>

\* A declaration, a branch and the end of the function commit what is pending.
Commits == Op \in {"decl", "exit"} \/ (Op = "branch" /\ top.tested)
Offers == In("run") /\ IF top.pending # <<>> THEN Commits ELSE Op = "decl"

\* The statement passed to add_stmt_to_current_block, and the run after it
Offered == StmtAt(IF top.pending # <<>> THEN Head(top.pending) ELSE top.pc)
Passed == IF top.pending # <<>> THEN [top EXCEPT !.pending = Tail(@)]
          ELSE [top EXCEPT !.pc = prog.code[@].next]

\* While catching up statements are not added again.
SkipStmt ==
    /\ Offers /\ CatchingUp
    /\ stack' = SetTop(Passed)
    /\ UNCHANGED <<prog, memo, stmts, blocks, splits, uniques>>

\* The statement is new to this run, and its tag is not memoized with it.
IsNew == Offers /\ ~ CatchingUp /\ ~ NullCopy(Offered) /\ ~ LoopsBack(Offered)
StoredAs == StoredTag(Offered)

AddStmt ==
    /\ IsNew /\ ~ Dangling(StoredAs) /\ ~ Reusable(Offered, StoredAs)
    /\ LET i == Len(stmts) + 1
       IN  /\ stmts' = Append(stmts, [Offered EXCEPT !.tag = StoredAs])
           /\ blocks' = Push(i)
           /\ stack' = SetTop(Visit(Passed, i, Offered))
    /\ UNCHANGED <<prog, memo, splits, uniques>>

\* A handler has made or found the statements q to end the run with.
EndWith(q) == stack' = SetTop([top EXCEPT !.phase = "add", !.pending = <<>>, !.queue = q])

EndWithGoto(t) ==
    /\ stmts' = Append(stmts, Goto(t))
    /\ EndWith(<<Len(stmts) + 1>>)

\* LoopBackException: the run ends in a goto to the statement it came back to.
LoopBack ==
    /\ Offers /\ ~ CatchingUp /\ LoopsBack(Offered)
    /\ EndWithGoto(LoopTarget(Offered))
    /\ UNCHANGED <<prog, memo, blocks, splits, uniques>>

\* MemoizationException: the run ends with the statements another run
\* extracted from here on, or in a goto to the first of them.  (The code makes
\* the gotos among them anew, which nothing can tell from sharing them.)
Memoize ==
    /\ IsNew /\ Reusable(Offered, StoredAs)
    /\ LET parent == memo[StoredAs]
       IN  IF FeatureUnstructured THEN EndWithGoto(StoredAs)
           ELSE /\ EndWith(SubSeq(blocks[parent], FirstPlace(parent, StoredAs),
                                  Len(blocks[parent])))
                /\ UNCHANGED stmts
    /\ UNCHANGED <<prog, memo, blocks, splits, uniques>>

AsksUncommitted == In("run") /\ Op = "branch" /\ top.tested    \* a mistake: no commit before
Asks == In("run") /\ Op = "branch" /\ top.tested /\ top.pending = <<>>

\* get_next_bool with an answer left
TakeBool ==
    /\ Asks /\ CatchingUp
    /\ stack' = SetTop([top EXCEPT !.bools = Front(@), !.tested = FALSE,
                          !.pc = IF Last(top.bools) THEN prog.code[@].next
                                                    ELSE prog.code[@].other])
    /\ UNCHANGED <<prog, memo, stmts, blocks, splits, uniques>>

\* OutOfBoolsException: the condition leaves the block again, the tag of its
\* expression becomes the tag of the if, and the true branch is extracted.
\* to<expr_stmt> asserts that the last statement is an expression statement.
ConditionLast == Body # <<>> /\ stmts[Last(Body)].kind = "expr"

OutOfBools ==
    /\ Asks /\ ~ CatchingUp /\ ConditionLast
    /\ LET s == stmts[Last(Body)]
           f == [top EXCEPT !.phase = "then", !.ifTag = StmtAt(top.pc).tag,
                            !.cond = [what |-> s.what, var |-> s.var]]
       IN  /\ blocks' = Append([blocks EXCEPT ![top.block] = Front(@)], <<>>)
           /\ stack' = Append(SetTop(f), NewRun(Answers(f, TRUE), f, Len(blocks) + 1))
    /\ UNCHANGED <<prog, memo, stmts, splits, uniques>>

\* The staged function returns; create_return_stmt gives every return
\* statement a tag of its own, and makes none while catching up.
Return ==
    /\ In("run") /\ Op = "exit" /\ top.pending = <<>>
    /\ LET i == Len(stmts) + 1
           s == Statement("return", Copy(NoTag, uniques + 1), NoWhat, 0)
           f == [top EXCEPT !.phase = "add"]
       IN  IF prog.returns /\ ~ CatchingUp
           THEN /\ uniques' = uniques + 1
                /\ stmts' = Append(stmts, s)
                /\ blocks' = Push(i)
                /\ stack' = SetTop(Visit(f, i, s))
           ELSE stack' = SetTop(f) /\ UNCHANGED <<uniques, stmts, blocks>>
    /\ UNCHANGED <<prog, memo, splits>>

-----------------------------------------------------------------------------
(* trim_common_from_back, one iteration of its loop per step *)

BothArms == In("trim") /\ blocks[top.thn] # <<>> /\ blocks[top.els] # <<>>
BackThen == stmts[Last(blocks[top.thn])]
BackElse == stmts[Last(blocks[top.els])]

CommonAnyGoto ==        \* a mistake: gotos are the same whatever their label
    /\ BothArms
    /\ BackThen.tag = BackElse.tag /\ Same(BackThen, BackElse)
Common ==
    /\ BothArms
    /\ BackThen.tag = BackElse.tag /\ Same(BackThen, BackElse)
    /\ BackThen.tag = NoTag => BackThen.to = BackElse.to
Split == BothArms /\ NeedsSplitting(BackThen, BackElse)

\* The blocks, with the branches changed to a and b
WithArms(a, b) ==
    [c \in DOMAIN blocks |-> IF c = top.thn THEN a ELSE IF c = top.els THEN b ELSE blocks[c]]

\* Both branches end alike: the statement moves behind the if.
TrimCommon ==
    /\ Common
    /\ blocks' = WithArms(Front(blocks[top.thn]), Front(blocks[top.els]))
    /\ stack' = SetTop([top EXCEPT !.tail = <<Last(blocks[top.thn])>> \o @])
    /\ UNCHANGED <<prog, memo, stmts, splits, uniques>>

\* Both branches end in ifs that differ in their conditions: each branch
\* assigns its condition to a new variable, and the if of the true branch,
\* now on that variable, moves behind.
TrimSplit ==
    /\ Split
    /\ LET v == splits + 1
           if1 == Last(blocks[top.thn])
           n == Len(stmts)
           assign(s) == [Statement("expr", s.tag, s.what, v) EXCEPT !.from = s.var]
       IN  /\ splits' = v
           /\ uniques' = uniques + 1
           /\ stmts' = [stmts EXCEPT ![if1] = [@ EXCEPT !.what = NoWhat, !.var = v]]
                         \o <<Statement("decl", BackThen.tag, NoWhat, v),
                              assign(BackThen), assign(BackElse)>>
           /\ blocks' = WithArms(Append(Front(blocks[top.thn]), n + 2),
                                 Append(Front(blocks[top.els]), n + 3))
           /\ stack' = SetTop([top EXCEPT !.tail = <<if1>> \o @,
                                          !.queue = Append(@, n + 1)])
    /\ UNCHANGED <<prog, memo>>

\* What is left when the loop ends: if one branch ends in a goto or a return
\* the rest of the other one moves behind the if, which is then built and
\* queued after the condition variables.
Leaves(s) == s.kind \in {"goto", "return"}
EmptiesElse == BothArms /\ Leaves(BackThen)
EmptiesThen == BothArms /\ ~ Leaves(BackThen) /\ Leaves(BackElse)

BuildIf ==
    /\ In("trim") /\ ~ Common /\ ~ Split
    /\ blocks' = WithArms(IF EmptiesThen THEN <<>> ELSE blocks[top.thn],
                          IF EmptiesElse THEN <<>> ELSE blocks[top.els])
    /\ stmts' = Append(stmts, If(top.ifTag, top.cond, top.thn, top.els))
    /\ stack' = SetTop([top EXCEPT !.phase = "add",
          !.visited = {v \in @ : v.tag # top.ifTag},    \* erase_tag
          !.queue = Append(@, Len(stmts) + 1),
          !.tail = (IF EmptiesThen THEN blocks[top.thn] ELSE <<>>) \o
                   (IF EmptiesElse THEN blocks[top.els] ELSE <<>>) \o @])
    /\ UNCHANGED <<prog, memo, splits, uniques>>

-----------------------------------------------------------------------------
(* The end of extract_ast_from_run *)

Queued == stmts[Head(top.queue)]
HasQueued == In("add") /\ top.queue # <<>>

\* add_stmt_to_current_block for a statement a handler made: memoized_tags is
\* not consulted, and an exception would leave the handler.
AddQueued ==
    /\ HasQueued /\ ~ NullCopy(Queued) /\ ~ LoopsBack(Queued)
    /\ LET i == Head(top.queue)
       IN  /\ stmts' = [stmts EXCEPT ![i].tag = StoredTag(Queued)]
           /\ blocks' = Push(i)
           /\ stack' = SetTop([Visit(top, i, Queued) EXCEPT !.queue = Tail(@)])
    /\ UNCHANGED <<prog, memo, splits, uniques>>

\* The trimmed statements are appended as they are.
AppendTail ==
    /\ In("add") /\ top.queue = <<>>
    /\ blocks' = [blocks EXCEPT ![top.block] = @ \o top.tail]
    /\ stack' = SetTop([top EXCEPT !.phase = "memo", !.tail = <<>>])
    /\ UNCHANGED <<prog, memo, stmts, splits, uniques>>

\* One iteration of the memo update: the statements inside an if are
\* forgotten (or, unstructured, found in the branches), since the branches
\* lack what follows the if; the statement itself is found in this block.
TagsOf(b) == {stmts[i].tag : i \in ToSet(blocks[b])}

\* The tags memoized, given those inside the if
RememberedAll(inside) == DOMAIN memo \cup inside    \* a mistake: no erase
Remembered(inside) == IF FeatureUnstructured THEN DOMAIN memo \cup inside
                      ELSE DOMAIN memo \ inside

MemoAfter(s) ==
    LET thn == IF s.kind = "if" THEN TagsOf(s.thn) ELSE {}
        els == IF s.kind = "if" THEN TagsOf(s.els) ELSE {}
    IN  [t \in Remembered(thn \cup els) \cup {s.tag} |->
            IF t = s.tag THEN top.block
            ELSE IF t \in els THEN s.els
            ELSE IF t \in thn THEN s.thn
            ELSE memo[t]]

UpdateMemoAgain ==      \* a mistake: the loop does not advance
    /\ In("memo") /\ top.cursor <= Len(Body)
    /\ memo' = MemoAfter(stmts[Body[top.cursor]])
    /\ UNCHANGED <<prog, stack, stmts, blocks, splits, uniques>>
UpdateMemo ==
    /\ In("memo") /\ top.cursor <= Len(Body)
    /\ memo' = MemoAfter(stmts[Body[top.cursor]])
    /\ stack' = SetTop([top EXCEPT !.cursor = @ + 1])
    /\ UNCHANGED <<prog, stmts, blocks, splits, uniques>>

\* The call returns its block: to nobody, to the call that then extracts the
\* false branch, or to the call that then trims both branches.
FinishedEarly == In("memo") /\ top.cursor >= Len(Body)   \* a mistake: off by one
Finished == In("memo") /\ top.cursor > Len(Body)
caller == stack[Len(stack) - 1]

ReturnRoot ==
    /\ Finished /\ Len(stack) = 1
    /\ stack' = <<>>
    /\ UNCHANGED <<prog, memo, stmts, blocks, splits, uniques>>

ReturnThen ==
    /\ Finished /\ Len(stack) > 1 /\ caller.phase = "then"
    /\ blocks' = Append(blocks, <<>>)
    /\ LET f == [caller EXCEPT !.phase = "else", !.thn = top.block]
       IN  stack' = SubSeq(stack, 1, Len(stack) - 2) \o
                    <<f, NewRun(Answers(f, FALSE), f, Len(blocks) + 1)>>
    /\ UNCHANGED <<prog, memo, stmts, splits, uniques>>

ReturnElseAsThen ==     \* a mistake: the false branch is taken for the true one
    /\ Finished /\ Len(stack) > 1 /\ caller.phase = "else"
    /\ stack' = Append(SubSeq(stack, 1, Len(stack) - 2),
                       [caller EXCEPT !.phase = "trim", !.thn = top.block])
    /\ UNCHANGED <<prog, memo, stmts, blocks, splits, uniques>>
ReturnElse ==
    /\ Finished /\ Len(stack) > 1 /\ caller.phase = "else"
    /\ stack' = Append(SubSeq(stack, 1, Len(stack) - 2),
                       [caller EXCEPT !.phase = "trim", !.els = top.block])
    /\ UNCHANGED <<prog, memo, stmts, blocks, splits, uniques>>

-----------------------------------------------------------------------------
Run == CreateExpr \/ SkipStmt \/ AddStmt \/ LoopBack \/ Memoize
         \/ TakeBool \/ OutOfBools \/ Return
Trim == TrimCommon \/ TrimSplit \/ BuildIf
EndOfRun == AddQueued \/ AppendTail \/ UpdateMemo \/ ReturnRoot \/ ReturnThen \/ ReturnElse
Extract == Run \/ Trim \/ EndOfRun

\* The extraction is over.
Extracted == stack = <<>> /\ UNCHANGED vars

Next == Extract \/ Extracted

Spec == Init /\ [][Next]_vars
FairSpec == Spec /\ WF_vars(Next)

-----------------------------------------------------------------------------
(* Properties *)

\* Every variable has its type, and every pointer that is dereferenced points to
\* something: the elements of blocks and queues, the branches of an if, the
\* blocks of the calls and of memoized_tags.
HeapOK == stmts \in Seq(Stmt) /\ blocks \in Seq(Seq(DOMAIN stmts))
MemoOK == DOMAIN memo \subseteq Tag /\ memo \in [DOMAIN memo -> DOMAIN blocks]
TypeOK ==
    /\ prog \in Program /\ splits \in Nat /\ uniques \in Nat
    /\ HeapOK /\ MemoOK /\ stack \in Seq(Call)

\* A run that replays the answers of its ancestors does what they did: it asks
\* for the cached expressions in the order they were created (create_expr
\* hands them out by position, without a look at the tag), passes no statement
\* on, does not return while an answer is left, and takes its last answer when
\* it has used the last cached expression.
ReplayAligned ==
    In("run") /\ CatchingUp =>
       /\ top.pending = <<>> /\ Op # "exit"
       /\ Creates => top.used < Len(top.exprs) /\ top.exprs[top.used + 1] = top.pc
       /\ Asks /\ Len(top.bools) = 1 => top.used = Len(top.exprs)

\* No two conditions share a tag: then no if is split
ConditionsApart ==
    \A i, j \in DOMAIN prog.code :
        i # j /\ prog.code[i].loc = prog.code[j].loc => prog.code[i].op # "branch"

\* The tags a run would look up: memoized_tags is consulted for none the run has
\* visited.
Fresh == {t \in DOMAIN memo \ {NoTag} : ~ IsVisited(t)}

\* While the staged function runs, the block memoized for a tag has a statement
\* with that tag: add_stmt_to_current_block searches the block for it and reads
\* parent->stmts[i] whether it has found it or not.
MemoHolds ==
    In("run") /\ ConditionsApart => \A t \in Fresh : Places(memo[t], t) # {}

\* While the staged function runs, no tag is memoized in a branch of an if that
\* has been built: what follows the if is not in that block, and a run that
\* copied its statements would lose it.
MemoComplete ==
    In("run") /\ ConditionsApart /\ ~ FeatureUnstructured =>
       \A t \in Fresh : \A i \in DOMAIN stmts :
           stmts[i].kind = "if" => memo[t] \notin {stmts[i].thn, stmts[i].els}

\* The search among the copies of a tag dereferences visited_offsets of every
\* copy tag_deduplication_map counts: they are all visited, in every run that
\* inherits the two maps.
CopiesVisited ==
    /\ Offers /\ ~ CatchingUp => ~ NullCopy(Offered)
    /\ HasQueued => ~ NullCopy(Queued)

\* The statements a handler passes to add_stmt_to_current_block when a run has
\* ended are new to the run: a LoopBackException for one of them would leave the
\* handler, and the extraction with it.
HandlersFinish == HasQueued => ~ LoopsBack(Queued)

\* The call adds statements that its run has copied from a memoized block.
Copying == ~ FeatureUnstructured /\ top.thn = 0

\* Nothing that the engine does not check goes wrong: a run that catches up has a cached
\* expression left, the last statement is the condition an if is made of, no copy of a
\* tag is missing, and, unless conditions share tags, the block searched for a tag has
\* it, and no handler throws but the one that adds statements copied from another run.
NeverAborts ==
    /\ Creates /\ CatchingUp => top.used < Len(top.exprs)
    /\ Asks /\ ~ CatchingUp => ConditionLast
    /\ IsNew /\ ConditionsApart => ~ Dangling(StoredAs)
    /\ HasQueued /\ LoopsBack(Queued) /\ ConditionsApart => Copying
    /\ Offers /\ ~ CatchingUp => ~ NullCopy(Offered)
    /\ HasQueued => ~ NullCopy(Queued)

\* The recursion of extract_ast_from_run is never deeper than the staged function has
\* branches: no run is interrupted at a condition at which a run it descends from was
\* interrupted, also if other statements have the condition's tag.
Branches == {i \in DOMAIN prog.code : prog.code[i].op = "branch"}
DepthBounded == Len(stack) <= Cardinality(Branches) + 1

\* The extraction ends: every run of the staged function is cut short at a tag
\* that has been visited or memoized, and there are finitely many runs.
Terminates == <>(stack = <<>>)
=============================================================================
