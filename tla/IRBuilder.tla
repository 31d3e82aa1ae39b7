----------------------------- MODULE IRBuilder -----------------------------
(***************************************************************************)
(* The control-flow graph that IRBuilder makes of one function definition  *)
(* (SysYFIRBuilder/IRBuilder.cpp): a recursive visitor that keeps its      *)
(* position in the graph in variables of the file, shared by all visits    *)
(* (insert point, list of current blocks, stacks of branch targets).       *)
(*                                                                         *)
(* The recursion is explicit: `calls` is the stack of unfinished visit     *)
(* calls with their local variables, first element on top, and an action   *)
(* is the code between two accept calls.  The syntax tree is chosen on the *)
(* way: a Stmt or Cond call may turn into any statement or condition the   *)
(* grammar allows there.  Expressions are abstracted to the instructions   *)
(* they leave in the current block, and a run of such instructions to one. *)
(*                                                                         *)
(* Definitions marked "Mutant" are no part of the specification: each is a *)
(* plausible slip in the definition below it, and shows that the property  *)
(* PROJECT.json pairs it with would notice.                                *)
(***************************************************************************)
EXTENDS Naturals, Sequences, SequencesExt, Cfg

CONSTANT Bounds   \* pairs of bounds: statements of a function, its && and ||

ASSUME BoundsNat == Bounds \subseteq Nat \X Nat /\ IsFiniteSet(Bounds)

VARIABLES
  fn,                    \* the Function under construction, see EmptyFn
  insert,                \* builder->BB_, the insert point (0: none)
  cur_basic_block_list,
  while_stack,           \* While_Stack: [trueBB, falseBB] of the open loops
  or_stack,              \* IF_While_Or_Cond_Stack
  scope,                 \* depth of the Scope stack
  pre_enter_scope,
  void,                  \* the function returns void
  calls,                 \* unfinished visit calls
  stmts, conns,          \* what the bounds leave
  cond                   \* history: the condition being visited

vars == <<fn, insert, cur_basic_block_list, while_stack, or_stack, scope, pre_enter_scope,
          void, calls, stmts, conns, cond>>

Entry == 1
Ret   == 2

\* Every statement creates at most three blocks and every connective one.
MaxBlocks == Max({2 + 3 * b[1] + b[2] : b \in Bounds})
BlockIds  == 1..MaxBlocks

-----------------------------------------------------------------------------
(* Function, BasicBlock, BranchInst.  A function is a record: the blocks   *)
(* in its list (whose order nothing here looks at), the number of blocks   *)
(* ever created, and for every block its pre_bbs_, succ_bbs_ and           *)
(* instr_list_.  Instructions are "op" (a run of non-terminators),         *)
(* "alloca", "test n" (the value of the n-th operand of a condition), "br" *)
(* with its one or two targets, and "ret".                                 *)

EmptyFn == [blocks |-> {}, n |-> 0,
            pre  |-> [b \in BlockIds |-> <<>>],
            succ |-> [b \in BlockIds |-> <<>>],
            code |-> [b \in BlockIds |-> <<>>]]

IsTerminator(inst) == inst[1] \in {"br", "ret"}

\* get_terminator() != nullptr
Terminated(f, b) == f.code[b] # <<>> /\ IsTerminator(Last(f.code[b]))

Put(f, b, inst) == [f EXCEPT !.code[b] = Append(@, inst)]

\* Code of an expression: one more "op" only where the last one is another.
PutOp(f, b) ==
  IF f.code[b] # <<>> /\ Last(f.code[b]) = <<"op">> THEN f ELSE Put(f, b, <<"op">>)

\* BasicBlock::create puts k new blocks into the function.
NewBlocks(f, k) ==
  [f EXCEPT !.n = @ + k, !.blocks = @ \cup (f.n + 1)..(f.n + k)]

CreateBr(f, b, target) ==
  Put([f EXCEPT !.pre[target] = Append(@, b), !.succ[b] = Append(@, target)],
      b, <<"br", target>>)

CreateCondBr(f, b, if_true, if_false) ==
  LET pre1 == [f.pre EXCEPT ![if_true] = Append(@, b)]
  IN  Put([f EXCEPT !.pre = [pre1 EXCEPT ![if_false] = Append(@, b)],
                    !.succ[b] = @ \o <<if_false, if_true>>],
          b, <<"br", if_true, if_false>>)

BrUnlessTerminated(f, b, target) ==
  IF Terminated(f, b) THEN f ELSE CreateBr(f, b, target)

\* erase_from_parent: Function::remove takes the block out of the list and out
\* of the neighbours' lists.
EraseBlock(f, b) ==
  [f EXCEPT !.blocks = @ \ {b},
            !.succ = [p \in BlockIds |->
                        IF Contains(f.pre[b], p) THEN SelectSeq(@[p], LAMBDA x : x # b) ELSE @[p]],
            !.pre = [s \in BlockIds |->
                       IF Contains(f.succ[b], s) THEN SelectSeq(@[s], LAMBDA x : x # b) ELSE @[s]]]

\* The alloca of a local variable: made at the insert point, taken off the end
\* of the current block, put into the entry block in front of its terminator.
CreateLocal(f, at, cur) ==
  LET terminator == Terminated(f, Entry)
      open  == IF terminator THEN [f EXCEPT !.code[Entry] = Front(@)] ELSE f
      made  == Put(open, at, <<"alloca">>)
      taken == [made EXCEPT !.code[cur] = Front(@)]
      moved == Put(taken, Entry, <<"alloca">>)
  IN  IF terminator THEN Put(moved, Entry, Last(f.code[Entry])) ELSE moved

-----------------------------------------------------------------------------
(* The visitor.                                                            *)

Top   == Head(calls)
Below == Tail(calls)
At(what) == calls # <<>> /\ Top.visit = what

NoCond == [start |-> 0, prefix |-> <<>>]

Init ==
  /\ fn = EmptyFn
  /\ insert = 0
  /\ cur_basic_block_list = <<>>
  /\ while_stack = <<>>
  /\ or_stack = <<>>
  /\ scope = 1
  /\ pre_enter_scope = FALSE
  /\ void \in BOOLEAN
  /\ calls = <<[visit |-> "FuncDef"]>>
  /\ \E b \in Bounds : stmts = b[1] /\ conns = b[2]
  /\ cond = NoCond

\* FuncDef up to the body: entry and ret block, ret_addr.  A parameter is one
\* more local that is initialised in the entry block, and is left out.
FuncDefEnter ==
  /\ At("FuncDef")
  /\ LET new == NewBlocks(EmptyFn, 2)
     IN  fn' = IF void THEN new ELSE Put(new, Entry, <<"alloca">>)
  /\ insert' = Entry
  /\ cur_basic_block_list' = Append(cur_basic_block_list, Entry)
  /\ scope' = scope + 1
  /\ pre_enter_scope' = TRUE
  /\ calls' = <<[visit |-> "Block"], [visit |-> "FuncDefExit"]>> \o Below
  /\ UNCHANGED <<while_stack, or_stack, void, stmts, conns, cond>>

\* FuncDef after the body: the implicit return, then the code of the ret block.
FuncDefExit ==
  /\ At("FuncDefExit")
  /\ LET store == IF void \/ Terminated(fn, insert) THEN fn ELSE PutOp(fn, insert)
         body  == BrUnlessTerminated(store, insert, Ret)
         load  == IF void THEN body ELSE PutOp(body, Ret)
     IN  fn' = Put(load, Ret, <<"ret">>)
  /\ insert' = Ret
  /\ scope' = scope - 1
  /\ cur_basic_block_list' = Front(cur_basic_block_list)
  /\ calls' = Below
  /\ UNCHANGED <<while_stack, or_stack, pre_enter_scope, void, stmts, conns, cond>>

-----------------------------------------------------------------------------
(* BlockStmt.                                                              *)

BlockEnter ==
  /\ At("Block")
  /\ calls' = <<[visit |-> "Items", need_exit_scope |-> ~pre_enter_scope, first |-> TRUE]>> \o Below
  /\ scope' = IF pre_enter_scope THEN scope ELSE scope + 1
  /\ pre_enter_scope' = FALSE
  /\ UNCHANGED <<fn, insert, cur_basic_block_list, while_stack, or_stack, void, stmts, conns, cond>>

\* The loop over the items breaks when the item just visited left a terminator.
LoopBreaks == ~Top.first /\ Terminated(fn, insert)

BlockItem ==
  /\ At("Items")
  /\ ~LoopBreaks
  /\ stmts > 0
  /\ calls' = <<[visit |-> "Stmt", item |-> TRUE], [Top EXCEPT !.first = FALSE]>> \o Below
  /\ UNCHANGED <<fn, insert, cur_basic_block_list, while_stack, or_stack, scope, pre_enter_scope,
                 void, stmts, conns, cond>>

BlockExit ==
  /\ At("Items")
  /\ scope' = IF Top.need_exit_scope THEN scope - 1 ELSE scope
  /\ calls' = Below
  /\ UNCHANGED <<fn, insert, cur_basic_block_list, while_stack, or_stack, pre_enter_scope,
                 void, stmts, conns, cond>>

-----------------------------------------------------------------------------
(* Statements that stay in one block.                                      *)

Straight ==
  UNCHANGED <<insert, cur_basic_block_list, while_stack, or_stack, scope, pre_enter_scope,
              void, conns, cond>>

CountStmt == stmts > 0 /\ stmts' = stmts - 1

\* EmptyStmt, and the definition of a scalar constant: no instruction.
EmptyStmt ==
  /\ At("Stmt")
  /\ IF Top.item THEN CountStmt ELSE UNCHANGED stmts
  /\ calls' = Below
  /\ UNCHANGED fn
  /\ Straight

\* AssignStmt and ExprStmt.
SimpleStmt ==
  /\ At("Stmt")
  /\ CountStmt
  /\ fn' = PutOp(fn, insert)
  /\ calls' = Below
  /\ Straight

\* VarDef in a function; the grammar has declarations among block items only.
VarDef ==
  /\ At("Stmt")
  /\ Top.item
  /\ CountStmt
  /\ LET local == CreateLocal(fn, insert, Last(cur_basic_block_list))
     IN  \E is_inited \in BOOLEAN : fn' = IF is_inited THEN PutOp(local, insert) ELSE local
  /\ calls' = Below
  /\ Straight

ReturnStmt ==
  /\ At("Stmt")
  /\ CountStmt
  /\ \E value \in IF void THEN {FALSE} ELSE BOOLEAN :
       fn' = CreateBr(IF value THEN PutOp(fn, insert) ELSE fn, insert, Ret)
  /\ calls' = Below
  /\ Straight

\* The statement stands in the body of a loop, as break and continue do in a
\* program that is legal SysYF.
InLoop == \E k \in DOMAIN calls : calls[k].visit = "WhileBody"

BreakStmt ==
  /\ At("Stmt")
  /\ InLoop
  /\ CountStmt
  /\ fn' = CreateBr(fn, insert, Last(while_stack).falseBB)
  /\ calls' = Below
  /\ Straight

ContinueStmt ==
  /\ At("Stmt")
  /\ InLoop
  /\ CountStmt
  /\ fn' = CreateBr(fn, insert, Last(while_stack).trueBB)
  /\ calls' = Below
  /\ Straight

NestedBlock ==
  /\ At("Stmt")
  /\ CountStmt
  /\ calls' = <<[visit |-> "Block"]>> \o Below
  /\ UNCHANGED fn
  /\ Straight

-----------------------------------------------------------------------------
(* Conditions: LOrExp of LAndExp of comparisons, left associative.         *)

CondUnchanged == UNCHANGED <<cur_basic_block_list, while_stack, scope, pre_enter_scope, void, stmts>>

\* Mutant: lhs keeps the false target of the whole condition.
LOrEnterSameTarget ==
  /\ At("Cond")
  /\ Top.level = "LOr"
  /\ conns > 0
  /\ conns' = conns - 1
  /\ fn' = NewBlocks(fn, 1)
  /\ or_stack' = Append(or_stack, Last(or_stack))
  /\ calls' = <<[visit |-> "Cond", level |-> "LOr"], [visit |-> "LOrRhs", falseBB |-> fn.n + 1]>>
                \o Below
  /\ cond' = [cond EXCEPT !.prefix = Append(@, <<"or">>)]
  /\ UNCHANGED insert
  /\ CondUnchanged

\* BinaryCondExpr LOR up to lhs: the stack entry gives lhs its false target.
LOrEnter ==
  /\ At("Cond")
  /\ Top.level = "LOr"
  /\ conns > 0
  /\ conns' = conns - 1
  /\ fn' = NewBlocks(fn, 1)
  /\ LET falseBB == fn.n + 1
     IN  /\ or_stack' = Append(or_stack, [trueBB |-> Last(or_stack).trueBB, falseBB |-> falseBB])
         /\ calls' = <<[visit |-> "Cond", level |-> "LOr"], [visit |-> "LOrRhs", falseBB |-> falseBB]>>
                       \o Below
  /\ cond' = [cond EXCEPT !.prefix = Append(@, <<"or">>)]
  /\ UNCHANGED insert
  /\ CondUnchanged

LOrRhs ==
  /\ At("LOrRhs")
  /\ or_stack' = Front(or_stack)
  /\ fn' = CreateCondBr(fn, insert, Last(or_stack').trueBB, Top.falseBB)
  /\ insert' = Top.falseBB
  /\ calls' = <<[visit |-> "Cond", level |-> "LAnd"]>> \o Below
  /\ UNCHANGED <<conns, cond>>
  /\ CondUnchanged

\* BinaryCondExpr LAND up to lhs.  IF_While_And_Cond_Stack, which it pushes
\* and pops around lhs, is never read and left out.
LAndEnter ==
  /\ At("Cond")
  /\ Top.level \in {"LOr", "LAnd"}
  /\ conns > 0
  /\ conns' = conns - 1
  /\ fn' = NewBlocks(fn, 1)
  /\ calls' = <<[visit |-> "Cond", level |-> "LAnd"], [visit |-> "LAndRhs", trueBB |-> fn.n + 1]>>
                \o Below
  /\ cond' = [cond EXCEPT !.prefix = Append(@, <<"and">>)]
  /\ UNCHANGED <<insert, or_stack>>
  /\ CondUnchanged

LAndRhs ==
  /\ At("LAndRhs")
  /\ fn' = CreateCondBr(fn, insert, Top.trueBB, Last(or_stack).falseBB)
  /\ insert' = Top.trueBB
  /\ calls' = <<[visit |-> "Cond", level |-> "Eq"]>> \o Below
  /\ UNCHANGED <<or_stack, conns, cond>>
  /\ CondUnchanged

\* The number of operands in a condition's prefix form.
Leaves(prefix) == Cardinality({k \in DOMAIN prefix : prefix[k][1] = "leaf"})

\* A comparison or an expression: evaluated in the current block.
CondLeaf ==
  /\ At("Cond")
  /\ LET n == Leaves(cond.prefix) + 1
     IN  /\ fn' = Put(fn, insert, <<"test", n>>)
         /\ cond' = [cond EXCEPT !.prefix = Append(@, <<"leaf", n>>)]
  /\ calls' = Below
  /\ UNCHANGED <<insert, or_stack, conns>>
  /\ CondUnchanged

-----------------------------------------------------------------------------
(* IfStmt.                                                                 *)

\* The body of if, else and while: a BlockStmt, or another statement in a
\* scope entered and left around it.
Body(block) == IF block THEN [visit |-> "Block"] ELSE [visit |-> "Stmt", item |-> FALSE]
EnterBody(block) == scope' = IF block THEN scope ELSE scope + 1

ExitBody         == scope' = IF Top.block THEN scope ELSE scope - 1

IfStmt ==
  /\ At("Stmt")
  /\ CountStmt
  /\ fn' = NewBlocks(fn, 3)
  /\ \E has_else \in BOOLEAN :
       LET trueBB == fn.n + 1  falseBB == fn.n + 2  nextBB == fn.n + 3
       IN  /\ or_stack' = Append(or_stack, [trueBB |-> trueBB,
                                            falseBB |-> IF has_else THEN falseBB ELSE nextBB])
           /\ calls' = <<[visit |-> "Cond", level |-> "LOr"],
                         [visit |-> "IfCond", has_else |-> has_else, block |-> FALSE,
                          trueBB |-> trueBB, falseBB |-> falseBB, nextBB |-> nextBB]>> \o Below
  /\ cond' = [start |-> insert, prefix |-> <<>>]
  /\ UNCHANGED <<insert, cur_basic_block_list, while_stack, scope, pre_enter_scope, void, conns>>

IfCondDone ==
  /\ At("IfCond")
  /\ or_stack' = Front(or_stack)
  /\ fn' = CreateCondBr(fn, insert, Top.trueBB, IF Top.has_else THEN Top.falseBB ELSE Top.nextBB)
  /\ cur_basic_block_list' = Append(Front(cur_basic_block_list), Top.trueBB)
  /\ insert' = Top.trueBB
  /\ \E block \in BOOLEAN :
       /\ calls' = <<Body(block), [Top EXCEPT !.visit = "IfThen", !.block = block]>> \o Below
       /\ EnterBody(block)
  /\ cond' = NoCond
  /\ UNCHANGED <<while_stack, pre_enter_scope, void, stmts, conns>>

\* Mutant: nextBB is dropped although something branches to it.
IfEndAlwaysErases(f, list, frame) ==
  /\ cur_basic_block_list' = Append(list, frame.nextBB)
  /\ insert' = frame.trueBB
  /\ fn' = [f EXCEPT !.blocks = @ \ {frame.nextBB}]
  /\ calls' = Below

\* The end of both forms: go on in nextBB, or drop it when nothing branches to
\* it and leave the insert point in the terminated trueBB.
IfEnd(f, list, frame) ==
  /\ cur_basic_block_list' = Append(list, frame.nextBB)
  /\ IF f.pre[frame.nextBB] = <<>>
     THEN insert' = frame.trueBB /\ fn' = EraseBlock(f, frame.nextBB)
     ELSE insert' = frame.nextBB /\ fn' = f
  /\ calls' = Below

IfThenDone ==
  /\ At("IfThen")
  /\ LET f    == BrUnlessTerminated(fn, insert, Top.nextBB)
         list == Front(cur_basic_block_list)
     IN  IF Top.has_else
         THEN /\ fn' = f
              /\ insert' = Top.falseBB
              /\ cur_basic_block_list' = Append(list, Top.falseBB)
              /\ \E block \in BOOLEAN :
                   /\ calls' = <<Body(block), [Top EXCEPT !.visit = "IfElse", !.block = block]>>
                                 \o Below
                   /\ scope' = (IF Top.block THEN scope ELSE scope - 1) + (IF block THEN 0 ELSE 1)
         ELSE IfEnd(EraseBlock(f, Top.falseBB), list, Top) /\ ExitBody
  /\ UNCHANGED <<while_stack, or_stack, pre_enter_scope, void, stmts, conns, cond>>

IfElseDone ==
  /\ At("IfElse")
  /\ IfEnd(BrUnlessTerminated(fn, insert, Top.nextBB), Front(cur_basic_block_list), Top)
  /\ ExitBody
  /\ UNCHANGED <<while_stack, or_stack, pre_enter_scope, void, stmts, conns, cond>>

-----------------------------------------------------------------------------
(* WhileStmt.                                                              *)

WhileStmt ==
  /\ At("Stmt")
  /\ CountStmt
  /\ LET whileBB == fn.n + 1  trueBB == fn.n + 2  nextBB == fn.n + 3
     IN  /\ fn' = BrUnlessTerminated(NewBlocks(fn, 3), insert, whileBB)
         /\ while_stack' = Append(while_stack, [trueBB |-> whileBB, falseBB |-> nextBB])
         /\ or_stack' = Append(or_stack, [trueBB |-> trueBB, falseBB |-> nextBB])
         /\ insert' = whileBB
         /\ cond' = [start |-> whileBB, prefix |-> <<>>]
         /\ calls' = <<[visit |-> "Cond", level |-> "LOr"],
                       [visit |-> "WhileCond", block |-> FALSE,
                        whileBB |-> whileBB, trueBB |-> trueBB, nextBB |-> nextBB]>> \o Below
  /\ cur_basic_block_list' = Front(cur_basic_block_list)
  /\ UNCHANGED <<scope, pre_enter_scope, void, conns>>

\* Mutant: IF_While_Or_Cond_Stack is not popped.
WhileCondDoneKeepsEntry ==
  /\ At("WhileCond")
  /\ fn' = CreateCondBr(fn, insert, Top.trueBB, Top.nextBB)
  /\ insert' = Top.trueBB
  /\ cur_basic_block_list' = Append(cur_basic_block_list, Top.trueBB)
  /\ \E block \in BOOLEAN :
       /\ calls' = <<Body(block), [Top EXCEPT !.visit = "WhileBody", !.block = block]>> \o Below
       /\ EnterBody(block)
  /\ cond' = NoCond
  /\ UNCHANGED <<while_stack, or_stack, pre_enter_scope, void, stmts, conns>>

WhileCondDone ==
  /\ At("WhileCond")
  /\ or_stack' = Front(or_stack)
  /\ fn' = CreateCondBr(fn, insert, Top.trueBB, Top.nextBB)
  /\ insert' = Top.trueBB
  /\ cur_basic_block_list' = Append(cur_basic_block_list, Top.trueBB)
  /\ \E block \in BOOLEAN :
       /\ calls' = <<Body(block), [Top EXCEPT !.visit = "WhileBody", !.block = block]>> \o Below
       /\ EnterBody(block)
  /\ cond' = NoCond
  /\ UNCHANGED <<while_stack, pre_enter_scope, void, stmts, conns>>

\* Mutant: the loop repeats its body instead of its condition.
WhileBodyDoneSkipsCond ==
  /\ At("WhileBody")
  /\ fn' = BrUnlessTerminated(fn, insert, Top.trueBB)
  /\ insert' = Top.nextBB
  /\ cur_basic_block_list' = Append(Front(cur_basic_block_list), Top.nextBB)
  /\ while_stack' = Front(while_stack)
  /\ calls' = Below
  /\ ExitBody
  /\ UNCHANGED <<or_stack, pre_enter_scope, void, stmts, conns, cond>>

\* Mutant: While_Stack is not popped.
WhileBodyDoneKeepsTargets ==
  /\ At("WhileBody")
  /\ fn' = BrUnlessTerminated(fn, insert, Top.whileBB)
  /\ insert' = Top.nextBB
  /\ cur_basic_block_list' = Append(Front(cur_basic_block_list), Top.nextBB)
  /\ calls' = Below
  /\ ExitBody
  /\ UNCHANGED <<while_stack, or_stack, pre_enter_scope, void, stmts, conns, cond>>

WhileBodyDone ==
  /\ At("WhileBody")
  /\ fn' = BrUnlessTerminated(fn, insert, Top.whileBB)
  /\ insert' = Top.nextBB
  /\ cur_basic_block_list' = Append(Front(cur_basic_block_list), Top.nextBB)
  /\ while_stack' = Front(while_stack)
  /\ calls' = Below
  /\ ExitBody
  /\ UNCHANGED <<or_stack, pre_enter_scope, void, stmts, conns, cond>>

-----------------------------------------------------------------------------

Statement ==
  \/ EmptyStmt \/ SimpleStmt \/ VarDef \/ ReturnStmt \/ BreakStmt \/ ContinueStmt
  \/ NestedBlock \/ IfStmt \/ WhileStmt

Condition == LOrEnter \/ LOrRhs \/ LAndEnter \/ LAndRhs \/ CondLeaf

\* The function is built: nothing is left to visit.
Done == calls = <<>>

Finished == Done /\ UNCHANGED vars

Next ==
  \/ FuncDefEnter \/ FuncDefExit
  \/ BlockEnter \/ BlockItem \/ BlockExit
  \/ Statement
  \/ Condition
  \/ IfCondDone \/ IfThenDone \/ IfElseDone
  \/ WhileCondDone \/ WhileBodyDone
  \/ Finished

Spec == Init /\ [][Next]_vars

-----------------------------------------------------------------------------
(* Properties.                                                             *)

Listed  == fn.blocks
Succs   == [b \in Listed |-> ToSet(fn.succ[b])]
Preds   == [b \in Listed |-> ToSet(fn.pre[b])]

Branch == [trueBB : BlockIds, falseBB : BlockIds]

TypeOK ==
  /\ fn.n \in 0..MaxBlocks
  /\ fn.blocks \subseteq 1..fn.n
  /\ \A b \in BlockIds : /\ fn.pre[b] \in Seq(1..fn.n) /\ fn.succ[b] \in Seq(1..fn.n)
                         /\ \A k \in DOMAIN fn.code[b] :
                              fn.code[b][k][1] \in {"op", "alloca", "test", "br", "ret"}
  /\ insert \in 0..fn.n
  /\ cur_basic_block_list \in Seq(1..fn.n)
  /\ while_stack \in Seq(Branch) /\ or_stack \in Seq(Branch)
  /\ scope \in Nat \ {0}
  /\ pre_enter_scope \in BOOLEAN /\ void \in BOOLEAN
  /\ \E b \in Bounds : stmts \in 0..b[1] /\ conns \in 0..b[2]

Occurrences(list, x) == Cardinality({k \in DOMAIN list : list[k] = x})

\* The first check of Check::execute, in the strong form the passes rely on:
\* an edge is recorded as often in succ_bbs_ as in pre_bbs_, at every moment,
\* and across erase_from_parent.
PredSuccSymmetric ==
  \A a, b \in BlockIds : Occurrences(fn.succ[a], b) = Occurrences(fn.pre[b], a)

\* The recorded successors of a block are the targets of its terminator, and
\* no terminator names a block that was erased from the function.
EdgesMatchCode ==
  \A b \in Listed :
    LET targets == IF Terminated(fn, b) THEN ToSet(Tail(Last(fn.code[b]))) ELSE {}
    IN  ToSet(fn.succ[b]) = targets /\ targets \subseteq Listed

\* Nothing is emitted behind a terminator, whatever follows a return, break or
\* continue in the source.
OneTerminator ==
  \A b \in BlockIds : \A k \in 1..(Len(fn.code[b]) - 1) : ~IsTerminator(fn.code[b][k])

\* Every statement is visited with an open insert block that is also the last
\* current block, the one a local definition takes its alloca from.
VisitInOpenBlock ==
  At("Stmt") => Last(cur_basic_block_list) = insert /\ ~Terminated(fn, insert)

\* Locals are allocated in the entry block and nowhere else, so a definition
\* inside a loop allocates once and Mem2Reg finds every alloca.
AllocasInEntry ==
  \A b \in BlockIds \ {Entry} : \A k \in DOMAIN fn.code[b] : fn.code[b][k] # <<"alloca">>

\* All this at every moment: whatever is being built, the graph and the code
\* agree, and the next statement goes into an open block.
GraphInStep ==
  TypeOK /\ PredSuccSymmetric /\ EdgesMatchCode /\ OneTerminator /\ VisitInOpenBlock /\ AllocasInEntry

\* The third check of Check::execute on the finished function.
BlocksTerminated == Done => \A b \in Listed : Terminated(fn, b)

\* What DominateTree and Mem2Reg need: the entry block has no predecessor and
\* every block is reachable from it.  What RDominateTree needs: every block
\* reaches the ret block, the only one that ends in ret.
AllReachable ==
  Done => /\ Preds[Entry] = {}
          /\ ReachIn(Listed, Succs, Entry) = Listed
          /\ ReachIn(Listed, Preds, Ret) = Listed
          /\ \A b \in Listed : Last(fn.code[b]) = <<"ret">> <=> b = Ret

\* Structured programs give reducible graphs without self loops: each loop is
\* entered through its condition only.
LoopsReducible ==
  Done => /\ \A b \in Listed : b \notin Succs[b]
          /\ Reducible(Listed, Succs, Entry)

\* What the passes may rely on in a finished function.
WellFormed == BlocksTerminated /\ AllReachable /\ LoopsReducible

\* At the end of a function the shared variables are back where they started, so
\* the next function is built from a clean state.
StateRestored ==
  Done => /\ cur_basic_block_list = <<>> /\ while_stack = <<>> /\ or_stack = <<>>
          /\ scope = 1 /\ ~pre_enter_scope

\* The innermost loop whose body is being visited: its own local variables.
InnermostLoop ==
  calls[CHOOSE k \in DOMAIN calls :
          /\ calls[k].visit = "WhileBody"
          /\ \A j \in 1..(k - 1) : calls[j].visit # "WhileBody"]

\* break leaves, and continue repeats, the innermost enclosing while, although
\* the targets travel through a shared stack.
JumpsInnermost ==
  [][/\ BreakStmt => fn'.succ[insert] = <<InnermostLoop.nextBB>>
     /\ ContinueStmt => fn'.succ[insert] = <<InnermostLoop.whileBB>>]_vars

\* Value and evaluation order of a condition in prefix form for an assignment
\* of its leaves: && and || evaluate their right side only when they must.
Evaluate(prefix, leaf) ==
  LET step(t, stack) ==
        IF t[1] = "leaf"
        THEN <<[value |-> leaf[t[2]], tests |-> <<t[2]>>]>> \o stack
        ELSE LET l == stack[1]  r == stack[2]
                 short == l.value = (t[1] = "or")
             IN  <<[value |-> IF short THEN l.value ELSE r.value,
                    tests |-> IF short THEN l.tests ELSE l.tests \o r.tests]>>
                   \o Tail(Tail(stack))
  IN  Head(FoldRight(step, prefix, <<>>))

\* The same for the emitted branches: follow them from block b until one of
\* the two targets, taking each test from the assignment.
Follow(f, b, targets, leaf) ==
  LET step(at, k) ==
        IF at.block \in targets THEN at
        ELSE LET code == f.code[at.block]
                 n  == code[Len(code) - 1][2]
                 br == Last(code)
             IN  [block |-> IF leaf[n] THEN br[2] ELSE br[3], tests |-> Append(at.tests, n)]
  IN  FoldLeft(step, [block |-> b, tests |-> <<>>], [k \in 1..f.n |-> k])

\* Short circuit: for every outcome of the tests the emitted branches reach the
\* true target exactly when the condition holds, and evaluate the operands the
\* source evaluates, in its order.
ShortCircuit ==
  [][At("IfCond") \/ At("WhileCond") =>
       LET true  == Top.trueBB
           false == IF At("IfCond") /\ Top.has_else THEN Top.falseBB ELSE Top.nextBB
       IN  \A leaf \in [1..Leaves(cond.prefix) -> BOOLEAN] :
             LET want == Evaluate(cond.prefix, leaf)
                 got  == Follow(fn', cond.start, {true, false}, leaf)
             IN  /\ got.block = IF want.value THEN true ELSE false
                 /\ got.tests = want.tests]_vars

=============================================================================
