------------------------------- MODULE Mem2Reg -------------------------------
(***************************************************************************)
(* The pass Mem2Reg on one function (Optimize/Mem2Reg.cpp): loads and      *)
(* stores of local variables become SSA values.  It forwards stores inside *)
(* each block, places phis on dominance frontiers, and renames in a walk   *)
(* over the successors that keeps a stack of values for each variable.     *)
(* One action is one instruction, or one block, in a loop of the code.     *)
(*                                                                         *)
(* An instruction is [op, var, val]:                                       *)
(*   "load"   defines a value: what the variable var holds;                *)
(*   "store"  var gets the value val;                                      *)
(*   "call"   defines a value that is no load of a local;                  *)
(*   "out"    uses the value val: an operand of any other instruction.     *)
(* It keeps its place <<block, position>> when others are deleted, and the *)
(* value that it defines is named by that place.  A phi is the value       *)
(* <<block, variable>>; it stands at the head of its block.                *)
(*                                                                         *)
(* Definitions marked "Mutant" are no part of the specification: each is a *)
(* plausible slip in the definition below it, and shows that the property  *)
(* PROJECT.json pairs it with would notice.                                *)
(***************************************************************************)
EXTENDS Naturals, Sequences, FiniteSets, SequencesExt, Cfg

CONSTANTS
  Block,     \* the blocks of the function
  Root,      \* its entry block
  Var,       \* its local variables of type int, float or pointer
  Null,      \* no pointer
  Programs   \* the functions the pass may be given, see Function

Id  == Block \X Nat
Phi == Block \X Var
Value == Id \cup Phi
Instr == [op : {"load", "store", "call", "out"}, var : Var \cup {Null}, val : Id \cup {Null}]

\* Block b of p has a store of v at a place before k.
StoreBefore(p, b, k, v) ==
  \E m \in DOMAIN p.code[b] : m < k /\ p.code[b][m].op = "store" /\ p.code[b][m].var = v
StoreIn(p, b, v) == StoreBefore(p, b, Len(p.code[b]) + 1, v)

Edges(p) == [b \in Block |-> ToSet(p.succ[b])]

\* Some path leads from a store of v to place k of block b.
Reached(p, b, k, v) ==
  \/ StoreBefore(p, b, k, v)
  \/ \E a \in Block : \E c \in ToSet(p.succ[a]) : StoreIn(p, a, v) /\ b \in ReachIn(Block, Edges(p), c)

\* Every block is reachable from an entry block without predecessors
\* (IRBuilder!AllReachable), a value is used in the block of its load (IRBuilder
\* emits an expression into one block), and no load is without any store that
\* reaches it: lines 101 and 172 dereference the end of a container otherwise.
Function(p) ==
  /\ p.blocks \in Seq(Block) /\ ToSet(p.blocks) = Block /\ IsInjective(p.blocks)
  /\ p.succ \in [Block -> Seq(Block)]
  /\ ReachIn(Block, Edges(p), Root) = Block
  /\ \A b \in Block : ~Contains(p.succ[b], Root) /\ IsInjective(p.succ[b])
  /\ p.code \in [Block -> Seq(Instr)]
  /\ \A b \in Block : \A k \in DOMAIN p.code[b] :
       LET i == p.code[b][k] IN
       /\ i.op \in {"load", "store"} <=> i.var # Null
       /\ i.op \in {"store", "out"} <=> i.val # Null
       /\ i.val # Null => \E m \in 1..(k - 1) : i.val = <<b, m>> /\ p.code[b][m].op \in {"load", "call"}
       /\ i.op = "load" => Reached(p, b, k, i.var)

ASSUME RootIsBlock == Root \in Block
ASSUME SetsFinite == IsFiniteSet(Block) /\ IsFiniteSet(Var)
ASSUME NullAssumption == Null \notin Value \cup Var \cup Block
ASSUME VarAssumption == \A v \in Var : v \notin Nat
ASSUME ProgramsAssumption == \A p \in Programs : Function(p)

VARIABLES
  source,        \* the function as it was given
  pc,            \* the loop of the pass that runs
  operand,       \* the operand that each instruction has now
  deleted,       \* the instructions that are no longer in a list, by place
  next, at,      \* the block of insideBlockForwarding; the instruction of a loop
  defined_list, new_value, forward_list, delete_list,
  phis,          \* bb_phi_list: the variables that have a phi in the block
  pairs,         \* the operands of each phi, as pairs of value and block
  todo,          \* globals that genPhi has not seen
  var, queue,    \* the worklist of genPhi, of the variable var
  define_var,    \* how often a block defines a variable
  value_status,  \* the stack of values of each variable
  visited,
  calls,         \* open calls of valueForwarding, the innermost last
  allocas

forwarding == <<next, defined_list, new_value, forward_list, delete_list>>
placing  == <<todo, var, queue>>
renaming == <<define_var, value_status, visited, calls>>
vars == <<source, pc, operand, deleted, at, forwarding, phis, pairs, placing, renaming, allocas>>

code == source.code
succ(b) == ToSet(source.succ[b])
dom_frontier(b) == Frontier(Block, Edges(source), Root, b)

\* The places of a block's list, of its loads and of its stores of v.
Listed(b) == {k \in DOMAIN code[b] : <<b, k>> \notin deleted}
Loads(b)  == {k \in Listed(b) : code[b][k].op = "load"}
Stores(b, v) == {k \in Listed(b) : code[b][k].op = "store" /\ code[b][k].var = v}

isLocalVarOp(i) == i.op \in {"load", "store"}

NoneKnown == [v \in Var |-> Null]

Init ==
  /\ source \in Programs
  /\ pc = "forward"
  /\ operand = [b \in Block |-> [k \in DOMAIN code[b] |-> code[b][k].val]]
  /\ deleted = {}
  /\ next = 1 /\ at = 1
  /\ defined_list = NoneKnown /\ new_value = NoneKnown /\ forward_list = {} /\ delete_list = {}
  /\ phis = [b \in Block |-> {}]
  /\ pairs = [p \in Phi |-> {}]
  /\ todo = {}
  /\ var = Null /\ queue = <<>>
  /\ define_var = [b \in Block |-> [v \in Var |-> 0]]
  /\ value_status = [v \in Var |-> <<>>]
  /\ visited = {}
  /\ calls = <<>>
  /\ allocas = Var

-----------------------------------------------------------------------------
(* insideBlockForwarding.                                                  *)

\* The value forwarded for x, or x.
Forwarded(list, x) == IF \E f \in list : f[1] = x THEN (CHOOSE f \in list : f[1] = x)[2] ELSE x

Scanned == source.blocks[next]
Scanning == pc = "forward" /\ next <= Len(source.blocks) /\ at <= Len(code[Scanned])
ScanNext == at' = at + 1 /\ UNCHANGED <<source, pc, operand, deleted, next, phis, pairs, placing, renaming, allocas>>

ScanStore ==
  LET i == code[Scanned][at] IN
  /\ Scanning
  /\ i.op = "store"
  /\ defined_list' = [defined_list EXCEPT ![i.var] = <<Scanned, at>>]
  /\ delete_list' = delete_list \cup ({defined_list[i.var]} \ {Null})
  /\ new_value' = [new_value EXCEPT ![i.var] = Forwarded(forward_list, i.val)]
  /\ ScanNext /\ UNCHANGED forward_list

\* A load without a store before it in the block stays.
ScanLoad ==
  LET i == code[Scanned][at] IN
  /\ Scanning
  /\ i.op = "load"
  /\ forward_list' = IF defined_list[i.var] = Null THEN forward_list
                     ELSE forward_list \cup {<<<<Scanned, at>>, new_value[i.var]>>}
  /\ ScanNext /\ UNCHANGED <<defined_list, new_value, delete_list>>

ScanOther ==
  /\ Scanning
  /\ ~isLocalVarOp(code[Scanned][at])
  /\ ScanNext /\ UNCHANGED <<defined_list, new_value, forward_list, delete_list>>

\* set_operand on every user of a forwarded load, in whatever block, then
\* delete_instr of the forwarded loads and the overwritten stores.
ForwardBlock ==
  /\ pc = "forward"
  /\ next <= Len(source.blocks)
  /\ at > Len(code[Scanned])
  /\ operand' = [b \in Block |-> [k \in DOMAIN operand[b] |-> Forwarded(forward_list, operand[b][k])]]
  /\ deleted' = deleted \cup delete_list \cup {f[1] : f \in forward_list}
  /\ next' = next + 1 /\ at' = 1
  /\ defined_list' = NoneKnown /\ new_value' = NoneKnown /\ forward_list' = {} /\ delete_list' = {}
  /\ UNCHANGED <<source, pc, phis, pairs, placing, renaming, allocas>>

-----------------------------------------------------------------------------
(* genPhi.                                                                 *)

\* Only a variable that some block still loads needs phis.
CollectGlobals ==
  /\ pc = "forward"
  /\ next > Len(source.blocks)
  /\ todo' = UNION {{code[b][k].var : k \in Loads(b)} : b \in Block}
  /\ pc' = "phis"
  /\ UNCHANGED <<source, operand, deleted, at, forwarding, phis, pairs, var, queue, renaming, allocas>>

\* Some order of a set, as that of addresses.
Orders(S) == {s \in [1..Cardinality(S) -> S] : ToSet(s) = S}

\* The blocks that define the variable.
StartVar ==
  /\ pc = "phis"
  /\ queue = <<>>
  /\ \E v \in todo :
       /\ var' = v
       /\ todo' = todo \ {v}
       /\ queue' \in Orders({b \in Block : Stores(b, v) # {}})
  /\ UNCHANGED <<source, pc, operand, deleted, at, forwarding, phis, pairs, renaming, allocas>>

\* One block of the worklist.
\* Mutant: a block that gets a phi is no definition itself.
PlacePhisOnce ==
  /\ pc = "phis"
  /\ queue # <<>>
  /\ phis' = [b \in Block |-> IF b \in dom_frontier(Head(queue)) THEN phis[b] \cup {var} ELSE phis[b]]
  /\ queue' = Tail(queue)
  /\ UNCHANGED <<source, pc, operand, deleted, at, forwarding, pairs, todo, var, renaming, allocas>>

\* Mutant: the block goes to the worklist although it has the phi already.
PlacePhisAgain ==
  /\ pc = "phis"
  /\ queue # <<>>
  /\ phis' = [b \in Block |-> IF b \in dom_frontier(Head(queue)) THEN phis[b] \cup {var} ELSE phis[b]]
  /\ \E new \in Orders(dom_frontier(Head(queue))) : queue' = Tail(queue) \o new
  /\ UNCHANGED <<source, pc, operand, deleted, at, forwarding, pairs, todo, var, renaming, allocas>>

PlacePhis ==
  /\ pc = "phis"
  /\ queue # <<>>
  /\ LET front == {b \in dom_frontier(Head(queue)) : var \notin phis[b]} IN
     /\ phis' = [b \in Block |-> IF b \in front THEN phis[b] \cup {var} ELSE phis[b]]
     /\ \E new \in Orders(front) : queue' = Tail(queue) \o new
  /\ UNCHANGED <<source, pc, operand, deleted, at, forwarding, pairs, todo, var, renaming, allocas>>

-----------------------------------------------------------------------------
(* valueDefineCounting and valueForwarding.                                *)

\* Mutant: phis are not counted.
DefinesStores(b, v) == Cardinality(Stores(b, v))

Defines(b, v) == (IF v \in phis[b] THEN 1 ELSE 0) + Cardinality(Stores(b, v))

\* The last value of a stack; there is none below an empty one.
Top(stack) == IF stack = <<>> THEN Null ELSE stack[Len(stack)]

\* A call of valueForwarding up to its loop over the instructions.
Enter(b) ==
  /\ visited' = visited \cup {b}
  /\ value_status' = [v \in Var |-> IF v \in phis[b] THEN Append(value_status[v], <<b, v>>) ELSE value_status[v]]
  /\ calls' = Append(calls, b)
  /\ at' = 1
  /\ pc' = "rename"

\* The call on the entry block.
StartRenaming ==
  /\ pc = "phis"
  /\ todo = {} /\ queue = <<>>
  /\ define_var' = [b \in Block |-> [v \in Var |-> Defines(b, v)]]
  /\ Enter(Root)
  /\ UNCHANGED <<source, operand, deleted, forwarding, phis, pairs, placing, allocas>>

Current == calls[Len(calls)]
Renaming(op) == pc = "rename" /\ at \in Listed(Current) /\ code[Current][at].op = op

\* replace_all_use_with: every user has y instead of x.
Subst(x, y) ==
  /\ operand' = [b \in Block |-> [k \in DOMAIN operand[b] |-> IF operand[b][k] = x THEN y ELSE operand[b][k]]]
  /\ pairs' = [p \in Phi |-> {<<IF q[1] = x THEN y ELSE q[1], q[2]>> : q \in pairs[p]}]

RenameLoad ==
  /\ Renaming("load")
  /\ Subst(<<Current, at>>, Top(value_status[code[Current][at].var]))
  /\ at' = at + 1
  /\ UNCHANGED <<source, pc, deleted, forwarding, phis, placing, renaming, allocas>>

RenameStore ==
  /\ Renaming("store")
  /\ value_status' = [value_status EXCEPT ![code[Current][at].var] = Append(@, operand[Current][at])]
  /\ at' = at + 1
  /\ UNCHANGED <<source, pc, operand, deleted, forwarding, phis, pairs, placing, define_var, visited, calls, allocas>>

RenameOther ==
  /\ pc = "rename"
  /\ at <= Len(code[Current])
  /\ at \in Listed(Current) => ~isLocalVarOp(code[Current][at])
  /\ at' = at + 1
  /\ UNCHANGED <<source, pc, operand, deleted, forwarding, phis, pairs, placing, renaming, allocas>>

\* The values at the end of the block for the phis of its successors; a variable
\* without one gets no pair.

\* Mutant: blocks that have been visited are not looked at again.
FillUnvisited(b) ==
  [p \in Phi |-> IF p[1] \in succ(b) \ visited /\ p[2] \in phis[p[1]] /\ value_status[p[2]] # <<>>
                 THEN pairs[p] \cup {<<Top(value_status[p[2]]), b>>}
                 ELSE pairs[p]]

Fill(b) ==
  [p \in Phi |-> IF p[1] \in succ(b) /\ p[2] \in phis[p[1]] /\ value_status[p[2]] # <<>>
                 THEN pairs[p] \cup {<<Top(value_status[p[2]]), b>>}
                 ELSE pairs[p]]

FillPhis ==
  /\ pc = "rename"
  /\ at > Len(code[Current])
  /\ pairs' = Fill(Current)
  /\ pc' = "walk"
  /\ UNCHANGED <<source, operand, deleted, at, forwarding, phis, placing, renaming, allocas>>

\* The first successor that has not been visited.
Descend ==
  /\ pc = "walk"
  /\ \E k \in DOMAIN source.succ[Current] :
       /\ source.succ[Current][k] \notin visited
       /\ \A m \in 1..(k - 1) : source.succ[Current][m] \in visited
       /\ Enter(source.succ[Current][k])
  /\ UNCHANGED <<source, operand, deleted, forwarding, phis, pairs, placing, define_var, allocas>>

Pop(stack, n) == SubSeq(stack, 1, IF n > Len(stack) THEN 0 ELSE Len(stack) - n)

\* The end of a call: its definitions are popped, its loads and stores deleted.
Return ==
  /\ pc = "walk"
  /\ succ(Current) \subseteq visited
  /\ value_status' = [v \in Var |-> Pop(value_status[v], define_var[Current][v])]
  /\ deleted' = deleted \cup {<<Current, k>> : k \in {k \in Listed(Current) : isLocalVarOp(code[Current][k])}}
  /\ calls' = SubSeq(calls, 1, Len(calls) - 1)
  /\ pc' = IF Len(calls) = 1 THEN "remove" ELSE "walk"
  /\ UNCHANGED <<source, operand, at, forwarding, phis, pairs, placing, define_var, visited, allocas>>

RemoveAlloc ==
  /\ pc = "remove"
  /\ allocas' = {}
  /\ pc' = "done"
  /\ UNCHANGED <<source, operand, deleted, at, forwarding, phis, pairs, placing, renaming>>

-----------------------------------------------------------------------------

Pass ==
  \/ ScanStore \/ ScanLoad \/ ScanOther \/ ForwardBlock
  \/ CollectGlobals \/ StartVar \/ PlacePhis
  \/ StartRenaming \/ RenameLoad \/ RenameStore \/ RenameOther \/ FillPhis
  \/ Descend \/ Return
  \/ RemoveAlloc

Finished == pc = "done" /\ UNCHANGED vars

Next == Pass \/ Finished

\* The compiler is one sequential process that runs on.
Spec == Init /\ [][Next]_vars /\ WF_vars(Next)

-----------------------------------------------------------------------------
(* Properties.                                                             *)

TypeOK ==
  /\ pc \in {"forward", "phis", "rename", "walk", "remove", "done"}
  /\ DOMAIN operand = Block
  /\ \A b \in Block : operand[b] \in [DOMAIN code[b] -> Value \cup {Null}]
  /\ deleted \subseteq Id
  /\ next \in Nat \ {0} /\ at \in Nat \ {0}
  /\ defined_list \in [Var -> Id \cup {Null}] /\ new_value \in [Var -> Id \cup {Null}]
  /\ forward_list \subseteq Id \X Id /\ delete_list \subseteq Id
  /\ phis \in [Block -> SUBSET Var]
  /\ DOMAIN pairs = Phi /\ \A p \in Phi : pairs[p] \subseteq Value \X Block
  /\ todo \subseteq Var
  /\ var \in Var \cup {Null} /\ queue \in Seq(Block)
  /\ define_var \in [Block -> [Var -> Nat]]
  /\ value_status \in [Var -> Seq(Value)]
  /\ visited \subseteq Block /\ calls \in Seq(Block)
  /\ allocas \subseteq Var

\* The phis that have been placed.
Phis == {p \in Phi : p[2] \in phis[p[1]]}

\* The values that exist now: phis, calls and loads still in a block.
Exists(x) ==
  \/ x \in Phis
  \/ \E b \in Block : \E k \in Listed(b) : x = <<b, k>> /\ code[b][k].op \in {"load", "call"}

\* Every operand names a value that is still in the function: never a load
\* that was forwarded or renamed and deleted, and never what lies below an
\* empty stack.  Lines 35-37 resolve what a store gets from a forwarded load;
\* line 172 reads the stack of a load without asking whether it is empty.
OperandsExist ==
  /\ \A b \in Block : \A k \in Listed(b) : code[b][k].op \in {"store", "out"} => Exists(operand[b][k])
  /\ \A p \in Phis : \A q \in pairs[p] : Exists(q[1])
  /\ \A v \in Var : \A x \in ToSet(value_status[v]) : Exists(x)

\* The definitions of v in the open calls, up to the instruction that the
\* innermost one is at; the phi is at place 0.
OpenDefs(v) ==
  LET behind(b, k) == pc = "rename" /\ b = Current => k < at
  IN  {<<b, 0>> : b \in {b \in ToSet(calls) : v \in phis[b]}}
        \cup UNION {{<<b, k>> : k \in {k \in Stores(b, v) : behind(b, k)}} : b \in ToSet(calls)}

\* The file-level stacks hold what the open calls have pushed and nothing
\* else; the next function finds them empty (lines 154-186 against 217-222).
StacksBalanced == \A v \in Var : Len(value_status[v]) = Cardinality(OpenDefs(v))

\* After the pass, a phi has one value for each predecessor at the end of
\* which its variable may have one, and only for those.  It has at least one:
\* PhiInst::print takes the type from its first operand (Instruction.cpp:766).
PhisComplete ==
  pc = "done" =>
    \A p \in Phis :
      /\ pairs[p] # {}
      /\ \A q, r \in pairs[p] : q[2] = r[2] => q = r
      /\ {q[2] : q \in pairs[p]} =
           {b \in Block : p[1] \in succ(b) /\ Reached(source, b, Len(code[b]) + 1, p[2])}

\* After the pass the function is in SSA form: a use is dominated by the
\* definition of its operand, the use by a phi taking place at the end of the
\* predecessor.  The walk enters a block from whichever predecessor it meets
\* first and not from its immediate dominator (lines 211-214).
DefsDominateUses ==
  pc = "done" =>
    /\ \A b \in Block : \A k \in Listed(b) : code[b][k].op = "out" =>
         LET x == operand[b][k] IN
         IF x[1] # b \/ x \in Phis THEN Dominates(Block, Edges(source), Root, x[1], b)
         ELSE x[2] \in Listed(b) /\ x[2] < k
    /\ \A p \in Phis : \A q \in pairs[p] : Dominates(Block, Edges(source), Root, q[1][1], q[2])

\* No instruction names a local variable whose alloca has been removed.
NoLocalLeft == \A b \in Block : \A k \in Listed(b) : code[b][k].var \in allocas \cup {Null}

\* At every moment of the pass.
StateSound == TypeOK /\ StacksBalanced /\ OperandsExist /\ NoLocalLeft

\* What the passes behind Mem2Reg rely on.
SSAForm == PhisComplete /\ DefsDominateUses

\* The worklist of genPhi and the walk come to an end.
Terminates == <>(pc = "done")
=============================================================================
