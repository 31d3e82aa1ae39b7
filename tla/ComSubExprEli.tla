---------------------------- MODULE ComSubExprEli ----------------------------
(***************************************************************************)
(* The pass ComSubExprEli on one function in SSA form                      *)
(* (Optimize/ComSubExprEli.cpp): the expressions each block computes, the  *)
(* fixpoint that finds which are available at its start, the replacement   *)
(* of an expression by an earlier one or by a phi over earlier ones, and   *)
(* the deletion of what was replaced.                                      *)
(*                                                                         *)
(* The sets of the code are ordered by cmp_expr; here one expression, the  *)
(* member of availableExprs, stands for all that compare equal.  Which of  *)
(* two equal expressions a set_union keeps depends on addresses and is     *)
(* seen only by the test whether to run again.                             *)
(*                                                                         *)
(* A replacement changes the operands, and so the order, of expressions    *)
(* that are members of these sets: from then on a lookup in a set with     *)
(* such a member may miss what is there.                                   *)
(*                                                                         *)
(* Definitions marked "Mutant" are no part of the specification.           *)
(***************************************************************************)
EXTENDS Naturals, Sequences, FiniteSets, SequencesExt, Cfg

CONSTANTS
  Block,
  Value,        \* what an operand or an id may be, but for the phis of the pass
  Const,        \* the values that are constants
  Expr,         \* the operations of is_valid_expr
  Commutative,  \* add, mul, fadd, fmul
  Null,
  Programs      \* the functions the pass may be given, see Function

\* A phi is named by its block and the expression it was made for.
PhiId  == {"phi"} \X Block \X Value
Id     == Value \cup PhiId
Instr  == [id : Id, op : Expr \cup {"phi", "use"}, args : Seq(Id), from : Seq(Block)]
ToCode(p) == UNION {ToSet(p.code[b]) : b \in Block}

\* The blocks in list order, the entry first, and no instruction without an id
\* of its own; foreign are the expressions of earlier functions.
Function(p) ==
  /\ p.blocks \in Seq(Block) /\ ToSet(p.blocks) = Block /\ Len(p.blocks) = Cardinality(Block)
  /\ \A b \in Block : p.pre[b] \in Seq(Block) /\ p.code[b] \in Seq(Instr)
  /\ p.pre[Head(p.blocks)] = <<>>
  /\ p.foreign \subseteq Instr
  /\ \A i, j \in ToCode(p) \cup p.foreign : i.id = j.id => i = j

ASSUME ValuesAssumption == Const \subseteq Value /\ Null \notin Id \cup Block
ASSUME OpsAssumption == Commutative \subseteq Expr /\ Expr \cap {"phi", "use"} = {}
ASSUME ProgramsAssumption == \A p \in Programs : Function(p)

VARIABLES
  program,
  pc,
  code,                     \* the instructions of each block
  next, at,                 \* block in list order, instruction of the block
  availableExprs, bb_gen, bb_in, bb_out, bb_cur_expr,
  rerun,
  moved,                    \* members of the sets whose operands have changed
  del_expr,
  calls, bb_vis             \* open calls of find_definition_expr; blocks they have seen

vars == <<program, pc, code, next, at, availableExprs, bb_gen, bb_in, bb_out, bb_cur_expr,
          rerun, moved, del_expr, calls, bb_vis>>
flow == <<bb_gen, bb_in, bb_out, rerun>>
search == <<calls, bb_vis>>

entry == Head(program.blocks)
Current == program.blocks[next]

\* cmp_expr puts a constant before another operand of a commutative operation,
\* and tells expressions apart by operation and operands.

Key(i) ==
  <<i.op, IF i.op \in Commutative /\ i.args[1] \notin Const /\ i.args[2] \in Const
          THEN Reverse(i.args) ELSE i.args>>

\* The members of a set of ids, those of other functions included.
Instrs(S) == {i \in program.foreign \cup UNION {ToSet(code[b]) : b \in Block} : i.id \in S}
Keys(S) == {Key(i) : i \in Instrs(S)}

is_valid_expr(i) == i.op \in Expr
Exprs(s) == SelectSeq(s, is_valid_expr)

Init ==
  /\ program \in Programs
  /\ pc = "gen"
  /\ code = program.code
  /\ next = 1 /\ at = 1
  /\ availableExprs = {i.id : i \in program.foreign}
  /\ bb_gen = [b \in Block |-> {}] /\ bb_in = bb_gen /\ bb_out = bb_gen
  /\ bb_cur_expr = {} /\ moved = {} /\ del_expr = {}
  /\ rerun = FALSE
  /\ calls = <<>> /\ bb_vis = {}

-----------------------------------------------------------------------------
(* compute_local_gen and compute_global_in_out.                            *)

\* All expressions in list order; the first of equal ones stays in the set.
AllExprs == FoldLeft(LAMBDA acc, b : acc \o Exprs(code[b]), <<>>, program.blocks)
FirstOnes(s) ==
  {s[k].id : k \in {k \in DOMAIN s : Key(s[k]) \notin Keys(availableExprs)
                                    /\ \A m \in 1..(k - 1) : Key(s[m]) # Key(s[k])}}

\* Mutant: the iteration starts from the bottom.
GenFromNothing ==
  /\ pc = "gen"
  /\ availableExprs' = availableExprs \cup FirstOnes(AllExprs)
  /\ bb_gen' = [b \in Block |->
       LET keys == {Key(i) : i \in ToSet(Exprs(code[b]))}
       IN  {i.id : i \in {i \in Instrs(availableExprs') : Key(i) \in keys}}]
  /\ rerun' = FALSE
  /\ pc' = "flow"
  /\ UNCHANGED <<program, code, next, at, bb_in, bb_out, bb_cur_expr, moved, del_expr, search>>

ComputeLocalGen ==
  /\ pc = "gen"
  /\ availableExprs' = availableExprs \cup FirstOnes(AllExprs)
  /\ bb_gen' = [b \in Block |->
       LET keys == {Key(i) : i \in ToSet(Exprs(code[b]))}
       IN  {i.id : i \in {i \in Instrs(availableExprs') : Key(i) \in keys}}]
  /\ bb_out' = [b \in Block |-> availableExprs']
  /\ rerun' = FALSE
  /\ pc' = "flow"
  /\ UNCHANGED <<program, code, next, at, bb_in, bb_cur_expr, moved, del_expr, search>>

\* What every predecessor has; everything, if there is none.
Meet(b) == {x \in availableExprs : \A p \in ToSet(program.pre[b]) : x \in bb_out[p]}

\* One block of a pass; the entry block is known by its name.
\* Mutant: rerun is what the last block says.
IterateForgets ==
  /\ pc = "flow"
  /\ next <= Len(program.blocks)
  /\ LET b == Current IN
     /\ bb_in' = [bb_in EXCEPT ![b] = IF b = entry THEN {} ELSE Meet(b)]
     /\ bb_out' = [bb_out EXCEPT ![b] = bb_in'[b] \cup bb_gen[b]]
     /\ rerun' = (bb_out'[b] # bb_out[b])
  /\ next' = next + 1
  /\ UNCHANGED <<program, pc, code, at, availableExprs, bb_gen, bb_cur_expr, moved, del_expr, search>>

Iterate ==
  /\ pc = "flow"
  /\ next <= Len(program.blocks)
  /\ LET b == Current IN
     /\ bb_in' = [bb_in EXCEPT ![b] = IF b = entry THEN {} ELSE Meet(b)]
     /\ bb_out' = [bb_out EXCEPT ![b] = bb_in'[b] \cup bb_gen[b]]
     /\ rerun' = (rerun \/ bb_out'[b] # bb_out[b])
  /\ next' = next + 1
  /\ UNCHANGED <<program, pc, code, at, availableExprs, bb_gen, bb_cur_expr, moved, del_expr, search>>

\* Mutant: rerun is not reset.
PassDoneKeepsRerun ==
  /\ pc = "flow"
  /\ next > Len(program.blocks)
  /\ next' = 1
  /\ IF rerun THEN UNCHANGED pc ELSE pc' = "replace"
  /\ UNCHANGED <<program, code, at, availableExprs, flow, bb_cur_expr, moved, del_expr, search>>

PassDone ==
  /\ pc = "flow"
  /\ next > Len(program.blocks)
  /\ next' = 1
  /\ IF rerun THEN UNCHANGED pc ELSE pc' = "replace"
  /\ rerun' = FALSE
  /\ UNCHANGED <<program, code, at, availableExprs, bb_gen, bb_in, bb_out, bb_cur_expr, moved, del_expr, search>>

-----------------------------------------------------------------------------
(* compute_global_common_expr and find_definition_expr.                    *)

\* Is i in the set S?  A lookup goes down a tree: it may miss i if a member of
\* the same operation has moved, as the addresses fall.
Has(S, i) == Key(i) \in Keys(S)
MayMiss(S, i) == \E m \in Instrs(S \cap moved) : m.op = i.op
Lookup(S, i) == {Has(S, i)} \cup (IF MayMiss(S, i) THEN {FALSE} ELSE {})

\* Whether p computes i first on the paths to it.
\* Mutant: whether p computes i.
DefinedAnywhere(p, i) == Lookup(bb_gen[p], i)

DefinedIn(p, i) == {~there /\ here : there \in Lookup(bb_in[p], i), here \in Lookup(bb_gen[p], i)}

\* The first instruction of p that compares equal to i.
Matching(p, i) == Head(SelectSeq(code[p], LAMBDA j : Key(j) = Key(i))).id

\* Pairs are kept in a map by value: a second block with the same value is lost.

AddPair(pairs, x, p) ==
  IF x = Null \/ \E k \in DOMAIN pairs : pairs[k].val = x THEN pairs
  ELSE Append(pairs, [val |-> x, from |-> p])

\* x replaced by y in the code c.
Replaced(c, x, y) ==
  [b \in Block |->
    [k \in DOMAIN c[b] |-> [c[b][k] EXCEPT !.args = [n \in DOMAIN @ |-> IF @[n] = x THEN y ELSE @[n]]]]]

MovedBy(x) == {i.id : i \in {i \in UNION {ToSet(code[b]) : b \in Block} : is_valid_expr(i) /\ Contains(i.args, x)}}

\* The instruction at hand; those of the loop are the ones of the block before
\* the pass, since phis are put in front of it.
Here == CHOOSE i \in ToSet(code[Current]) : i.id = program.code[Current][at].id
AtInstr == pc = "replace" /\ next <= Len(program.blocks) /\ at <= Len(program.code[Current])
Step == at' = at + 1 /\ UNCHANGED <<program, pc, next, flow, search>>

SkipInstr ==
  /\ AtInstr
  /\ ~is_valid_expr(Here)
  /\ Step
  /\ UNCHANGED <<code, availableExprs, bb_cur_expr, moved, del_expr>>

\* Available at the start of the block.
Global == Has(availableExprs, Here) /\ Has(bb_in[Current], Here)
GlobalMayMiss == MayMiss(availableExprs, Here) \/ MayMiss(bb_in[Current], Here)

FindGlobal ==
  /\ AtInstr
  /\ is_valid_expr(Here)
  /\ Global
  /\ calls' = <<[bb |-> Current, pre |-> 1, pairs |-> <<>>]>>
  /\ bb_vis' = {Current}
  /\ pc' = "find"
  /\ UNCHANGED <<program, code, next, at, availableExprs, flow, bb_cur_expr, moved, del_expr>>

\* One predecessor in a call of find_definition_expr.
Search ==
  LET top  == Head(calls)
      rest == Tail(calls)
      p    == program.pre[top.bb][top.pre]
      done == [top EXCEPT !.pre = @ + 1]
  IN  /\ pc = "find"
      /\ top.pre <= Len(program.pre[top.bb])
      /\ IF p \in bb_vis
         THEN calls' = <<done>> \o rest /\ UNCHANGED bb_vis
         ELSE /\ bb_vis' = bb_vis \cup {p}
              /\ \E defined \in DefinedIn(p, Here) :
                   calls' = IF defined
                            THEN <<[done EXCEPT !.pairs = AddPair(@, Matching(p, Here), p)]>> \o rest
                            ELSE <<[bb |-> p, pre |-> 1, pairs |-> <<>>], done>> \o rest
      /\ UNCHANGED <<program, pc, code, next, at, availableExprs, flow, bb_cur_expr, moved, del_expr>>

\* The end of a call: its result is null, the only value found, or a new phi.
Result(call) ==
  CASE Len(call.pairs) = 0 -> Null
    [] Len(call.pairs) = 1 -> call.pairs[1].val
    [] OTHER               -> <<"phi", call.bb, Here.id>>

WithPhi(call) ==
  IF Len(call.pairs) < 2 THEN code
  ELSE [code EXCEPT ![call.bb] =
          <<[id |-> Result(call), op |-> "phi", args |-> [k \in DOMAIN call.pairs |-> call.pairs[k].val],
             from |-> [k \in DOMAIN call.pairs |-> call.pairs[k].from]]>> \o @]

ReturnToCaller ==
  LET top == Head(calls) IN
  /\ pc = "find"
  /\ top.pre > Len(program.pre[top.bb])
  /\ Len(calls) > 1
  /\ code' = WithPhi(top)
  /\ calls' = <<[calls[2] EXCEPT !.pairs = AddPair(@, Result(top), top.bb)]>> \o Tail(Tail(calls))
  /\ UNCHANGED <<program, pc, next, at, availableExprs, flow, bb_vis, bb_cur_expr, moved, del_expr>>

\* The last call returns.  A null pointer crashes the compiler, and to replace a
\* value by itself never ends.
ReplaceGlobal ==
  LET top == Head(calls) IN
  /\ pc = "find"
  /\ top.pre > Len(program.pre[top.bb])
  /\ Len(calls) = 1
  /\ code' = Replaced(WithPhi(top), Here.id, Result(top))
  /\ moved' = moved \cup MovedBy(Here.id)
  /\ del_expr' = del_expr \cup {Here.id}
  /\ pc' = IF Result(top) \in {Null, Here.id} THEN "crashed" ELSE "replace"
  /\ calls' = <<>>
  /\ at' = at + 1
  /\ UNCHANGED <<program, next, availableExprs, flow, bb_vis, bb_cur_expr>>

\* Computed before in the block.
ReplaceLocal ==
  /\ AtInstr
  /\ is_valid_expr(Here)
  /\ ~Global \/ GlobalMayMiss
  /\ \E i \in Instrs(bb_cur_expr) :
       /\ Key(i) = Key(Here)
       /\ code' = Replaced(code, Here.id, i.id)
       /\ moved' = moved \cup MovedBy(Here.id)
  /\ del_expr' = del_expr \cup {Here.id}
  /\ Step
  /\ UNCHANGED <<availableExprs, bb_cur_expr>>

KeepInstr ==
  /\ AtInstr
  /\ is_valid_expr(Here)
  /\ ~Global \/ GlobalMayMiss
  /\ ~Has(bb_cur_expr, Here) \/ MayMiss(bb_cur_expr, Here)
  /\ bb_cur_expr' = bb_cur_expr \cup {Here.id}
  /\ availableExprs' = IF Has(availableExprs, Here) THEN availableExprs ELSE availableExprs \cup {Here.id}
  /\ Step
  /\ UNCHANGED <<code, moved, del_expr>>

NextBlock ==
  /\ pc = "replace"
  /\ next <= Len(program.blocks)
  /\ at > Len(program.code[Current])
  /\ next' = next + 1 /\ at' = 1
  /\ bb_cur_expr' = {}
  /\ UNCHANGED <<program, pc, code, availableExprs, flow, moved, del_expr, search>>

DeleteAll ==
  /\ pc = "replace"
  /\ next > Len(program.blocks)
  /\ code' = [b \in Block |-> SelectSeq(code[b], LAMBDA i : i.id \notin del_expr)]
  /\ pc' = "done"
  /\ UNCHANGED <<program, next, at, availableExprs, flow, bb_cur_expr, moved, del_expr, search>>

Finished == pc \in {"done", "crashed"} /\ UNCHANGED vars

Next ==
  \/ ComputeLocalGen \/ Iterate \/ PassDone
  \/ SkipInstr \/ FindGlobal \/ Search \/ ReturnToCaller \/ ReplaceGlobal \/ ReplaceLocal \/ KeepInstr \/ NextBlock
  \/ DeleteAll \/ Finished

\* The compiler is one sequential process that runs on.
Spec == Init /\ [][Next]_vars /\ WF_vars(Next)

-----------------------------------------------------------------------------
(* Properties.                                                             *)

TypeOK ==
  /\ Function(program)
  /\ pc \in {"gen", "flow", "replace", "find", "done", "crashed"}
  /\ calls \in Seq([bb : Block, pre : Nat \ {0}, pairs : Seq([val : Id, from : Block])]) /\ bb_vis \subseteq Block
  /\ code \in [Block -> Seq(Instr)]
  /\ next \in 1..(Len(program.blocks) + 1) /\ at \in Nat \ {0}
  /\ availableExprs \subseteq Value /\ bb_cur_expr \subseteq Value
  /\ bb_gen \in [Block -> SUBSET Value] /\ bb_in \in [Block -> SUBSET Value]
  /\ bb_out \in [Block -> SUBSET Value]
  /\ rerun \in BOOLEAN
  /\ moved \subseteq Value /\ del_expr \subseteq Value

succ == [b \in Block |-> {c \in Block : Contains(program.pre[c], b)}]

\* The reference: the start of b is reached without passing an expression x.
Missed(x) == ReachIn(Block, [b \in Block |-> IF x \in bb_gen[b] THEN {} ELSE succ[b]], entry)

\* The fixpoint ends with the expressions that every path to a block has
\* computed, whatever the order of the blocks; those of other functions, which
\* availableExprs still holds, are in no set (B4.md:11).
AvailExact ==
  (pc = "flow" /\ next > Len(program.blocks) /\ ~rerun) =>
    \A b \in Block : bb_in[b] = {x \in availableExprs : b \notin Missed(x)}

\* The sets start too large and only shrink, so the passes come to an end.
OutOnlyShrinks ==
  [][pc = "flow" => \A b \in Block : bb_out'[b] \subseteq bb_out[b]]_vars

\* An expression that is available is found on the way back, in another block:
\* the code uses the result without a test for null, and replace_all_use_with
\* of a value by itself appends to the list it goes through.
Resolved == pc # "crashed"

\* Where an id of the function is defined, and its value in block b before
\* instruction k is at hand on every path.
DefinedAt(x) == {b \in Block : \E i \in ToSet(code[b]) : i.id = x}
IsDefined(x) == x \in PhiId \/ \E i \in ToCode(program) : i.id = x
ReachesEnd(x, b) == \E d \in DefinedAt(x) : Dominates(Block, succ, entry, d, b)
ReachesUse(x, b, k) ==
  \/ \E m \in 1..(k - 1) : code[b][m].id = x
  \/ \E d \in DefinedAt(x) \ {b} : Dominates(Block, succ, entry, d, b)

PhiComplete(i, b) ==
  /\ \A p \in ToSet(program.pre[b]) : Contains(i.from, p)
  /\ \A k \in DOMAIN i.args : ReachesEnd(i.args[k], i.from[k])

\* The function that the pass leaves is in SSA form: every operand is computed
\* on every path to its use, no deleted expression is used, and every phi that
\* the pass made has a value for each predecessor that is at hand there.
DefsDominateUses ==
  pc = "done" =>
    \A b \in Block : \A k \in DOMAIN code[b] :
      LET i == code[b][k]
      IN  IF i.op = "phi" THEN PhiComplete(i, b)
          ELSE \A x \in ToSet(i.args) : IsDefined(x) => ReachesUse(x, b, k)

\* The expression that x was made for, up to the order of a commutative one.
Meaning(i) == <<i.op, IF i.op \in Commutative THEN ToSet(i.args) ELSE i.args>>
Original(x) == CHOOSE i \in ToCode(program) : i.id = x
AllPhis == {i \in UNION {ToSet(code[b]) : b \in Block} : i.op = "phi"}
Sources(x) ==
  LET ids == {i.id : i \in AllPhis}
  IN  IF x \notin ids THEN {x}
      ELSE LET step == [y \in ids |-> UNION {ToSet(i.args) : i \in {i \in AllPhis : i.id = y}}]
           IN  (UNION {step[y] : y \in ReachIn(ids, step, x)}) \ ids

\* What replaces an expression computes the same one, at the end of every chain
\* of phis: in SSA form nothing kills it, so its value is the same.
SameExpression ==
  \A b \in Block : \A i \in ToSet(code[b]) : i.op # "phi" =>
    \A k \in DOMAIN i.args : IsDefined(i.args[k]) =>
      \A x \in Sources(i.args[k]) : Meaning(Original(x)) = Meaning(Original(Original(i.id).args[k]))

\* No common expression is left: where an expression remains, some path to it
\* has not computed an equal one.
NoneLeft ==
  pc = "done" =>
    \A b \in Block : \A k \in DOMAIN code[b] : is_valid_expr(code[b][k]) =>
      /\ \A m \in 1..(k - 1) : Key(code[b][m]) # Key(code[b][k])
      /\ \A x \in bb_in[b] : Key(Original(x)) # Key(code[b][k])

\* The pass goes through, and what it leaves is the same values, in SSA form,
\* without a common expression.
ResultSound == TypeOK /\ Resolved /\ DefsDominateUses /\ SameExpression /\ NoneLeft

\* The pass ends.
Terminates == <>(pc \in {"done", "crashed"})

\* A phi that the pass makes chooses the expression of the path taken, as
\* B4.md:13 says: it has one for each predecessor, computed on the path.
PhiChoosesPath ==
  pc = "done" => \A b \in Block : \A i \in ToSet(code[b]) :
    /\ i.op = "phi" => PhiComplete(i, b)
    /\ i.op = "use" => \A x \in ToSet(i.args) : x \in PhiId => ReachesEnd(x, b)
=============================================================================
