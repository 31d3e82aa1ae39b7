---------------------------- MODULE RDominateTree ----------------------------
(***************************************************************************)
(* The pass RDominateTree on the functions of a module, one after the      *)
(* other (Optimize/RDominateTree.cpp): the fixpoint of DominateTree on the *)
(* reversed graph, from the block that returns.  Its tables are members of *)
(* the pass and serve every function in turn.  One action is one block in  *)
(* a loop of the code.                                                     *)
(*                                                                         *)
(* Definitions marked "Mutant" are no part of the specification.           *)
(***************************************************************************)
EXTENDS Naturals, Sequences, FiniteSets, SequencesExt, Cfg

CONSTANTS
  Block,    \* the blocks of all functions
  Null,     \* nullptr
  Modules   \* the lists of functions the pass may be given: FunctionOK, and
            \* each with blocks of its own

\* A declaration has no blocks.  Any other function, as IRBuilder leaves it, has
\* one block that ends in ret and that every block reaches.
Exits(g) == {b \in ToSet(g.blocks) : g.succ[b] = <<>>}
FunctionOK(g) ==
  g.blocks # <<>> =>
    LET N == ToSet(g.blocks) IN
    /\ \A b \in N : ToSet(g.succ[b]) \cup ToSet(g.pre[b]) \subseteq N
    /\ \A a, b \in N : Contains(g.succ[a], b) <=> Contains(g.pre[b], a)
    /\ \E exit \in N : Exits(g) = {exit} /\ ReachIn(N, [b \in N |-> ToSet(g.pre[b])], exit) = N

VARIABLES
  functions, f,         \* the functions of the module, the current one
  pc,
  exit_block,
  calls, visited,       \* open calls of get_post_order: block, next parent
  post_order,           \* reverse_post_order before it is reversed
  bb2int, rdoms,
  changed, i,
  rdom_frontier, rdom   \* members of the blocks: rdom_frontier_ and rdoms_

vars == <<functions, f, pc, exit_block, calls, visited, post_order, bb2int, rdoms, changed, i,
          rdom_frontier, rdom>>

numbering == <<calls, visited, post_order, bb2int>>
result    == <<rdom_frontier, rdom>>

graph == functions[f]
blocks == ToSet(graph.blocks)

\* The blocks may hold anything from an earlier execution of the pass.
Start ==
  /\ f = 1
  /\ pc = "function"
  /\ exit_block = Null
  /\ calls = <<>> /\ visited = {} /\ post_order = <<>>
  /\ bb2int = [b \in Block |-> 0]
  /\ rdoms = <<>>
  /\ changed = FALSE
  /\ i = 1
  /\ \E old \in {{}, Block} : rdom_frontier = [b \in Block |-> old] /\ rdom = [b \in Block |-> old]

Init == functions \in Modules /\ Start

\* rdoms[bb2int[b]]; the vector is indexed from 0.
Num(b) == IF b = Null THEN 0 ELSE bb2int[b]
Rdom(b) == IF Num(b) < Len(rdoms) THEN rdoms[Num(b) + 1] ELSE Null

-----------------------------------------------------------------------------
(* get_revserse_post_order.                                                *)

SkipDeclaration ==
  /\ pc = "function"
  /\ f <= Len(functions)
  /\ graph.blocks = <<>>
  /\ f' = f + 1
  /\ UNCHANGED <<functions, pc, exit_block, numbering, rdoms, changed, i, result>>

\* Everything is cleared, and the walk starts at the block that returns; where
\* there is none, exit_block keeps its value.
\* Mutant: the members of the blocks are not cleared.
EnterKeepsResult ==
  /\ pc = "function"
  /\ f <= Len(functions)
  /\ graph.blocks # <<>>
  /\ LET rets == SelectSeq(graph.blocks, LAMBDA b : graph.succ[b] = <<>>)
     IN  exit_block' = IF rets = <<>> THEN exit_block ELSE Head(rets)
  /\ rdoms' = <<>> /\ post_order' = <<>> /\ bb2int' = [b \in Block |-> 0]
  /\ visited' = {exit_block'} /\ calls' = <<[bb |-> exit_block', parent |-> 1]>>
  /\ pc' = "walk"
  /\ UNCHANGED <<functions, f, changed, i, result>>

\* Mutant: the vector is left as the function before left it.
EnterKeepsRdoms ==
  /\ pc = "function"
  /\ f <= Len(functions)
  /\ graph.blocks # <<>>
  /\ rdom' = [b \in Block |-> IF b \in blocks THEN {} ELSE rdom[b]]
  /\ rdom_frontier' = [b \in Block |-> IF b \in blocks THEN {} ELSE rdom_frontier[b]]
  /\ LET rets == SelectSeq(graph.blocks, LAMBDA b : graph.succ[b] = <<>>)
     IN  exit_block' = IF rets = <<>> THEN exit_block ELSE Head(rets)
  /\ post_order' = <<>> /\ bb2int' = [b \in Block |-> 0]
  /\ visited' = {exit_block'} /\ calls' = <<[bb |-> exit_block', parent |-> 1]>>
  /\ pc' = "walk"
  /\ UNCHANGED <<functions, f, rdoms, changed, i>>

EnterFunction ==
  /\ pc = "function"
  /\ f <= Len(functions)
  /\ graph.blocks # <<>>
  /\ rdom' = [b \in Block |-> IF b \in blocks THEN {} ELSE rdom[b]]
  /\ rdom_frontier' = [b \in Block |-> IF b \in blocks THEN {} ELSE rdom_frontier[b]]
  /\ LET rets == SelectSeq(graph.blocks, LAMBDA b : graph.succ[b] = <<>>)
     IN  exit_block' = IF rets = <<>> THEN exit_block ELSE Head(rets)
  /\ rdoms' = <<>> /\ post_order' = <<>> /\ bb2int' = [b \in Block |-> 0]
  /\ visited' = {exit_block'} /\ calls' = <<[bb |-> exit_block', parent |-> 1]>>
  /\ pc' = "walk"
  /\ UNCHANGED <<functions, f, changed, i>>

Parent ==
  LET top == Head(calls) IN
  /\ pc = "walk"
  /\ calls # <<>>
  /\ top.parent <= Len(graph.pre[top.bb])
  /\ LET parent == graph.pre[top.bb][top.parent]
         rest   == <<[top EXCEPT !.parent = @ + 1]>> \o Tail(calls)
     IN  IF parent \in visited
         THEN calls' = rest /\ UNCHANGED visited
         ELSE calls' = <<[bb |-> parent, parent |-> 1]>> \o rest /\ visited' = visited \cup {parent}
  /\ UNCHANGED <<functions, f, pc, exit_block, post_order, bb2int, rdoms, changed, i, result>>

Number ==
  LET top == Head(calls) IN
  /\ pc = "walk"
  /\ calls # <<>>
  /\ top.parent > Len(graph.pre[top.bb])
  /\ bb2int' = [bb2int EXCEPT ![top.bb] = Len(post_order)]
  /\ post_order' = Append(post_order, top.bb)
  /\ calls' = Tail(calls)
  /\ UNCHANGED <<functions, f, pc, exit_block, visited, rdoms, changed, i, result>>

-----------------------------------------------------------------------------
(* get_bb_irdom.                                                           *)

StartIrdom ==
  /\ pc = "walk"
  /\ calls = <<>>
  /\ rdoms' = rdoms \o [n \in 1..bb2int[exit_block] |-> Null] \o <<exit_block>>
  /\ pc' = "irdom"
  /\ i' = 1
  /\ changed' = FALSE
  /\ UNCHANGED <<functions, f, exit_block, numbering, result>>

\* intersect; Null if a finger has left the tree.
Intersect(b1, b2) ==
  LET meet[x \in Block \cup {Null}, y \in Block \cup {Null}] ==
        CASE x = y -> x
          [] Null \in {x, y} -> Null
          [] Num(x) < Num(y) -> meet[Rdom(x), y]
          [] OTHER -> meet[x, Rdom(y)]
  IN  meet[b1, b2]

\* The successors that have a dominator already, met one after the other.

NewIrdom(b) ==
  LET known == SelectSeq(graph.succ[b], LAMBDA s : Rdom(s) # Null)
  IN  IF known = <<>> THEN Null ELSE FoldLeft(LAMBDA acc, s : Intersect(s, acc), Head(known), known)

Iterate ==
  LET b == Reverse(post_order)[i] IN
  /\ pc = "irdom"
  /\ i <= Len(post_order)
  /\ IF b = exit_block \/ NewIrdom(b) = Rdom(b)
     THEN UNCHANGED <<rdoms, changed>>
     ELSE rdoms' = [rdoms EXCEPT ![Num(b) + 1] = NewIrdom(b)] /\ changed' = TRUE
  /\ i' = i + 1
  /\ UNCHANGED <<functions, f, pc, exit_block, numbering, result>>

\* Mutant: changed is not reset.
PassDoneKeepsChanged ==
  /\ pc = "irdom"
  /\ i > Len(post_order)
  /\ IF changed THEN i' = 1 /\ UNCHANGED pc ELSE pc' = "front" /\ i' = Len(graph.blocks)
  /\ UNCHANGED <<functions, f, exit_block, numbering, rdoms, changed, result>>

PassDone ==
  /\ pc = "irdom"
  /\ i > Len(post_order)
  /\ IF changed THEN i' = 1 /\ UNCHANGED pc ELSE pc' = "front" /\ i' = Len(graph.blocks)
  /\ changed' = FALSE
  /\ UNCHANGED <<functions, f, exit_block, numbering, rdoms, result>>

-----------------------------------------------------------------------------
(* get_bb_rdom_front, over the list backwards, and get_bb_rdoms.           *)

Climb == [b \in Block \cup {Null} |-> IF b = Null THEN {} ELSE {Rdom(b)}]
Chain(b) == ReachIn(Block \cup {Null}, Climb, b)

\* The blocks on the way up from b that come before stop.
Below(b, stop) == ReachIn((Block \cup {Null}) \ {stop}, Climb, b)

Runners(b) ==
  IF Len(graph.succ[b]) >= 2 THEN UNION {Below(s, Rdom(b)) : s \in ToSet(graph.succ[b])} ELSE {}

AddFrontier ==
  LET b == graph.blocks[i] IN
  /\ pc = "front"
  /\ i > 0
  /\ rdom_frontier' = [a \in Block |-> IF a \in Runners(b) THEN rdom_frontier[a] \cup {b} ELSE rdom_frontier[a]]
  /\ i' = i - 1
  /\ UNCHANGED <<functions, f, pc, exit_block, numbering, rdoms, changed, rdom>>

StartRdoms ==
  /\ pc = "front"
  /\ i = 0
  /\ pc' = "rdoms"
  /\ i' = 1
  /\ UNCHANGED <<functions, f, exit_block, numbering, rdoms, changed, result>>

\* The block itself and all above it but the exit.
AddRdoms ==
  LET b == graph.blocks[i] IN
  /\ pc = "rdoms"
  /\ i <= Len(graph.blocks)
  /\ rdom' = [rdom EXCEPT ![b] = @ \cup Below(b, exit_block)]
  /\ i' = i + 1
  /\ UNCHANGED <<functions, f, pc, exit_block, numbering, rdoms, changed, rdom_frontier>>

LeaveFunction ==
  /\ pc = "rdoms"
  /\ i > Len(graph.blocks)
  /\ f' = f + 1
  /\ pc' = "function"
  /\ UNCHANGED <<functions, exit_block, numbering, rdoms, changed, i, result>>

-----------------------------------------------------------------------------

Finished == pc = "function" /\ f > Len(functions) /\ UNCHANGED vars

Next ==
  \/ SkipDeclaration \/ EnterFunction \/ Parent \/ Number
  \/ StartIrdom \/ Iterate \/ PassDone
  \/ AddFrontier \/ StartRdoms \/ AddRdoms \/ LeaveFunction
  \/ Finished

\* The compiler is one sequential process that runs on.
Spec == Init /\ [][Next]_vars /\ WF_vars(Next)

-----------------------------------------------------------------------------
(* Properties.                                                             *)

TypeOK ==
  /\ f \in 1..(Len(functions) + 1)
  /\ pc \in {"function", "walk", "irdom", "front", "rdoms"}
  /\ exit_block \in Block \cup {Null}
  /\ calls \in Seq([bb : Block, parent : Nat \ {0}])
  /\ visited \subseteq Block /\ post_order \in Seq(Block)
  /\ bb2int \in [Block -> Nat]
  /\ rdoms \in Seq(Block \cup {Null})
  /\ changed \in BOOLEAN /\ i \in Nat
  /\ rdom \in [Block -> SUBSET Block] /\ rdom_frontier \in [Block -> SUBSET Block]

\* The tables belong to the current function alone: one cell for each of its
\* blocks, only its blocks in them, and an exit of its own.  Nothing of the
\* function before is seen, although bb2int, rdoms and exit_block outlive it.
TablesOwn ==
  pc \in {"irdom", "front", "rdoms"} =>
    /\ exit_block \in blocks
    /\ Len(rdoms) = Cardinality(blocks)
    /\ {bb2int[b] : b \in blocks} = 0..(Len(rdoms) - 1)
    /\ ToSet(rdoms) \subseteq blocks \cup {Null}

\* The climbs of lines 101 and 116 end: each stop is on the way up.  A block
\* that does not reach the exit would make them run off the tree or for ever.
ClimbsEnd ==
  /\ pc = "front" => \A b \in blocks : \A s \in ToSet(graph.succ[b]) :
                       Len(graph.succ[b]) >= 2 => Rdom(b) \in Chain(s) \ {Null}
  /\ pc = "rdoms" => \A b \in blocks : exit_block \in Chain(b)

\* For every function behind the pass, rdoms_ and rdom_frontier_ are what the
\* definitions say on the reversed graph; the exit is in no set of rdoms_.
ResultExact ==
  \A k \in 1..(f - 1) : functions[k].blocks # <<>> =>
    LET N    == ToSet(functions[k].blocks)
        pre  == [b \in N |-> ToSet(functions[k].pre[b])]
        exit == CHOOSE b \in Exits(functions[k]) : TRUE
    IN  \A b \in N : /\ rdom[b] = {a \in N \ {exit} : b # exit /\ Dominates(N, pre, exit, a, b)}
                     /\ rdom_frontier[b] = Frontier(N, pre, exit, b)

\* What every step may rely on.
TablesSound == TypeOK /\ TablesOwn /\ ClimbsEnd

\* The pass ends.
Terminates == <>(f > Len(functions))
=============================================================================
