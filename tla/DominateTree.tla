---------------------------- MODULE DominateTree ----------------------------
(***************************************************************************)
(* The pass DominateTree on one function (Optimize/DominateTree.cpp): a    *)
(* depth-first numbering of the blocks in post order, the fixpoint of      *)
(* Cooper, Harvey and Kennedy on the vector doms, and the dominance        *)
(* frontiers.  One action is one iteration of a loop of the code.          *)
(*                                                                         *)
(* Definitions marked "Mutant" are no part of the specification: each is a *)
(* plausible slip in the definition below it, and shows that the property  *)
(* PROJECT.json pairs it with would notice.                                *)
(***************************************************************************)
EXTENDS Naturals, Sequences, FiniteSets, SequencesExt, Cfg

CONSTANTS
  Block,    \* the blocks of the function
  Root,     \* its entry block
  Null,     \* nullptr, an expired weak pointer
  Graphs    \* the functions the pass may be given, see FlowGraph

\* blocks is Function::basic_blocks_, succ and pre are succ_bbs_ and pre_bbs_
\* of each block.  Every block is reachable from an entry block that has no
\* predecessors, as IRBuilder leaves it (IRBuilder!AllReachable).
FlowGraph(g) ==
  /\ g.blocks \in Seq(Block)
  /\ ToSet(g.blocks) = Block
  /\ g.succ \in [Block -> Seq(Block)]
  /\ g.pre \in [Block -> Seq(Block)]
  /\ \A a, b \in Block : Contains(g.succ[a], b) <=> Contains(g.pre[b], a)
  /\ g.pre[Root] = <<>>
  /\ ReachIn(Block, [b \in Block |-> ToSet(g.succ[b])], Root) = Block

ASSUME RootIsBlock == Root \in Block /\ Null \notin Block
ASSUME BlocksFinite == IsFiniteSet(Block)
ASSUME GraphsAssumption == \A g \in Graphs : FlowGraph(g)

VARIABLES
  graph,
  pc,                   \* the loop that runs
  calls,                \* open calls of get_post_order: block, next child
  visited,
  post_order,           \* reverse_post_order before it is reversed
  bb2int,
  doms,                 \* by number of the block
  changed,
  i, j,                 \* position in the list of blocks, of predecessors
  new_idom,
  finger1, finger2,     \* intersect
  runner,               \* get_bb_dom_front
  idom, dom_frontier    \* members of the blocks, the result

vars == <<graph, pc, calls, visited, post_order, bb2int, doms, changed, i, j, new_idom,
          finger1, finger2, runner, idom, dom_frontier>>

numbering == <<calls, visited, post_order, bb2int>>
fingers   == <<finger1, finger2>>
result    == <<idom, dom_frontier>>

\* bb2int[bb] and doms[bb2int[bb]]; looking up nullptr inserts it with 0.
Num(b) == IF b = Null THEN 0 ELSE bb2int[b]
Dom(b) == doms[Num(b)]

reverse_post_order == Reverse(post_order)

Init ==
  /\ graph \in Graphs
  /\ pc = "post_order"
  /\ calls = <<[bb |-> Root, child |-> 1]>>
  /\ visited = {Root}
  /\ post_order = <<>>
  /\ bb2int = [b \in Block |-> 0]
  /\ doms = <<>>
  /\ changed = FALSE
  /\ i = 1 /\ j = 1
  /\ new_idom = Null
  /\ finger1 = Null /\ finger2 = Null
  /\ runner = Null
  /\ idom = [b \in Block |-> Null]
  /\ dom_frontier = [b \in Block |-> {}]

-----------------------------------------------------------------------------
(* get_post_order.                                                         *)

\* One child of the block on top of the call stack.
Child ==
  LET top == Head(calls) IN
  /\ pc = "post_order"
  /\ calls # <<>>
  /\ top.child <= Len(graph.succ[top.bb])
  /\ LET child == graph.succ[top.bb][top.child]
         rest  == <<[top EXCEPT !.child = @ + 1]>> \o Tail(calls)
     IN  IF child \in visited
         THEN calls' = rest /\ UNCHANGED visited
         ELSE calls' = <<[bb |-> child, child |-> 1]>> \o rest /\ visited' = visited \cup {child}
  /\ UNCHANGED <<graph, pc, post_order, bb2int, doms, changed, i, j, new_idom, fingers, runner, result>>

\* All children done: the block gets the next number.

Number ==
  LET top == Head(calls) IN
  /\ pc = "post_order"
  /\ calls # <<>>
  /\ top.child > Len(graph.succ[top.bb])
  /\ bb2int' = [bb2int EXCEPT ![top.bb] = Len(post_order)]
  /\ post_order' = Append(post_order, top.bb)
  /\ calls' = Tail(calls)
  /\ UNCHANGED <<graph, pc, visited, doms, changed, i, j, new_idom, fingers, runner, result>>

-----------------------------------------------------------------------------
(* get_bb_idom.                                                            *)

\* Up to the loop: nullptr for every number below the root's, then the root.

StartIdom ==
  /\ pc = "post_order"
  /\ calls = <<>>
  /\ doms' = [n \in 0..bb2int[Root] |-> IF n = bb2int[Root] THEN Root ELSE Null]
  /\ pc' = "pass"
  /\ i' = 1
  /\ changed' = FALSE
  /\ UNCHANGED <<graph, numbering, j, new_idom, fingers, runner, result>>

SkipRoot ==
  /\ pc = "pass"
  /\ i <= Len(reverse_post_order)
  /\ reverse_post_order[i] = Root
  /\ i' = i + 1
  /\ UNCHANGED <<graph, pc, numbering, doms, changed, j, new_idom, fingers, runner, result>>

\* The first predecessor that has a dominator already.
PickIdom ==
  /\ pc = "pass"
  /\ i <= Len(reverse_post_order)
  /\ reverse_post_order[i] # Root
  /\ LET preds == graph.pre[reverse_post_order[i]]
         known == {k \in DOMAIN preds : Dom(preds[k]) # Null}
     IN  new_idom' = IF known = {} THEN Null ELSE preds[Min(known)]
  /\ j' = 1
  /\ pc' = "preds"
  /\ UNCHANGED <<graph, numbering, doms, changed, i, fingers, runner, result>>

\* One predecessor of the second loop: called with new_idom when it is known.
\* Mutant: predecessors that have no dominator yet are not skipped.
MeetUnknownPred ==
  LET preds == graph.pre[reverse_post_order[i]] IN
  /\ pc = "preds"
  /\ j <= Len(preds)
  /\ finger1' = preds[j]
  /\ finger2' = new_idom
  /\ pc' = "intersect"
  /\ UNCHANGED <<graph, numbering, doms, changed, i, j, new_idom, runner, result>>

MeetPred ==
  LET preds == graph.pre[reverse_post_order[i]] IN
  /\ pc = "preds"
  /\ j <= Len(preds)
  /\ IF Dom(preds[j]) = Null
     THEN j' = j + 1 /\ UNCHANGED <<pc, fingers>>
     ELSE /\ finger1' = preds[j]
          /\ finger2' = new_idom
          /\ pc' = "intersect"
          /\ UNCHANGED j
  /\ UNCHANGED <<graph, numbering, doms, changed, i, new_idom, runner, result>>

\* intersect: the finger with the smaller number climbs.

Climb1 ==
  /\ pc = "intersect"
  /\ Num(finger1) < Num(finger2)
  /\ finger1' = Dom(finger1)
  /\ UNCHANGED <<graph, pc, numbering, doms, changed, i, j, new_idom, finger2, runner, result>>

Climb2 ==
  /\ pc = "intersect"
  /\ Num(finger2) < Num(finger1)
  /\ finger2' = Dom(finger2)
  /\ UNCHANGED <<graph, pc, numbering, doms, changed, i, j, new_idom, finger1, runner, result>>

\* Mutant: the predecessor takes the place of the common ancestor.
MetKeepsPred ==
  /\ pc = "intersect"
  /\ finger1 = finger2
  /\ new_idom' = graph.pre[reverse_post_order[i]][j]
  /\ j' = j + 1
  /\ pc' = "preds"
  /\ UNCHANGED <<graph, numbering, doms, changed, i, fingers, runner, result>>

Met ==
  /\ pc = "intersect"
  /\ finger1 = finger2
  /\ new_idom' = finger1
  /\ j' = j + 1
  /\ pc' = "preds"
  /\ UNCHANGED <<graph, numbering, doms, changed, i, fingers, runner, result>>

AssignIdom ==
  LET bb == reverse_post_order[i] IN
  /\ pc = "preds"
  /\ j > Len(graph.pre[bb])
  /\ IF Dom(bb) # new_idom
     THEN doms' = [doms EXCEPT ![Num(bb)] = new_idom] /\ changed' = TRUE
     ELSE UNCHANGED <<doms, changed>>
  /\ i' = i + 1
  /\ pc' = "pass"
  /\ UNCHANGED <<graph, numbering, j, new_idom, fingers, runner, result>>

\* The end of a pass over all blocks: another one, or set_idom on each.
PassDone ==
  /\ pc = "pass"
  /\ i > Len(reverse_post_order)
  /\ IF changed
     THEN UNCHANGED <<pc, idom>>
     ELSE pc' = "front" /\ idom' = [b \in Block |-> Dom(b)]
  /\ i' = 1
  /\ j' = 1
  /\ changed' = FALSE
  /\ UNCHANGED <<graph, numbering, doms, new_idom, fingers, runner, dom_frontier>>

-----------------------------------------------------------------------------
(* get_bb_dom_front.                                                       *)

\* Mutant: off by one.
JoinOfThree(b) == Len(graph.pre[b]) > 2

JoinPoint(b) == Len(graph.pre[b]) >= 2

StartRunner ==
  /\ pc = "front"
  /\ i <= Len(graph.blocks)
  /\ JoinPoint(graph.blocks[i])
  /\ j <= Len(graph.pre[graph.blocks[i]])
  /\ runner' = graph.pre[graph.blocks[i]][j]
  /\ pc' = "runner"
  /\ UNCHANGED <<graph, numbering, doms, changed, i, j, new_idom, fingers, result>>

Run ==
  LET b == graph.blocks[i] IN
  /\ pc = "runner"
  /\ IF runner = Dom(b)
     THEN j' = j + 1 /\ pc' = "front" /\ UNCHANGED <<runner, dom_frontier>>
     ELSE /\ runner # Null
          /\ dom_frontier' = [dom_frontier EXCEPT ![runner] = @ \cup {b}]
          /\ runner' = Dom(runner)
          /\ UNCHANGED <<j, pc>>
  /\ UNCHANGED <<graph, numbering, doms, changed, i, new_idom, fingers, idom>>

NextJoin ==
  /\ pc = "front"
  /\ i <= Len(graph.blocks)
  /\ ~JoinPoint(graph.blocks[i]) \/ j > Len(graph.pre[graph.blocks[i]])
  /\ i' = i + 1
  /\ j' = 1
  /\ UNCHANGED <<graph, pc, numbering, doms, changed, new_idom, fingers, runner, result>>

Return ==
  /\ pc = "front"
  /\ i > Len(graph.blocks)
  /\ pc' = "done"
  /\ UNCHANGED <<graph, numbering, doms, changed, i, j, new_idom, fingers, runner, result>>

-----------------------------------------------------------------------------

Finished == pc = "done" /\ UNCHANGED vars

Next ==
  \/ Child \/ Number
  \/ StartIdom \/ SkipRoot \/ PickIdom \/ MeetPred \/ Climb1 \/ Climb2 \/ Met \/ AssignIdom
  \/ PassDone
  \/ StartRunner \/ Run \/ NextJoin \/ Return
  \/ Finished

\* The compiler is one sequential process that runs on.
Spec == Init /\ [][Next]_vars /\ WF_vars(Next)

-----------------------------------------------------------------------------
(* Properties.                                                             *)

TypeOK ==
  /\ pc \in {"post_order", "pass", "preds", "intersect", "front", "runner", "done"}
  /\ calls \in Seq([bb : Block, child : Nat \ {0}])
  /\ visited \subseteq Block
  /\ post_order \in Seq(Block)
  /\ bb2int \in [Block -> Nat]
  /\ pc # "post_order" => doms \in [0..bb2int[Root] -> Block \cup {Null}]
  /\ changed \in BOOLEAN
  /\ i \in Nat \ {0} /\ j \in Nat \ {0}
  /\ {new_idom, finger1, finger2, runner} \subseteq Block \cup {Null}
  /\ idom \in [Block -> Block \cup {Null}]
  /\ dom_frontier \in [Block -> SUBSET Block]

\* The numbers are a bijection from the blocks to 0..bb2int[Root], so that
\* doms, indexed by them, has one cell per block and the root the last one.
NumbersExact ==
  pc # "post_order" =>
    /\ {bb2int[b] : b \in Block} = 0..bb2int[Root]
    /\ Cardinality(Block) = bb2int[Root] + 1

\* No pointer that the code dereferences or looks up in bb2int is null: neither
\* finger of intersect, nor runner on its way up, although doms is only partly
\* filled while the first pass runs.
NoNullPointer ==
  /\ pc = "intersect" => Null \notin {finger1, finger2}
  /\ pc = "runner" => runner # Null

\* A dominator that is known has a higher post-order number than the block:
\* what makes the fingers meet, and the loops of intersect end.
DomsClimb ==
  pc # "post_order" =>
    \A b \in Block \ {Root} : Dom(b) # Null => bb2int[Dom(b)] > bb2int[b]

\* The chain of doms above b.
Chain(b) == ReachIn(Block, [a \in Block |-> {Dom(a)} \ {Null}], b)

\* At no time has an iteration lost a true dominator: whatever is known of a
\* block, all its dominators are on its chain.  The fixpoint is approached
\* from one side.
DominatorsOnChain ==
  pc \in {"pass", "preds", "intersect"} =>
    \A b \in Block : Dom(b) # Null =>
      \A a \in Block : Dominates(Block, [x \in Block |-> ToSet(graph.succ[x])], Root, a, b)
                         => a \in Chain(b)

\* What keeps the loops of the pass safe at every moment.
TablesSound == TypeOK /\ NumbersExact /\ NoNullPointer /\ DomsClimb /\ DominatorsOnChain

\* An iteration replaces a known dominator only by one of its own proper
\* ancestors, never by null: why the fixpoint is reached.
DomsOnlyRise ==
  [][pc = "preds" =>
       \A b \in Block : Dom(b) # Null /\ doms'[Num(b)] # Dom(b) =>
         doms'[Num(b)] \in Chain(Dom(b)) \ {Dom(b)}]_vars

\* The pass computes dominance and ends.
Promise == INSTANCE Dominance WITH
  succ <- [b \in Block |-> ToSet(graph.succ[b])], done <- pc = "done"

ImplementsDominance == Promise!Spec
=============================================================================
