----------------------------- MODULE Dominance -----------------------------
(***************************************************************************)
(* What the pass DominateTree promises for one function, whatever its      *)
(* algorithm: it sets the immediate dominator of every block, then fills   *)
(* the dominance frontiers with the blocks that belong there, all of them, *)
(* and ends.  DominateTree.tla implements it.                              *)
(***************************************************************************)
EXTENDS Cfg

CONSTANTS Block, Root, Null

VARIABLES
  succ,           \* successors of each block, as a set
  idom,           \* BasicBlock::idom_
  dom_frontier,   \* BasicBlock::dom_frontier_
  done            \* the pass has returned

vars == <<succ, idom, dom_frontier, done>>

\* The root is its own immediate dominator.
Idoms == [b \in Block |-> IF b = Root THEN Root ELSE IdomOf(Block, succ, Root, b)]

Init ==
  /\ succ \in [Block -> SUBSET Block]
  /\ idom = [b \in Block |-> Null]
  /\ dom_frontier = [b \in Block |-> {}]
  /\ done = FALSE

SetIdoms ==
  /\ idom[Root] = Null
  /\ idom'[Root] = Root
  /\ idom' = Idoms
  /\ UNCHANGED <<succ, dom_frontier, done>>

AddFrontier(a, b) ==
  /\ idom[Root] # Null
  /\ dom_frontier' = [dom_frontier EXCEPT ![a] = @ \cup {b}]
  /\ b \in Frontier(Block, succ, Root, a)
  /\ UNCHANGED <<succ, idom, done>>

Return ==
  /\ idom[Root] # Null
  /\ done' = TRUE
  /\ dom_frontier = [a \in Block |-> Frontier(Block, succ, Root, a)]
  /\ UNCHANGED <<succ, idom, dom_frontier>>

Next == SetIdoms \/ (\E a, b \in Block : AddFrontier(a, b)) \/ Return

Safety == Init /\ [][Next]_vars

Spec == Safety /\ <>done
=============================================================================
