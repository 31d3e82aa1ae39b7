---------------------------- MODULE MCFlowGraphs ----------------------------
(* Control-flow graphs for instances: the blocks are 1..Size, block 1 is the *)
(* entry, and a graph is the tuple of the blocks' lists of successors.       *)
EXTENDS Naturals, Sequences, SequencesExt, Cfg

CONSTANT Size

MCBlock == 1..Size

\* A block ends in ret, in br with one target, or in br with two.  The entry
\* block is nobody's target, and no block is its own (IRBuilder!LoopsReducible).
SuccLists(b) ==
  LET target == 2..Size \ {b}
  IN  {<<>>} \cup {<<t>> : t \in target}
             \cup {p \in target \X target : p[1] # p[2]}

\* Blocks are numbered in the order in which a breadth-first walk meets them:
\* s, the lists of the first blocks, meets 1..k, and the block after s is among
\* them.  Every rooted graph is isomorphic to one numbered so, and the pass does
\* not look at names.
Canonical(s) ==
  LET walk == FoldLeft(LAMBDA acc, list : acc \o list, <<1>>, s)
      met  == FoldLeft(LAMBDA acc, t : IF Contains(acc, t) THEN acc ELSE Append(acc, t), <<>>, walk)
  IN  /\ met = [k \in 1..Len(met) |-> k]
      /\ Len(met) > Len(s) \/ Len(met) = Size

CanonicalSuccs ==
  FoldLeft(LAMBDA acc, b : {s \in {Append(s, x) : s \in acc, x \in SuccLists(b)} : Canonical(s)},
           {<<>>}, [b \in MCBlock |-> b])

Preds(succ, t) == {p \in MCBlock : Contains(succ[p], t)}

\* One block ends in ret and every block reaches it.
OneExit(s) ==
  \E ret \in MCBlock : /\ \A b \in MCBlock : s[b] = <<>> <=> b = ret
                       /\ ReachIn(MCBlock, [b \in MCBlock |-> Preds(s, b)], ret) = MCBlock
=============================================================================
