-------------------------------- MODULE Cfg --------------------------------
(***************************************************************************)
(* Reference definitions on control-flow graphs, independent of how the    *)
(* code computes them.  A graph is a set N of blocks and a function S that *)
(* gives the set of successors of each block of N.                         *)
(***************************************************************************)

\* The blocks of N on some path from r that stays inside N.
ReachIn(N, S, r) ==
  LET grow[X \in SUBSET N] ==
        LET Y == X \cup (N \cap UNION {S[b] : b \in X})
        IN  IF Y = X THEN X ELSE grow[Y]
  IN  grow[{r} \cap N]

\* a dominates b: no path from the root reaches b without passing a.
Dominates(N, S, root, a, b) ==
  a = b \/ b \notin ReachIn(N \ {a}, S, root)

\* The blocks that a dominates.
DominatedBy(N, S, root, a) == {a} \cup (N \ ReachIn(N \ {a}, S, root))

\* The strict dominators of b.
StrictDoms(N, S, root, b) == {a \in N \ {b} : Dominates(N, S, root, a, b)}

\* The immediate dominator of b: the strict dominator that every other strict
\* dominator dominates.
IdomOf(N, S, root, b) ==
  LET doms == StrictDoms(N, S, root, b)
  IN  CHOOSE a \in doms : \A d \in doms : Dominates(N, S, root, d, a)

\* The dominance frontier of a: the successors of the blocks a dominates that
\* a does not strictly dominate itself.
Frontier(N, S, root, a) ==
  LET below == DominatedBy(N, S, root, a)
  IN  {b \in N \cap UNION {S[p] : p \in below} : b = a \/ b \notin below}

\* Without its back edges (those whose head dominates their tail) the graph
\* has no cycle: every loop is entered through its header only.
Reducible(N, S, root) ==
  LET tree    == [a \in N |-> DominatedBy(N, S, root, a)]
      forward == [b \in N |-> {c \in S[b] : b \notin tree[c]}]
  IN  \A b \in N : \A c \in forward[b] : b \notin ReachIn(N, forward, c)

=============================================================================
