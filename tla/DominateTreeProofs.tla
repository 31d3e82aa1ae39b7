------------------------- MODULE DominateTreeProofs -------------------------
(***************************************************************************)
(* Proofs about DominateTree, for every finite set of blocks and every     *)
(* flow graph on it: the tables are sound at every moment (TablesSound),   *)
(* known dominators only rise (DomsOnlyRise), and the pass computes what   *)
(* Dominance promises, as far as safety goes.  The invariant has a part    *)
(* for each phase of the pass: Numbering while the blocks get their        *)
(* numbers, Iteration and Meeting for the fixpoint, Frontiers at the end.  *)
(***************************************************************************)
EXTENDS DominateTree, CfgProofs, FunctionTheorems, SequenceTheorems

-----------------------------------------------------------------------------
(* Chains in a table of dominators, under any numbering of the blocks.     *)

\* What is above b in the table d.
Up(d, b) == ReachIn(Block, [a \in Block |-> {d[a]} \ {Null}], b)

\* Every step up leads to a higher number, until the root.
Climbs(d, n) ==
  /\ d \in [Block -> Block \cup {Null}]
  /\ n \in [Block -> Nat]
  /\ d[Root] = Root
  /\ \A b \in Block \ {Root} : d[b] # Null => n[d[b]] > n[b] /\ d[d[b]] # Null

-----------------------------------------------------------------------------
(* The numbering.                                                          *)

Succs == [b \in Block |-> ToSet(graph.succ[b])]

\* p precedes b and has a higher number.
Above(p, b) == b \in ToSet(graph.succ[p]) /\ bb2int[p] > bb2int[b]

OnStack(b) == \E k \in DOMAIN calls : calls[k].bb = b

IsNumbered(b) == b \in ToSet(post_order)

\* A block that has been visited is on the stack or has a number, once.
VisitedOnce ==
  /\ \A b \in Block : b \in visited <=> OnStack(b) \/ IsNumbered(b)
  /\ \A b \in Block : ~(OnStack(b) /\ IsNumbered(b))
  /\ \A k, l \in DOMAIN calls : calls[k].bb = calls[l].bb => k = l

\* The stack is a path from the root.
StackIsPath ==
  /\ \A k \in DOMAIN calls : k < Len(calls) => calls[k].bb \in ToSet(graph.succ[calls[k + 1].bb])
  /\ calls # <<>> => calls[Len(calls)].bb = Root
  /\ calls = <<>> => post_order # <<>> /\ post_order[Len(post_order)] = Root

\* What the walk has left behind has been visited.
ChildrenVisited ==
  /\ \A b \in Block : IsNumbered(b) => ToSet(graph.succ[b]) \subseteq visited
  /\ \A k \in DOMAIN calls : \A m \in DOMAIN graph.succ[calls[k].bb] :
       m < calls[k].child => graph.succ[calls[k].bb][m] \in visited

\* A block gets its number before the block that it was visited from.
EntryAbove ==
  \A b \in Block \ {Root} : IsNumbered(b) =>
    \E p \in Block : b \in ToSet(graph.succ[p]) /\ (OnStack(p) \/ (IsNumbered(p) /\ bb2int[p] > bb2int[b]))

NumbersByPlace == \A k \in DOMAIN post_order : bb2int[post_order[k]] = k - 1

Numbering ==
  pc = "post_order" => VisitedOnce /\ StackIsPath /\ ChildrenVisited /\ EntryAbove

\* What the walk leaves: a bijection under which every block but the root has
\* a predecessor above it.
Numbered ==
  pc # "post_order" =>
    /\ Len(post_order) = bb2int[Root] + 1
    /\ \A b \in Block : bb2int[b] + 1 \in DOMAIN post_order /\ post_order[bb2int[b] + 1] = b
    /\ \A b \in Block \ {Root} : \E p \in Block : Above(p, b)

-----------------------------------------------------------------------------
(* The fixpoint.                                                           *)

Known(b) == Dom(b) # Null

Table == [b \in Block |-> Dom(b)]

\* The blocks that the pass at hand is through with.
Processed(b) == bb2int[b] + i > Len(post_order)

\* The block at hand.
Cur == reverse_post_order[i]

IsPred(p, b) == p \in ToSet(graph.pre[b])

\* What the known predecessors of b have in common.
Common(b) == {y \in Block : \A p \in Block : IsPred(p, b) /\ Known(p) => y \in Chain(p)}

\* a dominates b in the graph.
IsDom(a, b) == Dominates(Block, Succs, Root, a, b)

\* During the first pass what is processed is known, afterwards everything.
Filling ==
  \/ \A b \in Block : Known(b)
  \/ \A b \in Block : Known(b) <=> b = Root \/ Processed(b)

\* What strictly dominates a block dominates its known dominator.
NoneSkipped ==
  \A b \in Block \ {Root} : Known(b) => \A a \in Block \ {b} : IsDom(a, b) => IsDom(a, Dom(b))

\* The chain of a block has all that the chains of its predecessors share.
HoldsCommon == \A b \in Block \ {Root} : Known(b) => Common(b) \subseteq Chain(Dom(b))

\* Of a block that is still to come in this pass, the chain is that of each
\* predecessor above it, up to the block at hand; afterwards, its dominator is
\* on those chains.
FollowsAbove ==
  \A b \in Block \ {Root} : Known(b) =>
    \A q \in Block : Above(q, b) =>
      IF Processed(b) THEN Dom(b) \in Chain(q)
      ELSE \A y \in Chain(Dom(b)) : bb2int[y] + i <= Len(post_order) => y \in Chain(q)

\* As long as the pass has changed nothing, it has found the equation solved.
SolvedSoFar ==
  ~changed => \A b \in Block \ {Root} : Processed(b) =>
    \A p \in Block : IsPred(p, b) => Known(p) /\ Dom(b) \in Chain(p)

Iteration ==
  pc \in {"pass", "preds", "intersect"} =>
    /\ Climbs(Table, bb2int)
    /\ Filling
    /\ NoneSkipped
    /\ HoldsCommon
    /\ FollowsAbove
    /\ SolvedSoFar
    /\ \A b \in Block : idom[b] = Null /\ dom_frontier[b] = {}

\* x is no lower than the common dominator of the predecessors of the block at
\* hand.
Candidate(x) ==
  /\ x \in Block
  /\ Known(x)
  /\ Common(Cur) \subseteq Chain(x)
  /\ \A a \in Block \ {Cur} : IsDom(a, Cur) => IsDom(a, x)

Meeting ==
  /\ pc \in {"preds", "intersect"} =>
       /\ i <= Len(post_order) /\ Cur # Root
       /\ Candidate(new_idom)
       /\ \A k \in DOMAIN graph.pre[Cur] : k < j /\ Known(graph.pre[Cur][k]) => new_idom \in Chain(graph.pre[Cur][k])
  /\ pc = "intersect" =>
       /\ j \in DOMAIN graph.pre[Cur] /\ Known(graph.pre[Cur][j])
       /\ Candidate(finger1) /\ finger1 \in Chain(graph.pre[Cur][j])
       /\ Candidate(finger2) /\ finger2 \in Chain(new_idom)

-----------------------------------------------------------------------------
(* The frontiers.                                                          *)

\* The predecessors that the loops are through with.
Entered(k, m) == k < i \/ (k = i /\ m < j)

\* The frontier of a holds the block at k, because of its predecessor at m.
Reported(k, m, a) ==
  LET b == graph.blocks[k]
  IN  a \in Chain(graph.pre[b][m]) /\ a \notin Chain(Dom(b)) => b \in dom_frontier[a]

AllReported ==
  \A k \in DOMAIN graph.blocks : JoinPoint(graph.blocks[k]) =>
    \A m \in DOMAIN graph.pre[graph.blocks[k]] : Entered(k, m) => \A a \in Block : Reported(k, m, a)

\* The runner is on its way from the predecessor at hand to the dominator.
Running ==
  /\ i \in DOMAIN graph.blocks /\ JoinPoint(graph.blocks[i]) /\ j \in DOMAIN graph.pre[graph.blocks[i]]
  /\ runner \in Chain(graph.pre[graph.blocks[i]][j])
  /\ Dom(graph.blocks[i]) \in Chain(runner)
  /\ \A a \in Block : a \in Chain(runner) \/ Reported(i, j, a)

Frontiers ==
  /\ pc \in {"front", "runner", "done"} =>
       /\ Climbs(Table, bb2int)
       /\ \A b \in Block : Known(b)
       /\ idom = Table
       /\ \A b \in Block \ {Root} : \A p \in Block : IsPred(p, b) => Dom(b) \in Chain(p)
       /\ \A a, b \in Block : a \in Chain(b) <=> IsDom(a, b)
       /\ \A a \in Block : dom_frontier[a] \subseteq Frontier(Block, Succs, Root, a)
       /\ AllReported
  /\ pc = "runner" => Running
  /\ pc = "done" => i > Len(graph.blocks)

Inv ==
  /\ TypeOK
  /\ graph \in Graphs
  /\ NumbersByPlace
  /\ Numbering
  /\ Numbered
  /\ pc = "post_order" => \A b \in Block : idom[b] = Null /\ dom_frontier[b] = {}
  /\ Iteration
  /\ Meeting
  /\ Frontiers

-----------------------------------------------------------------------------
(* Facts about chains.                                                     *)

LEMMA UpClosed ==
  ASSUME NEW d, NEW b \in Block
  PROVE  /\ Up(d, b) \subseteq Block /\ b \in Up(d, b)
         /\ \A x \in Up(d, b) : d[x] \in Block => d[x] \in Up(d, b)
<1> DEFINE S == [a \in Block |-> {d[a]} \ {Null}]
<1>1. /\ Up(d, b) \subseteq Block /\ b \in Up(d, b)
      /\ Closed(Block, S, Up(d, b))
  BY BlocksFinite, ReachClosed DEF Up
<1>2. \A x \in Up(d, b) : d[x] \in Block => d[x] \in Up(d, b)
  BY <1>1, RootIsBlock DEF Closed
<1> QED BY <1>1, <1>2

\* The chain of b is in every set with b that no step up leaves.
LEMMA UpLeast ==
  ASSUME NEW d, NEW b \in Block, NEW X, b \in X, \A x \in X \cap Block : d[x] \in Block => d[x] \in X
  PROVE  Up(d, b) \subseteq X
<1> DEFINE S == [a \in Block |-> {d[a]} \ {Null}]
<1>1. Closed(Block, S, X \cap Block)
  BY DEF Closed
<1>2. ReachIn(Block, S, b) \subseteq X
  <2> HIDE DEF S
  <2> QED BY <1>1, BlocksFinite, ReachLeast
<1> QED BY <1>2 DEF Up

LEMMA UpFirst ==
  ASSUME NEW d, NEW b \in Block
  PROVE  /\ d[b] \in Block => Up(d, b) = {b} \cup Up(d, d[b])
         /\ d[b] = Null => Up(d, b) = {b}
<1> DEFINE S == [a \in Block |-> {d[a]} \ {Null}]
<1>1. ReachIn(Block, S, b) = {b} \cup UNION {ReachIn(Block, S, c) : c \in S[b] \cap Block}
  <2> HIDE DEF S
  <2> QED BY BlocksFinite, ReachFirst
<1>2. S[b] = {d[b]} \ {Null}
  OBVIOUS
<1> HIDE DEF S
<1>3. CASE d[b] \in Block
  <2>1. S[b] \cap Block = {d[b]}
    BY <1>2, <1>3, RootIsBlock
  <2>2. ReachIn(Block, S, b) = {b} \cup ReachIn(Block, S, d[b])
    BY <1>1, <2>1
  <2> QED BY <1>3, <2>2, RootIsBlock DEF Up, S
<1>4. CASE d[b] = Null
  <2>1. S[b] \cap Block = {}
    BY <1>2, <1>4
  <2>2. ReachIn(Block, S, b) = {b}
    BY <1>1, <2>1
  <2> QED BY <1>4, <2>2, RootIsBlock DEF Up, S
<1> QED BY <1>3, <1>4

LEMMA UpTrans ==
  ASSUME NEW d, NEW b \in Block, NEW c \in Up(d, b)
  PROVE  Up(d, c) \subseteq Up(d, b)
BY BlocksFinite, ReachTrans DEF Up

LEMMA UpRoot == ASSUME NEW d, d[Root] = Root PROVE Up(d, Root) = {Root}
<1>1. Up(d, Root) \subseteq {Root}
  BY RootIsBlock, UpLeast
<1> QED BY <1>1, RootIsBlock, UpClosed

\* The blocks of a chain have higher numbers than the block below them.
LEMMA UpHigher ==
  ASSUME NEW d, NEW n, Climbs(d, n), NEW b \in Block, NEW y \in Up(d, b)
  PROVE  y \in Block /\ (y = b \/ n[y] > n[b])
<1> DEFINE X == {x \in Block : x = b \/ n[x] > n[b]}
<1>1. \A x \in X : d[x] \in Block => d[x] \in X
  BY RootIsBlock DEF Climbs
<1>2. Up(d, b) \subseteq X
  BY <1>1, UpLeast
<1> QED BY <1>2

\* They are known when the block is.
LEMMA UpKnown ==
  ASSUME NEW d, NEW n, Climbs(d, n), NEW b \in Block, d[b] # Null, NEW y \in Up(d, b)
  PROVE  d[y] # Null
<1> DEFINE X == {x \in Block : d[x] # Null}
<1>1. \A x \in X : d[x] \in Block => d[x] \in X
  BY RootIsBlock DEF Climbs
<1>2. Up(d, b) \subseteq X
  BY <1>1, UpLeast
<1> QED BY <1>2

\* Of two blocks of a chain the higher one is on the chain of the other.
LEMMA UpLinear ==
  ASSUME NEW d, NEW n, Climbs(d, n), NEW b \in Block, NEW x \in Up(d, b), NEW y \in Up(d, b), n[y] >= n[x]
  PROVE  y \in Up(d, x)
<1> DEFINE X == {z \in Block : y \in Up(d, z) \/ n[z] > n[y]}
<1>1. y \in Block /\ n \in [Block -> Nat]
  BY UpHigher DEF Climbs
<1>2. \A z \in X : d[z] \in Block => d[z] \in X
  <2> SUFFICES ASSUME NEW z \in X, d[z] \in Block, z # Root PROVE d[z] \in X
    BY DEF Climbs
  <2>1. n[d[z]] > n[z]
    BY RootIsBlock DEF Climbs
  <2>2. CASE y \in Up(d, z)
    <3>1. y = z \/ y \in Up(d, d[z])
      BY <2>2, UpFirst
    <3> QED BY <3>1, <2>1
  <2>3. CASE n[z] > n[y]
    BY <1>1, <2>1, <2>3
  <2> QED BY <2>2, <2>3
<1>3. Up(d, b) \subseteq X
  BY <1>2, UpLeast
<1>4. x \in X
  BY <1>3
<1> QED BY <1>1, <1>4

\* Two tables that differ at c only have the same chains up to c.
LEMMA UpToChange ==
  ASSUME NEW d, NEW n, Climbs(d, n), NEW e, NEW c \in Block \ {Root},
         \A x \in Block \ {c} : e[x] = d[x],
         NEW b \in Block, NEW y \in Up(d, b), c \notin Up(d, b) \/ n[y] <= n[c]
  PROVE  y \in Up(e, b)
<1>1. b \in Up(e, b) /\ \A x \in Up(e, b) : e[x] \in Block => e[x] \in Up(e, b)
  BY UpClosed
<1>2. y \in Block /\ n \in [Block -> Nat]
  BY UpHigher DEF Climbs
<1>3. CASE c \notin Up(d, b)
  <2> DEFINE X == Up(d, b) \cap Up(e, b)
  <2>1. b \in X /\ \A x \in X : d[x] \in Block => d[x] \in X
    BY <1>1, <1>3, UpClosed
  <2> HIDE DEF X
  <2>2. Up(d, b) \subseteq X
    BY <2>1, UpLeast
  <2> QED BY <2>2 DEF X
<1>4. CASE n[y] <= n[c]
  <2> DEFINE X == {x \in Block : x \in Up(e, b) \/ n[x] > n[c]}
  <2>1. b \in X
    BY <1>1
  <2>2. \A x \in X : d[x] \in Block => d[x] \in X
    <3> SUFFICES ASSUME NEW x \in X, d[x] \in Block PROVE d[x] \in X
      OBVIOUS
    <3>1. x = Root \/ n[d[x]] > n[x]
      BY RootIsBlock DEF Climbs
    <3>2. CASE n[x] > n[c]
      BY <1>2, <3>1, <3>2 DEF Climbs
    <3>3. CASE x \in Up(e, b) /\ x = c
      BY <3>1, <3>3
    <3>4. CASE x \in Up(e, b) /\ x # c
      BY <1>1, <3>4
    <3> QED BY <3>2, <3>3, <3>4
  <2> HIDE DEF X
  <2>3. Up(d, b) \subseteq X
    BY <2>1, <2>2, UpLeast
  <2> QED BY <1>2, <1>4, <2>3 DEF X, Climbs
<1> QED BY <1>3, <1>4

\* A block that moves up its own chain makes no chain longer.
LEMMA UpShrinks ==
  ASSUME NEW d, NEW e, NEW c \in Block, e[c] \in Up(d, c),
         \A x \in Block \ {c} : e[x] = d[x], NEW b \in Block
  PROVE  Up(e, b) \subseteq Up(d, b)
<1> DEFINE X == Up(d, b)
<1>1. b \in X /\ X \subseteq Block /\ \A x \in X : d[x] \in Block => d[x] \in X
  BY UpClosed
<1>2. \A x \in X \cap Block : e[x] \in Block => e[x] \in X
  <2> SUFFICES ASSUME NEW x \in X, x \in Block, e[x] \in Block PROVE e[x] \in X
    OBVIOUS
  <2>1. CASE x = c
    BY <2>1, UpTrans
  <2>2. CASE x # c
    BY <1>1, <2>2
  <2> QED BY <2>1, <2>2
<1> HIDE DEF X
<1>3. Up(e, b) \subseteq X
  BY <1>1, <1>2, UpLeast
<1> QED BY <1>3 DEF X

-----------------------------------------------------------------------------
(* The graph and the tables.                                               *)

LEMMA GraphFacts ==
  ASSUME graph \in Graphs
  PROVE  /\ FlowGraph(graph)
         /\ \A b \in Block : graph.succ[b] \in Seq(Block) /\ graph.pre[b] \in Seq(Block)
         /\ \A p, b \in Block : IsPred(p, b) <=> b \in ToSet(graph.succ[p])
         /\ \A b \in Block : \A k \in DOMAIN graph.pre[b] : graph.pre[b][k] \in Block /\ IsPred(graph.pre[b][k], b)
         /\ \A p \in Block : ~IsPred(p, Root)
<1>1. FlowGraph(graph)
  BY GraphsAssumption
<1>2. \A b \in Block : graph.succ[b] \in Seq(Block) /\ graph.pre[b] \in Seq(Block)
  BY <1>1 DEF FlowGraph
<1>3. \A b \in Block : /\ DOMAIN graph.succ[b] = 1..Len(graph.succ[b])
                       /\ DOMAIN graph.pre[b] = 1..Len(graph.pre[b])
                       /\ \A k \in DOMAIN graph.pre[b] : graph.pre[b][k] \in Block
  BY <1>2
<1>4. \A p, b \in Block : Contains(graph.succ[p], b) <=> Contains(graph.pre[b], p)
  BY <1>1 DEF FlowGraph
<1>5. \A p, b \in Block : IsPred(p, b) <=> b \in ToSet(graph.succ[p])
  BY <1>3, <1>4 DEF IsPred, ToSet, Contains
<1>6. \A b \in Block : \A k \in DOMAIN graph.pre[b] : IsPred(graph.pre[b][k], b)
  BY DEF IsPred, ToSet
<1>7. \A p \in Block : ~IsPred(p, Root)
  BY <1>1 DEF FlowGraph, IsPred, ToSet
<1> QED BY <1>1, <1>2, <1>3, <1>5, <1>6, <1>7

\* The cells of doms are those of the blocks.
LEMMA TableType ==
  ASSUME TypeOK, Numbered, pc # "post_order"
  PROVE  /\ \A b \in Block : Num(b) = bb2int[b] /\ bb2int[b] \in 0..bb2int[Root]
         /\ Table \in [Block -> Block \cup {Null}]
<1>1. \A b \in Block : b # Null
  BY RootIsBlock
<1>2. bb2int \in [Block -> Nat] /\ post_order \in Seq(Block) /\ doms \in [0..bb2int[Root] -> Block \cup {Null}]
  BY DEF TypeOK
<1>3. \A b \in Block : bb2int[b] \in 0..bb2int[Root]
  BY <1>2, RootIsBlock DEF Numbered
<1> QED BY <1>1, <1>2, <1>3 DEF Num, Dom, Table

\* The block at hand is the one with the number that the position says.
LEMMA CurFacts ==
  ASSUME TypeOK, NumbersByPlace, i <= Len(post_order)
  PROVE  /\ Len(reverse_post_order) = Len(post_order)
         /\ Cur \in Block
         /\ bb2int[Cur] + i = Len(post_order)
<1>1. post_order \in Seq(Block) /\ i \in Nat \ {0} /\ Len(post_order) \in Nat
  BY DEF TypeOK
<1> DEFINE k == (Len(post_order) - i) + 1
<1>2. k \in 1..Len(post_order) /\ k \in DOMAIN post_order
  BY <1>1
<1>3. reverse_post_order = [m \in 1..Len(post_order) |-> post_order[(Len(post_order) - m) + 1]]
  BY DEF reverse_post_order, Reverse
<1>4. Cur = post_order[k]
  BY <1>1, <1>3 DEF Cur
<1>5. Len(reverse_post_order) = Len(post_order)
  BY <1>1, <1>3
<1>6. bb2int[Cur] = k - 1
  BY <1>2, <1>4 DEF NumbersByPlace
<1> QED BY <1>1, <1>2, <1>4, <1>5, <1>6

LEMMA OnlyCur ==
  ASSUME TypeOK, NumbersByPlace, Numbered, pc # "post_order", i <= Len(post_order), NEW b \in Block
  PROVE  bb2int[b] + i = Len(post_order) <=> b = Cur
<1>1. Cur \in Block /\ bb2int[Cur] + i = Len(post_order)
  BY CurFacts
<1>2. bb2int \in [Block -> Nat] /\ i \in Nat /\ Len(post_order) \in Nat
  BY DEF TypeOK
<1>3. post_order[bb2int[b] + 1] = b /\ post_order[bb2int[Cur] + 1] = Cur
  BY <1>1 DEF Numbered
<1> QED BY <1>1, <1>2, <1>3

-----------------------------------------------------------------------------
(* The numbering.                                                          *)

LEMMA InitInv == Init => Inv
<1> SUFFICES ASSUME Init PROVE Inv
  OBVIOUS
<1>1. calls = <<[bb |-> Root, child |-> 1]>> /\ post_order = <<>> /\ visited = {Root} /\ pc = "post_order"
  BY DEF Init
<1>2. TypeOK
  <2> DEFINE Frame == [bb : Block, child : Nat \ {0}]
  <2>1. [bb |-> Root, child |-> 1] \in Frame
    BY RootIsBlock
  <2>2. calls \in Seq(Frame)
    <3> HIDE DEF Frame
    <3> QED BY <1>1, <2>1
  <2>3. post_order \in Seq(Block)
    BY <1>1
  <2>7. visited \subseteq Block /\ bb2int \in [Block -> Nat]
    BY RootIsBlock DEF Init
  <2>8. changed \in BOOLEAN
    BY DEF Init
  <2>4. /\ i \in Nat \ {0} /\ j \in Nat \ {0} /\ {new_idom, finger1, finger2, runner} \subseteq Block \cup {Null}
    BY RootIsBlock DEF Init
  <2>5. idom \in [Block -> Block \cup {Null}]
    BY DEF Init
  <2>6. dom_frontier \in [Block -> SUBSET Block]
    BY DEF Init
  <2> HIDE DEF Frame
  <2> QED BY <1>1, <2>2, <2>3, <2>4, <2>5, <2>6, <2>7, <2>8 DEF TypeOK, Frame
<1>3. ToSet(post_order) = {} /\ DOMAIN post_order = {}
  BY <1>1 DEF ToSet
<1>4. DOMAIN calls = {1} /\ Len(calls) = 1 /\ calls[1].bb = Root /\ calls[1].child = 1
  BY <1>1
<1>5. VisitedOnce
  BY <1>1, <1>3, <1>4 DEF VisitedOnce, OnStack, IsNumbered
<1>6. StackIsPath
  BY <1>1, <1>4 DEF StackIsPath
<1>7. ChildrenVisited /\ EntryAbove
  <2>1. \A b \in Block : ~IsNumbered(b)
    BY <1>3 DEF IsNumbered
  <2>2. graph.succ[Root] \in Seq(Block)
    BY RootIsBlock, GraphFacts DEF Init
  <2>3. \A m \in DOMAIN graph.succ[Root] : ~(m < 1)
    BY <2>2
  <2>4. ChildrenVisited
    BY <1>4, <2>1, <2>3 DEF ChildrenVisited
  <2> QED BY <2>1, <2>4 DEF EntryAbove
<1>8. Numbering /\ NumbersByPlace
  BY <1>3, <1>5, <1>6, <1>7 DEF Numbering, NumbersByPlace
<1>9. Numbered /\ Iteration /\ Meeting /\ Frontiers
  BY <1>1 DEF Numbered, Iteration, Meeting, Frontiers
<1>10. graph \in Graphs /\ \A b \in Block : idom[b] = Null /\ dom_frontier[b] = {}
  BY DEF Init
<1> QED BY <1>2, <1>8, <1>9, <1>10 DEF Inv

\* The block on top of the stack.
LEMMA TopType ==
  ASSUME TypeOK, graph \in Graphs, calls # <<>>
  PROVE  /\ Head(calls).bb \in Block /\ Head(calls).child \in Nat \ {0} /\ Head(calls) = calls[1]
         /\ Len(calls) \in Nat \ {0} /\ 1 \in DOMAIN calls /\ DOMAIN calls = 1..Len(calls)
         /\ Tail(calls) \in Seq([bb : Block, child : Nat \ {0}]) /\ Len(Tail(calls)) = Len(calls) - 1
         /\ \A k \in 1..(Len(calls) - 1) : Tail(calls)[k] = calls[k + 1]
         /\ DOMAIN graph.succ[Head(calls).bb] = 1..Len(graph.succ[Head(calls).bb])
         /\ \A m \in DOMAIN graph.succ[Head(calls).bb] : graph.succ[Head(calls).bb][m] \in Block
<1>1. calls \in Seq([bb : Block, child : Nat \ {0}])
  BY DEF TypeOK
<1>2. Len(calls) \in Nat \ {0} /\ 1 \in DOMAIN calls /\ DOMAIN calls = 1..Len(calls) /\ Head(calls) = calls[1]
  BY <1>1, EmptySeq
<1>3. calls[1].bb \in Block /\ calls[1].child \in Nat \ {0}
  <2> DEFINE Frame == [bb : Block, child : Nat \ {0}]
  <2>1. calls[1] \in Frame
    <3> HIDE DEF Frame
    <3> QED BY <1>1, <1>2, ElementOfSeq DEF Frame
  <2> QED BY <2>1
<1>4. /\ Tail(calls) \in Seq([bb : Block, child : Nat \ {0}]) /\ Len(Tail(calls)) = Len(calls) - 1
      /\ \A k \in 1..(Len(calls) - 1) : Tail(calls)[k] = calls[k + 1]
  BY <1>1, HeadTailProperties
<1>5. graph.succ[Head(calls).bb] \in Seq(Block)
  BY <1>2, <1>3, GraphFacts
<1>6. /\ DOMAIN graph.succ[Head(calls).bb] = 1..Len(graph.succ[Head(calls).bb])
      /\ \A m \in DOMAIN graph.succ[Head(calls).bb] : graph.succ[Head(calls).bb][m] \in Block
  BY <1>5
<1> QED BY <1>2, <1>3, <1>4, <1>6

\* A frame.
Frame == [bb : Block, child : Nat \ {0}]

\* A frame in front of a stack.
LEMMA FrameInFront ==
  ASSUME NEW new \in Frame, NEW rest \in Seq(Frame), NEW s, s = <<new>> \o rest
  PROVE  /\ s \in Seq(Frame) /\ Len(s) = 1 + Len(rest)
         /\ \A k \in 1..Len(s) : s[k] = IF k = 1 THEN new ELSE rest[k - 1]
<1>1. <<new>> \in Seq(Frame) /\ Len(<<new>>) = 1 /\ <<new>>[1] = new
  OBVIOUS
<1> QED BY <1>1, ConcatProperties

\* The top of a stack is replaced.
LEMMA ReplacedTop ==
  ASSUME NEW s \in Seq(Frame), s # <<>>, NEW new \in Frame, NEW rest, rest = <<new>> \o Tail(s)
  PROVE  /\ rest \in Seq(Frame) /\ Len(rest) = Len(s) /\ DOMAIN rest = DOMAIN s
         /\ \A k \in DOMAIN s : rest[k] = IF k = 1 THEN new ELSE s[k]
<1> DEFINE tail == Tail(s)
<1>1. Len(s) \in Nat \ {0} /\ DOMAIN s = 1..Len(s)
  BY EmptySeq, LenProperties
<1>2. tail \in Seq(Frame) /\ Len(tail) = Len(s) - 1 /\ \A k \in 1..Len(tail) : tail[k] = s[k + 1]
  BY HeadTailProperties
<1>3. /\ rest \in Seq(Frame) /\ Len(rest) = 1 + Len(tail)
      /\ \A k \in 1..Len(rest) : rest[k] = IF k = 1 THEN new ELSE tail[k - 1]
  BY <1>2, FrameInFront
<1>4. Len(rest) = Len(s) /\ DOMAIN rest = DOMAIN s
  BY <1>1, <1>2, <1>3, LenProperties
<1> HIDE DEF tail
<1>5. \A k \in DOMAIN s : rest[k] = IF k = 1 THEN new ELSE s[k]
  <2> SUFFICES ASSUME NEW k \in 1..Len(s) PROVE rest[k] = IF k = 1 THEN new ELSE s[k]
    BY <1>1
  <2>1. CASE k = 1
    BY <1>1, <1>3, <1>4, <2>1
  <2>2. CASE k # 1
    <3>1. k - 1 \in 1..Len(tail) /\ (k - 1) + 1 = k
      BY <1>1, <1>2, <2>2
    <3> QED BY <1>1, <1>2, <1>3, <1>4, <2>2, <3>1
  <2> QED BY <2>1, <2>2
<1> QED BY <1>3, <1>4, <1>5

\* The stack after the next child of its top has been looked up.
LEMMA AdvancedStack ==
  ASSUME TypeOK, calls # <<>>
  PROVE  LET rest == <<[Head(calls) EXCEPT !.child = @ + 1]>> \o Tail(calls)
         IN  /\ rest \in Seq(Frame) /\ Len(rest) = Len(calls) /\ DOMAIN rest = DOMAIN calls
             /\ \A k \in DOMAIN calls : rest[k].bb = calls[k].bb
             /\ \A k \in DOMAIN calls : rest[k].child = IF k = 1 THEN calls[k].child + 1 ELSE calls[k].child
<1> DEFINE new  == [Head(calls) EXCEPT !.child = @ + 1]
           rest == <<new>> \o Tail(calls)
<1>1. calls \in Seq(Frame) /\ calls # <<>>
  BY DEF TypeOK, Frame
<1>2. Head(calls) \in Frame /\ Head(calls) = calls[1]
  BY <1>1, HeadTailProperties, EmptySeq, LenProperties
<1>3. new \in Frame /\ new.bb = calls[1].bb /\ new.child = calls[1].child + 1
  BY <1>2 DEF Frame
<1> HIDE DEF new
<1>4. /\ rest \in Seq(Frame) /\ Len(rest) = Len(calls) /\ DOMAIN rest = DOMAIN calls
      /\ \A k \in DOMAIN calls : rest[k] = IF k = 1 THEN new ELSE calls[k]
  BY <1>1, <1>3, ReplacedTop
<1> HIDE DEF rest
<1>5. /\ \A k \in DOMAIN calls : rest[k].bb = calls[k].bb
      /\ \A k \in DOMAIN calls : rest[k].child = IF k = 1 THEN calls[k].child + 1 ELSE calls[k].child
  BY <1>3, <1>4
<1> QED BY <1>4, <1>5 DEF rest, new

\* A block is put on top of a stack.
LEMMA PushedStack ==
  ASSUME NEW rest \in Seq(Frame), NEW c \in Block
  PROVE  LET s == <<[bb |-> c, child |-> 1]>> \o rest
         IN  /\ s \in Seq(Frame) /\ Len(s) = Len(rest) + 1 /\ DOMAIN s = 1..Len(s)
             /\ s[1].bb = c /\ s[1].child = 1
             /\ \A k \in DOMAIN rest : k + 1 \in DOMAIN s /\ s[k + 1] = rest[k]
             /\ \A k \in DOMAIN s : k = 1 \/ (k - 1 \in DOMAIN rest /\ s[k] = rest[k - 1])
<1> DEFINE new == [bb |-> c, child |-> 1]
           s   == <<new>> \o rest
<1>1. new \in Frame /\ new.bb = c /\ new.child = 1
  BY DEF Frame
<1> HIDE DEF new
<1>2. /\ s \in Seq(Frame) /\ Len(s) = 1 + Len(rest)
      /\ \A k \in 1..Len(s) : s[k] = IF k = 1 THEN new ELSE rest[k - 1]
  BY <1>1, FrameInFront
<1> HIDE DEF s
<1>3. DOMAIN rest = 1..Len(rest) /\ Len(rest) \in Nat /\ DOMAIN s = 1..Len(s)
  BY <1>2, LenProperties
<1>4. /\ s \in Seq(Frame) /\ Len(s) = Len(rest) + 1 /\ DOMAIN s = 1..Len(s)
      /\ s[1].bb = c /\ s[1].child = 1
      /\ \A k \in DOMAIN rest : k + 1 \in DOMAIN s /\ s[k + 1] = rest[k]
      /\ \A k \in DOMAIN s : k = 1 \/ (k - 1 \in DOMAIN rest /\ s[k] = rest[k - 1])
  BY <1>1, <1>2, <1>3
<1> QED BY <1>4 DEF s, new

\* Looking up a child keeps the walk's invariant: the child, when it is new,
\* goes on top of the block it was found from.
LEMMA ChildNumbering ==
  ASSUME TypeOK, graph \in Graphs, Numbering, Child
  PROVE  /\ calls' \in Seq(Frame) /\ visited' \subseteq Block
         /\ VisitedOnce' /\ StackIsPath' /\ ChildrenVisited' /\ EntryAbove'
<1> DEFINE top  == Head(calls)
           c    == graph.succ[top.bb][top.child]
           rest == <<[top EXCEPT !.child = @ + 1]>> \o Tail(calls)
<1>1. /\ pc = "post_order" /\ calls # <<>> /\ top.child <= Len(graph.succ[top.bb])
      /\ graph' = graph /\ post_order' = post_order /\ bb2int' = bb2int
      /\ IF c \in visited
         THEN calls' = rest /\ visited' = visited
         ELSE calls' = <<[bb |-> c, child |-> 1]>> \o rest /\ visited' = visited \cup {c}
  BY DEF Child
<1>2. /\ rest \in Seq(Frame) /\ Len(rest) = Len(calls) /\ DOMAIN rest = DOMAIN calls
      /\ \A k \in DOMAIN calls : rest[k].bb = calls[k].bb
      /\ \A k \in DOMAIN calls : rest[k].child = IF k = 1 THEN calls[k].child + 1 ELSE calls[k].child
  BY <1>1, AdvancedStack
<1>3. /\ top = calls[1] /\ top.bb \in Block /\ top.child \in Nat \ {0}
      /\ Len(calls) \in Nat \ {0} /\ 1 \in DOMAIN calls /\ DOMAIN calls = 1..Len(calls)
      /\ top.child \in DOMAIN graph.succ[top.bb] /\ c \in Block
      /\ c = graph.succ[calls[1].bb][calls[1].child]
  <2> HIDE DEF rest
  <2>1. /\ top = calls[1] /\ top.bb \in Block /\ top.child \in Nat \ {0}
        /\ Len(calls) \in Nat \ {0} /\ 1 \in DOMAIN calls /\ DOMAIN calls = 1..Len(calls)
        /\ DOMAIN graph.succ[top.bb] = 1..Len(graph.succ[top.bb])
        /\ \A m \in DOMAIN graph.succ[top.bb] : graph.succ[top.bb][m] \in Block
    BY <1>1, TopType
  <2>2. Len(graph.succ[top.bb]) \in Nat
    BY <2>1, GraphFacts, LenProperties
  <2> HIDE DEF top
  <2>3. top.child \in DOMAIN graph.succ[top.bb]
    BY <1>1, <2>1, <2>2
  <2> QED BY <2>1, <2>3
<1> HIDE DEF rest, top, c
<1>4. VisitedOnce /\ StackIsPath /\ ChildrenVisited /\ EntryAbove
  BY <1>1 DEF Numbering
<1>5. \A k \in DOMAIN calls : calls[k].bb \in Block /\ calls[k].child \in Nat
  <2> SUFFICES ASSUME NEW k \in DOMAIN calls PROVE calls[k].bb \in Block /\ calls[k].child \in Nat
    OBVIOUS
  <2>1. calls[k] \in Frame
    <3>1. calls \in Seq(Frame)
      BY DEF TypeOK, Frame
    <3> QED BY <3>1
  <2> QED BY <2>1 DEF Frame
<1>6. visited \subseteq Block /\ visited \subseteq visited'
  BY <1>1 DEF TypeOK
<1>7. c \in ToSet(graph.succ[calls[1].bb])
  BY <1>3 DEF ToSet
<1>8. \A b \in Block : IsNumbered(b)' <=> IsNumbered(b)
  BY <1>1 DEF IsNumbered
\* The block the walk is at has one more child that has been visited.
<1>9. /\ c \in visited'
      /\ \A k \in DOMAIN calls : \A m \in DOMAIN graph.succ[calls[k].bb] :
           m < rest[k].child => graph.succ[calls[k].bb][m] \in visited'
  <2>1. c \in visited'
    BY <1>1
  <2> SUFFICES ASSUME NEW k \in DOMAIN calls, NEW m \in DOMAIN graph.succ[calls[k].bb], m < rest[k].child
               PROVE  graph.succ[calls[k].bb][m] \in visited'
    BY <2>1
  <2>2. CASE m < calls[k].child
    BY <2>2, <1>4, <1>6 DEF ChildrenVisited
  <2>3. CASE ~(m < calls[k].child)
    <3>1. m \in Nat
      BY <1>5, GraphFacts
    <3>2. k = 1 /\ m = calls[1].child
      BY <1>2, <1>5, <2>3, <3>1
    <3> QED BY <2>1, <3>2, <1>3
  <2> QED BY <2>2, <2>3
<1>10. CASE c \in visited
  <2>1. calls' = rest /\ visited' = visited
    BY <1>1, <1>10
  <2>2. \A b \in Block : OnStack(b)' <=> OnStack(b)
    BY <2>1, <1>2 DEF OnStack
  <2>3. VisitedOnce'
    BY <2>1, <2>2, <1>2, <1>4, <1>8 DEF VisitedOnce
  <2>4. StackIsPath'
    <3>1. \A k \in DOMAIN calls : k < Len(calls) => k + 1 \in DOMAIN calls
      BY <1>3
    <3>2. \A k \in DOMAIN rest : k < Len(rest) => rest[k].bb \in ToSet(graph.succ[rest[k + 1].bb])
      BY <3>1, <1>2, <1>4 DEF StackIsPath
    <3>3. rest # <<>> /\ rest[Len(rest)].bb = Root
      BY <1>1, <1>2, <1>3, <1>4 DEF StackIsPath
    <3> QED BY <2>1, <3>2, <3>3, <1>1 DEF StackIsPath
  <2>5. ChildrenVisited'
    BY <2>1, <1>1, <1>2, <1>4, <1>8, <1>9 DEF ChildrenVisited
  <2>6. EntryAbove'
    BY <2>2, <1>1, <1>4, <1>8 DEF EntryAbove
  <2> QED BY <1>2, <1>6, <2>1, <2>3, <2>4, <2>5, <2>6
<1>11. CASE c \notin visited
  <2>1. calls' = <<[bb |-> c, child |-> 1]>> \o rest /\ visited' = visited \cup {c}
    BY <1>1, <1>11
  <2>2. /\ calls' \in Seq(Frame) /\ Len(calls') = Len(rest) + 1 /\ DOMAIN calls' = 1..Len(calls')
        /\ calls'[1].bb = c /\ calls'[1].child = 1
        /\ \A k \in DOMAIN rest : k + 1 \in DOMAIN calls' /\ calls'[k + 1] = rest[k]
        /\ \A k \in DOMAIN calls' : k = 1 \/ (k - 1 \in DOMAIN rest /\ calls'[k] = rest[k - 1])
    <3>1. rest \in Seq(Frame) /\ c \in Block
      BY <1>2, <1>3
    <3> QED BY <2>1, <3>1, PushedStack
  <2>3. \A b \in Block : OnStack(b)' <=> OnStack(b) \/ b = c
    <3> SUFFICES ASSUME NEW b \in Block PROVE OnStack(b)' <=> OnStack(b) \/ b = c
      OBVIOUS
    <3>1. ASSUME OnStack(b) PROVE OnStack(b)'
      BY <3>1, <2>2, <1>2 DEF OnStack
    <3>2. 1 \in DOMAIN calls'
      BY <1>2, <1>3, <2>2
    <3>3. ASSUME b = c PROVE OnStack(b)'
      BY <3>2, <3>3, <2>2 DEF OnStack
    <3>4. ASSUME OnStack(b)', b # c PROVE OnStack(b)
      <4>1. PICK k \in DOMAIN calls' : calls'[k].bb = b
        BY <3>4 DEF OnStack
      <4>2. k - 1 \in DOMAIN calls /\ calls'[k].bb = calls[k - 1].bb
        BY <3>4, <4>1, <2>2, <1>2
      <4> QED BY <4>1, <4>2 DEF OnStack
    <3> QED BY <3>1, <3>3, <3>4
  <2>4. ~OnStack(c) /\ ~IsNumbered(c)
    BY <1>3, <1>4, <1>11 DEF VisitedOnce
  <2>5. VisitedOnce'
    <3>1. \A b \in Block : b \in visited' <=> OnStack(b)' \/ IsNumbered(b)'
      BY <2>1, <2>3, <1>4, <1>8 DEF VisitedOnce
    <3>2. \A b \in Block : ~(OnStack(b)' /\ IsNumbered(b)')
      BY <2>3, <2>4, <1>4, <1>8 DEF VisitedOnce
    <3>3. \A k, l \in DOMAIN calls' : calls'[k].bb = calls'[l].bb => k = l
      <4>1. \A k \in DOMAIN rest : rest[k].bb # c
        BY <2>4, <1>2 DEF OnStack
      <4>2. \A k, l \in DOMAIN rest : rest[k].bb = rest[l].bb => k = l
        BY <1>2, <1>4 DEF VisitedOnce
      <4>3. \A k \in DOMAIN calls' : k = 1 <=> calls'[k].bb = c
        BY <2>2, <4>1
      <4> SUFFICES ASSUME NEW k \in DOMAIN calls', NEW l \in DOMAIN calls', k # 1, l # 1, calls'[k].bb = calls'[l].bb
                   PROVE  k = l
        BY <4>3
      <4>4. k - 1 \in DOMAIN rest /\ l - 1 \in DOMAIN rest /\ rest[k - 1].bb = rest[l - 1].bb
        BY <2>2
      <4>5. k - 1 = l - 1
        BY <4>2, <4>4
      <4> QED BY <2>2, <4>5
    <3> QED BY <3>1, <3>2, <3>3 DEF VisitedOnce
  <2>6. StackIsPath'
    <3>1. \A k \in DOMAIN calls' : k < Len(calls') => calls'[k].bb \in ToSet(graph.succ[calls'[k + 1].bb])
      <4> SUFFICES ASSUME NEW k \in DOMAIN calls', k < Len(calls')
                   PROVE  calls'[k].bb \in ToSet(graph.succ[calls'[k + 1].bb])
        OBVIOUS
      <4>1. CASE k = 1
        BY <4>1, <1>2, <1>3, <1>7, <2>2
      <4>2. CASE k # 1
        <5>1. k - 1 \in DOMAIN calls /\ k \in DOMAIN calls /\ (k - 1) + 1 = k /\ k - 1 < Len(calls)
          BY <4>2, <1>2, <1>3, <2>2
        <5>2. calls'[k].bb = calls[k - 1].bb /\ calls'[k + 1].bb = calls[k].bb
          BY <4>2, <5>1, <1>2, <2>2
        <5>3. calls[k - 1].bb \in ToSet(graph.succ[calls[(k - 1) + 1].bb])
          BY <5>1, <1>4 DEF StackIsPath
        <5> QED BY <5>1, <5>2, <5>3
      <4> QED BY <4>1, <4>2
    <3>2. calls'[Len(calls')].bb = Root
      <4>1. Len(calls) \in DOMAIN rest /\ calls'[Len(calls')] = rest[Len(calls)]
        BY <1>2, <1>3, <2>2
      <4> QED BY <4>1, <1>1, <1>2, <1>4 DEF StackIsPath
    <3>3. calls' # <<>>
      BY <1>2, <1>3, <2>2
    <3> QED BY <3>1, <3>2, <3>3, <1>1 DEF StackIsPath
  <2>7. ChildrenVisited'
    <3>1. \A b \in Block : IsNumbered(b) => ToSet(graph.succ[b]) \subseteq visited'
      BY <1>4, <1>6 DEF ChildrenVisited
    <3>2. \A k \in DOMAIN calls' : \A m \in DOMAIN graph.succ[calls'[k].bb] :
            m < calls'[k].child => graph.succ[calls'[k].bb][m] \in visited'
      <4> SUFFICES ASSUME NEW k \in DOMAIN calls', NEW m \in DOMAIN graph.succ[calls'[k].bb], m < calls'[k].child
                   PROVE  graph.succ[calls'[k].bb][m] \in visited'
        OBVIOUS
      <4>1. k # 1
        <5> SUFFICES ASSUME k = 1 PROVE FALSE
          OBVIOUS
        <5>1. m < 1 /\ m \in DOMAIN graph.succ[c]
          BY <2>2
        <5>2. graph.succ[c] \in Seq(Block)
          BY <1>3, GraphFacts
        <5> QED BY <5>1, <5>2
      <4>2. k - 1 \in DOMAIN calls /\ calls'[k] = rest[k - 1] /\ calls'[k].bb = calls[k - 1].bb
        BY <4>1, <1>2, <2>2
      <4> QED BY <4>2, <1>9
    <3> QED BY <3>1, <3>2, <1>1, <1>8 DEF ChildrenVisited
  <2>8. EntryAbove'
    BY <2>3, <1>1, <1>4, <1>8 DEF EntryAbove
  <2>9. visited' \subseteq Block
    BY <2>1, <1>3, <1>6
  <2> QED BY <2>2, <2>5, <2>6, <2>7, <2>8, <2>9
<1> QED BY <1>10, <1>11

\* A block that gets its number leaves the stack: the block below it on the
\* stack, which will get a higher number, precedes it.
LEMMA NumberNumbering ==
  ASSUME TypeOK, graph \in Graphs, NumbersByPlace, Numbering, Number
  PROVE  /\ calls' \in Seq(Frame) /\ post_order' \in Seq(Block) /\ bb2int' \in [Block -> Nat]
         /\ NumbersByPlace' /\ VisitedOnce' /\ StackIsPath' /\ ChildrenVisited' /\ EntryAbove'
<1> DEFINE t == Head(calls).bb
<1>1. /\ pc = "post_order" /\ calls # <<>> /\ Head(calls).child > Len(graph.succ[t])
      /\ bb2int' = [bb2int EXCEPT ![t] = Len(post_order)]
      /\ post_order' = Append(post_order, t)
      /\ calls' = Tail(calls)
      /\ graph' = graph /\ visited' = visited
  BY DEF Number
<1>2. /\ t \in Block /\ t = calls[1].bb /\ Head(calls).child \in Nat /\ Head(calls) = calls[1]
      /\ Len(calls) \in Nat \ {0} /\ 1 \in DOMAIN calls /\ DOMAIN calls = 1..Len(calls)
      /\ calls' \in Seq(Frame) /\ Len(calls') = Len(calls) - 1
      /\ \A k \in 1..(Len(calls) - 1) : calls'[k] = calls[k + 1]
      /\ DOMAIN graph.succ[t] = 1..Len(graph.succ[t])
  BY <1>1, TopType DEF Frame
<1> HIDE DEF t
<1>3. VisitedOnce /\ StackIsPath /\ ChildrenVisited /\ EntryAbove
  BY <1>1 DEF Numbering
<1>4. post_order \in Seq(Block) /\ Len(post_order) \in Nat /\ bb2int \in [Block -> Nat] /\ visited \subseteq Block
  BY LenProperties DEF TypeOK
<1>5. /\ post_order' \in Seq(Block) /\ Len(post_order') = Len(post_order) + 1
      /\ \A k \in 1..Len(post_order) : post_order'[k] = post_order[k]
      /\ post_order'[Len(post_order) + 1] = t
      /\ DOMAIN post_order = 1..Len(post_order) /\ DOMAIN post_order' = 1..(Len(post_order) + 1)
  BY <1>1, <1>2, <1>4, AppendProperties
<1>6. /\ bb2int' \in [Block -> Nat] /\ bb2int'[t] = Len(post_order)
      /\ \A b \in Block \ {t} : bb2int'[b] = bb2int[b]
  BY <1>1, <1>2, <1>4
<1>7. \A b \in Block : IsNumbered(b)' <=> IsNumbered(b) \/ b = t
  <2> SUFFICES ASSUME NEW b \in Block PROVE IsNumbered(b)' <=> IsNumbered(b) \/ b = t
    OBVIOUS
  <2>1. ASSUME IsNumbered(b)', b # t PROVE IsNumbered(b)
    BY <2>1, <1>4, <1>5 DEF IsNumbered, ToSet
  <2>2. ASSUME IsNumbered(b) PROVE IsNumbered(b)'
    BY <2>2, <1>4, <1>5 DEF IsNumbered, ToSet
  <2>3. ASSUME b = t PROVE IsNumbered(b)'
    BY <2>3, <1>4, <1>5 DEF IsNumbered, ToSet
  <2> QED BY <2>1, <2>2, <2>3
<1>8. OnStack(t) /\ ~IsNumbered(t)
  BY <1>2, <1>3 DEF OnStack, VisitedOnce
<1>9. DOMAIN calls' = 1..(Len(calls) - 1)
  BY <1>2, LenProperties
<1>10. \A k \in DOMAIN calls' : k + 1 \in DOMAIN calls /\ calls'[k] = calls[k + 1] /\ calls[k + 1].bb # t
  <2> SUFFICES ASSUME NEW k \in DOMAIN calls'
               PROVE  k + 1 \in DOMAIN calls /\ calls'[k] = calls[k + 1] /\ calls[k + 1].bb # t
    OBVIOUS
  <2>1. k + 1 \in DOMAIN calls /\ calls'[k] = calls[k + 1] /\ k + 1 # 1
    BY <1>2, <1>9
  <2> QED BY <2>1, <1>2, <1>3 DEF VisitedOnce
<1>11. \A b \in Block : OnStack(b)' <=> OnStack(b) /\ b # t
  <2> SUFFICES ASSUME NEW b \in Block PROVE OnStack(b)' <=> OnStack(b) /\ b # t
    OBVIOUS
  <2>1. ASSUME OnStack(b)' PROVE OnStack(b) /\ b # t
    BY <2>1, <1>10 DEF OnStack
  <2>2. ASSUME OnStack(b), b # t PROVE OnStack(b)'
    <3>1. PICK k \in DOMAIN calls : calls[k].bb = b
      BY <2>2 DEF OnStack
    <3>2. k # 1 /\ k \in Nat
      BY <2>2, <3>1, <1>2
    <3>3. k - 1 \in DOMAIN calls' /\ (k - 1) + 1 = k
      BY <3>1, <3>2, <1>2, <1>9
    <3>4. calls'[k - 1] = calls[k]
      BY <3>3, <1>10
    <3> QED BY <3>1, <3>3, <3>4 DEF OnStack
  <2> QED BY <2>1, <2>2
<1>12. NumbersByPlace'
  <2> SUFFICES ASSUME NEW k \in DOMAIN post_order' PROVE bb2int'[post_order'[k]] = k - 1
    BY DEF NumbersByPlace
  <2>1. CASE k = Len(post_order) + 1
    BY <2>1, <1>4, <1>5, <1>6
  <2>2. CASE k # Len(post_order) + 1
    <3>1. k \in DOMAIN post_order /\ post_order'[k] = post_order[k] /\ post_order[k] \in Block
      BY <2>2, <1>4, <1>5
    <3>2. post_order[k] # t
      BY <3>1, <1>8 DEF IsNumbered, ToSet
    <3> QED BY <3>1, <3>2, <1>6 DEF NumbersByPlace
  <2> QED BY <2>1, <2>2
<1>13. VisitedOnce'
  <2>1. \A k, l \in DOMAIN calls' : calls'[k].bb = calls'[l].bb => k = l
    <3> SUFFICES ASSUME NEW k \in DOMAIN calls', NEW l \in DOMAIN calls', calls'[k].bb = calls'[l].bb PROVE k = l
      OBVIOUS
    <3>1. k + 1 = l + 1
      BY <1>3, <1>10 DEF VisitedOnce
    <3> QED BY <3>1, <1>9
  <2>2. \A b \in Block : b \in visited' <=> OnStack(b)' \/ IsNumbered(b)'
    BY <1>1, <1>3, <1>7, <1>8, <1>11 DEF VisitedOnce
  <2>3. \A b \in Block : ~(OnStack(b)' /\ IsNumbered(b)')
    BY <1>3, <1>7, <1>11 DEF VisitedOnce
  <2> QED BY <2>1, <2>2, <2>3 DEF VisitedOnce
<1>14. StackIsPath'
  <2>1. \A k \in DOMAIN calls' : k < Len(calls') => calls'[k].bb \in ToSet(graph.succ[calls'[k + 1].bb])
    <3> SUFFICES ASSUME NEW k \in DOMAIN calls', k < Len(calls')
                 PROVE  calls'[k].bb \in ToSet(graph.succ[calls'[k + 1].bb])
      OBVIOUS
    <3>1. k + 1 \in DOMAIN calls /\ k + 1 \in DOMAIN calls' /\ k + 1 < Len(calls)
      BY <1>2, <1>9
    <3>2. calls'[k] = calls[k + 1] /\ calls'[k + 1] = calls[(k + 1) + 1]
      BY <3>1, <1>10
    <3> QED BY <3>1, <3>2, <1>3 DEF StackIsPath
  <2>2. calls' # <<>> => calls'[Len(calls')].bb = Root
    <3> SUFFICES ASSUME calls' # <<>> PROVE calls'[Len(calls')].bb = Root
      OBVIOUS
    <3>1. Len(calls') # 0 /\ Len(calls') \in Nat
      BY <1>2, EmptySeq, LenProperties
    <3>2. Len(calls') \in DOMAIN calls' /\ Len(calls') + 1 = Len(calls)
      BY <3>1, <1>2, <1>9
    <3> QED BY <3>2, <1>1, <1>3, <1>10 DEF StackIsPath
  <2>3. calls' = <<>> => post_order' # <<>> /\ post_order'[Len(post_order')] = Root
    <3> SUFFICES ASSUME calls' = <<>> PROVE post_order' # <<>> /\ post_order'[Len(post_order')] = Root
      OBVIOUS
    <3>1. Len(calls') = 0
      OBVIOUS
    <3>2. t = Root
      BY <3>1, <1>1, <1>2, <1>3 DEF StackIsPath
    <3> QED BY <3>2, <1>4, <1>5
  <2> QED BY <2>1, <2>2, <2>3, <1>1 DEF StackIsPath
<1>15. ChildrenVisited'
  <2>1. ToSet(graph.succ[t]) \subseteq visited
    <3> SUFFICES ASSUME NEW m \in DOMAIN graph.succ[t] PROVE graph.succ[t][m] \in visited
      BY DEF ToSet
    <3>1. Len(graph.succ[t]) \in Nat
      BY <1>2, GraphFacts, LenProperties
    <3>2. m < calls[1].child
      BY <3>1, <1>1, <1>2
    <3> QED BY <3>2, <1>2, <1>3 DEF ChildrenVisited
  <2>2. \A b \in Block : IsNumbered(b)' => ToSet(graph.succ[b]) \subseteq visited
    BY <2>1, <1>3, <1>7 DEF ChildrenVisited
  <2>3. \A k \in DOMAIN calls' : \A m \in DOMAIN graph.succ[calls'[k].bb] :
          m < calls'[k].child => graph.succ[calls'[k].bb][m] \in visited
    BY <1>3, <1>10 DEF ChildrenVisited
  <2> QED BY <2>2, <2>3, <1>1 DEF ChildrenVisited
<1>16. EntryAbove'
  <2> DEFINE Entry(p, b) == b \in ToSet(graph.succ[p]) /\ (OnStack(p)' \/ (IsNumbered(p)' /\ bb2int'[p] > bb2int'[b]))
  <2> SUFFICES ASSUME NEW b \in Block \ {Root}, IsNumbered(b)' PROVE \E p \in Block : Entry(p, b)
    BY <1>1 DEF EntryAbove
  <2>1. CASE b = t
    <3>1. Len(calls) # 1
      BY <2>1, <1>1, <1>2, <1>3 DEF StackIsPath
    <3>2. 1 \in DOMAIN calls' /\ 1 < Len(calls) /\ calls'[1] = calls[2] /\ 2 \in DOMAIN calls
      BY <3>1, <1>2, <1>9, <1>10
    <3>3. b \in ToSet(graph.succ[calls[2].bb])
      BY <2>1, <3>2, <1>2, <1>3 DEF StackIsPath
    <3>4. PICK p \in Block : p = calls[2].bb
      <4>1. calls'[1] \in Frame
        BY <3>2, <1>2
      <4> QED BY <3>2, <4>1 DEF Frame
    <3>5. OnStack(p)'
      BY <3>2, <3>4 DEF OnStack
    <3> QED BY <3>3, <3>4, <3>5
  <2>2. CASE b # t
    <3>1. IsNumbered(b)
      BY <2>2, <1>7
    <3>2. PICK p \in Block : b \in ToSet(graph.succ[p]) /\ (OnStack(p) \/ (IsNumbered(p) /\ bb2int[p] > bb2int[b]))
      BY <3>1, <1>3 DEF EntryAbove
    <3>3. CASE p = t
      <4>1. PICK k \in DOMAIN post_order : post_order[k] = b
        BY <3>1 DEF IsNumbered, ToSet
      <4>2. bb2int[b] = k - 1 /\ k <= Len(post_order) /\ k \in Nat
        BY <4>1, <1>4, <1>5 DEF NumbersByPlace
      <4>3. bb2int'[p] > bb2int'[b] /\ IsNumbered(p)'
        BY <2>2, <3>3, <4>2, <1>4, <1>6, <1>7
      <4> QED BY <3>2, <4>3
    <3>4. CASE p # t
      BY <2>2, <3>2, <3>4, <1>6, <1>7, <1>11
    <3> QED BY <3>3, <3>4
  <2> QED BY <2>1, <2>2
<1> QED BY <1>2, <1>5, <1>6, <1>12, <1>13, <1>14, <1>15, <1>16

\* When the stack is empty, what has been visited is closed under successors
\* and so is all: each block has a number.
LEMMA AllNumbered ==
  ASSUME TypeOK, graph \in Graphs, NumbersByPlace, VisitedOnce, StackIsPath, ChildrenVisited, EntryAbove, calls = <<>>
  PROVE  /\ Len(post_order) = bb2int[Root] + 1
         /\ \A b \in Block : bb2int[b] + 1 \in DOMAIN post_order /\ post_order[bb2int[b] + 1] = b
         /\ \A b \in Block \ {Root} : \E p \in Block : Above(p, b)
<1>1. DOMAIN calls = {}
  OBVIOUS
<1>2. \A b \in Block : ~OnStack(b)
  BY <1>1 DEF OnStack
<1>3. post_order \in Seq(Block) /\ post_order # <<>> /\ post_order[Len(post_order)] = Root
  BY DEF StackIsPath, TypeOK
<1>4. Len(post_order) \in DOMAIN post_order /\ Len(post_order) \in Nat /\ DOMAIN post_order = 1..Len(post_order)
  BY <1>3, EmptySeq, LenProperties
<1>5. bb2int \in [Block -> Nat] /\ visited \subseteq Block
  BY DEF TypeOK
<1>6. \A b \in Block : b \in visited <=> IsNumbered(b)
  BY <1>2 DEF VisitedOnce
<1>7. Block \subseteq visited
  <2>1. Closed(Block, Succs, visited)
    BY <1>5, <1>6 DEF Closed, Succs, ChildrenVisited
  <2>2. Root \in visited
    BY <1>3, <1>4, <1>6, RootIsBlock DEF IsNumbered, ToSet
  <2>3. visited \cap Block = visited
    BY <1>5
  <2>4. ReachIn(Block, Succs, Root) \subseteq visited
    BY <2>1, <2>2, <2>3, BlocksFinite, ReachLeast
  <2> QED BY <2>4, GraphFacts DEF FlowGraph, Succs
<1>8. \A b \in Block : bb2int[b] + 1 \in DOMAIN post_order /\ post_order[bb2int[b] + 1] = b
  <2> SUFFICES ASSUME NEW b \in Block
               PROVE  bb2int[b] + 1 \in DOMAIN post_order /\ post_order[bb2int[b] + 1] = b
    OBVIOUS
  <2>1. PICK k \in DOMAIN post_order : post_order[k] = b
    BY <1>6, <1>7 DEF IsNumbered, ToSet
  <2>2. bb2int[b] = k - 1 /\ k \in Nat
    BY <2>1, <1>4 DEF NumbersByPlace
  <2>3. bb2int[b] + 1 = k
    BY <2>2
  <2> QED BY <2>1, <2>3
<1>9. Len(post_order) = bb2int[Root] + 1
  BY <1>3, <1>4 DEF NumbersByPlace
<1>10. \A b \in Block \ {Root} : \E p \in Block : Above(p, b)
  BY <1>2, <1>6, <1>7 DEF EntryAbove, Above
<1> QED BY <1>8, <1>9, <1>10

\* The numbers of the blocks differ, and the root has the highest.
LEMMA NumbersDiffer ==
  ASSUME TypeOK, Len(post_order) = bb2int[Root] + 1,
         \A b \in Block : bb2int[b] + 1 \in DOMAIN post_order /\ post_order[bb2int[b] + 1] = b
  PROVE  /\ bb2int \in [Block -> Nat] /\ Len(post_order) \in Nat /\ Len(post_order) = bb2int[Root] + 1
         /\ \A b \in Block : bb2int[b] <= bb2int[Root]
         /\ \A a, b \in Block : bb2int[a] = bb2int[b] => a = b
<1>1. bb2int \in [Block -> Nat] /\ post_order \in Seq(Block) /\ Len(post_order) \in Nat
  BY DEF TypeOK
<1>2. \A b \in Block : bb2int[b] <= bb2int[Root]
  BY <1>1, RootIsBlock
<1>3. \A a, b \in Block : bb2int[a] = bb2int[b] => a = b
  <2> SUFFICES ASSUME NEW a \in Block, NEW b \in Block, bb2int[a] = bb2int[b] PROVE a = b
    OBVIOUS
  <2>1. post_order[bb2int[a] + 1] = a /\ post_order[bb2int[b] + 1] = b
    OBVIOUS
  <2> QED BY <2>1
<1> QED BY <1>1, <1>2, <1>3

\* The fixpoint starts with the root alone.
LEMMA StartIdomInv ==
  ASSUME Inv, StartIdom
  PROVE  Inv'
<1>1. /\ pc = "post_order" /\ calls = <<>> /\ pc' = "pass" /\ i' = 1 /\ changed' = FALSE
      /\ doms' = [n \in 0..bb2int[Root] |-> IF n = bb2int[Root] THEN Root ELSE Null]
      /\ graph' = graph /\ calls' = calls /\ visited' = visited /\ post_order' = post_order /\ bb2int' = bb2int
      /\ j' = j /\ new_idom' = new_idom /\ finger1' = finger1 /\ finger2' = finger2 /\ runner' = runner
      /\ idom' = idom /\ dom_frontier' = dom_frontier
  BY DEF StartIdom, numbering, fingers, result
<1>2. TypeOK /\ graph \in Graphs /\ NumbersByPlace /\ VisitedOnce /\ StackIsPath /\ ChildrenVisited /\ EntryAbove
  BY <1>1 DEF Inv, Numbering
<1>3. TypeOK'
  <2>1. bb2int[Root] \in Nat
    BY <1>2, RootIsBlock DEF TypeOK
  <2>2. doms' \in [0..bb2int[Root] -> Block \cup {Null}]
    BY <1>1, RootIsBlock
  <2>3. changed' \in BOOLEAN
    BY <1>1
  <2> QED BY <1>1, <1>2, <2>2, <2>3 DEF TypeOK
<1>4. Numbered'
  BY <1>1, <1>2, AllNumbered DEF Numbered, Above
<1>5. NumbersByPlace'
  BY <1>1, <1>2 DEF NumbersByPlace
<1>6. /\ bb2int \in [Block -> Nat] /\ Len(post_order) \in Nat /\ Len(post_order) = bb2int[Root] + 1
      /\ \A b \in Block : bb2int[b] <= bb2int[Root]
      /\ \A b \in Block : bb2int[b] = bb2int[Root] => b = Root
  BY <1>1, <1>2, AllNumbered, NumbersDiffer, RootIsBlock
<1>7. \A b \in Block : Dom(b)' = IF b = Root THEN Root ELSE Null
  <2> SUFFICES ASSUME NEW b \in Block PROVE Dom(b)' = IF b = Root THEN Root ELSE Null
    OBVIOUS
  <2>1. Num(b)' = bb2int[b] /\ bb2int[b] \in 0..bb2int[Root]
    BY <1>1, <1>6, RootIsBlock DEF Num
  <2> QED BY <2>1, <1>1, <1>6 DEF Dom
<1>8. Climbs(Table, bb2int)'
  <2>1. Table' = [b \in Block |-> IF b = Root THEN Root ELSE Null]
    BY <1>7 DEF Table
  <2> QED BY <2>1, <1>1, <1>6, RootIsBlock DEF Climbs
<1>14. \A b \in Block : ~Processed(b)'
  <2> SUFFICES ASSUME NEW b \in Block PROVE ~(bb2int'[b] + i' > Len(post_order'))
    BY DEF Processed
  <2>1. bb2int[b] \in Nat /\ bb2int[Root] \in Nat /\ bb2int[b] <= bb2int[Root]
    BY <1>6, RootIsBlock
  <2>2. ~(bb2int[b] + 1 > Len(post_order))
    BY <2>1, <1>6
  <2> QED BY <2>2, <1>1
<1>9. Filling'
  <2>1. \A b \in Block : Known(b)' <=> b = Root
    BY <1>7, RootIsBlock DEF Known
  <2> QED BY <2>1, <1>14 DEF Filling
<1>10. NoneSkipped' /\ HoldsCommon' /\ FollowsAbove'
  <2>1. \A b \in Block \ {Root} : ~Known(b)'
    BY <1>7 DEF Known
  <2> QED BY <2>1 DEF NoneSkipped, HoldsCommon, FollowsAbove
<1>11. SolvedSoFar'
  BY <1>14 DEF SolvedSoFar
<1>12. \A b \in Block : idom'[b] = Null /\ dom_frontier'[b] = {}
  BY <1>1 DEF Inv
<1>13. Iteration'
  BY <1>8, <1>9, <1>10, <1>11, <1>12 DEF Iteration
<1>15. Numbering' /\ Meeting' /\ Frontiers'
  BY <1>1 DEF Numbering, Meeting, Frontiers
<1> QED BY <1>1, <1>2, <1>3, <1>4, <1>5, <1>13, <1>15 DEF Inv

-----------------------------------------------------------------------------
(* The chains of the table at hand.                                        *)

LEMMA ChainIsUp == \A b \in Block : Chain(b) = Up(Table, b) /\ Table[b] = Dom(b)
<1>1. [a \in Block |-> {Dom(a)} \ {Null}] = [a \in Block |-> {Table[a]} \ {Null}]
  BY DEF Table
<1> QED BY <1>1 DEF Chain, Up, Table

LEMMA ChainIsUpNext == \A b \in Block : Chain(b)' = Up(Table', b) /\ Table'[b] = Dom(b)'
<1>1. [a \in Block |-> {Dom(a)'} \ {Null}] = [a \in Block |-> {Table'[a]} \ {Null}]
  BY DEF Table
<1> QED BY <1>1 DEF Chain, Up, Table

LEMMA ChainFacts ==
  ASSUME Climbs(Table, bb2int)
  PROVE  /\ \A b \in Block : Chain(b) \subseteq Block /\ b \in Chain(b)
         /\ Dom(Root) = Root /\ Chain(Root) = {Root}
         /\ \A b \in Block : Known(b) => Dom(b) \in Block /\ Known(Dom(b)) /\ Chain(b) = {b} \cup Chain(Dom(b))
         /\ \A b \in Block : ~Known(b) => Chain(b) = {b}
         /\ \A b \in Block \ {Root} : Known(b) => bb2int[Dom(b)] > bb2int[b]
         /\ \A b \in Block : \A c \in Chain(b) : Chain(c) \subseteq Chain(b)
         /\ \A b \in Block : \A y \in Chain(b) : y = b \/ bb2int[y] > bb2int[b]
         /\ \A b \in Block : Known(b) => \A y \in Chain(b) : Known(y)
         /\ \A b \in Block : \A x, y \in Chain(b) : bb2int[y] >= bb2int[x] => y \in Chain(x)
<1>1. \A b \in Block : Chain(b) = Up(Table, b) /\ Table[b] = Dom(b)
  BY ChainIsUp
<1>2. /\ Table \in [Block -> Block \cup {Null}] /\ Table[Root] = Root
      /\ \A b \in Block \ {Root} : Table[b] # Null => bb2int[Table[b]] > bb2int[b] /\ Table[Table[b]] # Null
  BY DEF Climbs
<1>3. \A b \in Block : Chain(b) \subseteq Block /\ b \in Chain(b)
  BY <1>1, UpClosed
<1>4. Dom(Root) = Root /\ Chain(Root) = {Root}
  BY <1>1, <1>2, RootIsBlock, UpRoot
<1>5. ASSUME NEW b \in Block, Known(b)
      PROVE  Dom(b) \in Block /\ Known(Dom(b)) /\ Chain(b) = {b} \cup Chain(Dom(b))
  <2>1. Dom(b) \in Block
    BY <1>1, <1>2, <1>5 DEF Known
  <2>2. Known(Dom(b))
    BY <1>1, <1>2, <1>4, <1>5, <2>1, RootIsBlock DEF Known
  <2>3. Chain(b) = {b} \cup Chain(Dom(b))
    BY <1>1, <2>1, UpFirst
  <2> QED BY <2>1, <2>2, <2>3
<1>6. ASSUME NEW b \in Block, ~Known(b) PROVE Chain(b) = {b}
  BY <1>1, <1>6, UpFirst DEF Known
<1>7. \A b \in Block \ {Root} : Known(b) => bb2int[Dom(b)] > bb2int[b]
  BY <1>1, <1>2 DEF Known
<1>8. \A b \in Block : \A c \in Chain(b) : Chain(c) \subseteq Chain(b)
  BY <1>1, <1>3, UpTrans
<1>9. \A b \in Block : \A y \in Chain(b) : y = b \/ bb2int[y] > bb2int[b]
  BY <1>1, UpHigher
<1>10. ASSUME NEW b \in Block, Known(b), NEW y \in Chain(b) PROVE Known(y)
  BY <1>1, <1>3, <1>10, UpKnown DEF Known
<1>11. ASSUME NEW b \in Block, NEW x \in Chain(b), NEW y \in Chain(b), bb2int[y] >= bb2int[x] PROVE y \in Chain(x)
  BY <1>1, <1>3, <1>11, UpLinear
<1> QED BY <1>3, <1>4, <1>5, <1>6, <1>7, <1>8, <1>9, <1>10, <1>11

\* While the table stays, so do the chains.
LEMMA SameTable ==
  ASSUME doms' = doms, bb2int' = bb2int, graph' = graph
  PROVE  /\ \A b : Dom(b)' = Dom(b) /\ (Known(b)' <=> Known(b)) /\ Chain(b)' = Chain(b) /\ Common(b)' = Common(b)
         /\ Table' = Table
         /\ \A a, b : (IsDom(a, b)' <=> IsDom(a, b)) /\ (IsPred(a, b)' <=> IsPred(a, b)) /\ (Above(a, b)' <=> Above(a, b))
<1>1. \A b : Dom(b)' = Dom(b)
  BY DEF Dom, Num
<1>2. \A b : Known(b)' <=> Known(b)
  BY <1>1 DEF Known
<1>3. \A b : Chain(b)' = Chain(b)
  BY <1>1 DEF Chain
<1>4. \A a, b : (IsDom(a, b)' <=> IsDom(a, b)) /\ (IsPred(a, b)' <=> IsPred(a, b)) /\ (Above(a, b)' <=> Above(a, b))
  BY DEF IsDom, IsPred, Above, Succs
<1>5. \A b : Common(b)' = Common(b)
  BY <1>2, <1>3, <1>4 DEF Common
<1>6. Table' = Table
  BY <1>1 DEF Table
<1> QED BY <1>1, <1>2, <1>3, <1>4, <1>5, <1>6

\* The block at hand is the next to be processed.
LEMMA ProcessedNext ==
  ASSUME TypeOK, NumbersByPlace, Numbered, pc # "post_order", i <= Len(post_order)
  PROVE  /\ \A b \in Block : bb2int[b] + (i + 1) > Len(post_order) <=> Processed(b) \/ b = Cur
         /\ Cur \in Block /\ bb2int[Cur] + i = Len(post_order) /\ ~Processed(Cur)
<1>1. bb2int \in [Block -> Nat] /\ i \in Nat /\ Len(post_order) \in Nat
  BY DEF TypeOK
<1>2. Cur \in Block /\ bb2int[Cur] + i = Len(post_order)
  BY CurFacts
<1>3. \A b \in Block : bb2int[b] + i = Len(post_order) <=> b = Cur
  BY OnlyCur
<1> QED BY <1>1, <1>2, <1>3 DEF Processed

\* A chain that starts from a known block reaches the root: of the chains that
\* do not, a smallest one would have a smaller one above its first block.
LEMMA UpToRoot ==
  ASSUME NEW d, NEW n, Climbs(d, n), NEW b \in Block, d[b] # Null
  PROVE  Root \in Up(d, b)
<1> DEFINE Bad == {X \in SUBSET Block : \E c \in Block : X = Up(d, c) /\ d[c] # Null /\ Root \notin X}
           R   == StrictSubsetOrdering(Block)
<1> SUFFICES ASSUME Root \notin Up(d, b) PROVE FALSE
  OBVIOUS
<1>1. Bad # {} /\ Bad \subseteq SUBSET Block
  BY UpClosed
<1>2. PICK X \in Bad : \A Y \in Bad : <<Y, X>> \notin R
  <2>1. IsWellFoundedOn(R, FiniteSubsetsOf(Block)) /\ FiniteSubsetsOf(Block) = SUBSET Block
    BY BlocksFinite, FS_StrictSubsetOrderingWellFounded, FS_FiniteSubsetsOfFinite
  <2> HIDE DEF R, Bad
  <2> QED BY <1>1, <2>1, WFMin
<1>3. PICK c \in Block : X = Up(d, c) /\ d[c] # Null /\ Root \notin X
  BY <1>2
<1>4. c # Root /\ d[c] \in Block
  BY <1>3, UpClosed DEF Climbs
<1> DEFINE Y == Up(d, d[c])
<1>5. n[d[c]] > n[c] /\ d[d[c]] # Null /\ n \in [Block -> Nat]
  BY <1>3, <1>4 DEF Climbs
<1>6. X = {c} \cup Y /\ Y \subseteq Block
  BY <1>3, <1>4, UpFirst, UpClosed
<1>7. c \notin Y
  <2> SUFFICES ASSUME c \in Y PROVE FALSE
    OBVIOUS
  <2>1. c = d[c] \/ n[c] > n[d[c]]
    BY <1>4, UpHigher
  <2> QED BY <2>1, <1>4, <1>5
<1> HIDE DEF Y
<1>8. <<Y, X>> \in R
  BY <1>6, <1>7 DEF StrictSubsetOrdering
<1>9. Y \in Bad
  BY <1>3, <1>4, <1>5, <1>6 DEF Y
<1> QED BY <1>2, <1>8, <1>9

\* All dominators of a known block are on its chain: one that is not would be
\* missing from the chains of all the blocks above, up to the root.
LEMMA OnChain ==
  ASSUME Climbs(Table, bb2int), NoneSkipped
  PROVE  \A b \in Block : Known(b) => \A a \in Block : IsDom(a, b) => a \in Chain(b)
<1> SUFFICES ASSUME NEW b \in Block, Known(b), NEW a \in Block, IsDom(a, b), a \notin Chain(b) PROVE FALSE
  OBVIOUS
<1> DEFINE X == {x \in Block : Known(x) /\ IsDom(a, x) /\ a \notin Chain(x)}
<1>1. \A x \in Block : Table[x] = Dom(x) /\ Chain(x) = Up(Table, x)
  BY ChainIsUp
<1>2. Root \notin X
  BY RootIsBlock, BlocksFinite, DomRoot, ChainFacts DEF IsDom
<1>3. \A x \in X : Table[x] \in Block => Table[x] \in X
  <2> SUFFICES ASSUME NEW x \in X PROVE Dom(x) \in X
    BY <1>1
  <2>1. x # Root /\ x # a
    BY <1>2, ChainFacts
  <2>2. IsDom(a, Dom(x))
    BY <2>1 DEF NoneSkipped
  <2>3. Dom(x) \in Block /\ Known(Dom(x)) /\ Chain(x) = {x} \cup Chain(Dom(x))
    BY ChainFacts
  <2> QED BY <2>2, <2>3
<1>4. Up(Table, b) \subseteq X
  <2>1. b \in X
    OBVIOUS
  <2> HIDE DEF X
  <2> QED BY <1>3, <2>1, UpLeast
<1>5. Root \in Up(Table, b)
  BY <1>1, UpToRoot DEF Known
<1> QED BY <1>2, <1>4, <1>5

\* A dominator of a known block has no lower number.
LEMMA DominatorsHigher ==
  ASSUME Climbs(Table, bb2int), NoneSkipped, NEW b \in Block, Known(b), NEW a \in Block, IsDom(a, b)
  PROVE  a = b \/ bb2int[a] > bb2int[b]
BY OnChain, ChainFacts

-----------------------------------------------------------------------------
(* The steps of the fixpoint.                                              *)

\* What no step after the numbering touches.
LEMMA NumbersStay ==
  ASSUME Inv, pc # "post_order", pc' # "post_order",
         graph' = graph, calls' = calls, visited' = visited, post_order' = post_order, bb2int' = bb2int
  PROVE  /\ graph' \in Graphs /\ NumbersByPlace' /\ Numbering' /\ Numbered'
         /\ calls' \in Seq([bb : Block, child : Nat \ {0}]) /\ visited' \subseteq Block
         /\ post_order' \in Seq(Block) /\ bb2int' \in [Block -> Nat]
BY DEF Inv, TypeOK, NumbersByPlace, Numbering, Numbered, Above

\* While the table stays, so do the parts of Iteration about it alone.
LEMMA TableStays ==
  ASSUME doms' = doms, bb2int' = bb2int, graph' = graph, Climbs(Table, bb2int), NoneSkipped, HoldsCommon
  PROVE  Climbs(Table, bb2int)' /\ NoneSkipped' /\ HoldsCommon'
<1>1. Climbs(Table, bb2int)'
  BY SameTable
<1>2. NoneSkipped'
  BY SameTable DEF NoneSkipped
<1>3. HoldsCommon'
  BY SameTable DEF HoldsCommon
<1> QED BY <1>1, <1>2, <1>3

\* And the position in the pass, so does all of it.
LEMMA IterationStays ==
  ASSUME Iteration, pc \in {"pass", "preds", "intersect"},
         doms' = doms, bb2int' = bb2int, graph' = graph, post_order' = post_order,
         i' = i, changed' = changed, idom' = idom, dom_frontier' = dom_frontier
  PROVE  Iteration'
<1>1. /\ Climbs(Table, bb2int) /\ Filling /\ NoneSkipped /\ HoldsCommon /\ FollowsAbove /\ SolvedSoFar
      /\ \A b \in Block : idom[b] = Null /\ dom_frontier[b] = {}
  BY DEF Iteration
<1>2. Climbs(Table, bb2int)' /\ NoneSkipped' /\ HoldsCommon'
  BY <1>1, TableStays
<1>3. \A b : Processed(b)' <=> Processed(b)
  BY DEF Processed
<1>4. Filling'
  BY <1>1, <1>3, SameTable DEF Filling
<1>5. FollowsAbove'
  BY <1>1, <1>3, SameTable DEF FollowsAbove
<1>6. SolvedSoFar'
  BY <1>1, <1>3, SameTable DEF SolvedSoFar
<1> QED BY <1>1, <1>2, <1>4, <1>5, <1>6 DEF Iteration

\* Going past the root, which is not processed like the others.
LEMMA SkipRootInv == ASSUME Inv, SkipRoot PROVE Inv'
<1>1. /\ pc = "pass" /\ pc' = "pass" /\ i <= Len(reverse_post_order) /\ Cur = Root /\ i' = i + 1
      /\ graph' = graph /\ calls' = calls /\ visited' = visited /\ post_order' = post_order /\ bb2int' = bb2int
      /\ doms' = doms /\ changed' = changed /\ j' = j /\ new_idom' = new_idom
      /\ finger1' = finger1 /\ finger2' = finger2 /\ runner' = runner /\ idom' = idom /\ dom_frontier' = dom_frontier
  BY DEF SkipRoot, numbering, fingers, result, Cur
<1>2. TypeOK /\ NumbersByPlace /\ Numbered /\ graph \in Graphs
  BY DEF Inv
<1>3. i <= Len(post_order) /\ i \in Nat /\ Len(post_order) \in Nat /\ bb2int \in [Block -> Nat]
  <2>1. Len(reverse_post_order) = Len(post_order)
    BY <1>2 DEF TypeOK, reverse_post_order, Reverse
  <2> QED BY <1>1, <1>2, <2>1 DEF TypeOK
<1>4. \A b \in Block : Processed(b)' <=> Processed(b) \/ b = Root
  BY <1>1, <1>2, <1>3, ProcessedNext DEF Processed
<1>5. TypeOK'
  BY <1>1, <1>2 DEF TypeOK
<1>6. graph' \in Graphs /\ NumbersByPlace' /\ Numbering' /\ Numbered'
  BY <1>1, NumbersStay
<1>7. /\ Climbs(Table, bb2int) /\ Filling /\ NoneSkipped /\ HoldsCommon /\ FollowsAbove /\ SolvedSoFar
      /\ \A b \in Block : idom[b] = Null /\ dom_frontier[b] = {}
  BY <1>1 DEF Inv, Iteration
<1>8. Climbs(Table, bb2int)' /\ NoneSkipped' /\ HoldsCommon'
  BY <1>1, <1>7, TableStays
<1>9. Filling'
  BY <1>1, <1>4, <1>7, SameTable DEF Filling
<1>10. FollowsAbove'
  <2>1. \A y \in Block : bb2int[y] + i' <= Len(post_order) => bb2int[y] + i <= Len(post_order)
    BY <1>1, <1>3
  <2>2. \A b \in Block : Chain(b) \subseteq Block
    BY <1>7, ChainFacts
  <2>3. \A b \in Block : Known(b) => Dom(b) \in Block
    BY <1>7, ChainFacts
  <2> SUFFICES ASSUME NEW b \in Block \ {Root}, Known(b), NEW q \in Block, Above(q, b)
               PROVE  IF Processed(b)' THEN Dom(b) \in Chain(q)
                      ELSE \A y \in Chain(Dom(b)) : bb2int[y] + i' <= Len(post_order) => y \in Chain(q)
    BY <1>1, SameTable DEF FollowsAbove
  <2>4. Processed(b)' <=> Processed(b)
    BY <1>4
  <2> QED BY <1>7, <2>1, <2>2, <2>3, <2>4 DEF FollowsAbove
<1>11. SolvedSoFar'
  BY <1>1, <1>4, <1>7, SameTable DEF SolvedSoFar
<1>12. Iteration'
  BY <1>1, <1>7, <1>8, <1>9, <1>10, <1>11 DEF Iteration
<1>13. Meeting' /\ Frontiers'
  BY <1>1 DEF Meeting, Frontiers
<1> QED BY <1>1, <1>5, <1>6, <1>12, <1>13 DEF Inv

\* The actions between two assignments to doms leave all tables alone.
Idle ==
  UNCHANGED <<graph, calls, visited, post_order, bb2int, doms, changed, i, runner, idom, dom_frontier>>

\* What such an action leaves of the invariant to prove.
LEMMA IdleInv ==
  ASSUME Inv, Idle, pc \in {"pass", "preds", "intersect"}, pc' \in {"preds", "intersect"},
         j' \in Nat \ {0}, {new_idom', finger1', finger2'} \subseteq Block \cup {Null}, Meeting'
  PROVE  Inv'
<1>1. /\ graph' = graph /\ calls' = calls /\ visited' = visited /\ post_order' = post_order /\ bb2int' = bb2int
      /\ doms' = doms /\ changed' = changed /\ i' = i /\ runner' = runner /\ idom' = idom /\ dom_frontier' = dom_frontier
  BY DEF Idle
<1>2. TypeOK'
  BY <1>1 DEF Inv, TypeOK
<1>3. graph' \in Graphs /\ NumbersByPlace' /\ Numbering' /\ Numbered'
  BY <1>1, NumbersStay
<1>4. Iteration'
  BY <1>1, IterationStays DEF Inv
<1>5. Frontiers'
  BY <1>1 DEF Frontiers
<1> QED BY <1>2, <1>3, <1>4, <1>5 DEF Inv

\* What is known while a pass runs.
LEMMA PassFacts ==
  ASSUME Inv, pc \in {"pass", "preds", "intersect"}
  PROVE  /\ TypeOK /\ NumbersByPlace /\ Numbered /\ graph \in Graphs
         /\ Climbs(Table, bb2int) /\ Filling /\ NoneSkipped /\ HoldsCommon /\ FollowsAbove /\ SolvedSoFar
         /\ \A b \in Block : idom[b] = Null /\ dom_frontier[b] = {}
         /\ bb2int \in [Block -> Nat] /\ i \in Nat \ {0} /\ Len(post_order) \in Nat
         /\ Len(reverse_post_order) = Len(post_order)
BY DEF Inv, Iteration, TypeOK, reverse_post_order, Reverse

\* A predecessor of the block at hand that is known is a candidate.
LEMMA PredCandidate ==
  ASSUME Inv, pc \in {"pass", "preds", "intersect"}, i <= Len(post_order), NEW p \in Block, IsPred(p, Cur), Known(p)
  PROVE  Candidate(p)
<1>1. Cur \in Block
  BY PassFacts, CurFacts
<1>2. Common(Cur) \subseteq Chain(p)
  BY DEF Common
<1>3. \A a \in Block \ {Cur} : IsDom(a, Cur) => IsDom(a, p)
  <2> SUFFICES ASSUME NEW a \in Block \ {Cur}, IsDom(a, Cur) PROVE IsDom(a, p)
    OBVIOUS
  <2>1. Cur \in Succs[p]
    BY <1>1, PassFacts, GraphFacts DEF Succs
  <2> QED BY <1>1, <2>1, BlocksFinite, DomPred DEF IsDom
<1> QED BY <1>2, <1>3 DEF Candidate

\* The block at hand has a known predecessor above it.
LEMMA KnownAbove ==
  ASSUME Inv, pc \in {"pass", "preds", "intersect"}, i <= Len(post_order), Cur # Root
  PROVE  \E p \in Block : Above(p, Cur) /\ IsPred(p, Cur) /\ Known(p)
<1>1. Cur \in Block /\ bb2int[Cur] + i = Len(post_order)
  BY PassFacts, CurFacts
<1>2. PICK p \in Block : Above(p, Cur)
  BY <1>1, PassFacts DEF Numbered
<1>3. IsPred(p, Cur)
  BY <1>1, <1>2, PassFacts, GraphFacts DEF Above
<1>4. Processed(p)
  BY <1>1, <1>2, PassFacts DEF Above, Processed
<1>5. Known(p)
  BY <1>4, PassFacts DEF Filling
<1> QED BY <1>2, <1>3, <1>5

LEMMA PickIdomInv == ASSUME Inv, PickIdom PROVE Inv'
<1> DEFINE preds == graph.pre[Cur]
           known == {k \in DOMAIN preds : Dom(preds[k]) # Null}
<1>1. /\ pc = "pass" /\ pc' = "preds" /\ i <= Len(reverse_post_order) /\ Cur # Root /\ j' = 1
      /\ new_idom' = IF known = {} THEN Null ELSE preds[Min(known)]
      /\ Idle /\ finger1' = finger1 /\ finger2' = finger2
  BY DEF PickIdom, Idle, numbering, fingers, result, Cur
<1>2. i <= Len(post_order) /\ Cur \in Block
  BY <1>1, PassFacts, CurFacts
<1>3. DOMAIN preds = 1..Len(preds) /\ \A k \in DOMAIN preds : preds[k] \in Block /\ IsPred(preds[k], Cur)
  BY <1>1, <1>2, PassFacts, GraphFacts
<1>4. known # {} /\ known \in SUBSET Nat
  <2>1. PICK p \in Block : IsPred(p, Cur) /\ Known(p)
    BY <1>1, <1>2, KnownAbove
  <2>2. PICK k \in DOMAIN preds : preds[k] = p
    BY <2>1 DEF IsPred, ToSet
  <2> QED BY <2>1, <2>2, <1>3 DEF Known
<1>5. PICK p \in Block : new_idom' = p /\ IsPred(p, Cur) /\ Known(p)
  <2>1. Min(known) \in known
    BY <1>4, MinMember
  <2> QED BY <2>1, <1>1, <1>3, <1>4 DEF Known
<1>6. Candidate(p)
  BY <1>1, <1>2, <1>5, PredCandidate
<1>7. Cur' = Cur
  BY <1>1 DEF Idle, Cur, reverse_post_order
<1>8. Candidate(p)'
  BY <1>1, <1>6, <1>7, SameTable DEF Idle, Candidate
<1>9. Meeting'
  <2>1. \A k \in DOMAIN graph'.pre[Cur'] : ~(k < j')
    BY <1>1, <1>3, <1>7 DEF Idle
  <2>2. Candidate(new_idom)'
    BY <1>5, <1>8 DEF Candidate
  <2>3. i' <= Len(post_order') /\ Cur' # Root
    BY <1>1, <1>2, <1>7 DEF Idle
  <2> QED BY <2>1, <2>2, <2>3, <1>1 DEF Meeting
<1>10. j' \in Nat \ {0} /\ {new_idom', finger1', finger2'} \subseteq Block \cup {Null}
  BY <1>1, <1>5 DEF Inv, TypeOK
<1> HIDE DEF known, preds
<1> QED BY <1>1, <1>9, <1>10, IdleInv

\* Where the pass stands while it looks at the predecessors of a block.
LEMMA MeetingFacts ==
  ASSUME Inv, pc \in {"preds", "intersect"}
  PROVE  /\ i <= Len(post_order) /\ Cur \in Block /\ Cur # Root /\ bb2int[Cur] + i = Len(post_order)
         /\ Candidate(new_idom)
         /\ DOMAIN graph.pre[Cur] = 1..Len(graph.pre[Cur]) /\ Len(graph.pre[Cur]) \in Nat
         /\ \A k \in DOMAIN graph.pre[Cur] : graph.pre[Cur][k] \in Block /\ IsPred(graph.pre[Cur][k], Cur)
         /\ \A k \in DOMAIN graph.pre[Cur] : k < j /\ Known(graph.pre[Cur][k]) => new_idom \in Chain(graph.pre[Cur][k])
         /\ j \in Nat \ {0}
<1>1. /\ i <= Len(post_order) /\ Cur # Root /\ Candidate(new_idom)
      /\ \A k \in DOMAIN graph.pre[Cur] : k < j /\ Known(graph.pre[Cur][k]) => new_idom \in Chain(graph.pre[Cur][k])
  BY DEF Inv, Meeting
<1>2. Cur \in Block /\ bb2int[Cur] + i = Len(post_order)
  BY <1>1, PassFacts, CurFacts
<1>3. graph.pre[Cur] \in Seq(Block)
  BY <1>2, PassFacts, GraphFacts
<1>4. \A k \in DOMAIN graph.pre[Cur] : graph.pre[Cur][k] \in Block /\ IsPred(graph.pre[Cur][k], Cur)
  BY <1>2, PassFacts, GraphFacts
<1>5. DOMAIN graph.pre[Cur] = 1..Len(graph.pre[Cur]) /\ Len(graph.pre[Cur]) \in Nat
  BY <1>3, LenProperties
<1>6. j \in Nat \ {0}
  BY DEF Inv, TypeOK
<1> QED BY <1>1, <1>2, <1>4, <1>5, <1>6

\* An idle step keeps the block at hand, the candidates and the chains.
LEMMA IdleFacts ==
  ASSUME Idle
  PROVE  /\ Cur' = Cur /\ graph' = graph /\ i' = i /\ post_order' = post_order
         /\ \A x : Candidate(x)' <=> Candidate(x)
         /\ \A x : (Known(x)' <=> Known(x)) /\ Chain(x)' = Chain(x)
<1>1. /\ graph' = graph /\ i' = i /\ post_order' = post_order /\ doms' = doms /\ bb2int' = bb2int
  BY DEF Idle
<1>2. Cur' = Cur
  BY <1>1 DEF Cur, reverse_post_order
<1>3. \A x : Candidate(x)' <=> Candidate(x)
  BY <1>1, <1>2, SameTable DEF Candidate
<1>4. \A x : (Known(x)' <=> Known(x)) /\ Chain(x)' = Chain(x)
  BY <1>1, SameTable
<1> QED BY <1>1, <1>2, <1>3, <1>4

LEMMA MeetPredInv == ASSUME Inv, MeetPred PROVE Inv'
<1> DEFINE preds == graph.pre[Cur]
<1>1. /\ pc = "preds" /\ j <= Len(preds) /\ Idle /\ new_idom' = new_idom
      /\ IF Dom(preds[j]) = Null
         THEN j' = j + 1 /\ pc' = pc /\ finger1' = finger1 /\ finger2' = finger2
         ELSE finger1' = preds[j] /\ finger2' = new_idom /\ pc' = "intersect" /\ j' = j
  BY DEF MeetPred, Idle, numbering, fingers, result, Cur
<1>2. /\ i <= Len(post_order) /\ Cur \in Block /\ Cur # Root /\ Candidate(new_idom)
      /\ DOMAIN preds = 1..Len(preds) /\ Len(preds) \in Nat /\ j \in Nat \ {0}
      /\ \A k \in DOMAIN preds : preds[k] \in Block /\ IsPred(preds[k], Cur)
      /\ \A k \in DOMAIN preds : k < j /\ Known(preds[k]) => new_idom \in Chain(preds[k])
  BY <1>1, MeetingFacts
<1>3. Cur' = Cur /\ graph' = graph /\ i' = i /\ post_order' = post_order
  BY <1>1, IdleFacts
<1>4. /\ \A x : Candidate(x)' <=> Candidate(x)
      /\ \A x : (Known(x)' <=> Known(x)) /\ Chain(x)' = Chain(x)
  BY <1>1, IdleFacts
<1>5. j \in DOMAIN preds
  BY <1>1, <1>2
<1>6. Candidate(new_idom)'
  BY <1>1, <1>2, <1>4 DEF Candidate
<1>7. {new_idom', finger1', finger2'} \subseteq Block \cup {Null} /\ j' \in Nat \ {0} /\ pc' \in {"preds", "intersect"}
  <2>1. {new_idom, finger1, finger2} \subseteq Block \cup {Null}
    BY DEF Inv, TypeOK
  <2>2. preds[j] \in Block
    BY <1>2, <1>5
  <2>3. {new_idom', finger1', finger2'} \subseteq Block \cup {Null} /\ pc' \in {"preds", "intersect"}
    BY <1>1, <2>1, <2>2
  <2>4. j' \in Nat \ {0}
    BY <1>1, <1>2
  <2> QED
    BY <2>3, <2>4
<1>8. CASE ~Known(preds[j])
  <2>1. pc' = "preds" /\ j' = j + 1
    BY <1>1, <1>8 DEF Known
  <2>2. \A k \in DOMAIN preds : k < j' /\ Known(preds[k]) => new_idom \in Chain(preds[k])
    BY <2>1, <1>2, <1>8
  <2>3. Meeting'
    BY <2>1, <2>2, <1>1, <1>2, <1>3, <1>4, <1>6 DEF Meeting
  <2> QED BY <2>3, <1>1, <1>7, IdleInv
<1>9. CASE Known(preds[j])
  <2>1. pc' = "intersect" /\ j' = j /\ finger1' = preds[j] /\ finger2' = new_idom
    BY <1>1, <1>9 DEF Known
  <2>2. PICK p \in Block : p = preds[j] /\ IsPred(p, Cur) /\ Known(p)
    BY <1>2, <1>5, <1>9
  <2>3. Candidate(p)
    BY <2>2, <1>1, <1>2, PredCandidate
  <2>4. p \in Chain(p) /\ new_idom \in Chain(new_idom)
    BY <1>1, <1>2, PassFacts, ChainFacts DEF Candidate
  <2>5. Candidate(finger1)' /\ Candidate(finger2)'
    BY <2>1, <2>2, <2>3, <1>2, <1>4 DEF Candidate
  <2>6. Meeting'
    BY <2>1, <2>2, <2>4, <2>5, <1>1, <1>2, <1>3, <1>4, <1>5, <1>6, <1>9 DEF Meeting
  <2> QED BY <2>6, <1>1, <1>7, IdleInv
<1> QED BY <1>8, <1>9

\* Of two candidates the lower one can climb: what the two chains share is
\* above it.
LEMMA ClimbCandidate ==
  ASSUME Inv, pc = "intersect", NEW x, NEW y, Candidate(x), Candidate(y), bb2int[x] < bb2int[y]
  PROVE  /\ x \in Block \ {Root} /\ Candidate(Dom(x))
         /\ \A b \in Block : x \in Chain(b) => Dom(x) \in Chain(b)
<1>1. /\ x \in Block /\ y \in Block /\ Known(x) /\ Known(y)
      /\ Common(Cur) \subseteq Chain(x) /\ Common(Cur) \subseteq Chain(y)
      /\ \A a \in Block \ {Cur} : IsDom(a, Cur) => IsDom(a, x) /\ IsDom(a, y)
  BY DEF Candidate
<1>2. /\ Climbs(Table, bb2int) /\ NoneSkipped /\ bb2int \in [Block -> Nat] /\ TypeOK /\ Numbered
      /\ \A b \in Block : bb2int[b] <= bb2int[Root]
  <2>1. Climbs(Table, bb2int) /\ NoneSkipped /\ bb2int \in [Block -> Nat] /\ TypeOK /\ Numbered
    BY PassFacts
  <2>2. \A b \in Block : bb2int[b] <= bb2int[Root]
    BY <2>1, NumbersDiffer DEF Numbered
  <2> QED BY <2>1, <2>2
<1>3. x # Root
  BY <1>1, <1>2, RootIsBlock
<1>4. Dom(x) \in Block /\ Known(Dom(x)) /\ Chain(x) = {x} \cup Chain(Dom(x)) /\ Dom(x) \in Chain(Dom(x))
  BY <1>1, <1>2, ChainFacts
<1>5. x \notin Chain(y)
  BY <1>1, <1>2, ChainFacts
<1>6. Common(Cur) \subseteq Chain(Dom(x))
  BY <1>1, <1>4, <1>5
<1>7. \A a \in Block \ {Cur} : IsDom(a, Cur) => IsDom(a, Dom(x))
  <2> SUFFICES ASSUME NEW a \in Block \ {Cur}, IsDom(a, Cur) PROVE IsDom(a, Dom(x))
    OBVIOUS
  <2>1. IsDom(a, x) /\ a # x
    BY <1>1, <1>2, DominatorsHigher
  <2> QED BY <2>1, <1>1, <1>2, <1>3 DEF NoneSkipped
<1>8. \A b \in Block : x \in Chain(b) => Dom(x) \in Chain(b)
  BY <1>2, <1>4, ChainFacts
<1> QED BY <1>1, <1>3, <1>4, <1>6, <1>7, <1>8 DEF Candidate

\* Where the pass stands in intersect.
LEMMA FingerFacts ==
  ASSUME Inv, pc = "intersect"
  PROVE  /\ j \in DOMAIN graph.pre[Cur] /\ Known(graph.pre[Cur][j]) /\ graph.pre[Cur][j] \in Block
         /\ Candidate(finger1) /\ finger1 \in Chain(graph.pre[Cur][j])
         /\ Candidate(finger2) /\ finger2 \in Chain(new_idom)
         /\ Num(finger1) = bb2int[finger1] /\ Num(finger2) = bb2int[finger2]
         /\ finger1 \in Block /\ finger2 \in Block /\ new_idom \in Block
BY MeetingFacts, RootIsBlock DEF Inv, Meeting, Candidate, Num

LEMMA ClimbInv == ASSUME Inv, Climb1 \/ Climb2 PROVE Inv'
<1> DEFINE preds == graph.pre[Cur]
<1>1. /\ pc = "intersect" /\ pc' = pc /\ Idle /\ j' = j /\ new_idom' = new_idom
      /\ \/ Num(finger1) < Num(finger2) /\ finger1' = Dom(finger1) /\ finger2' = finger2
         \/ Num(finger2) < Num(finger1) /\ finger2' = Dom(finger2) /\ finger1' = finger1
  BY DEF Climb1, Climb2, Idle, numbering, fingers, result
<1>2. /\ j \in DOMAIN preds /\ Known(preds[j]) /\ preds[j] \in Block /\ new_idom \in Block
      /\ Candidate(finger1) /\ finger1 \in Chain(preds[j])
      /\ Candidate(finger2) /\ finger2 \in Chain(new_idom)
      /\ Num(finger1) = bb2int[finger1] /\ Num(finger2) = bb2int[finger2]
  BY <1>1, FingerFacts
<1>3. /\ i <= Len(post_order) /\ Cur # Root /\ Candidate(new_idom)
      /\ \A k \in DOMAIN preds : k < j /\ Known(preds[k]) => new_idom \in Chain(preds[k])
  BY <1>1, MeetingFacts
<1>4. Cur' = Cur /\ graph' = graph /\ i' = i /\ post_order' = post_order
  BY <1>1, IdleFacts
<1>5. /\ \A x : Candidate(x)' <=> Candidate(x)
      /\ \A x : (Known(x)' <=> Known(x)) /\ Chain(x)' = Chain(x)
  BY <1>1, IdleFacts
<1>6. PICK x, y : /\ x = finger1' /\ y = finger2'
                  /\ Candidate(x) /\ x \in Chain(preds[j])
                  /\ Candidate(y) /\ y \in Chain(new_idom)
  <2>1. CASE Num(finger1) < Num(finger2) /\ finger1' = Dom(finger1) /\ finger2' = finger2
    BY <2>1, <1>1, <1>2, ClimbCandidate
  <2>2. CASE Num(finger2) < Num(finger1) /\ finger2' = Dom(finger2) /\ finger1' = finger1
    BY <2>2, <1>1, <1>2, ClimbCandidate
  <2> QED BY <2>1, <2>2, <1>1
<1>7. Candidate(new_idom)' /\ Candidate(finger1)' /\ Candidate(finger2)'
  BY <1>1, <1>3, <1>5, <1>6 DEF Candidate
<1>8. Meeting'
  BY <1>1, <1>2, <1>3, <1>4, <1>5, <1>6, <1>7 DEF Meeting
<1>9. {new_idom', finger1', finger2'} \subseteq Block \cup {Null} /\ j' \in Nat \ {0}
  BY <1>1, <1>6 DEF Inv, TypeOK, Candidate
<1> QED BY <1>1, <1>8, <1>9, IdleInv

LEMMA MetInv == ASSUME Inv, Met PROVE Inv'
<1> DEFINE preds == graph.pre[Cur]
<1>1. /\ pc = "intersect" /\ pc' = "preds" /\ Idle /\ j' = j + 1 /\ finger1 = finger2 /\ new_idom' = finger1
      /\ finger1' = finger1 /\ finger2' = finger2
  BY DEF Met, Idle, numbering, fingers, result
<1>2. /\ j \in DOMAIN preds /\ Known(preds[j]) /\ preds[j] \in Block /\ new_idom \in Block
      /\ Candidate(finger1) /\ finger1 \in Chain(preds[j]) /\ finger2 \in Chain(new_idom)
  BY <1>1, FingerFacts
<1>3. /\ i <= Len(post_order) /\ Cur # Root /\ DOMAIN preds = 1..Len(preds) /\ j \in Nat \ {0}
      /\ \A k \in DOMAIN preds : preds[k] \in Block
      /\ \A k \in DOMAIN preds : k < j /\ Known(preds[k]) => new_idom \in Chain(preds[k])
  BY <1>1, MeetingFacts
<1>4. Cur' = Cur /\ graph' = graph /\ i' = i /\ post_order' = post_order
  BY <1>1, IdleFacts
<1>5. /\ \A x : Candidate(x)' <=> Candidate(x)
      /\ \A x : (Known(x)' <=> Known(x)) /\ Chain(x)' = Chain(x)
  BY <1>1, IdleFacts
<1>6. \A k \in DOMAIN preds : k < j' /\ Known(preds[k]) => finger1 \in Chain(preds[k])
  <2> SUFFICES ASSUME NEW k \in DOMAIN preds, k < j + 1, Known(preds[k]) PROVE finger1 \in Chain(preds[k])
    BY <1>1
  <2>1. CASE k = j
    BY <2>1, <1>2
  <2>2. CASE k # j
    <3>1. k < j
      BY <2>2, <1>3
    <3>2. new_idom \in Chain(preds[k])
      BY <3>1, <1>3
    <3>3. Chain(new_idom) \subseteq Chain(preds[k])
      BY <3>2, <1>1, <1>3, PassFacts, ChainFacts
    <3> QED BY <3>3, <1>1, <1>2
  <2> QED BY <2>1, <2>2
<1>7. Candidate(new_idom)'
  BY <1>1, <1>2, <1>5 DEF Candidate
<1>8. Meeting'
  BY <1>1, <1>3, <1>4, <1>5, <1>6, <1>7 DEF Meeting
<1>9. {new_idom', finger1', finger2'} \subseteq Block \cup {Null} /\ j' \in Nat \ {0}
  BY <1>1, <1>3 DEF Inv, TypeOK
<1> QED BY <1>1, <1>8, <1>9, IdleInv

\* One entry of a climbing table rises, or becomes known: no chain of a known
\* block gets longer, and up to that entry all chains stay.
LEMMA Reassign ==
  ASSUME NEW d, NEW n, Climbs(d, n), NEW c \in Block \ {Root}, NEW v \in Block, d[v] # Null, n[v] > n[c],
         d[c] # Null => v \in Up(d, d[c])
  PROVE  LET e == [d EXCEPT ![c] = v]
         IN  /\ Climbs(e, n)
             /\ \A b \in Block : \A y \in Up(d, b) : c \notin Up(d, b) \/ n[y] <= n[c] => y \in Up(e, b)
             /\ \A b \in Block : \A y \in Up(e, b) : n[y] <= n[c] => y \in Up(d, b)
             /\ \A b \in Block : d[b] # Null => Up(e, b) \subseteq Up(d, b)
             /\ \A b \in Block : n[b] > n[c] => c \notin Up(d, b)
             /\ \A b \in Block : d[b] # Null /\ d[c] = Null => c \notin Up(d, b)
<1> DEFINE e == [d EXCEPT ![c] = v]
<1>1. /\ d \in [Block -> Block \cup {Null}] /\ n \in [Block -> Nat] /\ d[Root] = Root
      /\ \A b \in Block \ {Root} : d[b] # Null => n[d[b]] > n[b] /\ d[d[b]] # Null
  BY DEF Climbs
<1>2. e[c] = v /\ \A x \in Block \ {c} : e[x] = d[x]
  BY <1>1
<1> HIDE DEF e
<1>3. Climbs(e, n)
  <2>1. e \in [Block -> Block \cup {Null}] /\ e[Root] = Root
    BY <1>1, <1>2, RootIsBlock DEF e
  <2>2. \A b \in Block : d[b] # Null => e[b] # Null
    BY <1>2, RootIsBlock
  <2>3. ASSUME NEW b \in Block \ {Root}, e[b] # Null PROVE n[e[b]] > n[b] /\ e[e[b]] # Null
    <3>1. CASE b = c
      BY <3>1, <2>2, <1>2
    <3>2. CASE b # c
      <4>1. d[b] # Null /\ e[b] = d[b]
        BY <3>2, <2>3, <1>2
      <4>2. d[b] \in Block
        BY <4>1, <1>1
      <4> QED BY <4>1, <4>2, <2>2, <1>1
    <3> QED BY <3>1, <3>2
  <2> QED BY <2>1, <2>3, <1>1 DEF Climbs
<1>4. ASSUME NEW b \in Block, NEW y \in Up(d, b), c \notin Up(d, b) \/ n[y] <= n[c] PROVE y \in Up(e, b)
  BY <1>2, <1>4, UpToChange
<1>5. ASSUME NEW b \in Block, NEW y \in Up(e, b), n[y] <= n[c] PROVE y \in Up(d, b)
  <2>1. \A x \in Block \ {c} : d[x] = e[x]
    BY <1>2
  <2> QED BY <2>1, <1>3, <1>5, UpToChange
<1>6. ASSUME NEW b \in Block, n[b] > n[c] PROVE c \notin Up(d, b)
  BY <1>1, <1>6, UpHigher
<1>7. ASSUME NEW b \in Block, d[b] # Null, d[c] = Null PROVE c \notin Up(d, b)
  BY <1>7, UpKnown
<1>8. ASSUME NEW b \in Block, d[b] # Null PROVE Up(e, b) \subseteq Up(d, b)
  <2>1. CASE d[c] # Null
    <3>1. d[c] \in Block
      BY <2>1, <1>1
    <3>2. e[c] \in Up(d, c)
      BY <2>1, <3>1, <1>2, UpFirst
    <3> QED BY <3>2, <1>2, UpShrinks
  <2>2. CASE d[c] = Null
    <3>1. c \notin Up(d, b)
      BY <2>2, <1>7, <1>8
    <3>2. c \notin Up(e, b)
      <4>1. n[c] <= n[c]
        BY <1>1
      <4> QED BY <4>1, <3>1, <1>5
    <3> SUFFICES ASSUME NEW y \in Up(e, b) PROVE y \in Up(d, b)
      OBVIOUS
    <3>3. \A x \in Block \ {c} : d[x] = e[x]
      BY <1>2
    <3> QED BY <3>2, <3>3, <1>3, UpToChange
  <2> QED BY <2>1, <2>2
<1> QED BY <1>3, <1>4, <1>5, <1>6, <1>7, <1>8 DEF e

\* What the pass has found of a block when it has met all its predecessors.
LEMMA AssignFacts ==
  ASSUME Inv, pc = "preds", j > Len(graph.pre[Cur])
  PROVE  /\ new_idom \in Block /\ Known(new_idom) /\ bb2int[new_idom] > bb2int[Cur]
         /\ \A p \in Block : IsPred(p, Cur) /\ Known(p) => new_idom \in Chain(p)
         /\ \A q \in Block : Above(q, Cur) => new_idom \in Chain(q)
         /\ Common(Cur) \subseteq Chain(new_idom)
         /\ \A a \in Block \ {Cur} : IsDom(a, Cur) => IsDom(a, new_idom)
         /\ Known(Cur) => (\A b \in Block : Known(b)) /\ new_idom \in Chain(Dom(Cur))
<1>1. new_idom \in Block /\ Candidate(new_idom)
  BY MeetingFacts DEF Candidate
<1>2. ASSUME NEW p \in Block, IsPred(p, Cur), Known(p) PROVE new_idom \in Chain(p)
  <2>1. PICK k \in DOMAIN graph.pre[Cur] : graph.pre[Cur][k] = p
    BY <1>2 DEF IsPred, ToSet
  <2>2. k < j
    BY <2>1, MeetingFacts
  <2> QED BY <1>2, <2>1, <2>2, MeetingFacts
<1>3. ASSUME NEW q \in Block, Above(q, Cur) PROVE IsPred(q, Cur) /\ Known(q)
  <2>1. Processed(q)
    BY <1>3, MeetingFacts, PassFacts DEF Above, Processed
  <2>2. Known(q)
    BY <2>1, PassFacts DEF Filling
  <2> QED BY <1>3, <2>2, MeetingFacts, PassFacts, GraphFacts DEF Above
<1>4. bb2int[new_idom] > bb2int[Cur]
  <2>1. PICK q \in Block : Above(q, Cur) /\ IsPred(q, Cur) /\ Known(q)
    BY MeetingFacts, KnownAbove
  <2>2. new_idom = q \/ bb2int[new_idom] > bb2int[q]
    BY <2>1, <1>2, PassFacts, ChainFacts
  <2> QED BY <2>1, <2>2, <1>1, MeetingFacts, PassFacts DEF Above
<1>5. ASSUME Known(Cur) PROVE (\A b \in Block : Known(b)) /\ new_idom \in Chain(Dom(Cur))
  <2>1. ~Processed(Cur) /\ Cur # Root /\ Cur \in Block
    BY MeetingFacts, PassFacts DEF Processed
  <2>2. \A b \in Block : Known(b)
    BY <1>5, <2>1, PassFacts DEF Filling
  <2>3. new_idom \in Common(Cur)
    BY <1>1, <1>2 DEF Common
  <2> QED BY <1>5, <2>1, <2>2, <2>3, PassFacts DEF HoldsCommon
<1> QED BY <1>1, <1>2, <1>3, <1>4, <1>5 DEF Candidate

\* The table after the assignment.
LEMMA AssignedTable ==
  ASSUME Inv, AssignIdom, Dom(Cur) # new_idom
  PROVE  Table' = [Table EXCEPT ![Cur] = new_idom]
<1>1. /\ pc = "preds" /\ doms' = [doms EXCEPT ![Num(Cur)] = new_idom] /\ bb2int' = bb2int
  BY DEF AssignIdom, numbering, Cur
<1>2. /\ doms \in [0..bb2int[Root] -> Block \cup {Null}] /\ Cur \in Block
      /\ \A b \in Block : Num(b) = bb2int[b] /\ bb2int[b] \in 0..bb2int[Root]
      /\ \A a, b \in Block : bb2int[a] = bb2int[b] => a = b
  <2>1. TypeOK /\ Numbered
    BY <1>1, PassFacts
  <2>2. Cur \in Block
    BY <1>1, MeetingFacts
  <2> QED BY <1>1, <2>1, <2>2, TableType, NumbersDiffer DEF TypeOK, Numbered
<1>3. \A b \in Block : Num(b)' = bb2int[b]
  BY <1>1, <1>2, RootIsBlock DEF Num
<1>4. \A b \in Block : Dom(b)' = IF b = Cur THEN new_idom ELSE Dom(b)
  BY <1>1, <1>2, <1>3 DEF Dom
<1> QED BY <1>2, <1>4 DEF Table

\* The chains after the assignment.
LEMMA AssignChains ==
  ASSUME Inv, AssignIdom, Dom(Cur) # new_idom
  PROVE  \E c \in Block \ {Root} : \E v \in Block :
           /\ c = Cur /\ v = new_idom
           /\ Climbs(Table', bb2int)
           /\ \A b \in Block : \A y \in Chain(b) : c \notin Chain(b) \/ bb2int[y] <= bb2int[c] => y \in Chain(b)'
           /\ \A b \in Block : \A y \in Chain(b)' : bb2int[y] <= bb2int[c] => y \in Chain(b)
           /\ \A b \in Block : Known(b) => Chain(b)' \subseteq Chain(b)
           /\ \A b \in Block : bb2int[b] > bb2int[c] => c \notin Chain(b)
           /\ \A b \in Block : Known(b) /\ ~Known(c) => c \notin Chain(b)
           /\ \A b \in Block : Known(b)' <=> Known(b) \/ b = c
           /\ \A b \in Block \ {c} : Dom(b)' = Dom(b)
           /\ Dom(c)' = v
<1>1. pc = "preds" /\ j > Len(graph.pre[Cur])
  BY DEF AssignIdom, Cur
<1>2. PICK c \in Block \ {Root} : c = Cur
  BY <1>1, MeetingFacts
<1>3. PICK v \in Block : v = new_idom /\ Known(v) /\ bb2int[v] > bb2int[c] /\ (Known(c) => v \in Chain(Dom(c)))
  BY <1>1, <1>2, AssignFacts
<1>4. PICK d, n : d = Table /\ n = bb2int
  OBVIOUS
<1> DEFINE e == [d EXCEPT ![c] = v]
<1>5. Table' = e
  BY <1>2, <1>3, <1>4, AssignedTable
<1>6. Climbs(d, n) /\ d \in [Block -> Block \cup {Null}]
  BY <1>1, <1>4, PassFacts DEF Climbs
<1>7. \A b \in Block : Chain(b) = Up(d, b) /\ d[b] = Dom(b)
  BY <1>4, ChainIsUp
<1>8. \A b \in Block : Chain(b)' = Up(e, b) /\ e[b] = Dom(b)'
  <2> HIDE DEF e
  <2> QED BY <1>5, ChainIsUpNext
<1>9. d[v] # Null /\ n[v] > n[c]
  BY <1>3, <1>4, <1>7 DEF Known
<1>10. d[c] # Null => v \in Up(d, d[c])
  <2> SUFFICES ASSUME d[c] # Null PROVE v \in Up(d, d[c])
    OBVIOUS
  <2>1. d[c] \in Block /\ Known(c) /\ d[c] = Dom(c)
    BY <1>6, <1>7 DEF Known
  <2> QED BY <2>1, <1>3, <1>7
<1>11. /\ Climbs(e, n)
       /\ \A b \in Block : \A y \in Up(d, b) : c \notin Up(d, b) \/ n[y] <= n[c] => y \in Up(e, b)
       /\ \A b \in Block : \A y \in Up(e, b) : n[y] <= n[c] => y \in Up(d, b)
       /\ \A b \in Block : d[b] # Null => Up(e, b) \subseteq Up(d, b)
       /\ \A b \in Block : n[b] > n[c] => c \notin Up(d, b)
       /\ \A b \in Block : d[b] # Null /\ d[c] = Null => c \notin Up(d, b)
  BY <1>6, <1>9, <1>10, Reassign
<1>12. e[c] = v /\ \A b \in Block \ {c} : e[b] = d[b]
  BY <1>6
<1> HIDE DEF e
<1>13. /\ \A b \in Block : Known(b)' <=> Known(b) \/ b = c
       /\ \A b \in Block \ {c} : Dom(b)' = Dom(b)
       /\ Dom(c)' = v
  BY <1>7, <1>8, <1>12, RootIsBlock DEF Known
<1>14. Climbs(Table', bb2int)
  BY <1>4, <1>5, <1>11
<1>15. /\ \A b \in Block : \A y \in Chain(b) : c \notin Chain(b) \/ bb2int[y] <= bb2int[c] => y \in Chain(b)'
       /\ \A b \in Block : \A y \in Chain(b)' : bb2int[y] <= bb2int[c] => y \in Chain(b)
       /\ \A b \in Block : Known(b) => Chain(b)' \subseteq Chain(b)
  BY <1>4, <1>7, <1>8, <1>11 DEF Known
<1>16. /\ \A b \in Block : bb2int[b] > bb2int[c] => c \notin Chain(b)
       /\ \A b \in Block : Known(b) /\ ~Known(c) => c \notin Chain(b)
  BY <1>4, <1>7, <1>11 DEF Known
<1> QED BY <1>2, <1>3, <1>13, <1>14, <1>15, <1>16

\* An assignment that changes the table keeps what Iteration says of it.
LEMMA AssignNew ==
  ASSUME Inv, AssignIdom, Dom(Cur) # new_idom
  PROVE  Climbs(Table, bb2int)' /\ Filling' /\ NoneSkipped' /\ HoldsCommon' /\ FollowsAbove' /\ SolvedSoFar'
<1>1. /\ pc = "preds" /\ j > Len(graph.pre[Cur]) /\ changed' = TRUE /\ i' = i + 1
      /\ graph' = graph /\ bb2int' = bb2int /\ post_order' = post_order
  BY DEF AssignIdom, numbering, Cur
<1>2. PICK c \in Block \ {Root}, v \in Block :
        /\ c = Cur /\ v = new_idom
        /\ Climbs(Table', bb2int)
        /\ \A b \in Block : \A y \in Chain(b) : c \notin Chain(b) \/ bb2int[y] <= bb2int[c] => y \in Chain(b)'
        /\ \A b \in Block : \A y \in Chain(b)' : bb2int[y] <= bb2int[c] => y \in Chain(b)
        /\ \A b \in Block : Known(b) => Chain(b)' \subseteq Chain(b)
        /\ \A b \in Block : bb2int[b] > bb2int[c] => c \notin Chain(b)
        /\ \A b \in Block : Known(b) /\ ~Known(c) => c \notin Chain(b)
        /\ \A b \in Block : Known(b)' <=> Known(b) \/ b = c
        /\ \A b \in Block \ {c} : Dom(b)' = Dom(b)
        /\ Dom(c)' = v
  BY AssignChains
<1>3. /\ Known(v) /\ bb2int[v] > bb2int[c]
      /\ \A q \in Block : Above(q, c) => v \in Chain(q)
      /\ Common(c) \subseteq Chain(v)
      /\ \A a \in Block \ {c} : IsDom(a, c) => IsDom(a, v)
      /\ Known(c) => \A b \in Block : Known(b)
  BY <1>1, <1>2, AssignFacts
<1>4. /\ bb2int[c] + i = Len(post_order) /\ i \in Nat /\ Len(post_order) \in Nat
      /\ bb2int \in [Block -> Nat] /\ i <= Len(post_order)
  BY <1>1, <1>2, PassFacts, MeetingFacts
<1>5. /\ Climbs(Table, bb2int) /\ Filling /\ NoneSkipped /\ HoldsCommon /\ FollowsAbove
      /\ graph \in Graphs /\ TypeOK /\ NumbersByPlace /\ Numbered
  BY <1>1, PassFacts
<1>6. \A b \in Block : Processed(b)' <=> Processed(b) \/ b = c
  <2>1. pc # "post_order"
    BY <1>1
  <2> QED BY <2>1, <1>1, <1>2, <1>4, <1>5, ProcessedNext DEF Processed
<1>7. /\ \A a, b : (IsDom(a, b)' <=> IsDom(a, b))
      /\ \A a, b : (IsPred(a, b)' <=> IsPred(a, b)) /\ (Above(a, b)' <=> Above(a, b))
  BY <1>1 DEF IsDom, Succs, IsPred, Above
<1>8. Climbs(Table, bb2int)'
  BY <1>1, <1>2 DEF Climbs
<1>9. Filling'
  BY <1>2, <1>5, <1>6 DEF Filling
<1>10. \A b \in Block : Known(b) => Dom(b) \in Block /\ Known(Dom(b))
  BY <1>5, ChainFacts
<1>11. NoneSkipped'
  <2> SUFFICES ASSUME NEW b \in Block \ {Root}, Known(b)', NEW a \in Block \ {b}, IsDom(a, b)
               PROVE  IsDom(a, Dom(b)')
    BY <1>7 DEF NoneSkipped
  <2>1. CASE b = c
    BY <2>1, <1>2, <1>3
  <2>2. CASE b # c
    BY <2>2, <1>2, <1>5 DEF NoneSkipped
  <2> QED BY <2>1, <2>2
<1>12. ASSUME NEW b \in Block, NEW y \in Common(b)' PROVE y \in Common(b)
  <2>1. y \in Block /\ \A p \in Block : IsPred(p, b) /\ Known(p)' => y \in Chain(p)'
    BY <1>7, <1>12 DEF Common
  <2> QED BY <2>1, <1>2 DEF Common
<1>13. HoldsCommon'
  <2> SUFFICES ASSUME NEW b \in Block \ {Root}, Known(b)', NEW y \in Common(b)', NEW x, x = Dom(b)'
               PROVE  y \in Chain(x)'
    BY DEF HoldsCommon
  <2>1. y \in Common(b) /\ y \in Block
    BY <1>12 DEF Common
  <2>2. CASE b = c
    BY <2>1, <2>2, <1>2, <1>3
  <2>3. CASE b # c
    <3>1. Known(b) /\ x = Dom(b) /\ x \in Block /\ Known(x)
      BY <2>3, <1>2, <1>10
    <3>2. y \in Chain(x)
      BY <2>1, <3>1, <1>5 DEF HoldsCommon
    <3>3. CASE c \notin Chain(x) \/ bb2int[y] <= bb2int[c]
      BY <3>1, <3>2, <3>3, <1>2
    <3>4. CASE c \in Chain(x) /\ bb2int[y] > bb2int[c]
      <4>1. Known(c) /\ (\A p \in Block : Known(p) /\ Known(p)')
        BY <3>1, <3>4, <1>2, <1>3
      <4>2. bb2int[c] > bb2int[b] /\ ~Processed(b)
        <5>1. bb2int[x] > bb2int[b] /\ (c = x \/ bb2int[c] > bb2int[x])
          BY <3>1, <3>4, <1>5, ChainFacts
        <5> QED BY <5>1, <3>1, <1>4 DEF Processed
      <4>3. PICK q \in Block : Above(q, b)
        BY <1>1, <1>5 DEF Numbered
      <4>4. IsPred(q, b)
        BY <4>3, <1>5, GraphFacts DEF Above
      <4>5. c \in Chain(q)
        BY <3>1, <3>4, <4>2, <4>3, <1>4, <1>5 DEF FollowsAbove
      <4>6. y \in Chain(q)'
        BY <4>1, <4>4, <1>7 DEF Common
      <4>7. c \in Chain(q)' /\ c \in Chain(x)'
        BY <3>1, <3>4, <4>5, <1>2, <1>4
      <4>8. y \in Chain(c)'
        <5>1. PICK e, n : e = Table' /\ n = bb2int
          OBVIOUS
        <5>2. Climbs(e, n) /\ c \in Up(e, q) /\ y \in Up(e, q) /\ Chain(c)' = Up(e, c)
          BY <5>1, <4>6, <4>7, <1>2, ChainIsUpNext
        <5>3. n[y] >= n[c]
          BY <5>1, <3>4, <2>1, <1>4
        <5>4. y \in Up(e, c)
          BY <5>2, <5>3, UpLinear
        <5> QED BY <5>2, <5>4
      <4> QED BY <3>1, <4>7, <4>8, ChainIsUpNext, UpTrans
    <3> QED BY <3>2, <3>3, <3>4, <2>1, <1>4
  <2> QED BY <2>2, <2>3
<1>14. FollowsAbove'
  <2> SUFFICES ASSUME NEW b \in Block \ {Root}, Known(b)', NEW q \in Block, Above(q, b), NEW x, x = Dom(b)'
               PROVE  IF Processed(b)' THEN x \in Chain(q)'
                      ELSE \A y \in Chain(x)' : bb2int[y] + i' <= Len(post_order) => y \in Chain(q)'
    BY <1>1, <1>7 DEF FollowsAbove
  <2>1. bb2int[q] > bb2int[b]
    BY DEF Above
  <2>2. CASE b = c
    <3>1. v \in Chain(q) /\ c \notin Chain(q)
      BY <2>1, <2>2, <1>2, <1>3
    <3> QED BY <2>2, <3>1, <1>2, <1>6
  <2>3. CASE b # c
    <3>1. Known(b) /\ x = Dom(b) /\ x \in Block /\ Known(x)
      BY <2>3, <1>2, <1>10
    <3>2. CASE Processed(b)
      <4>1. x \in Chain(q)
        BY <3>1, <3>2, <1>5 DEF FollowsAbove
      <4>2. bb2int[q] > bb2int[c]
        BY <2>1, <3>2, <1>4 DEF Processed
      <4> QED BY <3>2, <4>1, <4>2, <1>2, <1>6
    <3>3. CASE ~Processed(b)
      <4> SUFFICES ASSUME NEW y \in Chain(x)', bb2int[y] + i' <= Len(post_order) PROVE y \in Chain(q)'
        BY <2>3, <3>3, <1>6
      <4>1. y \in Block
        BY <3>1, ChainIsUpNext, UpClosed
      <4>2. bb2int[y] < bb2int[c] /\ bb2int[y] + i <= Len(post_order)
        BY <4>1, <1>1, <1>4
      <4>3. y \in Chain(x)
        BY <3>1, <4>1, <4>2, <1>2, <1>4
      <4>4. y \in Chain(q)
        BY <3>1, <3>3, <4>2, <4>3, <1>5 DEF FollowsAbove
      <4> QED BY <4>1, <4>2, <4>4, <1>2, <1>4
    <3> QED BY <3>2, <3>3
  <2> QED BY <2>2, <2>3
<1>15. SolvedSoFar'
  BY <1>1 DEF SolvedSoFar
<1> QED BY <1>8, <1>9, <1>11, <1>13, <1>14, <1>15

\* So does an assignment that finds the table right.
LEMMA AssignSame ==
  ASSUME Inv, AssignIdom, Dom(Cur) = new_idom
  PROVE  Climbs(Table, bb2int)' /\ Filling' /\ NoneSkipped' /\ HoldsCommon' /\ FollowsAbove' /\ SolvedSoFar'
<1>1. /\ pc = "preds" /\ j > Len(graph.pre[Cur]) /\ changed' = changed /\ i' = i + 1 /\ doms' = doms
      /\ graph' = graph /\ bb2int' = bb2int /\ post_order' = post_order
  BY DEF AssignIdom, numbering, Cur
<1>2. PICK c \in Block \ {Root}, v \in Block : c = Cur /\ v = new_idom /\ Dom(c) = v
  BY <1>1, MeetingFacts, AssignFacts
<1>3. /\ \A b \in Block : Known(b)
      /\ \A p \in Block : IsPred(p, c) => v \in Chain(p)
      /\ \A q \in Block : Above(q, c) => v \in Chain(q)
  <2>1. Known(c)
    BY <1>2, RootIsBlock DEF Known
  <2> QED BY <2>1, <1>1, <1>2, AssignFacts
<1>4. /\ bb2int[c] + i = Len(post_order) /\ i \in Nat /\ Len(post_order) \in Nat /\ i <= Len(post_order)
      /\ bb2int \in [Block -> Nat]
  BY <1>1, <1>2, PassFacts, MeetingFacts
<1>5. /\ Climbs(Table, bb2int) /\ Filling /\ NoneSkipped /\ HoldsCommon /\ FollowsAbove /\ SolvedSoFar
      /\ graph \in Graphs /\ TypeOK /\ NumbersByPlace /\ Numbered
  BY <1>1, PassFacts
<1>6. \A b \in Block : Processed(b)' <=> Processed(b) \/ b = c
  <2>1. pc # "post_order"
    BY <1>1
  <2> QED BY <2>1, <1>1, <1>2, <1>4, <1>5, ProcessedNext DEF Processed
<1>7. Climbs(Table, bb2int)' /\ NoneSkipped' /\ HoldsCommon'
  BY <1>1, <1>5, TableStays
<1>8. Filling'
  BY <1>1, <1>3, SameTable DEF Filling
<1>9. FollowsAbove'
  <2> SUFFICES ASSUME NEW b \in Block \ {Root}, NEW q \in Block, Above(q, b)
               PROVE  IF Processed(b)' THEN Dom(b) \in Chain(q)
                      ELSE \A y \in Chain(Dom(b)) : bb2int[y] + i' <= Len(post_order) => y \in Chain(q)
    BY <1>1, SameTable DEF FollowsAbove
  <2>1. CASE b = c
    BY <2>1, <1>2, <1>3, <1>6
  <2>2. CASE b # c
    <3>1. \A y \in Chain(Dom(b)) : y \in Block
      BY <1>3, <1>5, ChainFacts
    <3>2. \A y \in Block : bb2int[y] + i' <= Len(post_order) => bb2int[y] + i <= Len(post_order)
      BY <1>1, <1>4
    <3> QED BY <2>2, <3>1, <3>2, <1>3, <1>5, <1>6 DEF FollowsAbove
  <2> QED BY <2>1, <2>2
<1>10. SolvedSoFar'
  <2> SUFFICES ASSUME ~changed, NEW b \in Block \ {Root}, Processed(b)', NEW p \in Block, IsPred(p, b)
               PROVE  Dom(b) \in Chain(p)
    BY <1>1, <1>3, SameTable DEF SolvedSoFar
  <2>1. CASE b = c
    BY <2>1, <1>2, <1>3
  <2>2. CASE b # c
    BY <2>2, <1>5, <1>6 DEF SolvedSoFar
  <2> QED BY <2>1, <2>2
<1> QED BY <1>7, <1>8, <1>9, <1>10

LEMMA AssignIdomInv == ASSUME Inv, AssignIdom PROVE Inv'
<1>1. /\ pc = "preds" /\ pc' = "pass" /\ i' = i + 1
      /\ graph' = graph /\ calls' = calls /\ visited' = visited /\ post_order' = post_order /\ bb2int' = bb2int
      /\ j' = j /\ new_idom' = new_idom /\ finger1' = finger1 /\ finger2' = finger2 /\ runner' = runner
      /\ idom' = idom /\ dom_frontier' = dom_frontier
      /\ \/ doms' = [doms EXCEPT ![Num(Cur)] = new_idom] /\ changed' = TRUE
         \/ doms' = doms /\ changed' = changed
  BY DEF AssignIdom, numbering, fingers, result, Cur
<1>2. TypeOK /\ new_idom \in Block \cup {Null} /\ doms \in [0..bb2int[Root] -> Block \cup {Null}]
  BY <1>1 DEF Inv, TypeOK
<1>3. TypeOK'
  <2>1. doms' \in [0..bb2int[Root] -> Block \cup {Null}]
    BY <1>1, <1>2
  <2>2. changed' \in BOOLEAN
    BY <1>1, <1>2 DEF TypeOK
  <2>3. i' \in Nat \ {0}
    BY <1>1, <1>2 DEF TypeOK
  <2> QED BY <2>1, <2>2, <2>3, <1>1, <1>2 DEF TypeOK
<1>4. graph' \in Graphs /\ NumbersByPlace' /\ Numbering' /\ Numbered'
  BY <1>1, NumbersStay
<1>5. Iteration'
  <2>1. Climbs(Table, bb2int)' /\ Filling' /\ NoneSkipped' /\ HoldsCommon' /\ FollowsAbove' /\ SolvedSoFar'
    BY AssignNew, AssignSame
  <2>2. \A b \in Block : idom'[b] = Null /\ dom_frontier'[b] = {}
    BY <1>1, PassFacts
  <2> QED BY <2>1, <2>2 DEF Iteration
<1>6. Meeting' /\ Frontiers'
  BY <1>1 DEF Meeting, Frontiers
<1> QED BY <1>1, <1>3, <1>4, <1>5, <1>6 DEF Inv

-----------------------------------------------------------------------------
(* The steps of the numbering.                                             *)

LEMMA ChildInv == ASSUME Inv, Child PROVE Inv'
<1>1. /\ pc = "post_order" /\ pc' = pc /\ graph' = graph /\ post_order' = post_order /\ bb2int' = bb2int
      /\ doms' = doms /\ changed' = changed /\ i' = i /\ j' = j /\ new_idom' = new_idom
      /\ finger1' = finger1 /\ finger2' = finger2 /\ runner' = runner /\ idom' = idom /\ dom_frontier' = dom_frontier
  BY DEF Child, fingers, result
<1>2. /\ calls' \in Seq([bb : Block, child : Nat \ {0}]) /\ visited' \subseteq Block
      /\ VisitedOnce' /\ StackIsPath' /\ ChildrenVisited' /\ EntryAbove'
  BY ChildNumbering DEF Inv, Frame
<1>3. TypeOK'
  BY <1>1, <1>2 DEF Inv, TypeOK
<1>4. NumbersByPlace' /\ graph' \in Graphs /\ \A b \in Block : idom'[b] = Null /\ dom_frontier'[b] = {}
  BY <1>1 DEF Inv, NumbersByPlace
<1>5. Numbered' /\ Iteration' /\ Meeting' /\ Frontiers'
  BY <1>1 DEF Numbered, Iteration, Meeting, Frontiers
<1>6. Numbering'
  BY <1>2 DEF Numbering
<1> QED BY <1>3, <1>4, <1>5, <1>6 DEF Inv

LEMMA NumberInv == ASSUME Inv, Number PROVE Inv'
<1>1. /\ pc = "post_order" /\ pc' = pc /\ graph' = graph /\ visited' = visited
      /\ doms' = doms /\ changed' = changed /\ i' = i /\ j' = j /\ new_idom' = new_idom
      /\ finger1' = finger1 /\ finger2' = finger2 /\ runner' = runner /\ idom' = idom /\ dom_frontier' = dom_frontier
  BY DEF Number, fingers, result
<1>2. /\ calls' \in Seq([bb : Block, child : Nat \ {0}])
      /\ post_order' \in Seq(Block) /\ bb2int' \in [Block -> Nat]
      /\ NumbersByPlace' /\ VisitedOnce' /\ StackIsPath' /\ ChildrenVisited' /\ EntryAbove'
  BY NumberNumbering DEF Inv, Frame
<1>3. TypeOK'
  BY <1>1, <1>2 DEF Inv, TypeOK
<1>4. graph' \in Graphs /\ \A b \in Block : idom'[b] = Null /\ dom_frontier'[b] = {}
  BY <1>1 DEF Inv
<1>5. Numbered' /\ Iteration' /\ Meeting' /\ Frontiers'
  BY <1>1 DEF Numbered, Iteration, Meeting, Frontiers
<1>6. Numbering'
  BY <1>2 DEF Numbering
<1> QED BY <1>2, <1>3, <1>4, <1>5, <1>6 DEF Inv

-----------------------------------------------------------------------------
(* The end of the fixpoint.                                                *)

\* After a pass every block is known.
LEMMA PassOver ==
  ASSUME Inv, PassDone
  PROVE  \A b \in Block : Processed(b) /\ Known(b)
<1>1. pc = "pass" /\ i > Len(reverse_post_order)
  BY DEF PassDone
<1>2. \A b \in Block : Processed(b)
  BY <1>1, PassFacts DEF Processed
<1> QED BY <1>1, <1>2, PassFacts DEF Filling

\* Another pass.
LEMMA NextPassInv == ASSUME Inv, PassDone, changed PROVE Inv'
<1>1. /\ pc = "pass" /\ pc' = pc /\ i' = 1 /\ j' = 1 /\ changed' = FALSE /\ doms' = doms
      /\ graph' = graph /\ calls' = calls /\ visited' = visited /\ post_order' = post_order /\ bb2int' = bb2int
      /\ new_idom' = new_idom /\ finger1' = finger1 /\ finger2' = finger2 /\ runner' = runner
      /\ idom' = idom /\ dom_frontier' = dom_frontier
  BY DEF PassDone, numbering, fingers
<1>2. TypeOK'
  <2>1. changed' \in BOOLEAN
    BY <1>1
  <2> QED BY <2>1, <1>1 DEF Inv, TypeOK
<1>3. graph' \in Graphs /\ NumbersByPlace' /\ Numbering' /\ Numbered'
  BY <1>1, NumbersStay
<1>4. \A b \in Block : Processed(b) /\ Known(b)
  BY PassOver
<1>5. /\ Climbs(Table, bb2int) /\ NoneSkipped /\ HoldsCommon /\ FollowsAbove
      /\ \A b \in Block : idom[b] = Null /\ dom_frontier[b] = {}
      /\ bb2int \in [Block -> Nat] /\ Numbered /\ TypeOK /\ Len(post_order) \in Nat
  BY <1>1, PassFacts
<1>6. \A b \in Block : ~Processed(b)'
  <2>1. \A b \in Block : bb2int[b] <= bb2int[Root] /\ Len(post_order) = bb2int[Root] + 1
    BY <1>1, <1>5, NumbersDiffer DEF Numbered
  <2> QED BY <2>1, <1>1, <1>5, RootIsBlock DEF Processed
<1>7. Climbs(Table, bb2int)' /\ NoneSkipped' /\ HoldsCommon'
  BY <1>1, <1>5, TableStays
<1>8. Filling'
  BY <1>1, <1>4, SameTable DEF Filling
<1>9. FollowsAbove'
  <2> SUFFICES ASSUME NEW b \in Block \ {Root}, NEW q \in Block, Above(q, b), NEW y \in Chain(Dom(b))
               PROVE  y \in Chain(q)
    BY <1>1, <1>6, SameTable DEF FollowsAbove
  <2>1. Dom(b) \in Chain(q)
    BY <1>4, <1>5 DEF FollowsAbove
  <2> QED BY <2>1, <1>5, ChainFacts
<1>10. SolvedSoFar'
  BY <1>6 DEF SolvedSoFar
<1>11. Iteration'
  BY <1>1, <1>5, <1>7, <1>8, <1>9, <1>10 DEF Iteration
<1>12. Meeting' /\ Frontiers'
  BY <1>1 DEF Meeting, Frontiers
<1> QED BY <1>1, <1>2, <1>3, <1>11, <1>12 DEF Inv

\* A table that solves the equation of the fixpoint holds dominators only: the
\* blocks whose chain misses a are all that a path around a can reach.
LEMMA ChainDominates ==
  ASSUME graph \in Graphs, Climbs(Table, bb2int), \A b \in Block : Known(b),
         \A b \in Block \ {Root} : \A p \in Block : IsPred(p, b) => Dom(b) \in Chain(p)
  PROVE  \A b \in Block : \A a \in Chain(b) : IsDom(a, b)
<1> SUFFICES ASSUME NEW b \in Block, NEW a \in Chain(b), a # b PROVE b \notin ReachIn(Block \ {a}, Succs, Root)
  BY DEF IsDom, Dominates
<1> DEFINE N == Block \ {a}
           X == {x \in Block : a \notin Chain(x)}
<1>1. IsFiniteSet(N)
  BY BlocksFinite, Without
<1>2. a \in Block
  BY ChainFacts
<1>3. Root \in N => Root \in X
  BY RootIsBlock, ChainFacts
<1>4. Closed(N, Succs, X \cap N)
  <2> SUFFICES ASSUME NEW x \in X, NEW c \in Succs[x] \cap N PROVE a \notin Chain(c)
    BY DEF Closed
  <2>1. c \in Block /\ x \in Block /\ c # a
    OBVIOUS
  <2>2. CASE c = Root
    BY <2>1, <2>2, ChainFacts
  <2>3. CASE c # Root
    <3>1. IsPred(x, c)
      BY <2>1, GraphFacts DEF Succs
    <3>2. Dom(c) \in Chain(x)
      BY <2>1, <2>3, <3>1
    <3>3. Chain(c) = {c} \cup Chain(Dom(c)) /\ Chain(Dom(c)) \subseteq Chain(x)
      BY <2>1, <3>2, ChainFacts
    <3> QED BY <2>1, <3>3
  <2> QED BY <2>2, <2>3
<1>5. b \notin X
  OBVIOUS
<1> HIDE DEF N, X
<1>6. ReachIn(N, Succs, Root) \subseteq X
  BY <1>1, <1>3, <1>4, ReachLeast
<1> QED BY <1>5, <1>6 DEF N

\* The last pass leaves the dominators.
LEMMA Solved ==
  ASSUME Inv, PassDone, ~changed
  PROVE  /\ \A b \in Block : Known(b)
         /\ \A b \in Block \ {Root} : \A p \in Block : IsPred(p, b) => Dom(b) \in Chain(p)
         /\ \A a, b \in Block : a \in Chain(b) <=> IsDom(a, b)
<1>1. pc = "pass"
  BY DEF PassDone
<1>2. \A b \in Block : Processed(b) /\ Known(b)
  BY PassOver
<1>3. Climbs(Table, bb2int) /\ NoneSkipped /\ SolvedSoFar /\ graph \in Graphs
  BY <1>1, PassFacts
<1>4. \A b \in Block \ {Root} : \A p \in Block : IsPred(p, b) => Dom(b) \in Chain(p)
  BY <1>2, <1>3 DEF SolvedSoFar
<1>5. \A b \in Block : \A a \in Chain(b) : IsDom(a, b)
  BY <1>2, <1>3, <1>4, ChainDominates
<1>6. \A b \in Block : \A a \in Block : IsDom(a, b) => a \in Chain(b)
  BY <1>2, <1>3, OnChain
<1> QED BY <1>2, <1>4, <1>5, <1>6

\* The dominators are handed to the blocks.
LEMMA LastPassInv == ASSUME Inv, PassDone, ~changed PROVE Inv'
<1>1. /\ pc = "pass" /\ pc' = "front" /\ i' = 1 /\ j' = 1 /\ changed' = FALSE /\ doms' = doms
      /\ graph' = graph /\ calls' = calls /\ visited' = visited /\ post_order' = post_order /\ bb2int' = bb2int
      /\ new_idom' = new_idom /\ finger1' = finger1 /\ finger2' = finger2 /\ runner' = runner
      /\ idom' = Table /\ dom_frontier' = dom_frontier
  BY DEF PassDone, numbering, fingers, Table
<1>2. /\ Climbs(Table, bb2int) /\ \A b \in Block : dom_frontier[b] = {}
      /\ Table \in [Block -> Block \cup {Null}]
  BY <1>1, PassFacts DEF Climbs
<1>3. TypeOK'
  <2>1. changed' \in BOOLEAN
    BY <1>1
  <2> QED BY <2>1, <1>1, <1>2 DEF Inv, TypeOK
<1>4. graph' \in Graphs /\ NumbersByPlace' /\ Numbering' /\ Numbered'
  BY <1>1, NumbersStay
<1>5. /\ \A b \in Block : Known(b)
      /\ \A b \in Block \ {Root} : \A p \in Block : IsPred(p, b) => Dom(b) \in Chain(p)
      /\ \A a, b \in Block : a \in Chain(b) <=> IsDom(a, b)
  BY Solved
<1>6. /\ \A b \in Block : Dom(b)' = Dom(b) /\ (Known(b)' <=> Known(b)) /\ Chain(b)' = Chain(b)
      /\ Table' = Table
      /\ \A a, b \in Block : (IsDom(a, b)' <=> IsDom(a, b)) /\ (IsPred(a, b)' <=> IsPred(a, b))
  BY <1>1, SameTable
<1>7. \A k \in DOMAIN graph.blocks : \A m \in DOMAIN graph.pre[graph.blocks[k]] : ~Entered(k, m)'
  <2> SUFFICES ASSUME NEW k \in DOMAIN graph.blocks, NEW m \in DOMAIN graph.pre[graph.blocks[k]]
               PROVE  ~(k < 1) /\ ~(m < 1)
    BY <1>1 DEF Entered
  <2>1. graph.blocks \in Seq(Block) /\ graph \in Graphs
    BY <1>1, PassFacts, GraphFacts DEF FlowGraph
  <2>2. k \in Nat \ {0} /\ graph.blocks[k] \in Block
    BY <2>1
  <2>3. graph.pre[graph.blocks[k]] \in Seq(Block)
    BY <2>1, <2>2, GraphFacts
  <2>4. m \in Nat \ {0}
    BY <2>3
  <2> QED BY <2>2, <2>4
<1>8. Frontiers'
  <2>1. Climbs(Table, bb2int)'
    BY <1>1, <1>2, SameTable
  <2>2. \A b \in Block : Known(b)'
    BY <1>5, <1>6
  <2>3. \A b \in Block \ {Root} : \A p \in Block : IsPred(p, b)' => Dom(b)' \in Chain(p)'
    BY <1>5, <1>6
  <2>4. \A a, b \in Block : a \in Chain(b)' <=> IsDom(a, b)'
    BY <1>5, <1>6
  <2>5. \A a \in Block : dom_frontier'[a] \subseteq Frontier(Block, Succs', Root, a)
    BY <1>1, <1>2
  <2>6. idom' = Table'
    BY <1>1, <1>6
  <2> QED BY <2>1, <2>2, <2>3, <2>4, <2>5, <2>6, <1>1, <1>7 DEF Frontiers, AllReported
<1>9. Iteration' /\ Meeting'
  BY <1>1 DEF Iteration, Meeting
<1> QED BY <1>1, <1>3, <1>4, <1>8, <1>9 DEF Inv

-----------------------------------------------------------------------------
(* The steps of the frontiers.                                             *)

LEMMA FrontFacts ==
  ASSUME Inv, pc \in {"front", "runner", "done"}
  PROVE  /\ Climbs(Table, bb2int)
         /\ \A b \in Block : Known(b)
         /\ idom = Table
         /\ \A b \in Block \ {Root} : \A p \in Block : IsPred(p, b) => Dom(b) \in Chain(p)
         /\ \A a, b \in Block : a \in Chain(b) <=> IsDom(a, b)
         /\ \A a \in Block : dom_frontier[a] \subseteq Frontier(Block, Succs, Root, a)
         /\ AllReported
         /\ graph \in Graphs /\ graph.blocks \in Seq(Block)
         /\ i \in Nat \ {0} /\ j \in Nat \ {0}
         /\ \A k \in DOMAIN graph.blocks : graph.blocks[k] \in Block
<1>1. graph.blocks \in Seq(Block)
  BY GraphFacts DEF Inv, FlowGraph
<1>2. \A k \in DOMAIN graph.blocks : graph.blocks[k] \in Block
  BY <1>1
<1> QED BY <1>1, <1>2 DEF Inv, Frontiers, TypeOK

\* What a step of the frontiers leaves of the invariant to prove.
LEMMA FrontStep ==
  ASSUME Inv, pc \in {"front", "runner"}, pc' \in {"front", "runner", "done"},
         graph' = graph, calls' = calls, visited' = visited, post_order' = post_order, bb2int' = bb2int,
         doms' = doms, changed' = changed, new_idom' = new_idom, finger1' = finger1, finger2' = finger2, idom' = idom,
         i' \in Nat \ {0}, j' \in Nat \ {0}, runner' \in Block \cup {Null},
         dom_frontier' \in [Block -> SUBSET Block],
         \A a \in Block : dom_frontier'[a] \subseteq Frontier(Block, Succs, Root, a),
         AllReported', pc' = "runner" => Running', pc' = "done" => i' > Len(graph.blocks)
  PROVE  Inv'
<1>1. TypeOK'
  BY DEF Inv, TypeOK
<1>2. graph' \in Graphs /\ NumbersByPlace' /\ Numbering' /\ Numbered'
  BY NumbersStay
<1>3. Iteration' /\ Meeting'
  BY DEF Iteration, Meeting
<1>4. Frontiers'
  <2>1. /\ \A b \in Block : Dom(b)' = Dom(b) /\ (Known(b)' <=> Known(b)) /\ Chain(b)' = Chain(b)
        /\ Table' = Table
        /\ \A a, b \in Block : (IsDom(a, b)' <=> IsDom(a, b)) /\ (IsPred(a, b)' <=> IsPred(a, b))
    BY SameTable
  <2>2. /\ \A b \in Block : Known(b)'
        /\ \A b \in Block \ {Root} : \A p \in Block : IsPred(p, b)' => Dom(b)' \in Chain(p)'
        /\ \A a, b \in Block : a \in Chain(b)' <=> IsDom(a, b)'
    BY <2>1, FrontFacts
  <2>3. Climbs(Table, bb2int)' /\ idom' = Table'
    BY <2>1, FrontFacts
  <2>4. \A a \in Block : dom_frontier'[a] \subseteq Frontier(Block, Succs', Root, a)
    BY DEF Succs
  <2> QED BY <2>2, <2>3, <2>4 DEF Frontiers
<1> QED BY <1>1, <1>2, <1>3, <1>4 DEF Inv

\* A join point is not the root, and its predecessors lie below its dominator.
LEMMA JoinFacts ==
  ASSUME Inv, pc \in {"front", "runner"}, i \in DOMAIN graph.blocks, JoinPoint(graph.blocks[i]),
         j \in DOMAIN graph.pre[graph.blocks[i]]
  PROVE  LET b == graph.blocks[i]
             p == graph.pre[b][j]
         IN  b \in Block \ {Root} /\ p \in Block /\ IsPred(p, b) /\ b \in Succs[p] /\ Dom(b) \in Chain(p)
<1> DEFINE b == graph.blocks[i]
           p == graph.pre[b][j]
<1>1. b \in Block
  BY FrontFacts
<1>2. p \in Block /\ IsPred(p, b)
  BY <1>1, FrontFacts, GraphFacts
<1>3. b # Root
  BY <1>1, <1>2, FrontFacts, GraphFacts
<1>4. Dom(b) \in Chain(p) /\ b \in Succs[p]
  BY <1>1, <1>2, <1>3, FrontFacts, GraphFacts DEF Succs
<1> QED BY <1>1, <1>2, <1>3, <1>4

LEMMA StartRunnerInv == ASSUME Inv, StartRunner PROVE Inv'
<1>1. /\ pc = "front" /\ pc' = "runner" /\ i <= Len(graph.blocks) /\ JoinPoint(graph.blocks[i])
      /\ j <= Len(graph.pre[graph.blocks[i]]) /\ runner' = graph.pre[graph.blocks[i]][j] /\ i' = i /\ j' = j
      /\ graph' = graph /\ calls' = calls /\ visited' = visited /\ post_order' = post_order /\ bb2int' = bb2int
      /\ doms' = doms /\ changed' = changed /\ new_idom' = new_idom /\ finger1' = finger1 /\ finger2' = finger2
      /\ idom' = idom /\ dom_frontier' = dom_frontier
  BY DEF StartRunner, numbering, fingers, result
<1>2. i \in DOMAIN graph.blocks /\ graph.blocks[i] \in Block
  BY <1>1, FrontFacts
<1>3. j \in DOMAIN graph.pre[graph.blocks[i]]
  <2>1. graph.pre[graph.blocks[i]] \in Seq(Block)
    BY <1>1, <1>2, FrontFacts, GraphFacts
  <2> QED BY <2>1, <1>1, FrontFacts
<1>4. PICK b, p : b = graph.blocks[i] /\ p = graph.pre[b][j]
  OBVIOUS
<1>5. b \in Block \ {Root} /\ p \in Block /\ Dom(b) \in Chain(p)
  BY <1>1, <1>2, <1>3, <1>4, JoinFacts
<1>6. Dom(b)' = Dom(b) /\ \A x : Chain(x)' = Chain(x)
  BY <1>1, SameTable
<1>7. AllReported'
  <2>1. \A k, m : Entered(k, m)' <=> Entered(k, m)
    BY <1>1 DEF Entered
  <2>2. \A k, m, a : Reported(k, m, a)' <=> Reported(k, m, a)
    BY <1>1, SameTable DEF Reported
  <2> QED BY <2>1, <2>2, <1>1, FrontFacts DEF AllReported, JoinPoint
<1>8. Running'
  <2>1. p \in Chain(p)
    BY <1>1, <1>5, FrontFacts, ChainFacts
  <2>2. \A a \in Block : a \in Chain(p) \/ Reported(i, j, a)'
    BY <1>1, <1>4, <1>6 DEF Reported
  <2>3. runner' = p
    BY <1>1, <1>4
  <2>4. Chain(runner)' = Chain(p)
    BY <2>3, <1>6
  <2> QED BY <2>1, <2>2, <2>3, <2>4, <1>1, <1>2, <1>3, <1>4, <1>5, <1>6 DEF Running, JoinPoint
<1>9. runner' \in Block \cup {Null}
  BY <1>1, <1>4, <1>5
<1>10. /\ i' \in Nat \ {0} /\ j' \in Nat \ {0} /\ dom_frontier' \in [Block -> SUBSET Block]
       /\ \A a \in Block : dom_frontier'[a] \subseteq Frontier(Block, Succs, Root, a)
  BY <1>1, FrontFacts DEF Inv, TypeOK
<1> QED BY <1>1, <1>7, <1>8, <1>9, <1>10, FrontStep

\* The runner has reached the dominator: all is reported for the predecessor.
LEMMA RunOverInv == ASSUME Inv, Run, runner = Dom(graph.blocks[i]) PROVE Inv'
<1>1. /\ pc = "runner" /\ pc' = "front" /\ j' = j + 1 /\ i' = i /\ runner' = runner
      /\ graph' = graph /\ calls' = calls /\ visited' = visited /\ post_order' = post_order /\ bb2int' = bb2int
      /\ doms' = doms /\ changed' = changed /\ new_idom' = new_idom /\ finger1' = finger1 /\ finger2' = finger2
      /\ idom' = idom /\ dom_frontier' = dom_frontier
  BY DEF Run, numbering, fingers
<1>2. Running
  BY <1>1 DEF Inv, Frontiers
<1>3. \A a \in Block : Reported(i, j, a)
  BY <1>2 DEF Running, Reported
<1>4. AllReported'
  <2>1. \A k, m, a : Reported(k, m, a)' <=> Reported(k, m, a)
    BY <1>1, SameTable DEF Reported
  <2> SUFFICES ASSUME NEW k \in DOMAIN graph.blocks, JoinPoint(graph.blocks[k]),
                      NEW m \in DOMAIN graph.pre[graph.blocks[k]], Entered(k, m)', NEW a \in Block
               PROVE  Reported(k, m, a)
    BY <1>1, <2>1 DEF AllReported, JoinPoint
  <2>2. m \in Nat
    BY <1>1, FrontFacts, GraphFacts
  <2>3. Entered(k, m) \/ (k = i /\ m = j)
    BY <1>1, <2>2, FrontFacts DEF Entered
  <2> QED BY <2>3, <1>1, <1>3, FrontFacts DEF AllReported
<1>5. /\ i' \in Nat \ {0} /\ j' \in Nat \ {0} /\ dom_frontier' \in [Block -> SUBSET Block] /\ runner' \in Block \cup {Null}
      /\ \A a \in Block : dom_frontier'[a] \subseteq Frontier(Block, Succs, Root, a)
  BY <1>1, FrontFacts DEF Inv, TypeOK
<1> QED BY <1>1, <1>4, <1>5, FrontStep

\* What the runner passes on its way dominates a predecessor of the block but
\* not, strictly, the block: the block is on its frontier.
LEMMA RunnerFrontier ==
  ASSUME Inv, pc = "runner", runner # Dom(graph.blocks[i])
  PROVE  /\ runner \in Block /\ graph.blocks[i] \in Block /\ Dom(runner) \in Block
         /\ graph.blocks[i] \in Frontier(Block, Succs, Root, runner)
         /\ Chain(runner) = {runner} \cup Chain(Dom(runner))
         /\ Dom(runner) \in Chain(graph.pre[graph.blocks[i]][j])
<1>1. Running
  BY DEF Inv, Frontiers
<1>2. PICK b, p : b = graph.blocks[i] /\ p = graph.pre[b][j]
  OBVIOUS
<1>3. b \in Block \ {Root} /\ p \in Block /\ b \in Succs[p]
  BY <1>1, <1>2, JoinFacts DEF Running
<1>4. runner \in Chain(p) /\ Dom(b) \in Chain(runner) /\ runner \in Block
  BY <1>1, <1>2, <1>3, FrontFacts, ChainFacts DEF Running
<1>5. /\ Dom(runner) \in Block /\ Dom(b) \in Block
      /\ Chain(runner) = {runner} \cup Chain(Dom(runner)) /\ Dom(runner) \in Chain(Dom(runner))
      /\ Chain(b) = {b} \cup Chain(Dom(b)) /\ Chain(runner) \subseteq Chain(p)
  BY <1>3, <1>4, FrontFacts, ChainFacts
<1>6. IsDom(runner, p)
  BY <1>3, <1>4, FrontFacts
<1>7. b = runner \/ ~IsDom(runner, b)
  <2> SUFFICES ASSUME b # runner, IsDom(runner, b) PROVE FALSE
    OBVIOUS
  <2>1. runner \in Chain(Dom(b))
    <3>1. runner \in Chain(b)
      BY <1>3, <1>4, FrontFacts
    <3> QED BY <3>1, <1>5
  <2>2. runner = Dom(b) \/ bb2int[runner] > bb2int[Dom(b)]
    BY <2>1, <1>5, FrontFacts, ChainFacts
  <2>3. Dom(b) = runner \/ bb2int[Dom(b)] > bb2int[runner]
    BY <1>4, FrontFacts, ChainFacts
  <2>4. bb2int \in [Block -> Nat]
    BY DEF Inv, TypeOK
  <2> QED BY <2>2, <2>3, <2>4, <1>2, <1>4, <1>5
<1>8. \A x \in Block : x \in DominatedBy(Block, Succs, Root, runner) <=> IsDom(runner, x)
  BY <1>4 DEF DominatedBy, IsDom, Dominates
<1>9. b \in Frontier(Block, Succs, Root, runner)
  <2>1. p \in DominatedBy(Block, Succs, Root, runner)
    BY <1>3, <1>6, <1>8
  <2>2. b = runner \/ b \notin DominatedBy(Block, Succs, Root, runner)
    BY <1>3, <1>7, <1>8
  <2> QED BY <2>1, <2>2, <1>3 DEF Frontier
<1> QED BY <1>2, <1>3, <1>4, <1>5, <1>9

\* The runner goes one step up.
LEMMA RunOnInv == ASSUME Inv, Run, runner # Dom(graph.blocks[i]) PROVE Inv'
<1>1. /\ pc = "runner" /\ pc' = pc /\ j' = j /\ i' = i /\ runner' = Dom(runner)
      /\ dom_frontier' = [dom_frontier EXCEPT ![runner] = @ \cup {graph.blocks[i]}]
      /\ graph' = graph /\ calls' = calls /\ visited' = visited /\ post_order' = post_order /\ bb2int' = bb2int
      /\ doms' = doms /\ changed' = changed /\ new_idom' = new_idom /\ finger1' = finger1 /\ finger2' = finger2
      /\ idom' = idom
  BY DEF Run, numbering, fingers
<1>2. PICK b, p, x : b = graph.blocks[i] /\ p = graph.pre[b][j] /\ x = runner
  OBVIOUS
<1>3. /\ x \in Block /\ b \in Block /\ Dom(x) \in Block /\ b \in Frontier(Block, Succs, Root, x)
      /\ Chain(x) = {x} \cup Chain(Dom(x)) /\ Dom(x) \in Chain(p)
  BY <1>1, <1>2, RunnerFrontier
<1>4. /\ i \in DOMAIN graph.blocks /\ JoinPoint(b) /\ j \in DOMAIN graph.pre[b]
      /\ Dom(b) \in Chain(x) /\ Dom(b) # x
      /\ \A a \in Block : a \in Chain(x) \/ Reported(i, j, a)
  BY <1>1, <1>2 DEF Inv, Frontiers, Running
<1>5. dom_frontier \in [Block -> SUBSET Block]
  BY DEF Inv, TypeOK
<1>6. /\ dom_frontier' \in [Block -> SUBSET Block]
      /\ \A a \in Block : dom_frontier[a] \subseteq dom_frontier'[a]
      /\ b \in dom_frontier'[x]
      /\ \A a \in Block : dom_frontier'[a] \subseteq Frontier(Block, Succs, Root, a)
  <2>1. \A a \in Block : dom_frontier'[a] = IF a = x THEN dom_frontier[a] \cup {b} ELSE dom_frontier[a]
    BY <1>1, <1>2, <1>3, <1>5
  <2>2. dom_frontier' \in [Block -> SUBSET Block]
    BY <1>1, <1>2, <1>3, <1>5
  <2>3. \A a \in Block : dom_frontier[a] \subseteq Frontier(Block, Succs, Root, a)
    BY <1>1, FrontFacts
  <2>4. /\ \A a \in Block : dom_frontier[a] \subseteq dom_frontier'[a]
        /\ b \in dom_frontier'[x]
    BY <2>1, <1>3
  <2>5. \A a \in Block : dom_frontier'[a] \subseteq Frontier(Block, Succs, Root, a)
    BY <2>1, <2>3, <1>3
  <2> QED BY <2>2, <2>4, <2>5
<1>7. /\ \A y : Chain(y)' = Chain(y)
      /\ \A y : Dom(y)' = Dom(y)
  BY <1>1, SameTable
<1>8. ASSUME NEW k \in DOMAIN graph.blocks, NEW m, NEW a \in Block, Reported(k, m, a) PROVE Reported(k, m, a)'
  BY <1>1, <1>6, <1>7, <1>8 DEF Reported
<1>9. AllReported'
  <2>1. \A k, m : Entered(k, m)' <=> Entered(k, m)
    BY <1>1 DEF Entered
  <2> QED BY <2>1, <1>1, <1>8, FrontFacts DEF AllReported, JoinPoint
<1>10. Running'
  <2>1. PICK y \in Block : y = Dom(x)
    BY <1>3
  <2>2. \A a \in Block : a \in Chain(y) \/ Reported(i, j, a)'
    <3> SUFFICES ASSUME NEW a \in Block, a \notin Chain(y) PROVE Reported(i, j, a)'
      OBVIOUS
    <3>1. CASE a = x
      BY <3>1, <1>1, <1>2, <1>6 DEF Reported
    <3>2. CASE a # x
      <4>1. Reported(i, j, a)
        BY <3>2, <2>1, <1>3, <1>4
      <4> QED BY <4>1, <1>1, <1>6, <1>7 DEF Reported
    <3> QED BY <3>1, <3>2
  <2>3. runner' = y /\ Chain(runner)' = Chain(y)
    BY <2>1, <1>1, <1>2, <1>7
  <2>4. y \in Chain(p) /\ Dom(b) \in Chain(y)
    BY <2>1, <1>3, <1>4
  <2> QED BY <2>2, <2>3, <2>4, <1>1, <1>2, <1>4, <1>7 DEF Running, JoinPoint
<1>11. i' \in Nat \ {0} /\ j' \in Nat \ {0} /\ runner' \in Block \cup {Null}
  BY <1>1, <1>2, <1>3, FrontFacts
<1> QED BY <1>1, <1>6, <1>9, <1>10, <1>11, FrontStep

LEMMA NextJoinInv == ASSUME Inv, NextJoin PROVE Inv'
<1>1. /\ pc = "front" /\ pc' = pc /\ i <= Len(graph.blocks) /\ i' = i + 1 /\ j' = 1 /\ runner' = runner
      /\ ~JoinPoint(graph.blocks[i]) \/ j > Len(graph.pre[graph.blocks[i]])
      /\ graph' = graph /\ calls' = calls /\ visited' = visited /\ post_order' = post_order /\ bb2int' = bb2int
      /\ doms' = doms /\ changed' = changed /\ new_idom' = new_idom /\ finger1' = finger1 /\ finger2' = finger2
      /\ idom' = idom /\ dom_frontier' = dom_frontier
  BY DEF NextJoin, numbering, fingers, result
<1>2. AllReported'
  <2>1. \A k, m, a : Reported(k, m, a)' <=> Reported(k, m, a)
    BY <1>1, SameTable DEF Reported
  <2> SUFFICES ASSUME NEW k \in DOMAIN graph.blocks, JoinPoint(graph.blocks[k]),
                      NEW m \in DOMAIN graph.pre[graph.blocks[k]], Entered(k, m)', NEW a \in Block
               PROVE  Reported(k, m, a)
    BY <1>1, <2>1 DEF AllReported, JoinPoint
  <2>2. graph.pre[graph.blocks[k]] \in Seq(Block) /\ k \in Nat
    BY <1>1, FrontFacts, GraphFacts
  <2>3. m \in Nat \ {0} /\ m <= Len(graph.pre[graph.blocks[k]]) /\ Len(graph.pre[graph.blocks[k]]) \in Nat
    BY <2>2
  <2>4. Entered(k, m)
    BY <1>1, <2>2, <2>3, FrontFacts DEF Entered
  <2> QED BY <2>4, <1>1, FrontFacts DEF AllReported
<1>3. /\ i' \in Nat \ {0} /\ j' \in Nat \ {0} /\ dom_frontier' \in [Block -> SUBSET Block] /\ runner' \in Block \cup {Null}
      /\ \A a \in Block : dom_frontier'[a] \subseteq Frontier(Block, Succs, Root, a)
  BY <1>1, FrontFacts DEF Inv, TypeOK
<1> QED BY <1>1, <1>2, <1>3, FrontStep

LEMMA ReturnInv == ASSUME Inv, Return PROVE Inv'
<1>1. /\ pc = "front" /\ pc' = "done" /\ i > Len(graph.blocks) /\ i' = i /\ j' = j /\ runner' = runner
      /\ graph' = graph /\ calls' = calls /\ visited' = visited /\ post_order' = post_order /\ bb2int' = bb2int
      /\ doms' = doms /\ changed' = changed /\ new_idom' = new_idom /\ finger1' = finger1 /\ finger2' = finger2
      /\ idom' = idom /\ dom_frontier' = dom_frontier
  BY DEF Return, numbering, fingers, result
<1>2. AllReported'
  <2>1. \A k, m, a : Reported(k, m, a)' <=> Reported(k, m, a)
    BY <1>1, SameTable DEF Reported
  <2>2. \A k, m : Entered(k, m)' <=> Entered(k, m)
    BY <1>1 DEF Entered
  <2> QED BY <2>1, <2>2, <1>1, FrontFacts DEF AllReported, JoinPoint
<1>3. /\ i' \in Nat \ {0} /\ j' \in Nat \ {0} /\ dom_frontier' \in [Block -> SUBSET Block] /\ runner' \in Block \cup {Null}
      /\ \A a \in Block : dom_frontier'[a] \subseteq Frontier(Block, Succs, Root, a)
  BY <1>1, FrontFacts DEF Inv, TypeOK
<1> QED BY <1>1, <1>2, <1>3, FrontStep

-----------------------------------------------------------------------------
(* The theorems.                                                           *)

LEMMA NextInv == ASSUME Inv, [Next]_vars PROVE Inv'
<1>1. CASE Child \/ Number \/ StartIdom
  BY <1>1, ChildInv, NumberInv, StartIdomInv
<1>2. CASE SkipRoot \/ PickIdom \/ MeetPred \/ Climb1 \/ Climb2 \/ Met \/ AssignIdom
  BY <1>2, SkipRootInv, PickIdomInv, MeetPredInv, ClimbInv, MetInv, AssignIdomInv
<1>3. CASE PassDone
  BY <1>3, NextPassInv, LastPassInv
<1>4. CASE StartRunner \/ Run \/ NextJoin \/ Return
  BY <1>4, StartRunnerInv, RunOverInv, RunOnInv, NextJoinInv, ReturnInv
<1>5. CASE UNCHANGED vars
  <2>1. /\ graph' = graph /\ pc' = pc /\ calls' = calls /\ visited' = visited /\ post_order' = post_order
        /\ bb2int' = bb2int /\ doms' = doms /\ changed' = changed /\ i' = i /\ j' = j /\ new_idom' = new_idom
        /\ finger1' = finger1 /\ finger2' = finger2 /\ runner' = runner /\ idom' = idom /\ dom_frontier' = dom_frontier
    BY <1>5 DEF vars
  <2>2. TypeOK' /\ graph' \in Graphs /\ NumbersByPlace'
        /\ (pc' = "post_order" => \A b \in Block : idom'[b] = Null /\ dom_frontier'[b] = {})
    BY <2>1 DEF Inv, TypeOK, NumbersByPlace
  <2>3. Numbering' /\ Numbered'
    BY <2>1 DEF Inv, Numbering, VisitedOnce, StackIsPath, ChildrenVisited, EntryAbove, OnStack, IsNumbered, Numbered, Above
  <2>4. Iteration'
    <3>1. CASE pc \in {"pass", "preds", "intersect"}
      BY <2>1, <3>1, IterationStays DEF Inv
    <3>2. CASE pc \notin {"pass", "preds", "intersect"}
      BY <2>1, <3>2 DEF Iteration
    <3> QED BY <3>1, <3>2
  <2>5. Meeting'
    <3>1. Idle
      BY <2>1 DEF Idle
    <3>2. /\ Cur' = Cur /\ \A x : Candidate(x)' <=> Candidate(x)
          /\ \A x : (Known(x)' <=> Known(x)) /\ Chain(x)' = Chain(x)
      BY <3>1, IdleFacts
    <3>3. Meeting
      BY DEF Inv
    <3>4. PICK x, y, z : x = new_idom /\ y = finger1 /\ z = finger2
      OBVIOUS
    <3>5. /\ Candidate(new_idom)' <=> Candidate(new_idom)
          /\ Candidate(finger1)' <=> Candidate(finger1)
          /\ Candidate(finger2)' <=> Candidate(finger2)
      BY <2>1, <3>2, <3>4
    <3> QED BY <2>1, <3>2, <3>3, <3>5 DEF Meeting
  <2>6. Frontiers'
    <3>1. Frontiers
      BY DEF Inv
    <3>2. /\ \A x : Dom(x)' = Dom(x) /\ (Known(x)' <=> Known(x)) /\ Chain(x)' = Chain(x)
          /\ Table' = Table
          /\ \A a, x : (IsDom(a, x)' <=> IsDom(a, x)) /\ (IsPred(a, x)' <=> IsPred(a, x))
      BY <2>1, SameTable
    <3>3. Climbs(Table, bb2int)' <=> Climbs(Table, bb2int)
      BY <2>1, <3>2 DEF Climbs
    <3>4. /\ \A k, m : Entered(k, m)' <=> Entered(k, m)
          /\ \A k, m, a : Reported(k, m, a)' <=> Reported(k, m, a)
      BY <2>1, <3>2 DEF Entered, Reported
    <3>5. AllReported' <=> AllReported
      BY <2>1, <3>4 DEF AllReported, JoinPoint
    <3>6. Running' <=> Running
      BY <2>1, <3>2 DEF Running, Reported, JoinPoint
    <3>7. Succs' = Succs
      BY <2>1 DEF Succs
    <3> QED BY <2>1, <3>1, <3>2, <3>3, <3>5, <3>6, <3>7 DEF Frontiers
  <2> QED BY <2>2, <2>3, <2>4, <2>5, <2>6 DEF Inv
<1> QED BY <1>1, <1>2, <1>3, <1>4, <1>5 DEF Next, Finished

LEMMA Invariance == Spec => []Inv
<1>1. Inv /\ [Next]_vars => Inv'
  BY NextInv
<1> QED BY InitInv, <1>1, PTL DEF Spec

\* What the invariant says of the numbers: one for each block, up to the
\* root's.
LEMMA NumbersFit == ASSUME Inv PROVE NumbersExact
<1> SUFFICES ASSUME pc # "post_order"
             PROVE  {bb2int[b] : b \in Block} = 0..bb2int[Root] /\ Cardinality(Block) = bb2int[Root] + 1
  BY DEF NumbersExact
<1>1. TypeOK /\ Numbered /\ NumbersByPlace
  BY DEF Inv
<1>2. post_order \in Seq(Block) /\ Len(post_order) \in Nat /\ DOMAIN post_order = 1..Len(post_order)
  BY <1>1 DEF TypeOK
<1>3. /\ bb2int \in [Block -> Nat] /\ Len(post_order) = bb2int[Root] + 1 /\ bb2int[Root] \in Nat
      /\ \A b \in Block : bb2int[b] + 1 \in DOMAIN post_order /\ post_order[bb2int[b] + 1] = b
  BY <1>1, RootIsBlock DEF TypeOK, Numbered
<1>4. \A k \in DOMAIN post_order : bb2int[post_order[k]] = k - 1 /\ post_order[k] \in Block
  BY <1>1, <1>2 DEF NumbersByPlace
<1>5. {bb2int[b] : b \in Block} = 0..bb2int[Root]
  <2>1. \A b \in Block : bb2int[b] \in 0..bb2int[Root]
    BY <1>2, <1>3
  <2>2. ASSUME NEW n \in 0..bb2int[Root] PROVE \E b \in Block : bb2int[b] = n
    <3>1. n + 1 \in DOMAIN post_order /\ (n + 1) - 1 = n
      BY <1>2, <1>3
    <3> QED BY <3>1, <1>4
  <2> QED BY <2>1, <2>2
<1>6. Cardinality(Block) = Len(post_order)
  <2>1. post_order \in [1..Len(post_order) -> Block]
    BY <1>2
  <2>2. \A k, m \in 1..Len(post_order) : post_order[k] = post_order[m] => k = m
    <3> SUFFICES ASSUME NEW k \in 1..Len(post_order), NEW m \in 1..Len(post_order), post_order[k] = post_order[m]
                 PROVE  k = m
      OBVIOUS
    <3>1. k - 1 = m - 1
      BY <1>2, <1>4
    <3> QED BY <3>1
  <2>3. \A b \in Block : \E k \in 1..Len(post_order) : post_order[k] = b
    BY <1>2, <1>3
  <2>4. post_order \in Bijection(1..Len(post_order), Block)
    BY <2>1, <2>2, <2>3, Fun_IsBij
  <2>5. ExistsBijection(1..Len(post_order), Block)
    BY <2>4, Fun_ExistsBij
  <2> QED BY <2>5, <1>2, FS_CountingElements
<1> QED BY <1>3, <1>5, <1>6

\* At every moment the tables of the pass are sound: the numbers are a
\* bijection, no pointer that intersect or the runner follows is null, known
\* dominators have higher numbers, and no true dominator is ever lost
\* (get_bb_idom, intersect and get_bb_dom_front in DominateTree.cpp).
THEOREM TablesAlwaysSound == Spec => []TablesSound
<1>1. Inv => TablesSound
  <2> SUFFICES ASSUME Inv PROVE TablesSound
    OBVIOUS
  <2>1. TypeOK /\ NumbersExact
    BY NumbersFit DEF Inv
  <2>2. NoNullPointer
    <3>1. pc = "intersect" => Null \notin {finger1, finger2}
      BY FingerFacts, RootIsBlock
    <3>2. ASSUME pc = "runner" PROVE runner # Null
      <4>1. Running /\ Climbs(Table, bb2int)
        BY <3>2, FrontFacts DEF Inv, Frontiers
      <4>2. graph.pre[graph.blocks[i]][j] \in Block
        BY <3>2, <4>1, JoinFacts DEF Running
      <4> QED BY <4>1, <4>2, ChainFacts, RootIsBlock DEF Running
    <3> QED BY <3>1, <3>2 DEF NoNullPointer
  <2>3. pc # "post_order" => Climbs(Table, bb2int)
    BY PassFacts, FrontFacts DEF Inv, TypeOK
  <2>4. DomsClimb
    BY <2>3, ChainFacts DEF DomsClimb, Known
  <2>5. DominatorsOnChain
    <3> SUFFICES ASSUME pc \in {"pass", "preds", "intersect"}, NEW b \in Block, Known(b), NEW a \in Block, IsDom(a, b)
                 PROVE  a \in Chain(b)
      BY DEF DominatorsOnChain, Known, IsDom, Succs
    <3> QED BY PassFacts, OnChain
  <2> QED BY <2>1, <2>2, <2>4, <2>5 DEF TablesSound
<1> QED BY <1>1, Invariance, PTL

\* A known dominator is replaced only by a block above it on its own chain
\* (the assignment in the loop of get_bb_idom).
THEOREM OnlyRise == Spec => DomsOnlyRise
<1> DEFINE Rise == pc = "preds" => \A b \in Block : Dom(b) # Null /\ doms'[Num(b)] # Dom(b) =>
                                     doms'[Num(b)] \in Chain(Dom(b)) \ {Dom(b)}
<1>1. Inv /\ [Next]_vars => [Rise]_vars
  <2> SUFFICES ASSUME Inv, Next, pc = "preds", NEW b \in Block, Dom(b) # Null, doms'[Num(b)] # Dom(b)
               PROVE  doms'[Num(b)] \in Chain(Dom(b)) \ {Dom(b)}
    OBVIOUS
  <2>1. Next => doms' = doms \/ (AssignIdom /\ doms' = [doms EXCEPT ![Num(Cur)] = new_idom])
    BY DEF Next, Child, Number, StartIdom, SkipRoot, PickIdom, MeetPred, Climb1, Climb2, Met, AssignIdom,
           PassDone, StartRunner, Run, NextJoin, Return, Finished, vars, Cur
  <2>2. AssignIdom /\ doms' = [doms EXCEPT ![Num(Cur)] = new_idom]
    BY <2>1 DEF Dom
  <2>3. j > Len(graph.pre[Cur])
    BY <2>2 DEF AssignIdom, Cur
  <2>4. /\ doms \in [0..bb2int[Root] -> Block \cup {Null}] /\ Cur \in Block
        /\ \A x \in Block : Num(x) = bb2int[x] /\ bb2int[x] \in 0..bb2int[Root]
        /\ \A x, y \in Block : bb2int[x] = bb2int[y] => x = y
    <3>1. TypeOK /\ Numbered
      BY PassFacts
    <3> QED BY <3>1, TableType, NumbersDiffer, MeetingFacts DEF TypeOK, Numbered
  <2>5. b = Cur /\ doms'[Num(b)] = new_idom
    BY <2>2, <2>4 DEF Dom
  <2>6. Known(Cur)
    BY <2>5 DEF Known
  <2>7. new_idom \in Chain(Dom(Cur))
    BY <2>3, <2>6, AssignFacts
  <2> QED BY <2>5, <2>7
<1> QED BY <1>1, Invariance, PTL DEF Spec, DomsOnlyRise

-----------------------------------------------------------------------------
(* The refinement.                                                         *)

\* The definitions of Cfg that Dominance brings along are those of Cfg.
LEMMA SameCfg ==
  ASSUME NEW N, NEW S, NEW r, NEW a, NEW b
  PROVE  /\ Promise!IdomOf(N, S, r, b) = IdomOf(N, S, r, b)
         /\ Promise!Frontier(N, S, r, a) = Frontier(N, S, r, a)
<1>1. \A M : Promise!ReachIn(M, S, r) = ReachIn(M, S, r)
  BY DEF Promise!ReachIn, ReachIn
<1>2. \A x, y : Promise!Dominates(N, S, r, x, y) <=> Dominates(N, S, r, x, y)
  BY <1>1 DEF Promise!Dominates, Dominates
<1>3. \A y : Promise!StrictDoms(N, S, r, y) = StrictDoms(N, S, r, y)
  BY <1>2 DEF Promise!StrictDoms, StrictDoms
<1>4. \A x : Promise!DominatedBy(N, S, r, x) = DominatedBy(N, S, r, x)
  BY <1>1 DEF Promise!DominatedBy, DominatedBy
<1>5. Promise!IdomOf(N, S, r, b) = IdomOf(N, S, r, b)
  BY <1>2, <1>3 DEF Promise!IdomOf, IdomOf
<1>6. Promise!Frontier(N, S, r, a) = Frontier(N, S, r, a)
  BY <1>4 DEF Promise!Frontier, Frontier
<1> QED BY <1>5, <1>6

\* Once the table is the dominance relation, a block's entry in it is its
\* immediate dominator.
LEMMA TableIsIdoms ==
  ASSUME Climbs(Table, bb2int), \A b \in Block : Known(b), \A a, b \in Block : a \in Chain(b) <=> IsDom(a, b)
  PROVE  Table = Promise!Idoms
<1> SUFFICES ASSUME NEW b \in Block \ {Root} PROVE Dom(b) = IdomOf(Block, Succs, Root, b)
  <2>1. Promise!Idoms = [b \in Block |-> IF b = Root THEN Root ELSE IdomOf(Block, Succs, Root, b)]
    BY SameCfg DEF Promise!Idoms, Succs
  <2> QED BY <2>1, ChainFacts DEF Table
<1> DEFINE doms_b == StrictDoms(Block, Succs, Root, b)
<1>1. /\ Dom(b) \in Block /\ Chain(b) = {b} \cup Chain(Dom(b)) /\ Dom(b) \in Chain(Dom(b))
      /\ Chain(b) \subseteq Block /\ bb2int[Dom(b)] > bb2int[b] /\ bb2int \in [Block -> Nat]
  BY ChainFacts DEF Climbs
<1>2. b \notin Chain(Dom(b))
  <2> SUFFICES ASSUME b \in Chain(Dom(b)) PROVE FALSE
    OBVIOUS
  <2>1. b = Dom(b) \/ bb2int[b] > bb2int[Dom(b)]
    BY <1>1, ChainFacts
  <2> QED BY <2>1, <1>1
<1>3. doms_b = {a \in Block \ {b} : IsDom(a, b)}
  BY DEF StrictDoms, IsDom
<1>4. \A a : a \in doms_b <=> a \in Chain(Dom(b))
  BY <1>1, <1>2, <1>3
<1> HIDE DEF doms_b
<1>5. \A d \in doms_b : IsDom(d, Dom(b))
  BY <1>1, <1>4
<1>6. ASSUME NEW a \in doms_b, \A d \in doms_b : IsDom(d, a) PROVE a = Dom(b)
  <2>1. a \in Block /\ Dom(b) \in Chain(a) /\ a \in Chain(Dom(b))
    BY <1>1, <1>4, <1>6
  <2>2. (Dom(b) = a \/ bb2int[Dom(b)] > bb2int[a]) /\ (a = Dom(b) \/ bb2int[a] > bb2int[Dom(b)])
    BY <2>1, <1>1, ChainFacts
  <2> QED BY <2>1, <2>2, <1>1
<1>7. Dom(b) = CHOOSE a \in doms_b : \A d \in doms_b : IsDom(d, a)
  BY <1>1, <1>4, <1>5, <1>6
<1> QED BY <1>7 DEF IdomOf, IsDom, doms_b

\* The only predecessor of a block is not the block.
LEMMA OnlyPred ==
  ASSUME Inv, pc # "post_order", NEW b \in Block \ {Root}, NEW p \in Block, \A q \in Block : IsPred(q, b) => q = p
  PROVE  p # b
<1>1. PICK q \in Block : Above(q, b)
  BY DEF Inv, Numbered
<1>2. IsPred(q, b) /\ bb2int[q] > bb2int[b] /\ bb2int \in [Block -> Nat]
  BY <1>1, GraphFacts DEF Inv, Above, TypeOK
<1> QED BY <1>2

\* A block on the frontier of a has several predecessors.
LEMMA FrontierJoins ==
  ASSUME Inv, pc = "front", NEW a \in Block, NEW b \in Frontier(Block, Succs, Root, a)
  PROVE  /\ b \in Block \ {Root} /\ JoinPoint(b) /\ a \notin Chain(Dom(b))
         /\ \E m \in DOMAIN graph.pre[b] : a \in Chain(graph.pre[b][m])
<1>1. /\ Climbs(Table, bb2int) /\ graph \in Graphs /\ \A x \in Block : Known(x)
      /\ \A x, y \in Block : x \in Chain(y) <=> IsDom(x, y)
      /\ bb2int \in [Block -> Nat]
  BY FrontFacts DEF Climbs
<1>2. \A x \in Block : x \in DominatedBy(Block, Succs, Root, a) <=> IsDom(a, x)
  BY DEF DominatedBy, IsDom, Dominates
<1>3. PICK p \in Block : b \in Block /\ b \in Succs[p] /\ IsDom(a, p) /\ (b = a \/ ~IsDom(a, b))
  <2>1. DominatedBy(Block, Succs, Root, a) \subseteq Block
    BY DEF DominatedBy
  <2> QED BY <2>1, <1>2 DEF Frontier
<1>4. IsPred(p, b) /\ a \in Chain(p)
  BY <1>1, <1>3, GraphFacts DEF Succs
<1>5. b # Root
  BY <1>1, <1>3, <1>4, GraphFacts
<1>6. a \notin Chain(Dom(b))
  <2> SUFFICES ASSUME a \in Chain(Dom(b)) PROVE FALSE
    OBVIOUS
  <2>1. Dom(b) \in Block /\ Chain(b) = {b} \cup Chain(Dom(b)) /\ bb2int[Dom(b)] > bb2int[b]
    BY <1>1, <1>3, <1>5, ChainFacts
  <2>2. b = a
    BY <2>1, <1>1, <1>3
  <2>3. a = Dom(b) \/ bb2int[a] > bb2int[Dom(b)]
    BY <2>1, <1>1, ChainFacts
  <2> QED BY <2>1, <2>2, <2>3, <1>1, <1>3
<1>7. PICK m \in DOMAIN graph.pre[b] : graph.pre[b][m] = p
  BY <1>4 DEF IsPred, ToSet
<1>8. JoinPoint(b)
  <2> SUFFICES ASSUME ~(Len(graph.pre[b]) >= 2) PROVE FALSE
    BY DEF JoinPoint
  <2>1. graph.pre[b] \in Seq(Block)
    BY <1>1, <1>3, GraphFacts
  <2>2. DOMAIN graph.pre[b] = {m}
    BY <2>1
  <2>3. \A q \in Block : IsPred(q, b) => q = p
    BY <2>2, <1>7 DEF IsPred, ToSet
  <2>4. IsDom(p, b)
    <3>1. \A q \in Block : b \in Succs[q] => q = p
      BY <2>3, <1>1, <1>3, GraphFacts DEF Succs
    <3>2. Dominates(Block, Succs, Root, p, p)
      BY DEF Dominates
    <3> QED BY <3>1, <3>2, <1>5, BlocksFinite, DomOfPreds DEF IsDom
  <2>5. IsDom(a, b)
    BY <2>4, <1>3, RootIsBlock, BlocksFinite, DomTrans DEF IsDom
  <2>6. b \in Chain(p) /\ p \in Chain(b)
    BY <2>4, <2>5, <1>1, <1>3, <1>4
  <2>7. (b = p \/ bb2int[b] > bb2int[p]) /\ (p = b \/ bb2int[p] > bb2int[b])
    BY <2>6, <1>1, <1>3, ChainFacts
  <2>8. p # b
    BY <2>3, <1>3, <1>5, OnlyPred
  <2> QED BY <2>7, <2>8, <1>1, <1>3
<1> QED BY <1>3, <1>4, <1>5, <1>6, <1>7, <1>8

\* When the loops have ended the frontiers are complete.
LEMMA FrontiersComplete ==
  ASSUME Inv, pc = "front", i > Len(graph.blocks)
  PROVE  dom_frontier = [a \in Block |-> Frontier(Block, Succs, Root, a)]
<1>1. dom_frontier \in [Block -> SUBSET Block]
  BY DEF Inv, TypeOK
<1>2. ASSUME NEW a \in Block PROVE dom_frontier[a] = Frontier(Block, Succs, Root, a)
  <2>1. dom_frontier[a] \subseteq Frontier(Block, Succs, Root, a)
    BY FrontFacts
  <2>2. ASSUME NEW b \in Frontier(Block, Succs, Root, a) PROVE b \in dom_frontier[a]
    <3>1. b \in Block /\ JoinPoint(b) /\ a \notin Chain(Dom(b))
      BY <2>2, FrontierJoins
    <3>2. PICK m \in DOMAIN graph.pre[b] : a \in Chain(graph.pre[b][m])
      BY <2>2, FrontierJoins
    <3>3. graph.blocks \in Seq(Block) /\ ToSet(graph.blocks) = Block /\ i \in Nat
      BY GraphFacts, FrontFacts DEF FlowGraph
    <3>4. PICK k \in DOMAIN graph.blocks : graph.blocks[k] = b
      BY <3>1, <3>3 DEF ToSet
    <3>5. k < i
      BY <3>3
    <3>6. Reported(k, m, a)
      BY <3>1, <3>4, <3>5, FrontFacts DEF AllReported, Entered
    <3> QED BY <3>1, <3>2, <3>4, <3>6 DEF Reported
  <2> QED BY <2>1, <2>2
<1> QED BY <1>1, <1>2

LEMMA PromisedInit == Init => Promise!Init
<1> SUFFICES ASSUME Init PROVE Promise!Init
  OBVIOUS
<1>1. graph \in Graphs /\ pc = "post_order" /\ idom = [b \in Block |-> Null] /\ dom_frontier = [b \in Block |-> {}]
  BY DEF Init
<1>2. Succs \in [Block -> SUBSET Block]
  <2> SUFFICES ASSUME NEW b \in Block PROVE ToSet(graph.succ[b]) \subseteq Block
    BY DEF Succs
  <2>1. graph.succ[b] \in Seq(Block)
    BY <1>1, GraphFacts
  <2> QED BY <2>1 DEF ToSet
<1>3. (pc = "done") = FALSE
  BY <1>1
<1> QED BY <1>1, <1>2, <1>3 DEF Promise!Init, Succs

\* Every step of the pass is one that Dominance allows, or nothing to it.
LEMMA PromisedStep == ASSUME Inv, [Next]_vars PROVE [Promise!Next]_Promise!vars
<1> DEFINE Stays == graph' = graph /\ idom' = idom /\ dom_frontier' = dom_frontier
                    /\ ((pc' = "done") <=> (pc = "done"))
<1>1. ASSUME Stays PROVE UNCHANGED Promise!vars
  <2>1. (pc' = "done") = (pc = "done")
    BY <1>1
  <2> QED BY <1>1, <2>1 DEF Promise!vars
<1>2. CASE Child \/ Number \/ StartIdom \/ SkipRoot \/ PickIdom
  <2>1. Stays
    BY <1>2 DEF Child, Number, StartIdom, SkipRoot, PickIdom, result
  <2> QED BY <1>1, <2>1
<1>3. CASE MeetPred \/ Climb1 \/ Climb2 \/ Met \/ AssignIdom
  <2>1. Stays
    BY <1>3 DEF MeetPred, Climb1, Climb2, Met, AssignIdom, result
  <2> QED BY <1>1, <2>1
<1>4. CASE PassDone
  <2>1. CASE changed
    <3>1. Stays
      BY <1>4, <2>1 DEF PassDone
    <3> QED BY <1>1, <3>1
  <2>2. CASE ~changed
    <3>1. /\ pc = "pass" /\ pc' = "front" /\ idom' = Table /\ graph' = graph /\ dom_frontier' = dom_frontier
      BY <1>4, <2>2 DEF PassDone, Table
    <3>2. Climbs(Table, bb2int) /\ idom[Root] = Null
      BY <3>1, PassFacts, RootIsBlock
    <3>3. Table = Promise!Idoms /\ Table[Root] = Root
      BY <1>4, <2>2, <3>2, Solved, TableIsIdoms DEF Climbs
    <3>4. (pc' = "done") = (pc = "done")
      BY <3>1
    <3>5. Promise!SetIdoms
      BY <3>1, <3>2, <3>3, <3>4 DEF Promise!SetIdoms
    <3> QED BY <3>5 DEF Promise!Next
  <2> QED BY <2>1, <2>2
<1>5. CASE StartRunner \/ NextJoin
  <2>1. Stays
    BY <1>5 DEF StartRunner, NextJoin, result
  <2> QED BY <1>1, <2>1
<1>6. CASE Run
  <2>1. CASE runner = Dom(graph.blocks[i])
    <3>1. Stays
      BY <1>6, <2>1 DEF Run
    <3> QED BY <1>1, <3>1
  <2>2. CASE runner # Dom(graph.blocks[i])
    <3>1. /\ pc = "runner" /\ pc' = pc /\ graph' = graph /\ idom' = idom
          /\ dom_frontier' = [dom_frontier EXCEPT ![runner] = @ \cup {graph.blocks[i]}]
      BY <1>6, <2>2 DEF Run
    <3>2. PICK a, b \in Block : a = runner /\ b = graph.blocks[i] /\ b \in Frontier(Block, Succs, Root, a)
      BY <2>2, <3>1, RunnerFrontier
    <3>3. idom[Root] # Null
      BY <3>1, FrontFacts, RootIsBlock DEF Climbs
    <3>4. b \in Promise!Frontier(Block, Succs, Root, a)
      BY <3>2, SameCfg
    <3>5. (pc' = "done") = (pc = "done")
      BY <3>1
    <3>6. dom_frontier' = [dom_frontier EXCEPT ![a] = @ \cup {b}]
      BY <3>1, <3>2
    <3>7. Promise!AddFrontier(a, b)
      BY <3>1, <3>3, <3>4, <3>5, <3>6 DEF Promise!AddFrontier, Succs
    <3> QED BY <3>7 DEF Promise!Next
  <2> QED BY <2>1, <2>2
<1>7. CASE Return
  <2>1. /\ pc = "front" /\ pc' = "done" /\ graph' = graph /\ idom' = idom /\ dom_frontier' = dom_frontier
        /\ i > Len(graph.blocks)
    BY <1>7 DEF Return, result
  <2>2. idom[Root] # Null
    BY <2>1, FrontFacts, RootIsBlock DEF Climbs
  <2>3. dom_frontier = [a \in Block |-> Promise!Frontier(Block, Succs, Root, a)]
    BY <2>1, FrontiersComplete, SameCfg
  <2>4. (pc' = "done") = TRUE
    BY <2>1
  <2>5. Promise!Return
    BY <2>1, <2>2, <2>3, <2>4 DEF Promise!Return, Succs
  <2> QED BY <2>5 DEF Promise!Next
<1>8. CASE UNCHANGED vars
  BY <1>1, <1>8 DEF vars
<1> QED BY <1>2, <1>3, <1>4, <1>5, <1>6, <1>7, <1>8 DEF Next, Finished

\* The pass implements Dominance, if it ends, which is left to TLC: it sets the
\* immediate dominators, adds only blocks that belong to a frontier, and returns
\* with all of them (DominateTree::execute).
THEOREM Implements == Spec /\ <>(pc = "done") => ImplementsDominance
<1>1. Inv /\ [Next]_vars => [Promise!Next]_Promise!vars
  BY PromisedStep
<1> QED BY PromisedInit, <1>1, Invariance, PTL DEF Spec, ImplementsDominance, Promise!Spec, Promise!Safety
=============================================================================
