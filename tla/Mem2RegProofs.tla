---------------------------- MODULE Mem2RegProofs ----------------------------
(***************************************************************************)
(* Proofs about Mem2Reg, for every function and any sets of blocks and     *)
(* variables: no operand is ever lost, the stacks of values balance, what  *)
(* the pass leaves is in SSA form with complete phis, and it computes what *)
(* the function that was given did.                                        *)
(***************************************************************************)
EXTENDS Mem2RegMeaning, CfgProofs, SequenceTheorems, TLAPS

End(p, b) == Len(p.code[b]) + 1
Edge(p, a, b) == b \in ToSet(p.succ[a])
Dom(p, a, b) == Dominates(Block, Edges(p), Root, a, b)

StoreAt(p, b, m, v) == m \in DOMAIN p.code[b] /\ p.code[b][m].op = "store" /\ p.code[b][m].var = v
LoadAt(p, b, m, v)  == m \in DOMAIN p.code[b] /\ p.code[b][m].op = "load" /\ p.code[b][m].var = v
CallAt(p, b, m)     == m \in DOMAIN p.code[b] /\ p.code[b][m].op = "call"

\* What insideBlockForwarding takes out of a block: a load behind a store, and
\* a store before a store.
LocalLoad(p, b, m) == \E v \in Var : LoadAt(p, b, m, v) /\ StoreBefore(p, b, m, v)
Overwritten(p, b, m) == \E v \in Var : StoreAt(p, b, m, v) /\ \E n \in Nat : m < n /\ StoreAt(p, b, n, v)

\* A load or call that block b keeps, before place k.
KeptAt(p, b, k, j) ==
  /\ j \in Nat /\ j < k
  /\ CallAt(p, b, j) \/ \E v \in Var : LoadAt(p, b, j, v) /\ ~LocalLoad(p, b, j)
Kept(p, b, k) == {<<b, j>> : j \in {j \in Nat : KeptAt(p, b, k, j)}}

-----------------------------------------------------------------------------
(* Invariants of insideBlockForwarding.                                    *)

ForwardedBlocks == {source.blocks[n] : n \in 1..(next - 1)}

LastStoreAt(p, b, k, v, m) == StoreAt(p, b, m, v) /\ m < k /\ \A n \in Nat : m < n /\ n < k => ~StoreAt(p, b, n, v)

LastDefined(b, v) ==
  /\ defined_list[v] = Null => ~StoreBefore(source, b, at, v)
  /\ defined_list[v] # Null =>
       /\ \E m \in Nat : defined_list[v] = <<b, m>> /\ LastStoreAt(source, b, at, v, m)
       /\ new_value[v] \in Kept(source, b, at)

ScanState(b) ==
  /\ at <= End(source, b)
  /\ \A v \in Var : LastDefined(b, v)
  /\ \A x \in delete_list : \E m \in Nat : x = <<b, m>> /\ Overwritten(source, b, m)
  /\ \A f \in forward_list : \E m \in Nat :
       f[1] = <<b, m>> /\ m < at /\ LocalLoad(source, b, m) /\ f[2] \in Kept(source, b, m)
  /\ \A m \in Nat : m < at /\ LocalLoad(source, b, m) => \E f \in forward_list : f[1] = <<b, m>>

Untouched(b) ==
  \A k \in DOMAIN code[b] : <<b, k>> \notin deleted /\ operand[b][k] = code[b][k].val

\* Before valueForwarding, and before genPhi.
Fresh ==
  /\ visited = {} /\ calls = <<>>
  /\ \A p \in Phi : pairs[p] = {}
  /\ \A v \in Var : value_status[v] = <<>>

Unplaced == todo = {} /\ queue = <<>> /\ \A b \in Block : phis[b] = {}

ScanInv ==
  /\ next <= Len(source.blocks) => ScanState(Scanned)
  /\ next <= Len(source.blocks) + 1
  /\ next > Len(source.blocks) => at = 1
  /\ \A b \in Block \ ForwardedBlocks : Untouched(b)

-----------------------------------------------------------------------------
(* Invariants of the lists and operands.                                   *)

Renamed(b, j) == b \in visited /\ (pc = "rename" /\ b = Current => j < at)
Left == visited \ ToSet(calls)

LocalVarOp(p, b, k) == k \in DOMAIN p.code[b] /\ isLocalVarOp(p.code[b][k])

Lists ==
  /\ \A x \in deleted : \E b \in Block : \E k \in Nat :
       x = <<b, k>> /\ LocalVarOp(source, b, k)
         /\ (b \in Left \/ LocalLoad(source, b, k) \/ Overwritten(source, b, k))
  /\ \A b \in ForwardedBlocks : \A k \in Nat : LocalLoad(source, b, k) => <<b, k>> \in deleted
  /\ \A b \in Left : \A k \in Nat : LocalVarOp(source, b, k) => <<b, k>> \in deleted
  /\ pc # "forward" => ForwardedBlocks = Block

IsDefinition(x) == x \in Phis \/ \E b \in Block : \E j \in Nat : x = <<b, j>> /\ CallAt(source, b, j)

\* A definition that is at hand before place k of b.
AtHand(x, b, k) == IsDefinition(x) /\ Dom(source, x[1], b) /\ (x[1] = b /\ x \notin Phi => x[2] < k)

\* A load of the block that valueForwarding has not reached.
Waiting(x, b, k) ==
  \E j \in Nat : x = <<b, j>> /\ KeptAt(source, b, k, j) /\ ~CallAt(source, b, j) /\ ~Renamed(b, j)

Uses(p, b, k) == k \in DOMAIN p.code[b] /\ p.code[b][k].op \in {"store", "out"}

OperandsOK ==
  \A b \in ForwardedBlocks : \A k \in DOMAIN code[b] :
    IF Uses(source, b, k) THEN AtHand(operand[b][k], b, k) \/ Waiting(operand[b][k], b, k)
                          ELSE operand[b][k] = Null

-----------------------------------------------------------------------------
(* Invariants of genPhi.                                                   *)

GlobalVar(p, v) == \E b \in Block : \E k \in Nat : LoadAt(p, b, k, v) /\ ~StoreBefore(p, b, k, v)
DefBlock(b, v) == StoreIn(source, b, v) \/ v \in phis[b]

\* The frontiers of all definitions of v have phis.
PhiClosed(v) ==
  \A b \in Block : DefBlock(b, v) =>
    (\A c \in dom_frontier(b) : v \in phis[c]) \/ (v = var /\ b \in ToSet(queue))

Justified(p, b, v) == \E a \in Block : Edge(p, a, b) /\ Reached(p, a, End(p, a), v)

PlacingInv ==
  /\ queue # <<>> => var \in Var \ todo /\ PhiClosed(var) /\ \A b \in ToSet(queue) : DefBlock(b, var)
  /\ \A v \in todo : \A b \in Block : v \notin phis[b]
  /\ \A v \in Var : GlobalVar(source, v) => v \in todo \/ PhiClosed(v)
  /\ \A b \in Block : \A v \in phis[b] : PhiClosed(v) /\ Justified(source, b, v)

\* The worklist is done.
ClosedPhis(v) ==
  \A d \in Block : DefBlock(d, v) =>
    Frontier(Block, Edges(source), Root, d) \subseteq {c \in Block : v \in phis[c]}

PlacedInv ==
  /\ \A v \in Var : GlobalVar(source, v) => ClosedPhis(v)
  /\ \A b \in Block : \A v \in phis[b] : ClosedPhis(v) /\ Justified(source, b, v)

-----------------------------------------------------------------------------
(* Invariants of valueForwarding.                                          *)

PathInv ==
  /\ pc \in {"rename", "walk"} => calls # <<>> /\ calls[1] = Root
  /\ pc = "rename" => at <= End(source, Current)
  /\ pc \in {"remove", "done"} => calls = <<>> /\ Root \in visited
  /\ \A i, j \in DOMAIN calls : calls[i] = calls[j] => i = j
  /\ ToSet(calls) \subseteq visited
  /\ \A i \in 1..(Len(calls) - 1) : Edge(source, calls[i], calls[i + 1])
  /\ \A b \in Left : succ(b) \subseteq visited

\* The definitions of v in an open call, and in the outermost m of them.
Tokens(b, v) ==
  (IF v \in phis[b] THEN {0} ELSE {}) \cup {k \in Stores(b, v) : pc = "rename" /\ b = Current => k < at}
TokenSets(v) == [b \in Block |-> Tokens(b, v)]
Open(s, T, m) == UNION {{<<s[i], t>> : t \in T[s[i]]} : i \in 1..m}
Height(m, v) == Cardinality(Open(calls, TokenSets(v), m))

\* The place that the call m has come to.
Place(m) == IF pc = "rename" /\ m = Len(calls) THEN at ELSE End(source, calls[m])

\* What an open call has pushed is at hand where that call is.
StackHeights == \A v \in Var : Len(value_status[v]) = Height(Len(calls), v)
StackValues ==
  \A v \in Var : \A m \in 1..Len(calls) : \A j \in DOMAIN value_status[v] :
    Height(m - 1, v) < j /\ j <= Height(m, v) => AtHand(value_status[v][j], calls[m], Place(m))
DefineCounts == \A b \in Block \ Left : \A v \in Var : define_var[b][v] = Defines(b, v)

StackInv == StackHeights /\ StackValues /\ (pc \in {"rename", "walk"} => DefineCounts)

Filled == visited \ (IF pc = "rename" THEN {Current} ELSE {})

\* The pairs of a phi are those of the blocks that the walk is done with.
PhiFilled(p) ==
  /\ \A q \in pairs[p] : /\ IsDefinition(q[1]) /\ Dom(source, q[1][1], q[2])
                         /\ q[2] \in Filled /\ Edge(source, q[2], p[1])
                         /\ Reached(source, q[2], End(source, q[2]), p[2])
  /\ \A q, r \in pairs[p] : q[2] = r[2] => q = r
  /\ \A b \in Filled : Edge(source, b, p[1]) /\ Reached(source, b, End(source, b), p[2]) =>
       \E q \in pairs[p] : q[2] = b

PairsInv == \A p \in Phi : IF p \in Phis THEN PhiFilled(p) ELSE pairs[p] = {}

AllocasInv == pc # "done" => allocas = Var

Inv ==
  /\ source \in Programs
  /\ TypeOK /\ Lists /\ OperandsOK /\ AllocasInv
  /\ pc = "forward" => ScanInv /\ Unplaced
  /\ pc = "phis" => PlacingInv
  /\ pc \in {"forward", "phis"} => Fresh
  /\ pc \notin {"forward", "phis"} => PlacedInv /\ PathInv /\ StackInv /\ PairsInv

-----------------------------------------------------------------------------
(* The functions the pass is given.                                        *)

LEMMA Blocks ==
  ASSUME NEW p \in Programs
  PROVE  /\ p.blocks \in Seq(Block)
         /\ \A b \in Block : \E n \in 1..Len(p.blocks) : p.blocks[n] = b
         /\ \A m, n \in 1..Len(p.blocks) : p.blocks[m] = p.blocks[n] => m = n
<1>1. p.blocks \in Seq(Block) /\ ToSet(p.blocks) = Block /\ IsInjective(p.blocks)
  BY ProgramsAssumption DEF Function
<1>2. DOMAIN p.blocks = 1..Len(p.blocks)
  BY <1>1, LenProperties
<1> QED
  BY <1>1, <1>2 DEF ToSet, IsInjective

LEMMA Graph ==
  ASSUME NEW p \in Programs
  PROVE  /\ p.succ \in [Block -> Seq(Block)]
         /\ ReachIn(Block, Edges(p), Root) = Block
         /\ \A a, b : a \in Block /\ Edge(p, a, b) => b \in Block /\ b # Root
         /\ \A a \in Block : Edges(p)[a] = ToSet(p.succ[a])
<1>1. /\ p.succ \in [Block -> Seq(Block)]
      /\ ReachIn(Block, Edges(p), Root) = Block
      /\ \A b \in Block : ~Contains(p.succ[b], Root)
  BY ProgramsAssumption DEF Function
<1>2. ASSUME NEW a \in Block, NEW b, Edge(p, a, b)
      PROVE  b \in Block /\ b # Root
  <2>1. p.succ[a] \in Seq(Block)
    BY <1>1
  <2>2. PICK i \in DOMAIN p.succ[a] : p.succ[a][i] = b
    BY <1>2 DEF Edge, ToSet
  <2>3. i \in 1..Len(p.succ[a])
    BY <2>1, LenProperties
  <2> QED
    BY <1>1, <2>1, <2>2, <2>3 DEF Contains
<1> QED
  BY <1>1, <1>2 DEF Edges

LEMMA Code ==
  ASSUME NEW p \in Programs, NEW b \in Block
  PROVE  p.code[b] \in Seq(Instr) /\ Len(p.code[b]) \in Nat /\ DOMAIN p.code[b] = 1..Len(p.code[b])
<1>1. p.code \in [Block -> Seq(Instr)]
  BY ProgramsAssumption DEF Function
<1> QED
  BY <1>1, LenProperties

\* What an instruction may be, by its op.
LEMMA Instruction ==
  ASSUME NEW p \in Programs, NEW b \in Block, NEW k \in DOMAIN p.code[b]
  PROVE  /\ k \in Nat /\ k >= 1 /\ k < End(p, b) /\ End(p, b) \in Nat
         /\ p.code[b][k].op \in {"load", "store", "call", "out"}
         /\ p.code[b][k].op \in {"load", "store"} => p.code[b][k].var \in Var
         /\ p.code[b][k].op \notin {"load", "store"} => p.code[b][k].var = Null
         /\ p.code[b][k].op \notin {"store", "out"} => p.code[b][k].val = Null
         /\ p.code[b][k].op \in {"store", "out"} =>
              \E m \in Nat : m < k /\ p.code[b][k].val = <<b, m>>
                               /\ (CallAt(p, b, m) \/ \E v \in Var : LoadAt(p, b, m, v))
<1> DEFINE i == p.code[b][k]
<1>1. k \in 1..Len(p.code[b]) /\ Len(p.code[b]) \in Nat /\ p.code[b] \in Seq(Instr)
  BY Code
<1>2. i \in Instr
  BY <1>1
<1>3. /\ i.op \in {"load", "store"} <=> i.var # Null
      /\ i.op \in {"store", "out"} <=> i.val # Null
      /\ i.val # Null => \E m \in 1..(k - 1) : i.val = <<b, m>> /\ p.code[b][m].op \in {"load", "call"}
  BY ProgramsAssumption DEF Function
<1>4. i.op \in {"load", "store", "call", "out"} /\ i.var \in Var \cup {Null}
  BY <1>2 DEF Instr
<1>5. ASSUME i.op \in {"store", "out"}
      PROVE  \E m \in Nat : m < k /\ i.val = <<b, m>>
                               /\ (CallAt(p, b, m) \/ \E v \in Var : LoadAt(p, b, m, v))
  <2>1. PICK m \in 1..(k - 1) : i.val = <<b, m>> /\ p.code[b][m].op \in {"load", "call"}
    BY <1>3, <1>5
  <2>2. m \in DOMAIN p.code[b] /\ m \in Nat /\ m < k
    BY <1>1, Code
  <2>3. /\ p.code[b][m].op = "load" => p.code[b][m].var # Null
        /\ p.code[b][m] \in Instr
    BY <1>1, <2>2, Code, ProgramsAssumption DEF Function
  <2>4. p.code[b][m].op = "load" => p.code[b][m].var \in Var
    BY <2>3 DEF Instr
  <2> QED
    BY <2>1, <2>2, <2>4 DEF CallAt, LoadAt
<1> QED
  BY <1>1, <1>3, <1>4, <1>5 DEF End

\* A value is not a value of another kind.
LEMMA Kinds ==
  /\ \A b : \A k \in Nat : <<b, k>> \notin Phi
  /\ \A b \in Block : \A k \in Nat : <<b, k>> \in Value
  /\ Null \notin Value /\ Null \notin Var
<1>1. ASSUME NEW b, NEW k \in Nat, <<b, k>> \in Phi PROVE FALSE
  BY <1>1, VarAssumption DEF Phi
<1> QED
  BY <1>1, NullAssumption DEF Value, Id

LEMMA StorePlaces ==
  ASSUME NEW p \in Programs, NEW b \in Block, NEW k, NEW v
  PROVE  /\ StoreBefore(p, b, k, v) <=> \E m \in Nat : m < k /\ StoreAt(p, b, m, v)
         /\ StoreIn(p, b, v) <=> StoreBefore(p, b, End(p, b), v)
         /\ StoreIn(p, b, v) <=> \E m \in Nat : StoreAt(p, b, m, v)
<1>1. \A m \in DOMAIN p.code[b] : m \in Nat /\ m < End(p, b)
  BY Instruction
<1> QED
  BY <1>1 DEF StoreBefore, StoreIn, StoreAt, End

\* The last store of a variable before a place.
LEMMA LastStoreExists ==
  ASSUME NEW p \in Programs, NEW b \in Block, NEW k \in Nat, NEW v, StoreBefore(p, b, k, v)
  PROVE  \E m \in Nat : LastStoreAt(p, b, k, v, m)
<1> DEFINE K == {n \in Nat : n <= k /\ StoreAt(p, b, k - n, v) /\ n # 0}
<1>1. PICK m \in Nat : m < k /\ StoreAt(p, b, m, v)
  BY StorePlaces
<1>2. k - m \in K /\ k - (k - m) = m
  BY <1>1
<1>3. PICK n \in K : \A l \in K : n <= l
  BY <1>2, LeastMember
<1>4. \A l \in Nat : k - n < l /\ l < k => k - l \in Nat /\ k - l < n /\ k - (k - l) = l /\ k - l # 0
  BY <1>3
<1>5. \A l \in Nat : k - n < l /\ l < k => ~StoreAt(p, b, l, v)
  BY <1>3, <1>4
<1>6. k - n \in Nat /\ k - n < k /\ StoreAt(p, b, k - n, v)
  BY <1>3
<1> QED
  BY <1>5, <1>6 DEF LastStoreAt

\* The last store of all is not overwritten.
LEMMA LastNotOverwritten ==
  ASSUME NEW p \in Programs, NEW b \in Block, NEW v, StoreIn(p, b, v)
  PROVE  \E m \in Nat : StoreAt(p, b, m, v) /\ ~Overwritten(p, b, m) /\ ~LocalLoad(p, b, m)
<1>1. StoreBefore(p, b, End(p, b), v) /\ End(p, b) \in Nat
  BY StorePlaces, Code DEF End
<1>2. PICK m \in Nat : LastStoreAt(p, b, End(p, b), v, m)
  BY <1>1, LastStoreExists
<1>3. ~Overwritten(p, b, m)
  BY <1>2, Instruction DEF Overwritten, LastStoreAt, StoreAt
<1>4. ~LocalLoad(p, b, m)
  BY <1>2 DEF LocalLoad, LastStoreAt, StoreAt, LoadAt
<1> QED
  BY <1>2, <1>3, <1>4 DEF LastStoreAt

LEMMA KeptLater ==
  ASSUME NEW p, NEW b, NEW k \in Nat, NEW n \in Nat, k <= n
  PROVE  Kept(p, b, k) \subseteq Kept(p, b, n)
BY DEF Kept, KeptAt

LEMMA ReachedLater ==
  ASSUME NEW p \in Programs, NEW b \in Block, NEW k \in Nat, NEW n \in Nat, NEW v,
         Reached(p, b, k, v), k <= n
  PROVE  Reached(p, b, n, v)
<1>1. StoreBefore(p, b, k, v) => StoreBefore(p, b, n, v)
  BY Code DEF StoreBefore
<1> QED
  BY <1>1 DEF Reached

\* What reaches the end of a block reaches its successors.
LEMMA ReachedStep ==
  ASSUME NEW p \in Programs, NEW a \in Block, NEW c, NEW k, NEW v,
         Reached(p, a, End(p, a), v), Edge(p, a, c)
  PROVE  Reached(p, c, k, v)
<1>1. c \in Block /\ c \in Edges(p)[a]
  BY Graph DEF Edge
<1>2. CASE StoreBefore(p, a, End(p, a), v)
  <2>1. StoreIn(p, a, v) /\ c \in ToSet(p.succ[a])
    BY <1>2, StorePlaces DEF Edge
  <2>2. c \in ReachIn(Block, Edges(p), c)
    BY <1>1, SetsFinite, ReachClosed
  <2> QED
    BY <2>1, <2>2 DEF Reached
<1>3. CASE \E d \in Block : \E e \in ToSet(p.succ[d]) : StoreIn(p, d, v) /\ a \in ReachIn(Block, Edges(p), e)
  <2>0. PICK d \in Block : \E e \in ToSet(p.succ[d]) : StoreIn(p, d, v) /\ a \in ReachIn(Block, Edges(p), e)
    BY <1>3
  <2>1. PICK e \in ToSet(p.succ[d]) : StoreIn(p, d, v) /\ a \in ReachIn(Block, Edges(p), e)
    BY <2>0
  <2>2. Closed(Block, Edges(p), ReachIn(Block, Edges(p), e))
    BY SetsFinite, ReachClosed
  <2>3. c \in ReachIn(Block, Edges(p), e)
    BY <1>1, <2>1, <2>2 DEF Closed
  <2> QED
    BY <2>1, <2>3 DEF Reached
<1> QED
  BY <1>2, <1>3 DEF Reached

-----------------------------------------------------------------------------
(* Dominance, and the path of open calls.                                  *)

LEMMA DomFacts ==
  ASSUME NEW p \in Programs
  PROVE  /\ \A a : Dom(p, a, a)
         /\ \A a, c : \A b \in Block : Dom(p, a, b) /\ Dom(p, b, c) => Dom(p, a, c)
         /\ \A a, b \in Block : Dom(p, a, b) /\ Dom(p, b, a) => a = b
<1>1. \A a : Dom(p, a, a)
  BY DEF Dom, Dominates
<1>2. \A a, c : \A b \in Block : Dom(p, a, b) /\ Dom(p, b, c) => Dom(p, a, c)
  BY RootIsBlock, SetsFinite, DomTrans DEF Dom
<1>3. \A a, b \in Block : Dom(p, a, b) /\ Dom(p, b, a) => a = b
  <2>1. ReachIn(Block, Edges(p), Root) = Block
    BY Graph
  <2> QED
    BY <2>1, RootIsBlock, SetsFinite, DomAntisym DEF Dom
<1> QED
  BY <1>1, <1>2, <1>3

\* A block dominates the successors of what it dominates, but for its frontier.
LEMMA FrontierStep ==
  ASSUME NEW p \in Programs, NEW d \in Block, NEW a \in Block, NEW c,
         Dom(p, d, a), Edge(p, a, c), c \notin Frontier(Block, Edges(p), Root, d)
  PROVE  c # d /\ Dom(p, d, c)
<1> DEFINE S == Edges(p)
           below == DominatedBy(Block, S, Root, d)
<1>1. c \in Block /\ c \in S[a]
  BY Graph DEF Edge
<1>2. a \in below
  BY DEF Dom, Dominates, DominatedBy
<1>3. c # d /\ c \in below
  BY <1>1, <1>2 DEF Frontier
<1> QED
  BY <1>3 DEF Dom, Dominates, DominatedBy

\* If the frontiers of D are in P, then what is behind a block of D has a phi or
\* a strict dominator in D.
LEMMA Available ==
  ASSUME NEW p \in Programs, NEW D \in SUBSET Block, NEW P \in SUBSET D,
         \A d \in D : Frontier(Block, Edges(p), Root, d) \subseteq P,
         NEW a \in D, NEW c, Edge(p, a, c), NEW b \in ReachIn(Block, Edges(p), c)
  PROVE  b \in P \/ \E d \in D : d # b /\ Dom(p, d, b)
<1> DEFINE K == {x \in Block : x \in P \/ \E d \in D : d # x /\ Dom(p, d, x)}
<1>1. ASSUME NEW x \in D \cup K, NEW y, Edge(p, x, y)
      PROVE  y \in K
  <2>1. y \in Block
    BY <1>1, Graph
  <2>2. PICK d \in D : Dom(p, d, x)
    BY <1>1, DomFacts
  <2>3. y \in P \/ (y # d /\ Dom(p, d, y))
    BY <1>1, <2>2, FrontierStep
  <2> QED
    BY <2>1, <2>3
<1>2. c \in K /\ Closed(Block, Edges(p), K)
  <2>1. c \in K
    BY <1>1
  <2>2. K \subseteq Block
    OBVIOUS
  <2>3. \A x \in K : \A y : Edge(p, x, y) => y \in K
    BY <1>1
  <2>4. \A x \in Block : Edges(p)[x] = ToSet(p.succ[x])
    BY Graph
  <2> HIDE DEF K
  <2> QED
    BY <2>1, <2>2, <2>3, <2>4 DEF Closed, Edge
<1>3. ReachIn(Block, Edges(p), c) \subseteq K
  <2> HIDE DEF K
  <2>1. K \cap Block = K
    BY DEF K
  <2> QED
    BY <1>2, <2>1, SetsFinite, ReachLeast
<1> QED
  BY <1>3

\* What one step keeps, every number from i on to n has.
LEMMA Along ==
  ASSUME NEW i \in Nat, NEW n \in Nat, NEW K, i \in K, \A j \in i..(n - 1) : j \in K => j + 1 \in K
  PROVE  \A j \in i..n : j \in K
<1> DEFINE L == {j \in i..n : j \notin K}
<1> SUFFICES ASSUME L # {} PROVE FALSE
  OBVIOUS
<1>1. PICK m \in L : \A k \in L : m <= k
  <2>1. L \in SUBSET Nat /\ L # {}
    OBVIOUS
  <2> HIDE DEF L
  <2> QED
    BY <2>1, LeastMember
<1>2. m - 1 \in i..(n - 1) /\ m - 1 \notin L
  BY <1>1
<1>3. m - 1 \in K
  BY <1>2
<1> QED
  BY <1>1, <1>2, <1>3

IsPath(p, s) ==
  /\ s \in Seq(Block) /\ s # <<>> /\ s[1] = Root
  /\ \A i \in 1..(Len(s) - 1) : Edge(p, s[i], s[i + 1])
  /\ \A i, j \in 1..Len(s) : s[i] = s[j] => i = j

LEMMA PathFacts ==
  ASSUME NEW p, NEW s, IsPath(p, s)
  PROVE  /\ Len(s) \in Nat /\ Len(s) # 0 /\ DOMAIN s = 1..Len(s)
         /\ \A i \in 1..Len(s) : s[i] \in Block
<1>1. s \in Seq(Block) /\ s # <<>>
  BY DEF IsPath
<1> QED
  BY <1>1, LenProperties, EmptySeq

\* All dominators of a block are on a path that leads to it.
LEMMA PathDominators ==
  ASSUME NEW p \in Programs, NEW s, IsPath(p, s), NEW n \in 1..Len(s), NEW d \in Block, Dom(p, d, s[n])
  PROVE  \E i \in 1..n : s[i] = d
<1> SUFFICES ASSUME \A i \in 1..n : s[i] # d PROVE FALSE
  OBVIOUS
<1> DEFINE N == Block \ {d}
           R == ReachIn(N, Edges(p), Root)
           K == {i \in 1..n : s[i] \in R}
<1>1. Len(s) \in Nat /\ n \in Nat /\ 1 \in 1..n
  BY PathFacts
<1>2. s[1] = Root /\ \A i \in 1..n : s[i] \in N
  BY <1>1, PathFacts DEF IsPath
<1>3. IsFiniteSet(N)
  BY SetsFinite, Without
<1>4. Root \in R /\ Closed(N, Edges(p), R) /\ R \subseteq N
  BY <1>1, <1>2, <1>3, ReachClosed
<1>5. 1 \in K
  BY <1>1, <1>2, <1>4
<1>6. ASSUME NEW j \in 1..(n - 1), j \in K PROVE j + 1 \in K
  <2>1. Edge(p, s[j], s[j + 1]) /\ s[j] \in Block /\ j + 1 \in 1..n
    BY <1>1, PathFacts DEF IsPath
  <2>2. s[j + 1] \in Edges(p)[s[j]]
    BY <2>1, Graph DEF Edge
  <2> QED
    BY <1>2, <1>4, <1>6, <2>1, <2>2 DEF Closed
<1>7. n \in K
  <2>1. \A j \in 1..(n - 1) : j \in K => j + 1 \in K
    BY <1>6
  <2> HIDE DEF K
  <2>2. \A j \in 1..n : j \in K
    BY <1>1, <1>5, <2>1, Along
  <2> QED
    BY <1>1, <2>2
<1> QED
  BY <1>1, <1>7 DEF Dom, Dominates

\* A block on the path dominates what follows it up to the first block of its
\* frontier.
LEMMA PathBelow ==
  ASSUME NEW p \in Programs, NEW s, IsPath(p, s), NEW m \in 1..Len(s), NEW n \in m..Len(s),
         \A i \in (m + 1)..n : s[i] \notin Frontier(Block, Edges(p), Root, s[m])
  PROVE  Dom(p, s[m], s[n])
<1> DEFINE K == {i \in m..n : Dom(p, s[m], s[i])}
<1>1. Len(s) \in Nat /\ n \in Nat /\ m \in Nat /\ \A i \in 1..Len(s) : s[i] \in Block
  BY PathFacts
<1>2. m \in K
  BY <1>1, DomFacts
<1>3. ASSUME NEW j \in m..(n - 1), j \in K PROVE j + 1 \in K
  <2>1. Edge(p, s[j], s[j + 1]) /\ j + 1 \in (m + 1)..n /\ j \in 1..Len(s)
    BY <1>1 DEF IsPath
  <2> QED
    BY <1>1, <1>3, <2>1, FrontierStep
<1>4. n \in K
  <2>1. \A j \in m..(n - 1) : j \in K => j + 1 \in K
    BY <1>3
  <2> HIDE DEF K
  <2>2. \A j \in m..n : j \in K
    BY <1>1, <1>2, <2>1, Along
  <2> QED
    BY <1>1, <2>2
<1> QED
  BY <1>4

\* What reaches a block of the path reaches the later ones.
LEMMA PathReached ==
  ASSUME NEW p \in Programs, NEW s, IsPath(p, s), NEW m \in 1..Len(s), NEW n \in m..Len(s), NEW v,
         Reached(p, s[m], End(p, s[m]), v)
  PROVE  Reached(p, s[n], End(p, s[n]), v)
<1> DEFINE K == {i \in m..n : Reached(p, s[i], End(p, s[i]), v)}
<1>1. Len(s) \in Nat /\ n \in Nat /\ m \in Nat /\ \A i \in 1..Len(s) : s[i] \in Block
  BY PathFacts
<1>2. ASSUME NEW j \in m..(n - 1), j \in K PROVE j + 1 \in K
  <2>1. Edge(p, s[j], s[j + 1]) /\ j \in 1..Len(s) /\ j + 1 \in m..n
    BY <1>1 DEF IsPath
  <2> QED
    BY <1>1, <1>2, <2>1, ReachedStep
<1>3. n \in K
  <2>1. m \in K
    BY <1>1
  <2>2. \A j \in m..(n - 1) : j \in K => j + 1 \in K
    BY <1>2
  <2> HIDE DEF K
  <2>3. \A j \in m..n : j \in K
    BY <1>1, <2>1, <2>2, Along
  <2> QED
    BY <1>1, <2>3
<1> QED
  BY <1>3

-----------------------------------------------------------------------------
(* Counting what the open calls have pushed.                               *)

\* The sets that Open takes together, from the outermost call inwards.
LEMMA OpenSame ==
  ASSUME NEW s, NEW s1, NEW T, NEW T1, NEW m \in Nat,
         \A i \in 1..m : s[i] = s1[i] /\ T[s[i]] = T1[s[i]]
  PROVE  Open(s, T, m) = Open(s1, T1, m)
<1>1. \A i \in 1..m : {<<s[i], t>> : t \in T[s[i]]} = {<<s1[i], t>> : t \in T1[s1[i]]}
  OBVIOUS
<1> QED
  BY <1>1 DEF Open

Counts(s, T) ==
  /\ Cardinality(Open(s, T, 0)) = 0
  /\ \A m \in 0..Len(s) : IsFiniteSet(Open(s, T, m)) /\ Cardinality(Open(s, T, m)) \in Nat
  /\ \A m \in 1..Len(s) : Cardinality(Open(s, T, m)) = Cardinality(Open(s, T, m - 1)) + Cardinality(T[s[m]])
  /\ \A m, n \in 0..Len(s) : m <= n => Cardinality(Open(s, T, m)) <= Cardinality(Open(s, T, n))

LEMMA OpenStep ==
  ASSUME NEW s \in Seq(Block), \A i, j \in 1..Len(s) : s[i] = s[j] => i = j,
         NEW T, \A b \in Block : IsFiniteSet(T[b]), NEW m \in 1..Len(s), IsFiniteSet(Open(s, T, m - 1))
  PROVE  /\ IsFiniteSet(Open(s, T, m))
         /\ Cardinality(Open(s, T, m)) = Cardinality(Open(s, T, m - 1)) + Cardinality(T[s[m]])
<1> DEFINE A == Open(s, T, m - 1)
           B == {<<s[m], t>> : t \in T[s[m]]}
           f == [t \in T[s[m]] |-> <<s[m], t>>]
<1>1. Len(s) \in Nat /\ m \in Nat /\ s[m] \in Block
  BY LenProperties
<1>2. Open(s, T, m) = A \cup B
  <2>1. 1..m = 1..(m - 1) \cup {m}
    BY <1>1
  <2> QED
    BY <2>1 DEF Open
<1>3. IsFiniteSet(B) /\ Cardinality(B) = Cardinality(T[s[m]])
  <2>1. f \in Bijection(T[s[m]], B)
    BY DEF Bijection, Injection, Surjection, IsInjective
  <2>2. ExistsBijection(T[s[m]], B)
    BY <2>1 DEF ExistsBijection
  <2> HIDE DEF B
  <2> QED
    BY <1>1, <2>2, FS_Bijection
<1>4. A \cap B = {}
  <2> SUFFICES ASSUME NEW x \in A, x \in B PROVE FALSE
    OBVIOUS
  <2>1. PICK i \in 1..(m - 1) : x \in {<<s[i], t>> : t \in T[s[i]]}
    BY DEF Open
  <2>2. x[1] = s[i] /\ x[1] = s[m]
    BY <2>1
  <2>3. i \in 1..Len(s) /\ i # m
    BY <1>1
  <2> QED
    BY <2>2, <2>3
<1> HIDE DEF A, B
<1>5. IsFiniteSet(A \cup B) /\ Cardinality(A \cup B) = Cardinality(A) + Cardinality(B) - Cardinality(A \cap B)
  BY <1>3, FS_Union DEF A
<1>6. Cardinality(A) \in Nat /\ Cardinality(B) \in Nat /\ Cardinality(A \cap B) = 0
  BY <1>3, <1>4, FS_CardinalityType, FS_EmptySet DEF A
<1>7. Cardinality(A \cup B) = Cardinality(A) + Cardinality(B)
  BY <1>5, <1>6
<1> QED
  BY <1>2, <1>3, <1>5, <1>7 DEF A

LEMMA OpenCounts ==
  ASSUME NEW s \in Seq(Block), \A i, j \in 1..Len(s) : s[i] = s[j] => i = j,
         NEW T, \A b \in Block : IsFiniteSet(T[b])
  PROVE  Counts(s, T)
<1> DEFINE K == {m \in 0..Len(s) : IsFiniteSet(Open(s, T, m))}
<1>1. Len(s) \in Nat
  BY LenProperties
<1>2. Open(s, T, 0) = {}
  BY DEF Open
<1>3. 0 \in K
  <2>1. 0 \in 0..Len(s)
    BY <1>1
  <2>2. IsFiniteSet(Open(s, T, 0))
    BY <1>2, FS_EmptySet
  <2> QED
    BY <2>1, <2>2
<1>4. \A j \in 0..(Len(s) - 1) : j \in K => j + 1 \in K
  <2> SUFFICES ASSUME NEW j \in 0..(Len(s) - 1), j \in K PROVE j + 1 \in K
    OBVIOUS
  <2>1. j + 1 \in 1..Len(s) /\ (j + 1) - 1 = j
    BY <1>1
  <2>2. IsFiniteSet(Open(s, T, (j + 1) - 1))
    BY <2>1
  <2>3. IsFiniteSet(Open(s, T, j + 1))
    BY <2>1, <2>2, OpenStep
  <2> QED
    BY <1>1, <2>1, <2>3
<1>5. \A m \in 0..Len(s) : m \in K
  <2> HIDE DEF K
  <2> QED
    BY <1>1, <1>3, <1>4, Along
<1>6. \A m \in 0..Len(s) : IsFiniteSet(Open(s, T, m)) /\ Cardinality(Open(s, T, m)) \in Nat
  BY <1>5, FS_CardinalityType
<1>7. ASSUME NEW m \in 1..Len(s)
      PROVE  Cardinality(Open(s, T, m)) = Cardinality(Open(s, T, m - 1)) + Cardinality(T[s[m]])
  <2>1. m - 1 \in 0..Len(s)
    BY <1>1
  <2>2. IsFiniteSet(Open(s, T, m - 1))
    BY <1>6, <2>1
  <2> QED
    BY <2>2, OpenStep
<1>8. ASSUME NEW m \in 0..Len(s), NEW n \in 0..Len(s), m <= n
      PROVE  Cardinality(Open(s, T, m)) <= Cardinality(Open(s, T, n))
  <2>1. 1..m \subseteq 1..n
    BY <1>1, <1>8
  <2>2. Open(s, T, m) \subseteq Open(s, T, n)
    BY <2>1 DEF Open
  <2> QED
    BY <1>6, <2>2, FS_Subset
<1>9. Cardinality(Open(s, T, 0)) = 0
  BY <1>2, FS_EmptySet
<1> QED
  BY <1>6, <1>7, <1>8, <1>9 DEF Counts

-----------------------------------------------------------------------------
(* The stacks of the open calls.                                           *)

Walking == pc \in {"rename", "walk"}

LEMMA StoresFinite ==
  ASSUME source \in Programs, NEW b \in Block, NEW v
  PROVE  /\ Stores(b, v) \subseteq Nat /\ 0 \notin Stores(b, v) /\ IsFiniteSet(Stores(b, v))
         /\ Tokens(b, v) \subseteq Nat /\ IsFiniteSet(Tokens(b, v))
         /\ v \in phis[b] => Defines(b, v) = Cardinality(Stores(b, v) \cup {0})
         /\ v \notin phis[b] => Defines(b, v) = Cardinality(Stores(b, v))
<1>1. DOMAIN code[b] = 1..Len(code[b]) /\ Len(code[b]) \in Nat
  BY Code
<1>2. IsFiniteSet(1..Len(code[b]))
  BY <1>1, FS_Interval
<1>3. Stores(b, v) \subseteq 1..Len(code[b])
  BY <1>1 DEF Stores, Listed
<1>4. IsFiniteSet(Stores(b, v)) /\ Stores(b, v) \subseteq Nat /\ 0 \notin Stores(b, v)
  BY <1>1, <1>2, <1>3, FS_Subset
<1>5. IsFiniteSet(Stores(b, v) \cup {0}) /\ Cardinality(Stores(b, v) \cup {0}) = Cardinality(Stores(b, v)) + 1
  BY <1>4, FS_AddElement
<1>6. Tokens(b, v) \subseteq Stores(b, v) \cup {0}
  BY DEF Tokens
<1>7. IsFiniteSet(Tokens(b, v)) /\ Tokens(b, v) \subseteq Nat
  BY <1>4, <1>5, <1>6, FS_Subset
<1>8. Cardinality(Stores(b, v)) \in Nat
  BY <1>4, FS_CardinalityType
<1>9. /\ v \in phis[b] => Defines(b, v) = 1 + Cardinality(Stores(b, v))
      /\ v \notin phis[b] => Defines(b, v) = 0 + Cardinality(Stores(b, v))
  BY DEF Defines
<1> QED
  BY <1>4, <1>5, <1>7, <1>8, <1>9

LEMMA Counted ==
  ASSUME source \in Programs, TypeOK, PathInv, NEW v
  PROVE  Counts(calls, TokenSets(v))
<1>1. calls \in Seq(Block) /\ DOMAIN calls = 1..Len(calls)
  BY LenProperties DEF TypeOK
<1>2. \A i, j \in 1..Len(calls) : calls[i] = calls[j] => i = j
  BY <1>1 DEF PathInv
<1>3. \A b \in Block : IsFiniteSet(TokenSets(v)[b])
  BY StoresFinite DEF TokenSets
<1> QED
  BY <1>1, <1>2, <1>3, OpenCounts

LEMMA OpenPath ==
  ASSUME source \in Programs, TypeOK, PathInv, Walking
  PROVE  /\ IsPath(source, calls) /\ calls \in Seq(Block)
         /\ Len(calls) \in Nat /\ Len(calls) \in 1..Len(calls) /\ DOMAIN calls = 1..Len(calls)
         /\ Current \in Block /\ Current = calls[Len(calls)] /\ Current \in visited /\ Current \notin Left
         /\ \A i \in 1..Len(calls) : calls[i] \in Block /\ calls[i] \notin Left
<1>1. calls \in Seq(Block) /\ calls # <<>> /\ calls[1] = Root
  BY DEF TypeOK, PathInv, Walking
<1>2. DOMAIN calls = 1..Len(calls) /\ Len(calls) \in Nat /\ Len(calls) # 0
  BY <1>1, LenProperties, EmptySeq
<1>3. IsPath(source, calls)
  BY <1>1, <1>2 DEF IsPath, PathInv
<1>4. \A i \in 1..Len(calls) : calls[i] \in ToSet(calls) /\ calls[i] \in Block
  BY <1>1, <1>2 DEF ToSet
<1>5. ToSet(calls) \subseteq visited
  BY DEF PathInv
<1> QED
  BY <1>1, <1>2, <1>3, <1>4, <1>5 DEF Current, Left

\* A block that has not been left still has its last store of v.
LEMMA ListedStore ==
  ASSUME source \in Programs, Lists, NEW b \in Block, b \notin Left, NEW v, StoreIn(source, b, v)
  PROVE  \E m \in Stores(b, v) : m \in Nat /\ m < End(source, b)
<1>1. PICK m \in Nat : StoreAt(source, b, m, v) /\ ~Overwritten(source, b, m) /\ ~LocalLoad(source, b, m)
  BY LastNotOverwritten
<1>2. <<b, m>> \notin deleted
  BY <1>1 DEF Lists
<1>3. m \in Stores(b, v)
  BY <1>1, <1>2 DEF Stores, Listed, StoreAt, code
<1> QED
  BY <1>1, <1>3, Instruction DEF StoreAt

\* The call that has pushed the value on top of a stack: the innermost that
\* defines the variable.  It dominates the calls inside it.
LEMMA TopLevel ==
  ASSUME source \in Programs, TypeOK, PathInv, StackInv, Walking,
         NEW v \in Var, ClosedPhis(v), value_status[v] # <<>>
  PROVE  \E m \in 1..Len(calls) :
           /\ Height(m - 1, v) < Height(m, v) /\ Height(m, v) = Len(value_status[v])
           /\ Tokens(calls[m], v) # {} /\ DefBlock(calls[m], v)
           /\ \A i \in (m + 1)..Len(calls) : Tokens(calls[i], v) = {}
           /\ Dom(source, calls[m], Current)
<1> DEFINE n == Len(calls)
           s == value_status[v]
           K == {m \in 0..n : Height(m, v) >= Len(s)}
<1>1. Len(s) \in Nat /\ Len(s) # 0
  BY LenProperties, EmptySeq DEF TypeOK
<1>2. Counts(calls, TokenSets(v))
  BY Counted
<1>3. /\ Height(0, v) = 0 /\ \A m \in 0..n : Height(m, v) \in Nat
      /\ \A m, l \in 0..n : m <= l => Height(m, v) <= Height(l, v)
      /\ \A m \in 1..n : Height(m, v) = Height(m - 1, v) + Cardinality(Tokens(calls[m], v))
  <2>1. \A m \in 1..n : TokenSets(v)[calls[m]] = Tokens(calls[m], v)
    BY OpenPath DEF TokenSets
  <2> QED
    BY <1>2, <2>1 DEF Counts, Height
<1>4. n \in Nat /\ n \in 1..n /\ IsPath(source, calls) /\ \A i \in 1..n : calls[i] \in Block
  BY OpenPath
<1>5. Len(s) = Height(n, v)
  BY DEF StackInv, StackHeights
<1>6. n \in K
  BY <1>3, <1>4, <1>5
<1>7. PICK m \in K : \A k \in K : m <= k
  <2>1. K \in SUBSET Nat /\ K # {}
    BY <1>4, <1>6
  <2> HIDE DEF K
  <2> QED
    BY <2>1, LeastMember
<1>8. m \in 1..n /\ Height(m, v) = Len(s) /\ Height(m - 1, v) < Len(s)
  <2>1. m # 0
    BY <1>1, <1>3, <1>7
  <2>2. m - 1 \in 0..n /\ m - 1 \notin K
    BY <1>4, <1>7, <2>1
  <2>3. Height(m, v) <= Height(n, v)
    BY <1>3, <1>4, <1>7
  <2> QED
    BY <1>1, <1>3, <1>4, <1>5, <1>7, <2>1, <2>2, <2>3
<1> HIDE DEF K
<1>9. ASSUME NEW i \in (m + 1)..n PROVE Tokens(calls[i], v) = {}
  <2>1. i \in 1..n /\ i \in 0..n /\ i - 1 \in 0..n /\ m \in 0..n /\ m <= i - 1 /\ i <= n /\ n \in 0..n
    BY <1>4, <1>8
  <2>2. Height(i - 1, v) = Len(s) /\ Height(i, v) = Len(s)
    BY <1>3, <1>5, <1>8, <2>1
  <2>3. Cardinality(Tokens(calls[i], v)) = 0
    <3>1. Cardinality(Tokens(calls[i], v)) \in Nat
      BY <1>4, <2>1, StoresFinite, FS_CardinalityType
    <3> QED
      BY <1>1, <1>3, <2>1, <2>2, <3>1
  <2> QED
    BY <1>4, <2>1, <2>3, StoresFinite, FS_EmptySet
<1>10. Tokens(calls[m], v) # {}
  <2>1. Cardinality(Tokens(calls[m], v)) # 0
    BY <1>1, <1>3, <1>4, <1>8
  <2> QED
    BY <2>1, FS_EmptySet
<1>11. DefBlock(calls[m], v)
  <2>1. v \in phis[calls[m]] \/ Stores(calls[m], v) # {}
    BY <1>10 DEF Tokens
  <2>2. Stores(calls[m], v) # {} => StoreIn(source, calls[m], v)
    <3>1. \A k \in Stores(calls[m], v) : StoreAt(source, calls[m], k, v) /\ k \in Nat
      BY <1>4, <1>8, StoresFinite DEF Stores, Listed, StoreAt, code
    <3> QED
      BY <1>4, <1>8, <3>1, StorePlaces
  <2> QED
    BY <2>1, <2>2 DEF DefBlock
<1>12. Dom(source, calls[m], Current)
  <2>1. \A i \in (m + 1)..n : v \notin phis[calls[i]]
    BY <1>9 DEF Tokens
  <2>2. \A i \in (m + 1)..n : calls[i] \notin Frontier(Block, Edges(source), Root, calls[m])
    BY <1>4, <1>8, <1>11, <2>1 DEF ClosedPhis
  <2>3. n \in m..n
    BY <1>4, <1>8
  <2> QED
    BY <1>4, <1>8, <2>2, <2>3, PathBelow DEF Current
<1> QED
  BY <1>8, <1>9, <1>10, <1>11, <1>12

\* The value on top of a stack is at hand where the innermost call is.
LEMMA TopAtHand ==
  ASSUME source \in Programs, TypeOK, PathInv, StackInv, Walking,
         NEW v \in Var, ClosedPhis(v), value_status[v] # <<>>
  PROVE  AtHand(Top(value_status[v]), Current, Place(Len(calls)))
<1> DEFINE n == Len(calls)
           s == value_status[v]
<1>1. s \in Seq(Value) /\ Len(s) \in Nat /\ Len(s) # 0 /\ DOMAIN s = 1..Len(s)
  BY LenProperties, EmptySeq DEF TypeOK
<1>2. n \in Nat /\ n \in 1..n /\ IsPath(source, calls) /\ \A i \in 1..n : calls[i] \in Block
  BY OpenPath
<1>3. PICK m \in 1..n : Height(m - 1, v) < Height(m, v) /\ Height(m, v) = Len(s) /\ Dom(source, calls[m], Current)
  BY TopLevel
<1>4. Top(s) = s[Len(s)] /\ Len(s) \in DOMAIN s
  BY <1>1 DEF Top
<1>5. AtHand(Top(s), calls[m], Place(m))
  BY <1>1, <1>3, <1>4 DEF StackInv, StackValues
<1>6. CASE m = n
  BY <1>5, <1>6, OpenPath
<1>7. CASE m # n
  <2>1. Current = calls[n] /\ calls[m] # calls[n] /\ calls[m] \in Block /\ calls[n] \in Block
    BY <1>2, <1>7 DEF Current, IsPath
  <2>2. IsDefinition(Top(s)) /\ Dom(source, Top(s)[1], calls[m])
    BY <1>5 DEF AtHand
  <2>3. Top(s)[1] \in Block
    BY <2>2 DEF IsDefinition, Phis, Phi
  <2>4. Dom(source, Top(s)[1], calls[n]) /\ Top(s)[1] # calls[n]
    BY <1>3, <2>1, <2>2, <2>3, DomFacts
  <2> QED
    BY <2>1, <2>2, <2>4 DEF AtHand
<1> QED
  BY <1>6, <1>7

LEMMA StackFull ==
  ASSUME source \in Programs, TypeOK, PathInv, StackInv, Walking, NEW v \in Var,
         NEW i \in 1..Len(calls), Tokens(calls[i], v) # {}
  PROVE  value_status[v] # <<>>
<1> DEFINE n == Len(calls)
<1>1. calls[i] \in Block /\ n \in Nat /\ i \in Nat
  BY OpenPath
<1>2. Cardinality(Tokens(calls[i], v)) \in Nat /\ Cardinality(Tokens(calls[i], v)) # 0
  BY <1>1, StoresFinite, FS_CardinalityType, FS_EmptySet
<1>3. Counts(calls, TokenSets(v)) /\ TokenSets(v)[calls[i]] = Tokens(calls[i], v)
  BY <1>1, Counted DEF TokenSets
<1>4. /\ Height(i, v) = Height(i - 1, v) + Cardinality(Tokens(calls[i], v))
      /\ Height(i - 1, v) \in Nat /\ Height(i, v) <= Height(n, v) /\ Height(n, v) \in Nat
  BY <1>1, <1>3 DEF Counts, Height
<1>5. Len(value_status[v]) = Height(n, v)
  BY DEF StackInv, StackHeights
<1>6. Len(value_status[v]) # 0
  BY <1>2, <1>4, <1>5
<1> QED
  BY <1>6, EmptySeq DEF TypeOK

\* A stack is not empty where a store of the variable leads over an edge.
LEMMA StackFound ==
  ASSUME source \in Programs, TypeOK, PathInv, Lists, StackInv, Walking, NEW v \in Var, ClosedPhis(v),
         NEW a \in Block, NEW c, StoreIn(source, a, v), Edge(source, a, c),
         Current \in ReachIn(Block, Edges(source), c)
  PROVE  value_status[v] # <<>>
<1> DEFINE n == Len(calls)
           D == {d \in Block : DefBlock(d, v)}
           P == {d \in Block : v \in phis[d]}
<1>1. n \in 1..n /\ n \in Nat /\ IsPath(source, calls) /\ Current = calls[n]
  BY OpenPath
<1>2. Current \in P \/ \E d \in D : d # Current /\ Dom(source, d, Current)
  <2>1. P \in SUBSET D /\ a \in D /\ D \in SUBSET Block
    BY DEF DefBlock
  <2>2. \A d \in D : Frontier(Block, Edges(source), Root, d) \subseteq P
    BY DEF ClosedPhis
  <2> HIDE DEF D, P
  <2> QED
    BY <2>1, <2>2, Available
<1>3. CASE Current \in P
  <2>1. Tokens(calls[n], v) # {}
    BY <1>1, <1>3 DEF Tokens
  <2> QED
    BY <1>1, <2>1, StackFull
<1>4. ASSUME NEW d \in D, d # Current, Dom(source, d, Current)
      PROVE  value_status[v] # <<>>
  <2>1. PICK i \in 1..n : calls[i] = d
    BY <1>1, <1>4, PathDominators
  <2>2. d \in Block /\ d \notin Left
    BY <2>1, OpenPath
  <2>3. v \in phis[d] \/ \E m \in Stores(d, v) : TRUE
    BY <2>2, ListedStore DEF DefBlock
  <2>4. Tokens(calls[i], v) # {}
    BY <1>4, <2>1, <2>3 DEF Tokens
  <2> QED
    BY <2>1, <2>4, StackFull
<1> QED
  BY <1>2, <1>3, <1>4

\* A stack has a value only where its variable may have one.
LEMMA StackReached ==
  ASSUME source \in Programs, TypeOK, PathInv, PlacedInv, StackInv, Walking, NEW v \in Var,
         value_status[v] # <<>>
  PROVE  Reached(source, Current, End(source, Current), v)
<1> DEFINE n == Len(calls)
<1>1. n \in 1..n /\ n \in Nat /\ IsPath(source, calls) /\ Current = calls[n] /\ \A i \in 1..n : calls[i] \in Block
  BY OpenPath
<1>2. Height(n, v) # 0
  <2>1. value_status[v] \in Seq(Value)
    BY DEF TypeOK
  <2>2. Len(value_status[v]) = Height(n, v)
    BY DEF StackInv, StackHeights
  <2> QED
    BY <2>1, <2>2, EmptySeq
<1>3. PICK i \in 1..n : TokenSets(v)[calls[i]] # {}
  <2>1. Open(calls, TokenSets(v), n) # {}
    BY <1>2, FS_EmptySet DEF Height
  <2> QED
    BY <2>1 DEF Open
<1>4. v \in phis[calls[i]] \/ Stores(calls[i], v) # {}
  BY <1>1, <1>3 DEF TokenSets, Tokens
<1>5. Reached(source, calls[i], End(source, calls[i]), v)
  <2>1. CASE v \in phis[calls[i]]
    <3>1. Justified(source, calls[i], v)
      BY <1>1, <2>1 DEF PlacedInv
    <3> QED
      BY <1>1, <3>1, ReachedStep DEF Justified
  <2>2. CASE Stores(calls[i], v) # {}
    <3>1. \A k \in Stores(calls[i], v) : StoreAt(source, calls[i], k, v) /\ k \in Nat
      BY <1>1, StoresFinite DEF Stores, Listed, StoreAt, code
    <3>2. StoreBefore(source, calls[i], End(source, calls[i]), v)
      BY <1>1, <2>2, <3>1, StorePlaces
    <3> QED
      BY <3>2 DEF Reached
  <2> QED
    BY <1>4, <2>1, <2>2
<1>6. n \in i..n
  BY <1>1
<1> QED
  BY <1>1, <1>5, <1>6, PathReached

-----------------------------------------------------------------------------
(* The initial states.                                                     *)

LEMMA ValTypes ==
  ASSUME source \in Programs, NEW b \in Block, NEW k \in DOMAIN code[b]
  PROVE  code[b][k].val \in Value \cup {Null}
<1>1. source.code[b][k] \in Instr
  BY Code DEF code
<1> QED
  BY <1>1 DEF Instr, Value, code

LEMMA InitTypes == Init => source \in Programs /\ TypeOK
<1> SUFFICES ASSUME Init PROVE source \in Programs /\ TypeOK
  OBVIOUS
<1>1. source \in Programs
  BY DEF Init
<1>2. DOMAIN operand = Block /\ \A b \in Block : operand[b] \in [DOMAIN code[b] -> Value \cup {Null}]
  <2>1. \A b \in Block : operand[b] = [k \in DOMAIN code[b] |-> code[b][k].val]
    BY DEF Init
  <2>2. DOMAIN operand = Block
    BY DEF Init
  <2> QED
    BY <1>1, <2>1, <2>2, ValTypes
<1>3. /\ defined_list \in [Var -> Id \cup {Null}] /\ new_value \in [Var -> Id \cup {Null}]
      /\ forward_list \subseteq Id \X Id /\ delete_list \subseteq Id
  BY DEF Init, NoneKnown
<1>4. DOMAIN pairs = Phi /\ \A p \in Phi : pairs[p] \subseteq Value \X Block
  BY DEF Init
<1>5. /\ define_var \in [Block -> [Var -> Nat]]
      /\ value_status \in [Var -> Seq(Value)]
      /\ visited \subseteq Block /\ calls \in Seq(Block) /\ allocas \subseteq Var
  BY DEF Init
<1>6. phis \in [Block -> SUBSET Var] /\ todo \subseteq Var /\ var \in Var \cup {Null} /\ queue \in Seq(Block)
  BY DEF Init
<1>7. pc = "forward" /\ deleted \subseteq Id /\ next \in Nat \ {0} /\ at \in Nat \ {0}
  BY DEF Init
<1> QED
  BY <1>1, <1>2, <1>3, <1>4, <1>5, <1>6, <1>7 DEF TypeOK

\* Nothing is before the first place of a block.
LEMMA FirstPlace ==
  ASSUME NEW p \in Programs, NEW b \in Block
  PROVE  /\ \A v : ~StoreBefore(p, b, 1, v)
         /\ \A m \in Nat : m < 1 => ~LocalLoad(p, b, m)
         /\ 1 <= End(p, b)
<1>1. \A m : \A v : ~(m \in Nat /\ m < 1 /\ StoreAt(p, b, m, v)) /\ ~(m \in Nat /\ m < 1 /\ LoadAt(p, b, m, v))
  BY Instruction DEF StoreAt, LoadAt
<1>2. \A v : ~StoreBefore(p, b, 1, v)
  BY <1>1, StorePlaces
<1>3. \A m \in Nat : m < 1 => ~LocalLoad(p, b, m)
  BY <1>1 DEF LocalLoad
<1>4. 1 <= End(p, b)
  BY Code DEF End
<1> QED
  BY <1>2, <1>3, <1>4

LEMMA InitInv == Init => Inv
<1> SUFFICES ASSUME Init PROVE Inv
  OBVIOUS
<1>1. source \in Programs /\ TypeOK
  BY InitTypes
<1>2. pc = "forward" /\ next = 1 /\ ForwardedBlocks = {} /\ deleted = {}
  BY DEF Init, ForwardedBlocks
<1>3. Fresh /\ Unplaced /\ AllocasInv
  BY DEF Init, Fresh, Unplaced, AllocasInv
<1>4. Lists /\ OperandsOK
  BY <1>2, <1>3 DEF Lists, OperandsOK, Left, Fresh
<1>5. ScanInv
  <2>1. next <= Len(source.blocks) => Scanned \in Block
    BY <1>1, <1>2, Blocks DEF Scanned
  <2>2. \A b \in Block : Untouched(b)
    BY DEF Init, Untouched
  <2>3. next <= Len(source.blocks) => ScanState(Scanned)
    <3>1. \A v \in Var : defined_list[v] = Null
      BY DEF Init, NoneKnown
    <3>2. at = 1 /\ forward_list = {} /\ delete_list = {}
      BY DEF Init
    <3> QED
      BY <1>1, <2>1, <3>1, <3>2, FirstPlace DEF ScanState, LastDefined
  <2> QED
    BY <2>2, <2>3 DEF ScanInv, Init
<1> QED
  BY <1>1, <1>2, <1>3, <1>4, <1>5 DEF Inv

-----------------------------------------------------------------------------
(* insideBlockForwarding.                                                  *)

LEMMA PlaceStep ==
  ASSUME NEW p \in Programs, NEW b \in Block, NEW k \in DOMAIN p.code[b], NEW v
  PROVE  /\ StoreBefore(p, b, k + 1, v) <=> StoreBefore(p, b, k, v) \/ StoreAt(p, b, k, v)
         /\ \A m : LastStoreAt(p, b, k, v, m) /\ ~StoreAt(p, b, k, v) => LastStoreAt(p, b, k + 1, v, m)
         /\ StoreAt(p, b, k, v) => LastStoreAt(p, b, k + 1, v, k)
         /\ Kept(p, b, k) \subseteq Kept(p, b, k + 1)
<1>1. k \in Nat
  BY Instruction
<1>2. \A m \in Nat : m < k + 1 <=> m < k \/ m = k
  BY <1>1
<1>3. StoreBefore(p, b, k + 1, v) <=> StoreBefore(p, b, k, v) \/ StoreAt(p, b, k, v)
  BY <1>1, <1>2, StorePlaces
<1>4. ASSUME NEW m, LastStoreAt(p, b, k, v, m), ~StoreAt(p, b, k, v)
      PROVE  LastStoreAt(p, b, k + 1, v, m)
  <2>1. m \in Nat
    BY <1>4, Instruction DEF LastStoreAt, StoreAt
  <2> QED
    BY <1>1, <1>2, <1>4, <2>1 DEF LastStoreAt
<1>5. StoreAt(p, b, k, v) => LastStoreAt(p, b, k + 1, v, k)
  BY <1>1, <1>2 DEF LastStoreAt
<1>6. Kept(p, b, k) \subseteq Kept(p, b, k + 1)
  BY <1>1, KeptLater
<1> QED
  BY <1>3, <1>4, <1>5, <1>6

\* The operands of a scanned block, its local loads being forwarded.
LEMMA ForwardedKept ==
  ASSUME source \in Programs, NEW b \in Block, ScanState(b), at \in Nat, NEW k \in Nat, NEW m \in Nat,
         m < k, m < at, CallAt(source, b, m) \/ \E v \in Var : LoadAt(source, b, m, v)
  PROVE  Forwarded(forward_list, <<b, m>>) \in Kept(source, b, k)
<1> DEFINE x == <<b, m>>
<1>1. \A f \in forward_list : \E l \in Nat : f[1] = <<b, l>> /\ LocalLoad(source, b, l) /\ f[2] \in Kept(source, b, l)
  BY DEF ScanState
<1>2. CASE LocalLoad(source, b, m)
  <2>1. \E f \in forward_list : f[1] = x
    BY <1>2 DEF ScanState
  <2>2. PICK f \in forward_list : f[1] = x /\ Forwarded(forward_list, x) = f[2]
    BY <2>1 DEF Forwarded
  <2>3. f[2] \in Kept(source, b, m)
    BY <1>1, <2>2
  <2> QED
    BY <2>2, <2>3, KeptLater
<1>3. CASE ~LocalLoad(source, b, m)
  <2>1. ~\E f \in forward_list : f[1] = x
    BY <1>1, <1>3
  <2>2. Forwarded(forward_list, x) = x
    BY <2>1 DEF Forwarded
  <2>3. KeptAt(source, b, k, m)
    BY <1>3 DEF KeptAt
  <2> QED
    BY <2>2, <2>3 DEF Kept
<1> QED
  BY <1>2, <1>3

LEMMA KeptValues ==
  ASSUME NEW p, NEW b \in Block, NEW k
  PROVE  Kept(p, b, k) \subseteq Id
BY DEF Kept, Id

\* The instruction that a scan is at.
LEMMA ScanPlace ==
  ASSUME Inv, Scanning
  PROVE  /\ pc = "forward" /\ source \in Programs /\ TypeOK /\ Lists /\ OperandsOK /\ AllocasInv
         /\ ScanInv /\ Unplaced /\ Fresh
         /\ Scanned \in Block /\ ScanState(Scanned)
         /\ at \in DOMAIN source.code[Scanned] /\ at \in Nat /\ at < End(source, Scanned)
<1>1. pc = "forward" /\ next <= Len(source.blocks) /\ at <= Len(code[Scanned])
  BY DEF Scanning
<1>2. source \in Programs /\ TypeOK /\ Lists /\ OperandsOK /\ AllocasInv /\ ScanInv /\ Unplaced /\ Fresh
  BY <1>1 DEF Inv
<1>3. next \in Nat \ {0} /\ at \in Nat \ {0}
  BY <1>2 DEF TypeOK
<1>4. source.blocks \in Seq(Block) /\ Len(source.blocks) \in Nat
  BY <1>2, Blocks, LenProperties
<1>5. Scanned \in Block
  BY <1>1, <1>3, <1>4 DEF Scanned
<1>6. Len(source.code[Scanned]) \in Nat /\ DOMAIN source.code[Scanned] = 1..Len(source.code[Scanned])
  BY <1>2, <1>5, Code
<1> QED
  BY <1>1, <1>2, <1>3, <1>5, <1>6 DEF code, End, ScanInv

\* What a step of the scan leaves alone.
LEMMA ScanFrame ==
  ASSUME Inv, Scanning, ScanNext, NEW b, b = Scanned, ScanState(b)',
         /\ defined_list' \in [Var -> Id \cup {Null}] /\ new_value' \in [Var -> Id \cup {Null}]
         /\ forward_list' \subseteq Id \X Id /\ delete_list' \subseteq Id
  PROVE  Inv'
<1>1. /\ source' = source /\ pc' = pc /\ operand' = operand /\ deleted' = deleted /\ next' = next
      /\ phis' = phis /\ pairs' = pairs /\ allocas' = allocas /\ at' = at + 1
      /\ todo' = todo /\ var' = var /\ queue' = queue
      /\ define_var' = define_var /\ value_status' = value_status /\ visited' = visited /\ calls' = calls
  BY DEF ScanNext, placing, renaming
<1>2. pc = "forward" /\ at \in Nat
  BY ScanPlace
<1>3. TypeOK'
  <2>1. TypeOK
    BY DEF Inv
  <2>2. at' \in Nat \ {0}
    BY <1>1, <1>2
  <2>3. (DOMAIN operand = Block /\ \A c \in Block : operand[c] \in [DOMAIN code[c] -> Value \cup {Null}])'
    BY <1>1, <2>1 DEF TypeOK, code
  <2> QED
    BY <1>1, <2>1, <2>2, <2>3 DEF TypeOK
<1>4. Lists'
  <2>1. Lists /\ Left' = Left /\ ForwardedBlocks' = ForwardedBlocks
    BY <1>1 DEF Inv, Left, ForwardedBlocks
  <2> QED
    BY <1>1, <2>1 DEF Lists, LocalVarOp
<1>5. OperandsOK'
  <2>1. OperandsOK /\ ForwardedBlocks' = ForwardedBlocks /\ code' = code /\ visited = {} /\ Phis' = Phis
    BY <1>1, <1>2 DEF Inv, ForwardedBlocks, Fresh, code, Phis
  <2>2. \A c, k : Renamed(c, k)' <=> Renamed(c, k)
    BY <1>1, <2>1 DEF Renamed
  <2>3. \A x, c, k : Waiting(x, c, k)' <=> Waiting(x, c, k)
    BY <1>1, <2>2 DEF Waiting
  <2>4. \A x, c, k : AtHand(x, c, k)' <=> AtHand(x, c, k)
    BY <1>1, <2>1 DEF AtHand, IsDefinition
  <2> QED
    BY <1>1, <2>1, <2>3, <2>4 DEF OperandsOK
<1>6. AllocasInv' /\ Unplaced' /\ Fresh'
  BY <1>1, <1>2 DEF Inv, AllocasInv, Unplaced, Fresh
<1>7. ScanInv'
  <2>1. ForwardedBlocks' = ForwardedBlocks /\ next <= Len(source.blocks) /\ Scanned' = b
    BY <1>1 DEF ForwardedBlocks, Scanning, Scanned
  <2>2. ScanInv
    BY ScanPlace
  <2>3. \A c : Untouched(c)' <=> Untouched(c)
    BY <1>1 DEF Untouched, code
  <2>4. (ScanState(Scanned))'
    BY <2>1
  <2>5. (next <= Len(source.blocks) /\ next <= Len(source.blocks) + 1)'
    BY <1>1, <2>1, <2>2 DEF ScanInv
  <2>6. next \in Nat /\ Len(source.blocks) \in Nat
    BY Blocks, ScanPlace, LenProperties DEF TypeOK
  <2> QED
    BY <1>1, <2>1, <2>2, <2>3, <2>4, <2>5, <2>6 DEF ScanInv
<1> QED
  BY <1>1, <1>2, <1>3, <1>4, <1>5, <1>6, <1>7 DEF Inv

LEMMA LastDefinedKept ==
  ASSUME source \in Programs, TypeOK, NEW b \in Block, at \in DOMAIN source.code[b],
         NEW v \in Var, LastDefined(b, v), ~StoreAt(source, b, at, v),
         source' = source, at' = at + 1, defined_list'[v] = defined_list[v], new_value'[v] = new_value[v]
  PROVE  LastDefined(b, v)'
<1>1. StoreBefore(source, b, at + 1, v) <=> StoreBefore(source, b, at, v)
  BY PlaceStep
<1>2. \A m : LastStoreAt(source, b, at, v, m) => LastStoreAt(source, b, at + 1, v, m)
  BY PlaceStep
<1>3. Kept(source, b, at) \subseteq Kept(source, b, at + 1)
  BY PlaceStep
<1> QED
  BY <1>1, <1>2, <1>3 DEF LastDefined

LEMMA StepStore == Inv /\ ScanStore => Inv'
<1> SUFFICES ASSUME Inv, ScanStore PROVE Inv'
  OBVIOUS
<1> DEFINE b == Scanned
           i == source.code[b][at]
<1>0. Scanning /\ ScanNext /\ i.op = "store" /\ source' = source /\ at' = at + 1
  BY DEF ScanStore, ScanNext, code
<1>1. /\ source \in Programs /\ TypeOK /\ b \in Block /\ ScanState(b)
      /\ at \in DOMAIN source.code[b] /\ at \in Nat /\ at < End(source, b)
  BY <1>0, ScanPlace
<1>2. i.var \in Var /\ StoreAt(source, b, at, i.var) /\ \A v : StoreAt(source, b, at, v) => v = i.var
  BY <1>0, <1>1, Instruction DEF StoreAt
<1>3. PICK m \in Nat : m < at /\ i.val = <<b, m>> /\ (CallAt(source, b, m) \/ \E v \in Var : LoadAt(source, b, m, v))
  BY <1>0, <1>1, Instruction
<1>4. Forwarded(forward_list, i.val) \in Kept(source, b, at)
  BY <1>1, <1>3, ForwardedKept
<1>5. /\ defined_list' = [defined_list EXCEPT ![i.var] = <<b, at>>]
      /\ delete_list' = delete_list \cup ({defined_list[i.var]} \ {Null})
      /\ new_value' = [new_value EXCEPT ![i.var] = Forwarded(forward_list, i.val)]
      /\ forward_list' = forward_list
  BY DEF ScanStore, code
<1>6. defined_list \in [Var -> Id \cup {Null}] /\ new_value \in [Var -> Id \cup {Null}]
      /\ delete_list \subseteq Id /\ forward_list \subseteq Id \X Id
  BY <1>1 DEF TypeOK
<1>7. <<b, at>> \in Id /\ <<b, at>> # Null
  BY <1>1, NullAssumption DEF Id, Value
<1>8. /\ defined_list' \in [Var -> Id \cup {Null}] /\ new_value' \in [Var -> Id \cup {Null}]
      /\ forward_list' \subseteq Id \X Id /\ delete_list' \subseteq Id
  <2>1. Forwarded(forward_list, i.val) \in Id
    BY <1>1, <1>4, KeptValues
  <2> HIDE DEF b, i
  <2> QED
    BY <1>2, <1>5, <1>6, <1>7, <2>1
<1>9. /\ defined_list'[i.var] = <<b, at>> /\ new_value'[i.var] = Forwarded(forward_list, i.val)
      /\ \A v \in Var \ {i.var} : defined_list'[v] = defined_list[v] /\ new_value'[v] = new_value[v]
  <2> HIDE DEF b, i
  <2> QED
    BY <1>2, <1>5, <1>6
<1> HIDE DEF b, i
<1>10. PICK c : c = b
  OBVIOUS
<1>11. \A v \in Var : LastDefined(c, v)'
  <2>1. ASSUME NEW v \in Var \ {i.var} PROVE LastDefined(c, v)'
    <3>1. LastDefined(b, v)
      BY <1>1 DEF ScanState
    <3> QED
      BY <1>0, <1>1, <1>2, <1>9, <1>10, <3>1, LastDefinedKept
  <2>2. ASSUME NEW v, v = i.var PROVE LastDefined(c, v)'
    <3>1. LastStoreAt(source, b, at + 1, v, at) /\ Kept(source, b, at) \subseteq Kept(source, b, at + 1)
      BY <1>1, <1>2, <2>2, PlaceStep
    <3> QED
      BY <1>0, <1>1, <1>4, <1>7, <1>9, <1>10, <2>2, <3>1 DEF LastDefined
  <2> QED
    BY <2>1, <2>2
<1>12. \A x \in delete_list' : \E l \in Nat : x = <<b, l>> /\ Overwritten(source, b, l)
  <2>1. \A x \in delete_list : \E l \in Nat : x = <<b, l>> /\ Overwritten(source, b, l)
    BY <1>1 DEF ScanState
  <2>2. defined_list[i.var] # Null => \E l \in Nat : defined_list[i.var] = <<b, l>> /\ Overwritten(source, b, l)
    <3>1. SUFFICES ASSUME defined_list[i.var] # Null
                   PROVE  \E l \in Nat : defined_list[i.var] = <<b, l>> /\ Overwritten(source, b, l)
      OBVIOUS
    <3>2. LastDefined(b, i.var)
      BY <1>1, <1>2 DEF ScanState
    <3>3. PICK l \in Nat : defined_list[i.var] = <<b, l>> /\ LastStoreAt(source, b, at, i.var, l)
      BY <3>1, <3>2 DEF LastDefined
    <3>4. Overwritten(source, b, l)
      BY <1>1, <1>2, <3>3 DEF Overwritten, LastStoreAt
    <3> QED
      BY <3>3, <3>4
  <2> QED
    BY <1>5, <2>1, <2>2
<1>13. /\ \A f \in forward_list : \E l \in Nat :
             f[1] = <<b, l>> /\ l < at + 1 /\ LocalLoad(source, b, l) /\ f[2] \in Kept(source, b, l)
       /\ \A l \in Nat : l < at + 1 /\ LocalLoad(source, b, l) => \E f \in forward_list : f[1] = <<b, l>>
  <2>1. ~LocalLoad(source, b, at)
    BY <1>2 DEF LocalLoad, StoreAt, LoadAt
  <2>2. \A l \in Nat : l < at + 1 <=> l < at \/ l = at
    BY <1>1
  <2> QED
    BY <1>1, <2>1, <2>2 DEF ScanState
<1>14. ScanState(c)'
  <2>1. at + 1 <= End(source, b)
    BY <1>1, Code DEF End
  <2> QED
    BY <1>0, <1>5, <1>10, <1>11, <1>12, <1>13, <2>1 DEF ScanState
<1>15. c = Scanned
  BY <1>10 DEF b
<1> QED
  BY <1>0, <1>8, <1>14, <1>15, ScanFrame

LEMMA StepLoad == Inv /\ ScanLoad => Inv'
<1> SUFFICES ASSUME Inv, ScanLoad PROVE Inv'
  OBVIOUS
<1> DEFINE b == Scanned
           i == source.code[b][at]
<1>0. Scanning /\ ScanNext /\ i.op = "load" /\ source' = source /\ at' = at + 1
  BY DEF ScanLoad, ScanNext, code
<1>1. /\ source \in Programs /\ TypeOK /\ b \in Block /\ ScanState(b)
      /\ at \in DOMAIN source.code[b] /\ at \in Nat /\ at < End(source, b)
  BY <1>0, ScanPlace
<1>2. i.var \in Var /\ LoadAt(source, b, at, i.var) /\ \A v : LoadAt(source, b, at, v) => v = i.var
  BY <1>0, <1>1, Instruction DEF LoadAt
<1>3. /\ forward_list' = IF defined_list[i.var] = Null THEN forward_list
                         ELSE forward_list \cup {<<<<b, at>>, new_value[i.var]>>}
      /\ defined_list' = defined_list /\ new_value' = new_value /\ delete_list' = delete_list
  BY DEF ScanLoad, code
<1>4. defined_list \in [Var -> Id \cup {Null}] /\ new_value \in [Var -> Id \cup {Null}]
      /\ delete_list \subseteq Id /\ forward_list \subseteq Id \X Id
  BY <1>1 DEF TypeOK
<1>5. LastDefined(b, i.var)
  BY <1>1, <1>2 DEF ScanState
<1>6. defined_list[i.var] = Null => ~LocalLoad(source, b, at)
  BY <1>2, <1>5 DEF LastDefined, LocalLoad
<1>7. defined_list[i.var] # Null => LocalLoad(source, b, at) /\ new_value[i.var] \in Kept(source, b, at)
  <2> SUFFICES ASSUME defined_list[i.var] # Null
               PROVE  LocalLoad(source, b, at) /\ new_value[i.var] \in Kept(source, b, at)
    OBVIOUS
  <2>1. PICK l \in Nat : LastStoreAt(source, b, at, i.var, l)
    BY <1>5 DEF LastDefined
  <2>2. StoreBefore(source, b, at, i.var)
    BY <1>1, <2>1, StorePlaces DEF LastStoreAt
  <2> QED
    BY <1>2, <1>5, <2>2 DEF LastDefined, LocalLoad
<1> HIDE DEF b, i
<1>8. /\ forward_list \subseteq forward_list'
      /\ \A f \in forward_list' \ forward_list :
           f = <<<<b, at>>, new_value[i.var]>> /\ LocalLoad(source, b, at) /\ f[2] \in Kept(source, b, at)
      /\ LocalLoad(source, b, at) => \E f \in forward_list' : f[1] = <<b, at>>
  <2>1. CASE defined_list[i.var] = Null
    BY <1>3, <1>6, <2>1
  <2>2. CASE defined_list[i.var] # Null
    <3>1. PICK g : g = <<<<b, at>>, new_value[i.var]>>
      OBVIOUS
    <3>2. g[1] = <<b, at>> /\ g[2] = new_value[i.var]
      BY <3>1
    <3>3. forward_list' = forward_list \cup {g}
      BY <1>3, <2>2, <3>1
    <3>4. LocalLoad(source, b, at) /\ g[2] \in Kept(source, b, at)
      BY <1>7, <2>2, <3>2
    <3> QED
      BY <3>1, <3>2, <3>3, <3>4
  <2> QED
    BY <2>1, <2>2
<1>9. forward_list' \subseteq Id \X Id
  <2>1. Kept(source, b, at) \subseteq Id /\ <<b, at>> \in Id
    BY <1>1, KeptValues DEF Id
  <2>2. \A f \in forward_list' \ forward_list : f \in Id \X Id
    BY <1>8, <2>1
  <2> QED
    BY <1>4, <2>2
<1>10. PICK c : c = b
  OBVIOUS
<1>11. \A v \in Var : LastDefined(c, v)'
  <2> SUFFICES ASSUME NEW v \in Var PROVE LastDefined(c, v)'
    OBVIOUS
  <2>1. LastDefined(b, v) /\ ~StoreAt(source, b, at, v)
    BY <1>1, <1>2 DEF ScanState, LoadAt, StoreAt
  <2> QED
    BY <1>0, <1>1, <1>3, <1>10, <2>1, LastDefinedKept
<1>12. \A f \in forward_list' : \E l \in Nat :
         f[1] = <<b, l>> /\ l < at + 1 /\ LocalLoad(source, b, l) /\ f[2] \in Kept(source, b, l)
  <2>1. ASSUME NEW f \in forward_list
        PROVE  \E l \in Nat : f[1] = <<b, l>> /\ l < at + 1 /\ LocalLoad(source, b, l) /\ f[2] \in Kept(source, b, l)
    <3>1. PICK l \in Nat : f[1] = <<b, l>> /\ l < at /\ LocalLoad(source, b, l) /\ f[2] \in Kept(source, b, l)
      BY <1>1 DEF ScanState
    <3>2. l < at + 1
      BY <1>1, <3>1
    <3> QED
      BY <3>1, <3>2
  <2>2. at < at + 1
    BY <1>1
  <2> QED
    BY <1>1, <1>8, <2>1, <2>2
<1>13. \A l \in Nat : l < at + 1 /\ LocalLoad(source, b, l) => \E f \in forward_list' : f[1] = <<b, l>>
  <2>1. \A l \in Nat : l < at + 1 <=> l < at \/ l = at
    BY <1>1
  <2>2. \A l \in Nat : l < at /\ LocalLoad(source, b, l) => \E f \in forward_list : f[1] = <<b, l>>
    BY <1>1 DEF ScanState
  <2> QED
    BY <1>8, <2>1, <2>2
<1>14. ScanState(c)'
  <2>1. at + 1 <= End(source, b)
    BY <1>1, Code DEF End
  <2>2. \A x \in delete_list : \E l \in Nat : x = <<b, l>> /\ Overwritten(source, b, l)
    BY <1>1 DEF ScanState
  <2>3. source' = source /\ at' = at + 1 /\ delete_list' = delete_list
    BY <1>0, <1>3
  <2> QED
    BY <1>10, <1>11, <1>12, <1>13, <2>1, <2>2, <2>3 DEF ScanState
<1>15. c = Scanned
  BY <1>10 DEF b
<1>16. defined_list' = defined_list /\ new_value' = new_value /\ delete_list' = delete_list
  BY <1>3
<1> QED
  BY <1>0, <1>4, <1>9, <1>14, <1>15, <1>16, ScanFrame

LEMMA StepOther == Inv /\ ScanOther => Inv'
<1> SUFFICES ASSUME Inv, ScanOther PROVE Inv'
  OBVIOUS
<1> DEFINE b == Scanned
           i == source.code[b][at]
<1>0. Scanning /\ ScanNext /\ i.op \notin {"load", "store"} /\ source' = source /\ at' = at + 1
  BY DEF ScanOther, ScanNext, code, isLocalVarOp
<1>1. /\ source \in Programs /\ TypeOK /\ b \in Block /\ ScanState(b)
      /\ at \in DOMAIN source.code[b] /\ at \in Nat /\ at < End(source, b)
  BY <1>0, ScanPlace
<1>2. \A v : ~StoreAt(source, b, at, v) /\ ~LoadAt(source, b, at, v)
  BY <1>0 DEF LoadAt, StoreAt
<1>3. defined_list' = defined_list /\ new_value' = new_value /\ delete_list' = delete_list /\ forward_list' = forward_list
  BY DEF ScanOther
<1>4. defined_list \in [Var -> Id \cup {Null}] /\ new_value \in [Var -> Id \cup {Null}]
      /\ delete_list \subseteq Id /\ forward_list \subseteq Id \X Id
  BY <1>1 DEF TypeOK
<1> HIDE DEF b, i
<1>10. PICK c : c = b
  OBVIOUS
<1>11. \A v \in Var : LastDefined(c, v)'
  <2> SUFFICES ASSUME NEW v \in Var PROVE LastDefined(c, v)'
    OBVIOUS
  <2>1. LastDefined(b, v) /\ ~StoreAt(source, b, at, v)
    BY <1>1, <1>2 DEF ScanState
  <2> QED
    BY <1>0, <1>1, <1>3, <1>10, <2>1, LastDefinedKept
<1>12. /\ \A f \in forward_list : \E l \in Nat :
             f[1] = <<b, l>> /\ l < at + 1 /\ LocalLoad(source, b, l) /\ f[2] \in Kept(source, b, l)
       /\ \A l \in Nat : l < at + 1 /\ LocalLoad(source, b, l) => \E f \in forward_list : f[1] = <<b, l>>
  <2>1. ~LocalLoad(source, b, at)
    BY <1>2 DEF LocalLoad
  <2>2. \A l \in Nat : l < at + 1 <=> l < at \/ l = at
    BY <1>1
  <2> QED
    BY <1>1, <2>1, <2>2 DEF ScanState
<1>14. ScanState(c)'
  <2>1. at + 1 <= End(source, b)
    BY <1>1, Code DEF End
  <2>2. \A x \in delete_list : \E l \in Nat : x = <<b, l>> /\ Overwritten(source, b, l)
    BY <1>1 DEF ScanState
  <2> QED
    BY <1>0, <1>3, <1>10, <1>11, <1>12, <2>1, <2>2 DEF ScanState
<1>15. c = Scanned
  BY <1>10 DEF b
<1> QED
  BY <1>0, <1>3, <1>4, <1>14, <1>15, ScanFrame

\* The block whose scan has come to its end.
LEMMA ForwardPlace ==
  ASSUME Inv, ForwardBlock, NEW b, b = Scanned
  PROVE  /\ pc = "forward" /\ source \in Programs /\ TypeOK /\ Lists /\ OperandsOK /\ AllocasInv
         /\ Unplaced /\ Fresh /\ ScanState(b) /\ b \in Block
         /\ at = End(source, b) /\ at \in Nat /\ next \in Nat /\ next <= Len(source.blocks) /\ Len(source.blocks) \in Nat
         /\ \A c \in Block \ ForwardedBlocks : Untouched(c)
         /\ b \notin ForwardedBlocks /\ ForwardedBlocks' = ForwardedBlocks \cup {b} /\ ForwardedBlocks \subseteq Block
<1>1. pc = "forward" /\ next <= Len(source.blocks) /\ at > Len(source.code[b]) /\ source' = source /\ next' = next + 1
  BY DEF ForwardBlock, code
<1>2. source \in Programs /\ TypeOK /\ Lists /\ OperandsOK /\ AllocasInv /\ ScanInv /\ Unplaced /\ Fresh
  BY <1>1 DEF Inv
<1>3. next \in Nat \ {0} /\ at \in Nat \ {0}
  BY <1>2 DEF TypeOK
<1>4. source.blocks \in Seq(Block) /\ Len(source.blocks) \in Nat
  BY <1>2, Blocks, LenProperties
<1>5. b \in Block /\ b = source.blocks[next]
  BY <1>1, <1>3, <1>4 DEF Scanned
<1>6. at = End(source, b)
  <2>1. at <= End(source, b)
    BY <1>1, <1>2 DEF ScanInv, ScanState
  <2>2. Len(source.code[b]) \in Nat
    BY <1>2, <1>5, Code
  <2> QED
    BY <1>1, <1>3, <2>1, <2>2 DEF End
<1>7. b \notin ForwardedBlocks
  <2>1. \A n \in 1..(next - 1) : n \in 1..Len(source.blocks) /\ n # next
    BY <1>1, <1>3, <1>4
  <2>2. next \in 1..Len(source.blocks)
    BY <1>1, <1>3, <1>4
  <2> QED
    BY <1>2, <1>5, <2>1, <2>2, Blocks DEF ForwardedBlocks
<1>8. ForwardedBlocks' = ForwardedBlocks \cup {b}
  <2>1. 1..(next' - 1) = 1..(next - 1) \cup {next}
    BY <1>1, <1>3
  <2> QED
    BY <1>1, <1>5, <2>1 DEF ForwardedBlocks
<1>9. ForwardedBlocks \subseteq Block
  <2>1. \A n \in 1..(next - 1) : n \in 1..Len(source.blocks)
    BY <1>1, <1>3, <1>4
  <2> QED
    BY <1>4, <2>1 DEF ForwardedBlocks
<1> QED
  BY <1>1, <1>2, <1>3, <1>4, <1>5, <1>6, <1>7, <1>8, <1>9 DEF ScanInv

\* Only local loads of the scanned block have been forwarded.
LEMMA ForwardedOther ==
  ASSUME NEW b, ScanState(b), NEW x, ~\E m \in Nat : x = <<b, m>> /\ LocalLoad(source, b, m)
  PROVE  Forwarded(forward_list, x) = x
<1>1. ~\E f \in forward_list : f[1] = x
  BY DEF ScanState
<1> QED
  BY <1>1 DEF Forwarded

\* What a block has kept is at hand, or a load that waits for its renaming.
LEMMA KeptReady ==
  ASSUME source \in Programs, NEW b \in Block, NEW k, NEW y \in Kept(source, b, k), b \notin visited
  PROVE  AtHand(y, b, k) \/ Waiting(y, b, k)
<1>1. PICK j \in Nat : y = <<b, j>> /\ KeptAt(source, b, k, j)
  BY DEF Kept
<1>2. CASE CallAt(source, b, j)
  <2>1. IsDefinition(y) /\ y[1] = b /\ y[2] = j /\ j < k
    BY <1>1, <1>2 DEF IsDefinition, KeptAt
  <2> QED
    BY <2>1, DomFacts DEF AtHand
<1>3. CASE ~CallAt(source, b, j)
  BY <1>1, <1>3 DEF Waiting, Renamed
<1> QED
  BY <1>2, <1>3

\* The operands after insideBlockForwarding of one more block.
LEMMA ForwardOperands ==
  ASSUME Inv, ForwardBlock, NEW b, b = Scanned
  PROVE  /\ \A c \in Block : \A k \in DOMAIN source.code[c] :
              /\ operand'[c][k] = Forwarded(forward_list, operand[c][k])
              /\ operand'[c][k] \in Value \cup {Null}
              /\ c # b => operand'[c][k] = operand[c][k]
              /\ c = b => IF Uses(source, b, k) THEN AtHand(operand'[b][k], b, k) \/ Waiting(operand'[b][k], b, k)
                                                ELSE operand'[b][k] = Null
         /\ (DOMAIN operand = Block /\ \A c \in Block : DOMAIN operand[c] = DOMAIN code[c])'
<1>1. /\ pc = "forward" /\ source \in Programs /\ TypeOK /\ OperandsOK /\ Unplaced /\ Fresh
      /\ ScanState(b) /\ b \in Block /\ at = End(source, b) /\ at \in Nat
      /\ \A c \in Block \ ForwardedBlocks : Untouched(c)
      /\ b \notin ForwardedBlocks
  BY ForwardPlace
<1>2. /\ operand' = [c \in Block |-> [k \in DOMAIN operand[c] |-> Forwarded(forward_list, operand[c][k])]]
      /\ source' = source
  BY DEF ForwardBlock
<1>3. forward_list \subseteq Id \X Id /\ \A c \in Block : operand[c] \in [DOMAIN source.code[c] -> Value \cup {Null}]
  BY <1>1 DEF TypeOK, code
<1>4. \A c \in Block : \A k \in DOMAIN source.code[c] : operand'[c][k] = Forwarded(forward_list, operand[c][k])
  BY <1>2, <1>3
<1>5. (DOMAIN operand = Block /\ \A c \in Block : DOMAIN operand[c] = DOMAIN code[c])'
  BY <1>2, <1>3 DEF code
<1>6. \A x : Forwarded(forward_list, x) \in Id \/ Forwarded(forward_list, x) = x
  BY <1>3 DEF Forwarded
<1>7. ASSUME NEW c \in Block \ {b}, NEW k \in DOMAIN source.code[c]
      PROVE  Forwarded(forward_list, operand[c][k]) = operand[c][k]
  <2> DEFINE x == operand[c][k]
  <2> SUFFICES ASSUME NEW m \in Nat, x = <<b, m>>, LocalLoad(source, b, m) PROVE FALSE
    BY <1>1, ForwardedOther
  <2>1. x # Null
    BY <1>1, NullAssumption DEF Value, Id
  <2>2. CASE c \notin ForwardedBlocks
    <3>1. x = source.code[c][k].val
      BY <1>1, <1>7, <2>2 DEF Untouched, code
    <3>2. source.code[c][k].op \in {"store", "out"}
      BY <1>1, <2>1, <3>1, Instruction
    <3>3. \E l \in Nat : source.code[c][k].val = <<c, l>>
      BY <1>1, <3>2, Instruction
    <3> QED
      BY <1>7, <3>1, <3>3
  <2>3. CASE c \in ForwardedBlocks
    <3>1. AtHand(x, c, k) \/ Waiting(x, c, k)
      BY <1>1, <1>7, <2>1, <2>3 DEF OperandsOK, code
    <3>2. ~Waiting(x, c, k)
      BY <1>7 DEF Waiting
    <3>3. IsDefinition(x)
      BY <3>1, <3>2 DEF AtHand
    <3>4. x \notin Phis
      BY <1>1 DEF Unplaced, Phis, Phi
    <3>5. CallAt(source, b, m)
      BY <3>3, <3>4 DEF IsDefinition
    <3> QED
      BY <3>5 DEF CallAt, LocalLoad, LoadAt
  <2> QED
    BY <2>2, <2>3
<1>8. ASSUME NEW k \in DOMAIN source.code[b]
      PROVE  IF Uses(source, b, k) THEN AtHand(operand'[b][k], b, k) \/ Waiting(operand'[b][k], b, k)
                                   ELSE operand'[b][k] = Null
  <2>1. operand[b][k] = source.code[b][k].val
    BY <1>1 DEF Untouched, code
  <2>2. k \in Nat /\ k < at
    BY <1>1, Instruction
  <2>3. CASE Uses(source, b, k)
    <3>1. PICK m \in Nat : m < k /\ operand[b][k] = <<b, m>> /\ (CallAt(source, b, m) \/ \E v \in Var : LoadAt(source, b, m, v))
      BY <1>1, <2>1, <2>3, Instruction DEF Uses
    <3>2. m < at
      BY <1>1, <2>2, <3>1
    <3>3. Forwarded(forward_list, <<b, m>>) \in Kept(source, b, k)
      BY <1>1, <2>2, <3>1, <3>2, ForwardedKept
    <3>4. operand'[b][k] \in Kept(source, b, k)
      BY <1>1, <1>4, <3>1, <3>3
    <3>5. b \notin visited
      BY <1>1 DEF Fresh
    <3> QED
      BY <1>1, <2>3, <3>4, <3>5, KeptReady
  <2>4. CASE ~Uses(source, b, k)
    <3>1. operand[b][k] = Null
      BY <1>1, <2>1, <2>4, Instruction DEF Uses
    <3>2. ~\E m \in Nat : Null = <<b, m>> /\ LocalLoad(source, b, m)
      BY <1>1, NullAssumption DEF Value, Id
    <3> QED
      BY <1>1, <1>4, <2>4, <3>1, <3>2, ForwardedOther
  <2> QED
    BY <2>3, <2>4
<1>9. \A c \in Block : \A k \in DOMAIN source.code[c] : operand'[c][k] \in Value \cup {Null}
  BY <1>3, <1>4, <1>6 DEF Value
<1> QED
  BY <1>4, <1>5, <1>7, <1>8, <1>9

LEMMA StepForward == Inv /\ ForwardBlock => Inv'
<1> SUFFICES ASSUME Inv, ForwardBlock PROVE Inv'
  OBVIOUS
<1>0. PICK b : b = Scanned
  OBVIOUS
<1>1. /\ pc = "forward" /\ source \in Programs /\ TypeOK /\ Lists /\ OperandsOK /\ AllocasInv
      /\ Unplaced /\ Fresh /\ ScanState(b) /\ b \in Block
      /\ at = End(source, b) /\ at \in Nat /\ next \in Nat /\ next <= Len(source.blocks) /\ Len(source.blocks) \in Nat
      /\ \A c \in Block \ ForwardedBlocks : Untouched(c)
      /\ b \notin ForwardedBlocks /\ ForwardedBlocks' = ForwardedBlocks \cup {b} /\ ForwardedBlocks \subseteq Block
  BY <1>0, ForwardPlace
<1>2. /\ source' = source /\ pc' = pc /\ next' = next + 1 /\ at' = 1
      /\ deleted' = deleted \cup delete_list \cup {f[1] : f \in forward_list}
      /\ defined_list' = NoneKnown /\ new_value' = NoneKnown /\ forward_list' = {} /\ delete_list' = {}
      /\ phis' = phis /\ pairs' = pairs /\ todo' = todo /\ var' = var /\ queue' = queue
      /\ define_var' = define_var /\ value_status' = value_status /\ visited' = visited /\ calls' = calls
      /\ allocas' = allocas
  BY DEF ForwardBlock, placing, renaming
<1>3. /\ \A c \in Block : \A k \in DOMAIN source.code[c] :
           /\ operand'[c][k] \in Value \cup {Null}
           /\ c # b => operand'[c][k] = operand[c][k]
           /\ c = b => IF Uses(source, b, k) THEN AtHand(operand'[b][k], b, k) \/ Waiting(operand'[b][k], b, k)
                                             ELSE operand'[b][k] = Null
      /\ (DOMAIN operand = Block /\ \A c \in Block : DOMAIN operand[c] = DOMAIN code[c])'
  BY <1>0, ForwardOperands
<1>4. /\ \A x \in delete_list : \E m \in Nat : x = <<b, m>> /\ Overwritten(source, b, m)
      /\ \A f \in forward_list : \E m \in Nat : f[1] = <<b, m>> /\ LocalLoad(source, b, m)
      /\ \A m \in Nat : LocalLoad(source, b, m) => \E f \in forward_list : f[1] = <<b, m>>
  <2>1. \A m \in Nat : LocalLoad(source, b, m) => m < at
    BY <1>1, Instruction DEF LocalLoad, LoadAt
  <2> QED
    BY <1>1, <2>1 DEF ScanState
<1>5. TypeOK'
  <2>1. (DOMAIN operand = Block /\ \A c \in Block : operand[c] \in [DOMAIN code[c] -> Value \cup {Null}])'
    <3>1. operand' = [c \in Block |-> [k \in DOMAIN operand[c] |-> Forwarded(forward_list, operand[c][k])]]
      BY DEF ForwardBlock
    <3>2. \A c \in Block : DOMAIN operand[c] = DOMAIN source.code[c]
      BY <1>1 DEF TypeOK, code
    <3>3. ASSUME NEW c \in Block PROVE operand'[c] \in [DOMAIN source.code[c] -> Value \cup {Null}]
      <4>1. operand'[c] = [k \in DOMAIN source.code[c] |-> Forwarded(forward_list, operand[c][k])]
        BY <3>1, <3>2
      <4>2. \A k \in DOMAIN source.code[c] : operand'[c][k] \in Value \cup {Null}
        BY <1>3
      <4> QED
        BY <4>1, <4>2
    <3> QED
      BY <1>2, <1>3, <3>3 DEF code
  <2>2. deleted' \subseteq Id
    <3>1. deleted \subseteq Id /\ delete_list \subseteq Id /\ forward_list \subseteq Id \X Id
      BY <1>1 DEF TypeOK
    <3> QED
      BY <1>2, <3>1
  <2>3. /\ (defined_list \in [Var -> Id \cup {Null}] /\ new_value \in [Var -> Id \cup {Null}])'
        /\ (forward_list \subseteq Id \X Id /\ delete_list \subseteq Id)'
    BY <1>2 DEF NoneKnown
  <2>4. (next \in Nat \ {0} /\ at \in Nat \ {0})'
    BY <1>1, <1>2
  <2> QED
    BY <1>1, <1>2, <2>1, <2>2, <2>3, <2>4 DEF TypeOK
<1>6. Lists'
  <2>1. Left' = Left /\ Left = {}
    BY <1>1, <1>2 DEF Left, Fresh
  <2>2. \A m \in Nat : LocalLoad(source, b, m) \/ Overwritten(source, b, m) => LocalVarOp(source, b, m)
    BY DEF LocalLoad, Overwritten, LocalVarOp, LoadAt, StoreAt, isLocalVarOp
  <2>3. \A x \in delete_list \cup {f[1] : f \in forward_list} : \E k \in Nat :
          x = <<b, k>> /\ LocalVarOp(source, b, k) /\ (LocalLoad(source, b, k) \/ Overwritten(source, b, k))
    BY <1>4, <2>2
  <2>4. \A x \in deleted' : \E c \in Block : \E k \in Nat :
          x = <<c, k>> /\ LocalVarOp(source, c, k) /\ (LocalLoad(source, c, k) \/ Overwritten(source, c, k))
    BY <1>1, <1>2, <2>1, <2>3 DEF Lists
  <2>5. \A c \in ForwardedBlocks \cup {b} : \A k \in Nat : LocalLoad(source, c, k) => <<c, k>> \in deleted'
    BY <1>1, <1>2, <1>4 DEF Lists
  <2> QED
    BY <1>1, <1>2, <2>1, <2>4, <2>5 DEF Lists
<1>7. OperandsOK'
  <2>1. visited = {} /\ visited' = {} /\ Phis' = Phis
    BY <1>1, <1>2 DEF Fresh, Phis
  <2>2. \A x, c, k : AtHand(x, c, k)' <=> AtHand(x, c, k)
    BY <1>2, <2>1 DEF AtHand, IsDefinition
  <2>3. \A x, c, k : Waiting(x, c, k)' <=> Waiting(x, c, k)
    BY <1>2, <2>1 DEF Waiting, Renamed
  <2>4. \A c \in ForwardedBlocks \cup {b} : \A k \in DOMAIN source.code[c] :
          IF Uses(source, c, k) THEN AtHand(operand'[c][k], c, k) \/ Waiting(operand'[c][k], c, k)
                                ELSE operand'[c][k] = Null
    <3> SUFFICES ASSUME NEW c \in ForwardedBlocks \cup {b}, NEW k \in DOMAIN source.code[c]
                 PROVE  IF Uses(source, c, k) THEN AtHand(operand'[c][k], c, k) \/ Waiting(operand'[c][k], c, k)
                                              ELSE operand'[c][k] = Null
      OBVIOUS
    <3>1. CASE c = b
      BY <1>1, <1>3, <3>1
    <3>2. CASE c # b
      <4>1. operand'[c][k] = operand[c][k] /\ c \in ForwardedBlocks
        BY <1>1, <1>3, <3>2
      <4> QED
        BY <1>1, <4>1 DEF OperandsOK, code
    <3> QED
      BY <3>1, <3>2
  <2> QED
    BY <1>1, <1>2, <2>2, <2>3, <2>4 DEF OperandsOK, code
<1>8. AllocasInv' /\ Unplaced' /\ Fresh'
  BY <1>1, <1>2 DEF AllocasInv, Unplaced, Fresh
<1>9. ScanInv'
  <2>1. \A c \in Block \ ForwardedBlocks' : Untouched(c)'
    <3> SUFFICES ASSUME NEW c \in Block, c \notin ForwardedBlocks, c # b PROVE Untouched(c)'
      BY <1>1
    <3>1. Untouched(c)
      BY <1>1
    <3>2. \A k \in DOMAIN source.code[c] : operand'[c][k] = operand[c][k]
      BY <1>3
    <3>3. \A k : <<c, k>> \notin delete_list \cup {f[1] : f \in forward_list}
      BY <1>4
    <3> QED
      BY <1>2, <3>1, <3>2, <3>3 DEF Untouched, code
  <2>2. ASSUME (next <= Len(source.blocks))' PROVE (ScanState(Scanned))'
    <3>1. PICK c : c = Scanned'
      OBVIOUS
    <3>2. c \in Block
      <4>1. source.blocks \in Seq(Block) /\ next + 1 \in 1..Len(source.blocks)
        BY <1>1, <1>2, <2>2, Blocks
      <4> QED
        BY <1>2, <3>1, <4>1 DEF Scanned
    <3>3. \A v \in Var : defined_list'[v] = Null
      BY <1>2 DEF NoneKnown
    <3>4. ScanState(c)'
      BY <1>1, <1>2, <3>2, <3>3, FirstPlace DEF ScanState, LastDefined
    <3> QED
      BY <3>1, <3>4
  <2>3. (next <= Len(source.blocks) + 1)'
    BY <1>1, <1>2
  <2> QED
    BY <1>2, <2>1, <2>2, <2>3 DEF ScanInv
<1> QED
  BY <1>1, <1>2, <1>5, <1>6, <1>7, <1>8, <1>9 DEF Inv

-----------------------------------------------------------------------------
(* genPhi.                                                                 *)

LEMMA ListsFrame ==
  ASSUME Lists, source' = source, deleted' = deleted, next' = next, Left' = Left,
         pc = "forward" => pc' = "forward" \/ ForwardedBlocks = Block
  PROVE  Lists'
<1>1. ForwardedBlocks' = ForwardedBlocks
  BY DEF ForwardedBlocks
<1> QED
  BY <1>1 DEF Lists

LEMMA OperandsFrame ==
  ASSUME source \in Programs, OperandsOK, ForwardedBlocks \subseteq Block, source' = source, operand' = operand, next' = next,
         \A x \in Phis : x \in Phis',
         \A x : \A b \in Block : \A k \in DOMAIN source.code[b] : Waiting(x, b, k) => Waiting(x, b, k)'
  PROVE  OperandsOK'
<1>1. ForwardedBlocks' = ForwardedBlocks
  BY DEF ForwardedBlocks
<1>2. \A x, b, k : AtHand(x, b, k) => AtHand(x, b, k)'
  BY DEF AtHand, IsDefinition
<1>3. ASSUME NEW b \in ForwardedBlocks, NEW k \in DOMAIN source.code[b]
      PROVE  IF Uses(source, b, k) THEN (AtHand(operand[b][k], b, k) \/ Waiting(operand[b][k], b, k))'
                                   ELSE operand'[b][k] = Null
  <2>1. IF Uses(source, b, k) THEN AtHand(operand[b][k], b, k) \/ Waiting(operand[b][k], b, k)
                              ELSE operand[b][k] = Null
    BY DEF OperandsOK, code
  <2> QED
    BY <1>2, <1>3, <2>1
<1> QED
  BY <1>1, <1>3 DEF OperandsOK, code

LEMMA StepCollect == Inv /\ CollectGlobals => Inv'
<1> SUFFICES ASSUME Inv, CollectGlobals PROVE Inv'
  OBVIOUS
<1>1. /\ source' = source /\ pc = "forward" /\ pc' = "phis" /\ next > Len(source.blocks)
      /\ operand' = operand /\ deleted' = deleted /\ next' = next /\ at' = at
      /\ defined_list' = defined_list /\ new_value' = new_value /\ forward_list' = forward_list /\ delete_list' = delete_list
      /\ phis' = phis /\ pairs' = pairs /\ var' = var /\ queue' = queue
      /\ define_var' = define_var /\ value_status' = value_status /\ visited' = visited /\ calls' = calls
      /\ allocas' = allocas
      /\ todo' = UNION {{code[b][k].var : k \in Loads(b)} : b \in Block}
  BY DEF CollectGlobals, forwarding, renaming
<1>2. source \in Programs /\ TypeOK /\ Lists /\ OperandsOK /\ AllocasInv /\ Unplaced /\ Fresh
  BY <1>1 DEF Inv
<1>3. ForwardedBlocks = Block
  <2>1. source.blocks \in Seq(Block) /\ Len(source.blocks) \in Nat /\ next \in Nat
    BY <1>2, Blocks, LenProperties DEF TypeOK
  <2>2. \A n \in 1..Len(source.blocks) : n \in 1..(next - 1)
    BY <1>1, <2>1
  <2>3. \A n \in 1..(next - 1) : source.blocks[n] \in Block
    <3>1. next - 1 = Len(source.blocks)
      BY <1>1, <2>1 DEF Inv, ScanInv
    <3> QED
      BY <2>1, <3>1
  <2> QED
    BY <1>2, <2>2, <2>3, Blocks DEF ForwardedBlocks
<1>4. Left' = Left /\ Left = {} /\ Phis' = Phis
  BY <1>1, <1>2 DEF Left, Fresh, Phis
<1>5. Lists'
  BY <1>1, <1>2, <1>3, <1>4, ListsFrame
<1>6. OperandsOK'
  <2>1. \A x, b, k : Waiting(x, b, k) => Waiting(x, b, k)'
    BY <1>1, <1>2 DEF Waiting, Renamed, Fresh
  <2> QED
    BY <1>1, <1>2, <1>3, <1>4, <2>1, OperandsFrame
<1>7. TypeOK'
  <2>1. todo' \subseteq Var
    <3>1. \A b \in Block : \A k \in Loads(b) : code[b][k].var \in Var
      BY <1>2, Instruction DEF Loads, Listed, code
    <3> QED
      BY <1>1, <3>1
  <2>2. (DOMAIN operand = Block /\ \A c \in Block : operand[c] \in [DOMAIN code[c] -> Value \cup {Null}])'
    BY <1>1, <1>2 DEF TypeOK, code
  <2> QED
    BY <1>1, <1>2, <2>1, <2>2 DEF TypeOK
<1>8. PlacingInv'
  <2>1. ASSUME NEW v \in Var, GlobalVar(source, v) PROVE v \in todo'
    <3>1. PICK b \in Block : \E k \in Nat : LoadAt(source, b, k, v) /\ ~StoreBefore(source, b, k, v)
      BY <2>1 DEF GlobalVar
    <3>2. PICK k \in Nat : LoadAt(source, b, k, v) /\ ~StoreBefore(source, b, k, v)
      BY <3>1
    <3>3. ~LocalLoad(source, b, k) /\ ~Overwritten(source, b, k)
      BY <3>2 DEF LocalLoad, Overwritten, LoadAt, StoreAt
    <3>4. <<b, k>> \notin deleted
      BY <1>2, <1>4, <3>3 DEF Lists
    <3>5. k \in Loads(b) /\ code[b][k].var = v
      BY <3>2, <3>4 DEF Loads, Listed, LoadAt, code
    <3> QED
      BY <1>1, <3>5
  <2>2. queue' = <<>> /\ \A b \in Block : phis'[b] = {}
    BY <1>1, <1>2 DEF Unplaced
  <2>3. \A v \in Var : (GlobalVar(source, v) => v \in todo)'
    BY <1>1, <2>1
  <2> QED
    BY <2>2, <2>3 DEF PlacingInv
<1>9. AllocasInv' /\ Fresh'
  BY <1>1, <1>2 DEF AllocasInv, Fresh
<1> QED
  BY <1>1, <1>2, <1>5, <1>6, <1>7, <1>8, <1>9 DEF Inv

LEMMA OrdersSeq ==
  ASSUME NEW S \in SUBSET Block, NEW s \in Orders(S)
  PROVE  s \in Seq(Block) /\ ToSet(s) = S
<1>1. IsFiniteSet(S)
  BY SetsFinite, FS_Subset
<1>2. Cardinality(S) \in Nat
  BY <1>1, FS_CardinalityType
<1>3. s \in [1..Cardinality(S) -> S] /\ ToSet(s) = S
  BY DEF Orders
<1>4. s \in [1..Cardinality(S) -> Block]
  BY <1>3
<1> QED
  BY <1>2, <1>3, <1>4

LEMMA StepVar == Inv /\ StartVar => Inv'
<1> SUFFICES ASSUME Inv, StartVar PROVE Inv'
  OBVIOUS
<1>1. /\ source' = source /\ pc = "phis" /\ pc' = pc /\ queue = <<>>
      /\ operand' = operand /\ deleted' = deleted /\ next' = next /\ at' = at
      /\ defined_list' = defined_list /\ new_value' = new_value /\ forward_list' = forward_list /\ delete_list' = delete_list
      /\ phis' = phis /\ pairs' = pairs
      /\ define_var' = define_var /\ value_status' = value_status /\ visited' = visited /\ calls' = calls
      /\ allocas' = allocas
  BY DEF StartVar, forwarding, renaming
<1>2. PICK v \in todo : var' = v /\ todo' = todo \ {v} /\ queue' \in Orders({b \in Block : Stores(b, v) # {}})
  BY DEF StartVar
<1>3. source \in Programs /\ TypeOK /\ Lists /\ OperandsOK /\ AllocasInv /\ PlacingInv /\ Fresh
  BY <1>1 DEF Inv
<1>4. queue' \in Seq(Block) /\ ToSet(queue') = {b \in Block : Stores(b, v) # {}}
  BY <1>2, OrdersSeq
<1>5. v \in Var /\ v \notin todo' /\ \A b \in Block : v \notin phis[b]
  BY <1>2, <1>3 DEF TypeOK, PlacingInv
<1>6. Left' = Left /\ Left = {} /\ Phis' = Phis
  BY <1>1, <1>3 DEF Left, Fresh, Phis
<1>7. Lists'
  BY <1>1, <1>3, <1>6, ListsFrame
<1>8. OperandsOK'
  <2>1. \A x, b, k : Waiting(x, b, k) => Waiting(x, b, k)'
    BY <1>1, <1>3 DEF Waiting, Renamed, Fresh
  <2>2. ForwardedBlocks = Block
    BY <1>1, <1>3 DEF Lists
  <2> QED
    BY <1>1, <1>3, <1>6, <2>1, <2>2, OperandsFrame
<1>9. TypeOK'
  <2>1. todo' \subseteq Var
    BY <1>2, <1>3 DEF TypeOK
  <2>2. (DOMAIN operand = Block /\ \A c \in Block : operand[c] \in [DOMAIN code[c] -> Value \cup {Null}])'
    BY <1>1, <1>3 DEF TypeOK, code
  <2> QED
    BY <1>1, <1>2, <1>3, <1>4, <1>5, <2>1, <2>2 DEF TypeOK
<1>10. PlacingInv'
  <2>1. \A b \in Block : \A w : DefBlock(b, w)' <=> DefBlock(b, w)
    BY <1>1 DEF DefBlock
  <2>2. \A b : (dom_frontier(b))' = dom_frontier(b)
    BY <1>1 DEF dom_frontier
  <2>3. \A b \in Block : StoreIn(source, b, v) <=> Stores(b, v) # {}
    <3> SUFFICES ASSUME NEW b \in Block PROVE StoreIn(source, b, v) <=> Stores(b, v) # {}
      OBVIOUS
    <3>1. StoreIn(source, b, v) => Stores(b, v) # {}
      BY <1>3, <1>6, ListedStore
    <3>2. \A k \in Stores(b, v) : StoreAt(source, b, k, v) /\ k \in Nat
      BY <1>3, StoresFinite DEF Stores, Listed, StoreAt, code
    <3> QED
      BY <1>3, <3>1, <3>2, StorePlaces
  <2>4. PhiClosed(v)'
    BY <1>2, <1>4, <1>5, <2>1, <2>3 DEF PhiClosed, DefBlock
  <2>5. \A w : PhiClosed(w) => PhiClosed(w)'
    <3>1. \A b : b \notin ToSet(queue)
      BY <1>1 DEF ToSet
    <3> QED
      BY <1>1, <2>1, <2>2, <3>1 DEF PhiClosed
  <2>6. (queue # <<>> => var \in Var \ todo /\ PhiClosed(var) /\ \A b \in ToSet(queue) : DefBlock(b, var))'
    <3>1. \A b \in ToSet(queue') : DefBlock(b, v)'
      BY <1>4, <2>1, <2>3 DEF DefBlock
    <3> QED
      BY <1>2, <1>5, <2>4, <3>1
  <2>7. (\A w \in todo : \A b \in Block : w \notin phis[b])'
    BY <1>1, <1>2, <1>3 DEF PlacingInv
  <2>8. \A w \in Var : (GlobalVar(source, w) => w \in todo \/ PhiClosed(w))'
    BY <1>1, <1>2, <1>3, <2>4, <2>5 DEF PlacingInv
  <2>9. (\A b \in Block : \A w \in phis[b] : PhiClosed(w) /\ Justified(source, b, w))'
    BY <1>1, <1>3, <2>5 DEF PlacingInv
  <2> QED
    BY <2>6, <2>7, <2>8, <2>9 DEF PlacingInv
<1>11. AllocasInv' /\ Fresh'
  BY <1>1, <1>3 DEF AllocasInv, Fresh
<1> QED
  BY <1>1, <1>3, <1>7, <1>8, <1>9, <1>10, <1>11 DEF Inv

\* The members of a sequence put together from others.
LEMMA SeqSets ==
  ASSUME NEW S, NEW s \in Seq(S)
  PROVE  /\ DOMAIN s = 1..Len(s) /\ Len(s) \in Nat /\ ToSet(s) \subseteq S
         /\ \A t \in Seq(S) : s \o t \in Seq(S) /\ ToSet(s \o t) = ToSet(s) \cup ToSet(t)
         /\ s # <<>> => ToSet(s) = {Head(s)} \cup ToSet(Tail(s)) /\ Head(s) \in S /\ Tail(s) \in Seq(S)
         /\ \A x \in S : ToSet(Append(s, x)) = ToSet(s) \cup {x}
<1>1. DOMAIN s = 1..Len(s) /\ Len(s) \in Nat
  BY LenProperties
<1>2. ToSet(s) \subseteq S
  BY <1>1 DEF ToSet
<1>3. ASSUME NEW t \in Seq(S) PROVE s \o t \in Seq(S) /\ ToSet(s \o t) = ToSet(s) \cup ToSet(t)
  <2>0. s \o t \in Seq(S)
    BY ConcatProperties
  <2>1. Range(s \o t) = Range(s) \cup Range(t)
    BY RangeConcatenation
  <2> QED
    BY <2>0, <2>1 DEF Range, ToSet
<1>4. ASSUME s # <<>>
      PROVE  ToSet(s) = {Head(s)} \cup ToSet(Tail(s)) /\ Head(s) \in S /\ Tail(s) \in Seq(S)
  <2>1. /\ Len(s) # 0 /\ Tail(s) \in Seq(S) /\ Len(Tail(s)) = Len(s) - 1 /\ Head(s) = s[1] /\ Head(s) \in S
        /\ \A i \in 1..(Len(s) - 1) : Tail(s)[i] = s[i + 1]
    BY <1>1, <1>4, EmptySeq, HeadTailProperties
  <2>2. DOMAIN Tail(s) = 1..(Len(s) - 1)
    BY <2>1, LenProperties
  <2>3. \A i \in 1..Len(s) : i = 1 \/ (i - 1 \in 1..(Len(s) - 1) /\ (i - 1) + 1 = i)
    BY <1>1, <2>1
  <2>4. 1 \in 1..Len(s) /\ \A i \in 1..(Len(s) - 1) : i + 1 \in 1..Len(s)
    BY <1>1, <2>1
  <2>5. ASSUME NEW x \in ToSet(s), x # Head(s) PROVE x \in ToSet(Tail(s))
    <3>1. PICK i \in 1..Len(s) : x = s[i]
      BY <1>1 DEF ToSet
    <3>2. i - 1 \in 1..(Len(s) - 1) /\ Tail(s)[i - 1] = x
      BY <2>1, <2>3, <2>5, <3>1
    <3> QED
      BY <2>2, <3>2 DEF ToSet
  <2>6. Head(s) \in ToSet(s) /\ \A x \in ToSet(Tail(s)) : x \in ToSet(s)
    BY <1>1, <2>1, <2>2, <2>4 DEF ToSet
  <2> QED
    BY <2>1, <2>5, <2>6
<1>5. ASSUME NEW x \in S PROVE ToSet(Append(s, x)) = ToSet(s) \cup {x}
  <2>1. /\ Append(s, x) \in Seq(S) /\ Len(Append(s, x)) = Len(s) + 1 /\ Append(s, x)[Len(s) + 1] = x
        /\ \A i \in 1..Len(s) : Append(s, x)[i] = s[i]
    BY AppendProperties
  <2>2. DOMAIN Append(s, x) = 1..(Len(s) + 1)
    BY <2>1, LenProperties
  <2>3. \A i \in 1..(Len(s) + 1) : i \in 1..Len(s) \/ i = Len(s) + 1
    BY <1>1
  <2>4. Len(s) + 1 \in 1..(Len(s) + 1) /\ \A i \in 1..Len(s) : i \in 1..(Len(s) + 1)
    BY <1>1
  <2> QED
    BY <1>1, <2>1, <2>2, <2>3, <2>4 DEF ToSet
<1> QED
  BY <1>1, <1>2, <1>3, <1>4, <1>5

\* A path leads from a dominator to what it dominates.
LEMMA DomReaches ==
  ASSUME NEW p \in Programs, NEW h \in Block, NEW b \in Block, Dom(p, h, b)
  PROVE  b \in ReachIn(Block, Edges(p), h)
<1> DEFINE S == Edges(p)
           N == Block \ {h}
           A == ReachIn(N, S, Root)
           B == ReachIn(Block, S, h)
<1>1. h \in B /\ Closed(Block, S, B) /\ B \subseteq Block
  BY SetsFinite, ReachClosed
<1>2. IsFiniteSet(N)
  BY SetsFinite, Without
<1>3. A \subseteq N /\ (Root \in N => Root \in A) /\ Closed(N, S, A)
  BY <1>2, ReachClosed
<1> HIDE DEF A, B, S
<1>4. Root \in A \cup B /\ (A \cup B) \cap Block = A \cup B
  BY <1>1, <1>3, RootIsBlock
<1>5. Closed(Block, S, A \cup B)
  BY <1>1, <1>3 DEF Closed
<1>6. ReachIn(Block, S, Root) \subseteq A \cup B
  BY <1>4, <1>5, SetsFinite, ReachLeast
<1>7. ReachIn(Block, S, Root) = Block
  BY Graph DEF S
<1>8. b = h \/ b \notin A
  BY DEF Dom, Dominates, A, S
<1>9. b \in B
  BY <1>1, <1>6, <1>7, <1>8
<1> QED
  BY <1>9 DEF B, S

LEMMA ReachedBelow ==
  ASSUME NEW p \in Programs, NEW h \in Block, NEW b \in Block, NEW v,
         Reached(p, h, End(p, h), v), Dom(p, h, b)
  PROVE  Reached(p, b, End(p, b), v)
<1> DEFINE K == {x \in Block : Reached(p, x, End(p, x), v)}
<1>1. ASSUME NEW x \in K, NEW y, Edge(p, x, y) PROVE y \in K
  BY <1>1, ReachedStep, Graph
<1>2. \A x \in Block : Edges(p)[x] = ToSet(p.succ[x])
  BY Graph
<1>3. K \subseteq Block /\ K \cap Block = K /\ h \in K
  OBVIOUS
<1> HIDE DEF K
<1>4. Closed(Block, Edges(p), K)
  BY <1>1, <1>2, <1>3 DEF Closed, Edge
<1>5. ReachIn(Block, Edges(p), h) \subseteq K
  BY <1>3, <1>4, SetsFinite, ReachLeast
<1>6. b \in ReachIn(Block, Edges(p), h)
  BY DomReaches
<1> QED
  BY <1>5, <1>6 DEF K

\* A variable may have a value at the start of the blocks in the frontier of
\* its definitions.
LEMMA FrontJustified ==
  ASSUME source \in Programs, NEW v, NEW h \in Block, DefBlock(h, v),
         v \in phis[h] => Justified(source, h, v), NEW b \in dom_frontier(h)
  PROVE  b \in Block /\ Justified(source, b, v)
<1> DEFINE S == Edges(source)
           below == DominatedBy(Block, S, Root, h)
<1>1. Reached(source, h, End(source, h), v)
  <2>1. StoreIn(source, h, v) => Reached(source, h, End(source, h), v)
    BY StorePlaces DEF Reached
  <2>2. Justified(source, h, v) => Reached(source, h, End(source, h), v)
    BY ReachedStep DEF Justified
  <2> QED
    BY <2>1, <2>2 DEF DefBlock
<1>2. b \in Block /\ b \in UNION {S[q] : q \in below}
  BY DEF dom_frontier, Frontier
<1>3. PICK q \in below : b \in S[q]
  BY <1>2
<1>4. q \in Block /\ Dom(source, h, q)
  BY DEF DominatedBy, Dom, Dominates
<1>5. Edge(source, q, b)
  BY <1>3, <1>4, Graph DEF Edge
<1>6. Reached(source, q, End(source, q), v)
  BY <1>1, <1>4, ReachedBelow
<1> QED
  BY <1>2, <1>4, <1>5, <1>6 DEF Justified

LEMMA StepPlace == Inv /\ PlacePhis => Inv'
<1> SUFFICES ASSUME Inv, PlacePhis PROVE Inv'
  OBVIOUS
<1> DEFINE h == Head(queue)
           front == {b \in dom_frontier(h) : var \notin phis[b]}
<1>1. /\ source' = source /\ pc = "phis" /\ pc' = pc /\ queue # <<>>
      /\ operand' = operand /\ deleted' = deleted /\ next' = next /\ at' = at
      /\ defined_list' = defined_list /\ new_value' = new_value /\ forward_list' = forward_list /\ delete_list' = delete_list
      /\ pairs' = pairs /\ todo' = todo /\ var' = var
      /\ define_var' = define_var /\ value_status' = value_status /\ visited' = visited /\ calls' = calls
      /\ allocas' = allocas
  BY DEF PlacePhis, forwarding, renaming
<1>2. /\ phis' = [b \in Block |-> IF b \in front THEN phis[b] \cup {var} ELSE phis[b]]
      /\ \E new \in Orders(front) : queue' = Tail(queue) \o new
  BY DEF PlacePhis
<1>3. source \in Programs /\ TypeOK /\ Lists /\ OperandsOK /\ AllocasInv /\ PlacingInv /\ Fresh
  BY <1>1 DEF Inv
<1>4. queue \in Seq(Block) /\ phis \in [Block -> SUBSET Var]
  BY <1>3 DEF TypeOK
<1>5. h \in Block /\ Tail(queue) \in Seq(Block) /\ ToSet(queue) = {h} \cup ToSet(Tail(queue))
  BY <1>1, <1>4, SeqSets
<1>6. dom_frontier(h) \subseteq Block /\ front \in SUBSET Block
  BY DEF dom_frontier, Frontier
<1> HIDE DEF h, front
<1>7. queue' \in Seq(Block) /\ ToSet(queue') = ToSet(Tail(queue)) \cup front
  <2>1. PICK new \in Orders(front) : queue' = Tail(queue) \o new
    BY <1>2
  <2>2. new \in Seq(Block) /\ ToSet(new) = front
    BY <1>6, OrdersSeq
  <2>3. PICK tail : tail = Tail(queue)
    OBVIOUS
  <2>4. tail \in Seq(Block)
    BY <1>5, <2>3
  <2>5. tail \o new \in Seq(Block) /\ ToSet(tail \o new) = ToSet(tail) \cup ToSet(new)
    BY <2>2, <2>4, SeqSets
  <2> QED
    BY <2>1, <2>2, <2>3, <2>5
<1>8. /\ var \in Var \ todo /\ PhiClosed(var) /\ \A b \in ToSet(queue) : DefBlock(b, var)
      /\ h \in ToSet(queue) /\ DefBlock(h, var)
  BY <1>1, <1>3, <1>5 DEF PlacingInv
<1>9. /\ \A b \in Block : phis'[b] = IF b \in front THEN phis[b] \cup {var} ELSE phis[b]
      /\ \A b \in Block : phis[b] \subseteq phis'[b]
      /\ \A b \in Block : var \in phis'[b] <=> var \in phis[b] \/ b \in front
      /\ \A b \in Block : \A v : v # var => (v \in phis'[b] <=> v \in phis[b])
      /\ phis' \in [Block -> SUBSET Var]
  <2>1. \A b \in Block : phis'[b] = IF b \in front THEN phis[b] \cup {var} ELSE phis[b]
    BY <1>2
  <2>2. phis' \in [Block -> SUBSET Var]
    BY <1>2, <1>4, <1>8
  <2> QED
    BY <2>1, <2>2
<1>10. Left' = Left /\ Left = {} /\ \A x \in Phis : x \in Phis'
  BY <1>1, <1>3, <1>9 DEF Left, Fresh, Phis, Phi
<1>11. Lists'
  BY <1>1, <1>3, <1>10, ListsFrame
<1>12. OperandsOK'
  <2>1. \A x, b, k : Waiting(x, b, k) => Waiting(x, b, k)'
    BY <1>1, <1>3 DEF Waiting, Renamed, Fresh
  <2>2. ForwardedBlocks = Block
    BY <1>1, <1>3 DEF Lists
  <2> QED
    BY <1>1, <1>3, <1>10, <2>1, <2>2, OperandsFrame
<1>13. TypeOK'
  <2>1. (DOMAIN operand = Block /\ \A c \in Block : operand[c] \in [DOMAIN code[c] -> Value \cup {Null}])'
    BY <1>1, <1>3 DEF TypeOK, code
  <2> QED
    BY <1>1, <1>3, <1>7, <1>9, <2>1 DEF TypeOK
<1>14. PlacingInv'
  <2>1. \A b \in Block : \A w : DefBlock(b, w) => DefBlock(b, w)'
    BY <1>1, <1>9 DEF DefBlock
  <2>2. \A b : (dom_frontier(b))' = dom_frontier(b)
    BY <1>1 DEF dom_frontier
  <2>3. \A b : dom_frontier(b) \subseteq Block
    BY DEF dom_frontier, Frontier
  <2>4. PhiClosed(var)'
    <3> SUFFICES ASSUME NEW b \in Block, DefBlock(b, var)'
                 PROVE  (\A c \in dom_frontier(b) : var \in phis'[c]) \/ b \in ToSet(queue')
      BY <1>1, <2>2 DEF PhiClosed
    <3>1. CASE b \in front
      BY <1>7, <3>1
    <3>2. CASE b \notin front
      <4>1. DefBlock(b, var)
        BY <1>1, <1>9, <3>2 DEF DefBlock
      <4>2. (\A c \in dom_frontier(b) : var \in phis[c]) \/ b \in ToSet(queue)
        BY <1>8, <4>1 DEF PhiClosed
      <4>3. b = h => \A c \in dom_frontier(b) : var \in phis'[c]
        BY <1>9, <2>3 DEF front
      <4> QED
        BY <1>5, <1>7, <1>9, <2>3, <4>2, <4>3
    <3> QED
      BY <3>1, <3>2
  <2>5. \A w : w # var /\ PhiClosed(w) => PhiClosed(w)'
    <3> SUFFICES ASSUME NEW w, w # var, PhiClosed(w) PROVE PhiClosed(w)'
      OBVIOUS
    <3>1. \A b \in Block : DefBlock(b, w)' <=> DefBlock(b, w)
      BY <1>1, <1>9 DEF DefBlock
    <3> QED
      BY <1>1, <1>9, <2>2, <2>3, <3>1 DEF PhiClosed
  <2>6. (queue # <<>> => var \in Var \ todo /\ PhiClosed(var) /\ \A b \in ToSet(queue) : DefBlock(b, var))'
    <3>1. \A b \in front : DefBlock(b, var)'
      BY <1>1, <1>6, <1>9 DEF DefBlock
    <3>2. \A b \in ToSet(Tail(queue)) : b \in Block
      BY <1>5, SeqSets
    <3>3. \A b \in ToSet(queue') : DefBlock(b, var)'
      BY <1>1, <1>5, <1>7, <1>8, <2>1, <3>1, <3>2
    <3> QED
      BY <1>1, <1>8, <2>4, <3>3
  <2>7. (\A w \in todo : \A b \in Block : w \notin phis[b])'
    BY <1>1, <1>3, <1>8, <1>9 DEF PlacingInv
  <2>8. \A w \in Var : (GlobalVar(source, w) => w \in todo \/ PhiClosed(w))'
    BY <1>1, <1>3, <2>4, <2>5 DEF PlacingInv
  <2>9. ASSUME NEW b \in Block, NEW w \in phis'[b] PROVE (PhiClosed(w) /\ Justified(source, b, w))'
    <3>1. CASE w \in phis[b]
      <4>1. PhiClosed(w) /\ Justified(source, b, w)
        BY <1>3, <3>1 DEF PlacingInv
      <4> QED
        BY <1>1, <2>4, <2>5, <4>1
    <3>2. CASE w \notin phis[b]
      <4>1. w = var /\ b \in front
        BY <1>9, <3>2
      <4>2. var \in phis[h] => Justified(source, h, var)
        BY <1>3, <1>5 DEF PlacingInv
      <4>3. b \in dom_frontier(h)
        BY <4>1 DEF front
      <4>4. Justified(source, b, w)
        BY <1>3, <1>5, <1>8, <4>1, <4>2, <4>3, FrontJustified
      <4> QED
        BY <1>1, <2>4, <4>1, <4>4
    <3> QED
      BY <3>1, <3>2
  <2> QED
    BY <1>1, <2>6, <2>7, <2>8, <2>9 DEF PlacingInv
<1>15. AllocasInv' /\ Fresh'
  BY <1>1, <1>3 DEF AllocasInv, Fresh
<1> QED
  BY <1>1, <1>3, <1>11, <1>12, <1>13, <1>14, <1>15 DEF Inv

-----------------------------------------------------------------------------
(* A call of valueForwarding is entered.                                   *)

LEMMA HeightSame ==
  ASSUME NEW v, NEW m \in Nat,
         \A i \in 1..m : calls[i] \in Block /\ calls'[i] = calls[i],
         \A c \in Block : (\E i \in 1..m : calls[i] = c) => Tokens(c, v)' = Tokens(c, v)
  PROVE  Height(m, v)' = Height(m, v)
<1>1. \A i \in 1..m : calls'[i] = calls[i] /\ TokenSets(v)'[calls'[i]] = TokenSets(v)[calls[i]]
  BY DEF TokenSets
<1>2. Open(calls', TokenSets(v)', m) = Open(calls, TokenSets(v), m)
  BY <1>1, OpenSame
<1> QED
  BY <1>2 DEF Height

\* What an action that keeps the phis keeps at hand.
LEMMA AtHandSame ==
  ASSUME source' = source, phis' = phis
  PROVE  /\ \A x, b, k : AtHand(x, b, k)' <=> AtHand(x, b, k)
         /\ \A x : IsDefinition(x)' <=> IsDefinition(x)
         /\ Phis' = Phis
<1>1. Phis' = Phis
  BY DEF Phis
<1>2. \A x : IsDefinition(x)' <=> IsDefinition(x)
  BY <1>1 DEF IsDefinition
<1> QED
  BY <1>1, <1>2 DEF AtHand

LEMMA EnterCalls ==
  ASSUME source \in Programs, TypeOK, NEW b \in Block, Enter(b)
  PROVE  LET n == Len(calls) IN
         /\ calls \in Seq(Block) /\ calls' \in Seq(Block) /\ n \in Nat /\ Len(calls') = n + 1
         /\ \A i \in 1..n : calls'[i] = calls[i] /\ calls[i] \in Block /\ calls[i] \in ToSet(calls)
         /\ calls'[n + 1] = b /\ Current' = b /\ at' = 1 /\ pc' = "rename"
         /\ visited' = visited \cup {b} /\ ToSet(calls') = ToSet(calls) \cup {b}
         /\ \A v \in Var : /\ v \in phis[b] => value_status'[v] = Append(value_status[v], <<b, v>>)
                           /\ v \notin phis[b] => value_status'[v] = value_status[v]
         /\ value_status' \in [Var -> Seq(Value)]
<1>1. calls \in Seq(Block) /\ calls' = Append(calls, b) /\ at' = 1 /\ pc' = "rename" /\ visited' = visited \cup {b}
  BY DEF TypeOK, Enter
<1>2. Len(calls) \in Nat /\ DOMAIN calls = 1..Len(calls)
  BY <1>1, LenProperties
<1>3. /\ calls' \in Seq(Block) /\ Len(calls') = Len(calls) + 1 /\ calls'[Len(calls) + 1] = b
      /\ \A i \in 1..Len(calls) : calls'[i] = calls[i]
  BY <1>1, AppendProperties
<1>4. \A i \in 1..Len(calls) : calls[i] \in Block /\ calls[i] \in ToSet(calls)
  BY <1>1, <1>2 DEF ToSet
<1>5. ToSet(calls') = ToSet(calls) \cup {b}
  BY <1>1, SeqSets
<1>6. value_status' = [v \in Var |-> IF v \in phis[b] THEN Append(value_status[v], <<b, v>>) ELSE value_status[v]]
  BY DEF Enter
<1>7. \A v \in Var : /\ v \in phis[b] => value_status'[v] = Append(value_status[v], <<b, v>>)
                     /\ v \notin phis[b] => value_status'[v] = value_status[v]
  BY <1>6
<1>8. value_status' \in [Var -> Seq(Value)]
  <2>1. \A v \in Var : <<b, v>> \in Value /\ value_status[v] \in Seq(Value)
    BY DEF Value, Phi, TypeOK
  <2>2. \A v \in Var : value_status'[v] \in Seq(Value)
    BY <1>7, <2>1, AppendProperties
  <2> QED
    BY <1>6, <2>2
<1> QED
  BY <1>1, <1>2, <1>3, <1>4, <1>5, <1>7, <1>8 DEF Current

\* The heights after a call is entered: one more for each variable with a phi.
LEMMA EnterHeights ==
  ASSUME source \in Programs, TypeOK, \A i, j \in 1..Len(calls) : calls[i] = calls[j] => i = j,
         pc # "rename", NEW b \in Block, b \notin ToSet(calls), Enter(b),
         source' = source, phis' = phis, deleted' = deleted, NEW v
  PROVE  /\ \A m \in 0..Len(calls) : Height(m, v)' = Height(m, v) /\ Height(m, v) \in Nat
         /\ \A l, m \in 0..Len(calls) : l <= m => Height(l, v) <= Height(m, v)
         /\ \A m, l : m = Len(calls) /\ l = m + 1 =>
              Height(l, v)' = Height(m, v) + IF v \in phis[b] THEN 1 ELSE 0
<1>1. PICK n \in Nat : n = Len(calls)
  BY EnterCalls
<1>2. /\ calls \in Seq(Block) /\ calls' \in Seq(Block) /\ Len(calls') = n + 1 /\ calls'[n + 1] = b /\ Current' = b
      /\ \A i \in 1..n : calls'[i] = calls[i] /\ calls[i] \in Block /\ calls[i] \in ToSet(calls)
      /\ at' = 1 /\ pc' = "rename"
  BY <1>1, EnterCalls
<1>3. \A c : Stores(c, v)' = Stores(c, v)
  BY DEF Stores, Listed, code
<1>4. \A c \in Block : c # b => Tokens(c, v)' = Tokens(c, v)
  BY <1>2, <1>3 DEF Tokens
<1>5. Tokens(b, v)' = IF v \in phis[b] THEN {0} ELSE {}
  <2>1. \A k \in Stores(b, v) : ~(k < 1)
    BY Instruction DEF Stores, Listed, code
  <2> QED
    BY <1>2, <1>3, <2>1 DEF Tokens
<1>6. \A m \in 0..n : Height(m, v)' = Height(m, v)
  <2> SUFFICES ASSUME NEW m \in 0..n PROVE Height(m, v)' = Height(m, v)
    OBVIOUS
  <2>1. m \in Nat /\ \A i \in 1..m : i \in 1..n
    BY <1>1
  <2>2. \A i \in 1..m : calls[i] \in Block /\ calls'[i] = calls[i] /\ calls[i] # b
    BY <1>2, <2>1
  <2>3. \A c \in Block : (\E i \in 1..m : calls[i] = c) => Tokens(c, v)' = Tokens(c, v)
    BY <1>4, <2>2
  <2> QED
    BY <2>1, <2>2, <2>3, HeightSame
<1>7. \A c \in Block : IsFiniteSet(TokenSets(v)[c])
  BY StoresFinite DEF TokenSets
<1>8. Counts(calls, TokenSets(v))
  BY <1>2, <1>7, OpenCounts
<1>9. /\ \A m \in 0..n : Height(m, v) \in Nat
      /\ \A l, m \in 0..n : l <= m => Height(l, v) <= Height(m, v)
  BY <1>1, <1>8 DEF Counts, Height
<1>10. IsFiniteSet(Tokens(b, v)') /\ Cardinality(Tokens(b, v)') = IF v \in phis[b] THEN 1 ELSE 0
  <2>1. IsFiniteSet({0}) /\ Cardinality({0}) = 1 /\ IsFiniteSet({}) /\ Cardinality({}) = 0
    BY FS_EmptySet, FS_Singleton
  <2> QED
    BY <1>5, <2>1
<1>11. Counts(calls', TokenSets(v)')
  <2>1. \A c \in Block : IsFiniteSet(TokenSets(v)'[c])
    <3>1. \A c \in Block : c # b => IsFiniteSet(Tokens(c, v)')
      BY <1>4, StoresFinite
    <3> QED
      BY <1>10, <3>1 DEF TokenSets
  <2>2. \A i, j \in 1..(n + 1) : calls'[i] = calls'[j] => i = j
    <3>1. \A i \in 1..(n + 1) : i \in 1..n \/ i = n + 1
      BY <1>1
    <3> QED
      BY <1>1, <1>2, <3>1
  <2> QED
    BY <1>2, <2>1, <2>2, OpenCounts
<1>12. Height(n + 1, v)' = Height(n, v)' + Cardinality(Tokens(b, v)')
  <2>1. TokenSets(v)'[calls'[n + 1]] = Tokens(b, v)'
    BY <1>2 DEF TokenSets
  <2>2. n + 1 \in 1..Len(calls') /\ (n + 1) - 1 = n
    BY <1>1, <1>2
  <2> QED
    BY <1>11, <2>1, <2>2 DEF Counts, Height
<1>13. n \in 0..n
  BY <1>1
<1>14. Height(n + 1, v)' = Height(n, v) + IF v \in phis[b] THEN 1 ELSE 0
  BY <1>6, <1>10, <1>12, <1>13
<1> QED
  BY <1>1, <1>6, <1>9, <1>14

LEMMA EnterStack ==
  ASSUME source \in Programs, TypeOK, \A i, j \in 1..Len(calls) : calls[i] = calls[j] => i = j,
         pc # "rename", StackHeights, StackValues,
         NEW b \in Block, b \notin ToSet(calls), Enter(b),
         source' = source, phis' = phis, deleted' = deleted
  PROVE  StackHeights' /\ StackValues'
<1>1. PICK n \in Nat : n = Len(calls)
  BY EnterCalls
<1>2. /\ Len(calls') = n + 1 /\ calls'[n + 1] = b
      /\ \A i \in 1..n : calls'[i] = calls[i] /\ calls[i] \in Block
      /\ at' = 1 /\ pc' = "rename" /\ value_status' \in [Var -> Seq(Value)]
      /\ \A v \in Var : /\ v \in phis[b] => value_status'[v] = Append(value_status[v], <<b, v>>)
                        /\ v \notin phis[b] => value_status'[v] = value_status[v]
  BY <1>1, EnterCalls
<1>3. \A v : /\ \A m \in 0..n : Height(m, v)' = Height(m, v) /\ Height(m, v) \in Nat
             /\ \A l, m \in 0..n : l <= m => Height(l, v) <= Height(m, v)
             /\ Height(n + 1, v)' = Height(n, v) + IF v \in phis[b] THEN 1 ELSE 0
  BY <1>1, EnterHeights
<1>10. \A v : \A m \in 0..n : Height(m, v) \in Nat
  BY <1>1, EnterHeights
<1>11. \A v : \A m \in 0..n : Height(m, v)' = Height(m, v)
  BY <1>1, EnterHeights
<1>12. \A v : \A l, m \in 0..n : l <= m => Height(l, v) <= Height(m, v)
  BY <1>1, EnterHeights
<1>4. \A v \in Var : /\ value_status[v] \in Seq(Value) /\ Len(value_status[v]) = Height(n, v)
                     /\ Len(value_status[v]) \in Nat
                     /\ DOMAIN value_status[v] = 1..Height(n, v)
  BY <1>1, LenProperties DEF TypeOK, StackHeights
<1>5. ASSUME NEW v \in Var, v \in phis[b]
      PROVE  /\ Len(value_status'[v]) = Height(n, v) + 1
             /\ value_status'[v][Height(n, v) + 1] = <<b, v>>
             /\ \A j \in 1..Height(n, v) : value_status'[v][j] = value_status[v][j]
  <2>1. value_status'[v] = Append(value_status[v], <<b, v>>) /\ <<b, v>> \in Value
    BY <1>2, <1>5 DEF Value, Phi
  <2> QED
    BY <1>4, <2>1, AppendProperties
<1>6. \A v \in Var : DOMAIN value_status'[v] = 1..Len(value_status'[v])
  BY <1>2, LenProperties
<1>7. StackHeights'
  <2>1. \A v \in Var : Len(value_status'[v]) = Height(n + 1, v)'
    <3> SUFFICES ASSUME NEW v \in Var PROVE Len(value_status'[v]) = Height(n + 1, v)'
      OBVIOUS
    <3>1. CASE v \in phis[b]
      BY <1>3, <1>5, <3>1
    <3>2. CASE v \notin phis[b]
      <4>1. Height(n, v) \in Nat
        BY <1>10
      <4> QED
        BY <1>2, <1>3, <1>4, <3>2, <4>1
    <3> QED
      BY <3>1, <3>2
  <2>2. \A v : (Height(Len(calls), v))' = Height(n + 1, v)'
    BY <1>2 DEF Height
  <2> QED
    BY <2>1, <2>2 DEF StackHeights
<1>8. ASSUME NEW v \in Var, NEW m \in 1..(n + 1), NEW j \in DOMAIN value_status'[v],
             Height(m - 1, v)' < j /\ j <= Height(m, v)'
      PROVE  AtHand(value_status'[v][j], calls'[m], Place(m)')
  <2>1. CASE m = n + 1
    <3>1. m - 1 = n /\ n \in 0..n /\ Height(n, v) \in Nat
      BY <1>10, <2>1
    <3>2. v \in phis[b] /\ j = Height(n, v) + 1
      <4>1. Len(value_status'[v]) \in Nat /\ j \in 1..Len(value_status'[v])
        BY <1>2, <1>6, <1>8, LenProperties
      <4>2. Height(n, v)' = Height(n, v)
        BY <1>11, <3>1
      <4>3. Height(n, v) < j /\ j <= Height(n + 1, v)'
        BY <1>8, <2>1, <3>1, <4>2
      <4> QED
        BY <1>3, <3>1, <4>1, <4>3
    <3>3. value_status'[v][j] = <<b, v>>
      BY <1>5, <3>2
    <3>4. <<b, v>> \in Phis /\ <<b, v>> \in Phi
      BY <3>2 DEF Phis, Phi
    <3>5. AtHand(<<b, v>>, b, Place(m)')
      BY <3>4, DomFacts DEF AtHand, IsDefinition
    <3> QED
      BY <1>2, <2>1, <3>3, <3>5
  <2>2. CASE m # n + 1
    <3>1. m \in 1..n /\ m - 1 \in 0..n /\ m \in 0..n /\ n \in 0..n
      BY <1>1, <2>2
    <3>2. /\ Height(m - 1, v)' = Height(m - 1, v) /\ Height(m, v)' = Height(m, v)
          /\ Height(m, v) <= Height(n, v) /\ Height(n, v) \in Nat /\ Height(m, v) \in Nat /\ Height(m - 1, v) \in Nat
      <4>1. m <= n
        BY <3>1
      <4> QED
        BY <1>10, <1>11, <1>12, <3>1, <4>1
    <3>3. j \in 1..Height(n, v)
      <4>1. Len(value_status'[v]) \in Nat /\ j \in 1..Len(value_status'[v])
        BY <1>2, <1>6, <1>8, LenProperties
      <4> QED
        BY <1>8, <3>2, <4>1
    <3>4. value_status'[v][j] = value_status[v][j] /\ j \in DOMAIN value_status[v]
      BY <1>2, <1>4, <1>5, <3>3
    <3>5. AtHand(value_status[v][j], calls[m], Place(m))
      BY <1>1, <1>8, <3>1, <3>2, <3>4 DEF StackValues
    <3>6. Place(m) = End(source, calls[m])
      BY DEF Place
    <3>7. Place(m)' = End(source, calls[m])
      BY <1>2, <2>2, <3>1 DEF Place
    <3> QED
      BY <1>2, <3>1, <3>4, <3>5, <3>6, <3>7
  <2> QED
    BY <2>1, <2>2
<1>9. StackValues'
  <2>1. \A x, c, k : AtHand(x, c, k)' <=> AtHand(x, c, k)
    BY AtHandSame
  <2>2. \A v \in Var : \A m \in 1..(n + 1) : \A j \in DOMAIN value_status'[v] :
          Height(m - 1, v)' < j /\ j <= Height(m, v)' => AtHand(value_status'[v][j], calls'[m], Place(m)')
    BY <1>8
  <2>3. \A v \in Var : \A m \in 1..(n + 1) : \A j \in DOMAIN value_status'[v] :
          Height(m - 1, v)' < j /\ j <= Height(m, v)' => AtHand(value_status[v][j], calls[m], Place(m))'
    BY <2>1, <2>2
  <2> QED
    BY <1>2, <2>3 DEF StackValues
<1> QED
  BY <1>7, <1>9

LEMMA EnterInv ==
  ASSUME source \in Programs, TypeOK, Lists, OperandsOK, AllocasInv, pc \in {"phis", "walk"},
         \A i, j \in 1..Len(calls) : calls[i] = calls[j] => i = j,
         StackHeights, StackValues, PairsInv,
         \A c \in Left : succ(c) \subseteq visited, ToSet(calls) \subseteq visited,
         \A i \in 1..(Len(calls) - 1) : Edge(source, calls[i], calls[i + 1]),
         NEW b \in Block, b \notin visited, Enter(b),
         Len(calls) = 0 => b = Root,
         Len(calls) # 0 => calls[1] = Root /\ Edge(source, calls[Len(calls)], b),
         UNCHANGED <<source, operand, deleted, forwarding, phis, pairs, placing, allocas>>,
         define_var' \in [Block -> [Var -> Nat]], DefineCounts', PlacedInv'
  PROVE  Inv'
<1>1. PICK n \in Nat : n = Len(calls)
  BY EnterCalls
<1>2. /\ source' = source /\ operand' = operand /\ deleted' = deleted /\ next' = next
      /\ defined_list' = defined_list /\ new_value' = new_value /\ forward_list' = forward_list /\ delete_list' = delete_list
      /\ phis' = phis /\ pairs' = pairs /\ todo' = todo /\ var' = var /\ queue' = queue /\ allocas' = allocas
  BY DEF forwarding, placing
<1>3. /\ calls' \in Seq(Block) /\ Len(calls') = n + 1 /\ calls'[n + 1] = b /\ Current' = b
      /\ \A i \in 1..n : calls'[i] = calls[i] /\ calls[i] \in ToSet(calls)
      /\ at' = 1 /\ pc' = "rename" /\ value_status' \in [Var -> Seq(Value)]
      /\ visited' = visited \cup {b} /\ ToSet(calls') = ToSet(calls) \cup {b}
  BY <1>1, EnterCalls
<1>4. Left' = Left /\ Filled' = Filled /\ Filled = visited /\ pc # "rename"
  BY <1>3 DEF Left, Filled
<1>5. TypeOK'
  <2>1. (DOMAIN operand = Block /\ \A c \in Block : operand[c] \in [DOMAIN code[c] -> Value \cup {Null}])'
    BY <1>2 DEF TypeOK, code
  <2> QED
    BY <1>2, <1>3, <2>1 DEF TypeOK
<1>6. Lists'
  BY <1>2, <1>4, ListsFrame
<1>7. OperandsOK'
  <2>1. \A c \in Block : \A j : CallAt(source, c, j) \/ (\E v \in Var : LoadAt(source, c, j, v)) => ~(j < 1)
    BY Instruction DEF CallAt, LoadAt
  <2>2. ASSUME NEW x, NEW c \in Block, NEW k, Waiting(x, c, k) PROVE Waiting(x, c, k)'
    <3>1. PICK j \in Nat : x = <<c, j>> /\ KeptAt(source, c, k, j) /\ ~CallAt(source, c, j) /\ ~Renamed(c, j)
      BY <2>2 DEF Waiting
    <3>2. ~(j < 1)
      BY <2>1, <3>1 DEF KeptAt
    <3>3. ~Renamed(c, j)'
      BY <1>3, <1>4, <3>1, <3>2 DEF Renamed
    <3> QED
      BY <1>2, <3>1, <3>3 DEF Waiting
  <2>3. ForwardedBlocks = Block /\ \A x \in Phis : x \in Phis'
    BY <1>2, AtHandSame DEF Lists
  <2> QED
    BY <1>2, <2>2, <2>3, OperandsFrame
<1>8. PathInv'
  <2>1. calls' # <<>> /\ calls'[1] = Root
    <3>1. calls' # <<>>
      BY <1>1, <1>3, EmptySeq
    <3>2. n = 0 \/ 1 \in 1..n
      BY <1>1
    <3> QED
      BY <1>1, <1>3, <3>1, <3>2
  <2>2. 1 <= End(source, b)
    BY FirstPlace
  <2>3. \A i \in 1..(n + 1) : i = n + 1 \/ i \in 1..n
    BY <1>1
  <2>4. \A i, j \in 1..(n + 1) : calls'[i] = calls'[j] => i = j
    BY <1>1, <1>3, <2>3
  <2>5. \A i \in 1..n : Edge(source, calls'[i], calls'[i + 1])
    <3> SUFFICES ASSUME NEW i \in 1..n PROVE Edge(source, calls'[i], calls'[i + 1])
      OBVIOUS
    <3>1. CASE i = n
      BY <1>1, <1>3, <3>1
    <3>2. CASE i # n
      <4>1. i \in 1..(n - 1) /\ i + 1 \in 1..n
        BY <1>1, <3>2
      <4> QED
        BY <1>1, <1>3, <4>1
    <3> QED
      BY <3>1, <3>2
  <2>6. DOMAIN calls' = 1..(n + 1) /\ (n + 1) - 1 = n
    BY <1>1, <1>3, LenProperties
  <2>7. \A c \in Left' : (succ(c) \subseteq visited)'
    BY <1>2, <1>3, <1>4 DEF succ
  <2> QED
    BY <1>2, <1>3, <2>1, <2>2, <2>4, <2>5, <2>6, <2>7 DEF PathInv
<1>9. StackInv'
  <2>1. StackHeights' /\ StackValues'
    BY <1>2, <1>4, EnterStack
  <2> QED
    BY <2>1 DEF StackInv
<1>10. PairsInv'
  <2>1. Phis' = Phis /\ \A x : IsDefinition(x)' <=> IsDefinition(x)
    BY <1>2, AtHandSame
  <2>2. \A p : PhiFilled(p)' <=> PhiFilled(p)
    BY <1>2, <1>4, <2>1 DEF PhiFilled
  <2> QED
    BY <1>2, <2>1, <2>2 DEF PairsInv
<1>11. AllocasInv'
  BY <1>2 DEF AllocasInv
<1> QED
  BY <1>2, <1>3, <1>5, <1>6, <1>7, <1>8, <1>9, <1>10, <1>11 DEF Inv

LEMMA StepStart == Inv /\ StartRenaming => Inv'
<1> SUFFICES ASSUME Inv, StartRenaming PROVE Inv'
  OBVIOUS
<1>1. /\ pc = "phis" /\ todo = {} /\ queue = <<>> /\ Enter(Root)
      /\ UNCHANGED <<source, operand, deleted, forwarding, phis, pairs, placing, allocas>>
      /\ define_var' = [b \in Block |-> [v \in Var |-> Defines(b, v)]]
  BY DEF StartRenaming
<1>2. source \in Programs /\ TypeOK /\ Lists /\ OperandsOK /\ AllocasInv /\ PlacingInv /\ Fresh
  BY <1>1 DEF Inv
<1>3. visited = {} /\ calls = <<>> /\ Len(calls) = 0 /\ Left = {} /\ ToSet(calls) = {}
  BY <1>2 DEF Fresh, Left, ToSet
<1>4. StackHeights /\ StackValues
  <2>1. \A v : Counts(calls, TokenSets(v))
    <3>1. \A v : \A c \in Block : IsFiniteSet(TokenSets(v)[c])
      BY <1>2, StoresFinite DEF TokenSets
    <3>2. calls \in Seq(Block) /\ \A i, j \in 1..Len(calls) : calls[i] = calls[j] => i = j
      BY <1>2, <1>3 DEF TypeOK
    <3> QED
      BY <3>1, <3>2, OpenCounts
  <2>2. \A v : Height(0, v) = 0
    BY <2>1 DEF Counts, Height
  <2>3. \A v \in Var : value_status[v] = <<>>
    BY <1>2 DEF Fresh
  <2> QED
    BY <1>3, <2>2, <2>3 DEF StackHeights, StackValues
<1>5. PairsInv
  <2>1. Filled = {}
    BY <1>3 DEF Filled
  <2> QED
    BY <1>2, <2>1 DEF PairsInv, PhiFilled, Fresh
<1>6. define_var' \in [Block -> [Var -> Nat]]
  <2>1. \A b \in Block : \A v \in Var : Defines(b, v) \in Nat
    <3> SUFFICES ASSUME NEW b \in Block, NEW v \in Var PROVE Defines(b, v) \in Nat
      OBVIOUS
    <3>1. Cardinality(Stores(b, v)) \in Nat
      BY <1>2, StoresFinite, FS_CardinalityType
    <3> QED
      BY <3>1 DEF Defines
  <2> QED
    BY <1>1, <2>1
<1>7. DefineCounts'
  <2>1. \A b \in Block : \A v \in Var : define_var'[b][v] = Defines(b, v)
    BY <1>1
  <2>2. \A b, v : Defines(b, v)' = Defines(b, v)
    BY <1>1 DEF Defines, Stores, Listed, code
  <2> QED
    BY <2>1, <2>2 DEF DefineCounts
<1>8. PlacedInv'
  <2>1. \A b : b \notin ToSet(queue)
    BY <1>1 DEF ToSet
  <2>2. \A v : PhiClosed(v) => ClosedPhis(v)'
    <3>1. \A b : dom_frontier(b) \subseteq Block
      BY DEF dom_frontier, Frontier
    <3> QED
      BY <1>1, <2>1, <3>1 DEF PhiClosed, ClosedPhis, dom_frontier, DefBlock
  <2> QED
    BY <1>1, <1>2, <2>2 DEF PlacedInv, PlacingInv
<1>9. \A i \in 1..(Len(calls) - 1) : Edge(source, calls[i], calls[i + 1])
  BY <1>3
<1> QED
  BY <1>1, <1>2, <1>3, <1>4, <1>5, <1>6, <1>7, <1>8, <1>9, RootIsBlock, EnterInv

LEMMA StepDescend == Inv /\ Descend => Inv'
<1> SUFFICES ASSUME Inv, Descend PROVE Inv'
  OBVIOUS
<1>1. /\ pc = "walk"
      /\ UNCHANGED <<source, operand, deleted, forwarding, phis, pairs, placing, define_var, allocas>>
  BY DEF Descend
<1>2. source \in Programs /\ TypeOK /\ Lists /\ OperandsOK /\ AllocasInv /\ PlacedInv /\ PathInv /\ StackInv /\ PairsInv
  BY <1>1 DEF Inv
<1>3. /\ Len(calls) \in Nat /\ Len(calls) \in 1..Len(calls) /\ DOMAIN calls = 1..Len(calls)
      /\ Current \in Block /\ Current = calls[Len(calls)] /\ calls[1] = Root
  BY <1>1, <1>2, OpenPath DEF Walking, PathInv
<1>4. PICK b \in Block : Edge(source, Current, b) /\ b \notin visited /\ Enter(b)
  <2>1. PICK k \in DOMAIN source.succ[Current] :
          source.succ[Current][k] \notin visited /\ Enter(source.succ[Current][k])
    BY DEF Descend
  <2>2. Edge(source, Current, source.succ[Current][k])
    BY DEF Edge, ToSet
  <2>3. source.succ[Current][k] \in Block
    BY <1>2, <1>3, <2>2, Graph
  <2> QED
    BY <2>1, <2>2, <2>3
<1>5. DefineCounts'
  <2>1. visited' = visited \cup {b} /\ ToSet(calls') = ToSet(calls) \cup {b}
    BY <1>2, <1>4, EnterCalls
  <2>2. Left' = Left
    BY <1>4, <2>1 DEF Left
  <2>3. \A c, v : Defines(c, v)' = Defines(c, v)
    BY <1>1 DEF Defines, Stores, Listed, code
  <2> QED
    BY <1>1, <1>2, <2>2, <2>3 DEF DefineCounts, StackInv
<1>6. PlacedInv'
  BY <1>1, <1>2 DEF PlacedInv, ClosedPhis, DefBlock
<1>7. /\ \A i, j \in 1..Len(calls) : calls[i] = calls[j] => i = j
      /\ StackHeights /\ StackValues
      /\ \A c \in Left : succ(c) \subseteq visited
      /\ ToSet(calls) \subseteq visited
      /\ \A i \in 1..(Len(calls) - 1) : Edge(source, calls[i], calls[i + 1])
  BY <1>2, <1>3 DEF PathInv, StackInv
<1>8. UNCHANGED <<source, operand, deleted, forwarding, phis, pairs, placing, allocas>> /\ define_var' \in [Block -> [Var -> Nat]]
  BY <1>1, <1>2 DEF TypeOK
<1>9. Len(calls) # 0 /\ Edge(source, calls[Len(calls)], b)
  BY <1>3, <1>4
<1> QED
  BY <1>1, <1>2, <1>3, <1>4, <1>5, <1>6, <1>7, <1>8, <1>9, EnterInv

-----------------------------------------------------------------------------
(* valueForwarding, one instruction after another.                         *)

\* What a step over one instruction leaves alone.
InstrStep ==
  /\ pc = "rename" /\ at \in DOMAIN source.code[Current] /\ at' = at + 1
  /\ UNCHANGED <<source, pc, deleted, forwarding, phis, placing, define_var, visited, calls, allocas>>

LEMMA InstrSame ==
  ASSUME Inv, InstrStep
  PROVE  /\ source' = source /\ pc' = "rename" /\ pc = "rename" /\ deleted' = deleted /\ at' = at + 1
         /\ next' = next /\ defined_list' = defined_list /\ new_value' = new_value
         /\ forward_list' = forward_list /\ delete_list' = delete_list
         /\ phis' = phis /\ todo' = todo /\ var' = var /\ queue' = queue
         /\ define_var' = define_var /\ visited' = visited /\ calls' = calls /\ allocas' = allocas
         /\ source \in Programs /\ TypeOK /\ Lists /\ OperandsOK /\ AllocasInv
         /\ PlacedInv /\ PathInv /\ StackInv /\ PairsInv /\ Walking
         /\ Current' = Current /\ Left' = Left /\ Filled' = Filled /\ Phis' = Phis
         /\ Current \in Block /\ Current \notin Left /\ Current \in visited
         /\ at \in Nat /\ at < End(source, Current) /\ End(source, Current) \in Nat
<1>1. /\ source' = source /\ pc' = "rename" /\ pc = "rename" /\ deleted' = deleted /\ at' = at + 1
      /\ next' = next /\ defined_list' = defined_list /\ new_value' = new_value
      /\ forward_list' = forward_list /\ delete_list' = delete_list
      /\ phis' = phis /\ todo' = todo /\ var' = var /\ queue' = queue
      /\ define_var' = define_var /\ visited' = visited /\ calls' = calls /\ allocas' = allocas
      /\ at \in DOMAIN source.code[Current]
  BY DEF InstrStep, forwarding, placing
<1>2. /\ source \in Programs /\ TypeOK /\ Lists /\ OperandsOK /\ AllocasInv
      /\ PlacedInv /\ PathInv /\ StackInv /\ PairsInv /\ Walking
  BY <1>1 DEF Inv, Walking
<1>3. Current' = Current /\ Left' = Left /\ Filled' = Filled /\ Phis' = Phis
  BY <1>1 DEF Current, Left, Filled, Phis
<1>4. Current \in Block /\ Current \notin Left /\ Current \in visited
  BY <1>2, OpenPath
<1>5. at \in Nat /\ at < End(source, Current) /\ End(source, Current) \in Nat
  BY <1>1, <1>2, <1>4, Instruction
<1> QED
  BY <1>1, <1>2, <1>3, <1>4, <1>5

\* A load or store that the scan has kept is in its list until its block is left.
LEMMA KeptListed ==
  ASSUME source \in Programs, Lists, NEW b \in Block, b \notin Left, NEW m, NEW v, LoadAt(source, b, m, v),
         ~LocalLoad(source, b, m)
  PROVE  m \in Listed(b)
<1>1. m \in Nat
  BY Instruction DEF LoadAt
<1>2. ~Overwritten(source, b, m)
  BY DEF Overwritten, StoreAt, LoadAt
<1>3. <<b, m>> \notin deleted
  BY <1>1, <1>2 DEF Lists
<1> QED
  BY <1>3 DEF Listed, LoadAt, code

LEMMA ListedLoad ==
  ASSUME source \in Programs, Lists, pc # "forward", NEW b \in Block, NEW m \in Listed(b), NEW v, LoadAt(source, b, m, v)
  PROVE  v \in Var /\ ~LocalLoad(source, b, m) /\ KeptAt(source, b, m + 1, m) /\ ~StoreBefore(source, b, m, v)
<1>1. m \in Nat /\ v \in Var
  BY Instruction DEF LoadAt
<1>2. ~LocalLoad(source, b, m)
  BY <1>1 DEF Lists, Listed
<1>3. KeptAt(source, b, m + 1, m)
  BY <1>1, <1>2 DEF KeptAt
<1> QED
  BY <1>1, <1>2, <1>3 DEF LocalLoad

LEMMA AtHandLater ==
  ASSUME NEW x, NEW b, NEW k \in Nat, NEW n \in Nat, k <= n, AtHand(x, b, k)
  PROVE  AtHand(x, b, n)
<1>1. x[1] = b /\ x \notin Phi => x[2] < n
  <2> SUFFICES ASSUME x[1] = b, x \notin Phi PROVE x[2] < n
    OBVIOUS
  <2>1. x[2] < k /\ IsDefinition(x)
    BY DEF AtHand
  <2>2. x[2] \in Nat
    BY <2>1 DEF IsDefinition, Phis
  <2> QED
    BY <2>1, <2>2
<1> QED
  BY <1>1 DEF AtHand

LEMMA InstrFrame ==
  ASSUME Inv, InstrStep
  PROVE  /\ Lists' /\ AllocasInv' /\ PathInv' /\ PlacedInv' /\ DefineCounts'
         /\ \A b \in Block : \A v : Stores(b, v)' = Stores(b, v)
<1>1. Lists'
  BY InstrSame, ListsFrame
<1>2. AllocasInv'
  BY InstrSame DEF AllocasInv
<1>3. PathInv'
  <2>1. at + 1 <= End(source, Current)
    BY InstrSame
  <2>2. \A b : succ(b)' = succ(b)
    BY InstrSame DEF succ
  <2>3. PathInv
    BY InstrSame
  <2>4. (pc = "rename" => at <= End(source, Current))'
    BY <2>1, InstrSame
  <2> QED
    BY <2>2, <2>3, <2>4, InstrSame DEF PathInv
<1>4. PlacedInv'
  <2>1. PlacedInv
    BY InstrSame
  <2> QED
    BY <2>1, InstrSame DEF PlacedInv, ClosedPhis, DefBlock
<1>5. \A b \in Block : \A v : Stores(b, v)' = Stores(b, v)
  BY InstrSame DEF Stores, Listed, code
<1>6. DefineCounts'
  <2>1. \A b \in Block : \A v : Defines(b, v)' = Defines(b, v)
    BY <1>5, InstrSame DEF Defines
  <2>2. DefineCounts
    BY InstrSame DEF StackInv
  <2> QED
    BY <2>1, <2>2, InstrSame DEF DefineCounts
<1> QED
  BY <1>1, <1>2, <1>3, <1>4, <1>5, <1>6

\* A store that the step passes is one more definition of its variable.
LEMMA InstrHeights ==
  ASSUME Inv, InstrStep, NEW n, n = Len(calls), NEW v
  PROVE  /\ \A m \in 0..n : Height(m, v) \in Nat
         /\ \A m \in 0..(n - 1) : Height(m, v)' = Height(m, v)
         /\ \A l, m \in 0..n : l <= m => Height(l, v) <= Height(m, v)
         /\ at \in Stores(Current, v) => Height(n, v)' = Height(n, v) + 1
         /\ at \notin Stores(Current, v) => Height(n, v)' = Height(n, v)
<1>1. /\ source \in Programs /\ TypeOK /\ PathInv /\ Walking /\ pc = "rename" /\ pc' = "rename"
      /\ calls' = calls /\ phis' = phis /\ at' = at + 1 /\ at \in Nat /\ Current' = Current /\ source' = source
  BY InstrSame
<1>2. /\ n \in Nat /\ n \in 1..n /\ Current = calls[n] /\ calls \in Seq(Block) /\ Current \in Block
      /\ \A i \in 1..n : calls[i] \in Block
      /\ \A i, j \in 1..n : calls[i] = calls[j] => i = j
  BY <1>1, OpenPath DEF IsPath
<1>3. \A b \in Block : Stores(b, v)' = Stores(b, v)
  BY InstrFrame
<1>4. \A b \in Block : b # Current => Tokens(b, v)' = Tokens(b, v)
  BY <1>1, <1>3 DEF Tokens
<1>5. \A k \in Stores(Current, v) : k \in Nat
  BY <1>1, <1>2, StoresFinite
<1>6. Tokens(Current, v)' = Tokens(Current, v) \cup (IF at \in Stores(Current, v) THEN {at} ELSE {})
  <2>1. \A k \in Nat : k < at + 1 <=> k < at \/ k = at
    BY <1>1
  <2>2. Stores(Current, v)' = Stores(Current, v)
    BY <1>1, <1>2, <1>3
  <2>3. {k \in Stores(Current, v) : k < at + 1}
          = {k \in Stores(Current, v) : k < at} \cup (IF at \in Stores(Current, v) THEN {at} ELSE {})
    BY <1>5, <2>1
  <2>4. Tokens(Current, v) = (IF v \in phis[Current] THEN {0} ELSE {}) \cup {k \in Stores(Current, v) : k < at}
    BY <1>1 DEF Tokens
  <2>5. Tokens(Current, v)' = (IF v \in phis[Current] THEN {0} ELSE {}) \cup {k \in Stores(Current, v) : k < at + 1}
    BY <1>1, <2>2 DEF Tokens
  <2> QED
    BY <2>3, <2>4, <2>5
<1>7. at \in Stores(Current, v) => at \notin Tokens(Current, v)
  <2>1. 0 \notin Stores(Current, v)
    BY <1>1, <1>2, StoresFinite
  <2>2. ~(at < at)
    BY <1>1
  <2> QED
    BY <1>1, <2>1, <2>2 DEF Tokens
<1>8. IsFiniteSet(Tokens(Current, v)) /\ Cardinality(Tokens(Current, v)) \in Nat
  BY <1>1, <1>2, StoresFinite, FS_CardinalityType
<1>9. /\ IsFiniteSet(Tokens(Current, v)')
      /\ at \in Stores(Current, v) => Cardinality(Tokens(Current, v)') = Cardinality(Tokens(Current, v)) + 1
      /\ at \notin Stores(Current, v) => Cardinality(Tokens(Current, v)') = Cardinality(Tokens(Current, v))
  <2>1. CASE at \in Stores(Current, v)
    <3>1. Tokens(Current, v)' = Tokens(Current, v) \cup {at}
      BY <1>6, <2>1
    <3>2. at \notin Tokens(Current, v)
      BY <1>7, <2>1
    <3> QED
      BY <1>8, <2>1, <3>1, <3>2, FS_AddElement
  <2>2. CASE at \notin Stores(Current, v)
    <3>1. Tokens(Current, v)' = Tokens(Current, v)
      BY <1>6, <2>2
    <3> QED
      BY <1>8, <2>2, <3>1
  <2> QED
    BY <2>1, <2>2
<1>10. Counts(calls, TokenSets(v))
  BY <1>1, Counted
<1>11. Counts(calls, TokenSets(v)')
  <2>1. \A b \in Block : IsFiniteSet(Tokens(b, v)')
    BY <1>1, <1>4, <1>9, StoresFinite
  <2>2. \A b \in Block : IsFiniteSet(TokenSets(v)'[b])
    BY <2>1 DEF TokenSets
  <2> QED
    BY <1>2, <2>2, OpenCounts
<1>12. /\ \A m \in 0..n : Height(m, v) \in Nat
       /\ \A l, m \in 0..n : l <= m => Height(l, v) <= Height(m, v)
       /\ Height(n, v) = Height(n - 1, v) + Cardinality(Tokens(Current, v))
  <2>1. TokenSets(v)[calls[n]] = Tokens(Current, v)
    BY <1>2 DEF TokenSets
  <2> QED
    BY <1>2, <1>10, <2>1 DEF Counts, Height
<1>13. Height(n, v)' = Height(n - 1, v)' + Cardinality(Tokens(Current, v)')
  <2>1. TokenSets(v)'[calls[n]] = Tokens(Current, v)'
    BY <1>1, <1>2 DEF TokenSets
  <2> QED
    BY <1>1, <1>2, <1>11, <2>1 DEF Counts, Height
<1>14. \A m \in 0..(n - 1) : Height(m, v)' = Height(m, v)
  <2> SUFFICES ASSUME NEW m \in 0..(n - 1) PROVE Height(m, v)' = Height(m, v)
    OBVIOUS
  <2>1. m \in Nat /\ \A i \in 1..m : i \in 1..n /\ i # n
    BY <1>2
  <2>2. \A i \in 1..m : calls[i] \in Block /\ calls'[i] = calls[i] /\ calls[i] # Current
    BY <1>1, <1>2, <2>1
  <2>3. \A c \in Block : (\E i \in 1..m : calls[i] = c) => Tokens(c, v)' = Tokens(c, v)
    BY <1>4, <2>2
  <2> QED
    BY <2>1, <2>2, <2>3, HeightSame
<1>15. n - 1 \in 0..(n - 1) /\ n - 1 \in 0..n
  BY <1>2
<1>16. Height(n, v)' = Height(n - 1, v) + Cardinality(Tokens(Current, v)') /\ Height(n - 1, v) \in Nat
  BY <1>12, <1>13, <1>14, <1>15
<1>17. at \in Stores(Current, v) => Height(n, v)' = Height(n, v) + 1
  BY <1>8, <1>9, <1>12, <1>16
<1>18. at \notin Stores(Current, v) => Height(n, v)' = Height(n, v)
  BY <1>8, <1>9, <1>12, <1>16
<1> QED
  BY <1>12, <1>14, <1>17, <1>18

\* A stack grows by a value that is at hand when a store is passed, and else stays.
LEMMA InstrStack ==
  ASSUME Inv, InstrStep, value_status' \in [Var -> Seq(Value)],
         \A v \in Var : at \in Stores(Current, v) =>
           \E x \in Value : value_status'[v] = Append(value_status[v], x) /\ AtHand(x, Current, at),
         \A v \in Var : at \notin Stores(Current, v) => value_status'[v] = value_status[v]
  PROVE  StackInv'
<1>1. PICK n : n = Len(calls)
  OBVIOUS
<1>2. /\ source \in Programs /\ TypeOK /\ StackInv /\ pc = "rename" /\ pc' = "rename" /\ calls' = calls /\ phis' = phis
      /\ at' = at + 1 /\ at \in Nat /\ source' = source /\ Walking /\ PathInv /\ Current \in Block
  BY InstrSame
<1>3. n \in Nat /\ n \in 1..n /\ Current = calls[n] /\ \A i \in 1..n : calls[i] \in Block
  BY <1>1, <1>2, OpenPath
<1>4. \A v : \A m \in 0..n : Height(m, v) \in Nat
  BY <1>1, InstrHeights
<1>5. \A v : \A m \in 0..(n - 1) : Height(m, v)' = Height(m, v)
  BY <1>1, InstrHeights
<1>6. \A v : \A l, m \in 0..n : l <= m => Height(l, v) <= Height(m, v)
  BY <1>1, InstrHeights
<1>7. \A v : at \in Stores(Current, v) => Height(n, v)' = Height(n, v) + 1
  BY <1>1, InstrHeights
<1>8. \A v : at \notin Stores(Current, v) => Height(n, v)' = Height(n, v)
  BY <1>1, InstrHeights
<1>9. \A v \in Var : /\ value_status[v] \in Seq(Value) /\ Len(value_status[v]) = Height(n, v)
                     /\ DOMAIN value_status[v] = 1..Height(n, v)
  BY <1>1, <1>2, LenProperties DEF TypeOK, StackHeights, StackInv
<1>10. ASSUME NEW v \in Var
       PROVE  /\ Len(value_status'[v]) = Height(n, v)'
              /\ DOMAIN value_status'[v] = 1..Height(n, v)'
              /\ \A j \in 1..Height(n, v) : value_status'[v][j] = value_status[v][j]
              /\ at \in Stores(Current, v) => AtHand(value_status'[v][Height(n, v) + 1], Current, at)
  <2>1. CASE at \in Stores(Current, v)
    <3>1. PICK x \in Value : value_status'[v] = Append(value_status[v], x) /\ AtHand(x, Current, at)
      BY <2>1
    <3>2. /\ Len(value_status'[v]) = Height(n, v) + 1
          /\ value_status'[v][Height(n, v) + 1] = x
          /\ \A j \in 1..Height(n, v) : value_status'[v][j] = value_status[v][j]
      BY <1>9, <3>1, AppendProperties
    <3>3. value_status'[v] \in Seq(Value)
      OBVIOUS
    <3>4. DOMAIN value_status'[v] = 1..Len(value_status'[v])
      BY <3>3, LenProperties
    <3>5. Height(n, v)' = Height(n, v) + 1
      BY <1>7, <2>1
    <3> QED
      BY <3>1, <3>2, <3>4, <3>5
  <2>2. CASE at \notin Stores(Current, v)
    <3>1. value_status'[v] = value_status[v] /\ Height(n, v)' = Height(n, v)
      BY <1>8, <2>2
    <3> QED
      BY <1>9, <2>2, <3>1
  <2> QED
    BY <2>1, <2>2
<1>11. StackHeights'
  <2>1. \A v : (Height(Len(calls), v))' = Height(n, v)'
    BY <1>1, <1>2 DEF Height
  <2> QED
    BY <1>10, <2>1 DEF StackHeights
<1>12. ASSUME NEW v \in Var, NEW m \in 1..n, NEW j \in DOMAIN value_status'[v],
              Height(m - 1, v)' < j /\ j <= Height(m, v)'
       PROVE  AtHand(value_status'[v][j], calls'[m], Place(m)')
  <2>1. m - 1 \in 0..(n - 1) /\ m \in 0..n /\ n \in 0..n /\ m - 1 \in 0..n /\ m <= n
    BY <1>3
  <2>2. Height(m - 1, v)' = Height(m - 1, v) /\ Height(m - 1, v) \in Nat /\ Height(m, v) \in Nat /\ Height(n, v) \in Nat
    BY <1>4, <1>5, <2>1
  <2>3. Height(m, v) <= Height(n, v)
    BY <1>6, <2>1
  <2>4. j \in 1..Height(n, v)'
    BY <1>10, <1>12
  <2>5. CASE m = n
    <3>1. Place(m) = at /\ Place(m)' = at + 1 /\ calls'[m] = Current /\ calls[m] = Current
      BY <1>1, <1>2, <1>3, <2>5 DEF Place
    <3>2. CASE at \in Stores(Current, v) /\ j = Height(n, v) + 1
      <4>1. AtHand(value_status'[v][j], Current, at)
        BY <1>10, <3>2
      <4> QED
        BY <1>2, <3>1, <4>1, AtHandLater
    <3>3. CASE ~(at \in Stores(Current, v) /\ j = Height(n, v) + 1)
      <4>1. j \in 1..Height(n, v)
        <5>1. CASE at \in Stores(Current, v)
          <6>1. Height(n, v)' = Height(n, v) + 1 /\ j # Height(n, v) + 1
            BY <1>7, <3>3, <5>1
          <6> QED
            BY <2>2, <2>4, <6>1
        <5>2. CASE at \notin Stores(Current, v)
          BY <1>8, <2>4, <5>2
        <5> QED
          BY <5>1, <5>2
      <4>2. value_status'[v][j] = value_status[v][j] /\ j \in DOMAIN value_status[v]
        BY <1>9, <1>10, <4>1
      <4>3. Height(m - 1, v) < j /\ j <= Height(m, v)
        BY <1>12, <2>2, <2>5, <4>1
      <4>4. AtHand(value_status[v][j], calls[m], Place(m))
        BY <1>1, <1>2, <4>2, <4>3 DEF StackInv, StackValues
      <4> QED
        BY <1>2, <3>1, <4>2, <4>4, AtHandLater
    <3> QED
      BY <3>2, <3>3
  <2>6. CASE m # n
    <3>1. m \in 0..(n - 1)
      BY <1>3, <2>6
    <3>2. Height(m, v)' = Height(m, v)
      BY <1>5, <3>1
    <3>3. j \in 1..Height(n, v) /\ Height(m - 1, v) < j /\ j <= Height(m, v)
      BY <1>12, <2>2, <2>3, <2>4, <3>2
    <3>4. value_status'[v][j] = value_status[v][j] /\ j \in DOMAIN value_status[v]
      BY <1>9, <1>10, <3>3
    <3>5. AtHand(value_status[v][j], calls[m], Place(m))
      BY <1>1, <1>2, <3>3, <3>4 DEF StackInv, StackValues
    <3>6. Place(m)' = Place(m)
      BY <1>1, <1>2, <2>6 DEF Place
    <3> QED
      BY <1>2, <3>4, <3>5, <3>6
  <2> QED
    BY <2>5, <2>6
<1>13. StackValues'
  <2>1. \A x, c, k : AtHand(x, c, k)' <=> AtHand(x, c, k)
    BY <1>2, AtHandSame
  <2>2. \A v \in Var : \A m \in 1..n : \A j \in DOMAIN value_status'[v] :
          Height(m - 1, v)' < j /\ j <= Height(m, v)' => AtHand(value_status'[v][j], calls'[m], Place(m)')
    BY <1>12
  <2>3. \A v \in Var : \A m \in 1..n : \A j \in DOMAIN value_status'[v] :
          Height(m - 1, v)' < j /\ j <= Height(m, v)' => AtHand(value_status[v][j], calls[m], Place(m))'
    BY <2>1, <2>2
  <2> QED
    BY <1>1, <1>2, <2>3 DEF StackValues
<1> QED
  BY <1>11, <1>13, InstrFrame DEF StackInv

\* A step that leaves the operands alone: no load of its block was waiting there.
LEMMA InstrOperands ==
  ASSUME Inv, InstrStep, operand' = operand, pairs' = pairs,
         \A v \in Var : LoadAt(source, Current, at, v) => LocalLoad(source, Current, at)
  PROVE  OperandsOK' /\ PairsInv'
<1>1. OperandsOK'
  <2>1. ASSUME NEW x, NEW b \in Block, NEW k, Waiting(x, b, k) PROVE Waiting(x, b, k)'
    <3>1. PICK j \in Nat : x = <<b, j>> /\ KeptAt(source, b, k, j) /\ ~CallAt(source, b, j) /\ ~Renamed(b, j)
      BY <2>1 DEF Waiting
    <3>2. ~(b = Current /\ j = at)
      BY <3>1 DEF KeptAt
    <3>3. ~Renamed(b, j)'
      <4>1. at \in Nat /\ (j < at + 1 => j < at \/ j = at)
        BY <3>1, InstrSame
      <4> QED
        BY <3>1, <3>2, <4>1, InstrSame DEF Renamed
    <3> QED
      BY <3>1, <3>3, InstrSame DEF Waiting
  <2>2. ForwardedBlocks = Block /\ \A x \in Phis : x \in Phis'
    BY InstrSame DEF Lists
  <2> QED
    BY <2>1, <2>2, InstrSame, OperandsFrame
<1>2. PairsInv'
  <2>1. source' = source /\ Phis' = Phis /\ Filled' = Filled /\ PairsInv
    BY InstrSame
  <2>2. \A x : IsDefinition(x)' <=> IsDefinition(x)
    BY InstrSame, AtHandSame
  <2>3. \A p : PhiFilled(p)' <=> PhiFilled(p)
    BY <2>1, <2>2 DEF PhiFilled
  <2> QED
    BY <2>1, <2>3 DEF PairsInv
<1> QED
  BY <1>1, <1>2

\* Everything together.
LEMMA InstrInv ==
  ASSUME Inv, InstrStep, value_status' \in [Var -> Seq(Value)], OperandsOK', PairsInv', StackInv',
         DOMAIN operand' = Block, \A b \in Block : operand'[b] \in [DOMAIN source.code[b] -> Value \cup {Null}],
         DOMAIN pairs' = Phi, \A p \in Phi : pairs'[p] \subseteq Value \X Block
  PROVE  Inv'
<1>1. TypeOK'
  <2>1. (DOMAIN operand = Block /\ \A c \in Block : operand[c] \in [DOMAIN code[c] -> Value \cup {Null}])'
    BY InstrSame DEF code
  <2>2. TypeOK /\ at + 1 \in Nat \ {0}
    BY InstrSame
  <2> QED
    BY <2>1, <2>2, InstrSame DEF TypeOK
<1>2. (source \in Programs)' /\ (pc = "rename")'
  BY InstrSame
<1> QED
  BY <1>1, <1>2, InstrFrame DEF Inv

LEMMA IsValue ==
  ASSUME NEW x, IsDefinition(x)
  PROVE  x \in Value
BY DEF IsDefinition, Phis, Value, Id

LEMMA OperandTypes ==
  ASSUME source \in Programs, TypeOK
  PROVE  /\ DOMAIN operand = Block /\ DOMAIN pairs = Phi /\ \A p \in Phi : pairs[p] \subseteq Value \X Block
         /\ \A b \in Block : operand[b] \in [DOMAIN source.code[b] -> Value \cup {Null}]
         /\ value_status \in [Var -> Seq(Value)]
BY DEF TypeOK, code

LEMMA StepRenameStore == Inv /\ RenameStore => Inv'
<1> SUFFICES ASSUME Inv, RenameStore PROVE Inv'
  OBVIOUS
<1>1. /\ pc = "rename" /\ at \in Listed(Current) /\ code[Current][at].op = "store"
      /\ operand' = operand /\ pairs' = pairs
      /\ value_status' = [value_status EXCEPT ![code[Current][at].var] = Append(@, operand[Current][at])]
  BY DEF RenameStore, Renaming
<1>2. InstrStep
  BY <1>1 DEF InstrStep, RenameStore, Listed, code
<1>3. PICK v : v = source.code[Current][at].var
  OBVIOUS
<1>4. StoreAt(source, Current, at, v) /\ v \in Var /\ Uses(source, Current, at) /\ at \in DOMAIN source.code[Current]
  <2>1. at \in DOMAIN source.code[Current] /\ source.code[Current][at].op = "store"
    BY <1>1 DEF Listed, code
  <2> QED
    BY <1>2, <1>3, <2>1, Instruction, InstrSame DEF StoreAt, Uses
<1>5. PICK x : x = operand[Current][at]
  OBVIOUS
<1>6. AtHand(x, Current, at)
  <2>1. ForwardedBlocks = Block /\ OperandsOK
    BY <1>1, <1>2, InstrSame DEF Lists
  <2>2. AtHand(x, Current, at) \/ Waiting(x, Current, at)
    BY <1>2, <1>4, <1>5, <2>1, InstrSame DEF OperandsOK, code
  <2>3. ~Waiting(x, Current, at)
    BY <1>2, InstrSame DEF Waiting, Renamed, KeptAt
  <2> QED
    BY <2>2, <2>3
<1>7. x \in Value
  BY <1>6, IsValue DEF AtHand
<1>8. value_status \in [Var -> Seq(Value)]
  BY <1>2, InstrSame, OperandTypes
<1>9. /\ value_status'[v] = Append(value_status[v], x)
      /\ \A w \in Var : w # v => value_status'[w] = value_status[w]
      /\ value_status' \in [Var -> Seq(Value)]
  <2>1. value_status' = [value_status EXCEPT ![v] = Append(value_status[v], x)]
    BY <1>1, <1>3, <1>5 DEF code
  <2>2. Append(value_status[v], x) \in Seq(Value)
    BY <1>4, <1>7, <1>8, AppendProperties
  <2> QED
    BY <1>4, <1>8, <2>1, <2>2
<1>10. \A w \in Var : at \in Stores(Current, w) <=> w = v
  BY <1>1, <1>3, <1>4 DEF Stores, code
<1>11. StackInv'
  <2>1. \A w \in Var : at \in Stores(Current, w) =>
           \E y \in Value : value_status'[w] = Append(value_status[w], y) /\ AtHand(y, Current, at)
    BY <1>6, <1>7, <1>9, <1>10
  <2>2. \A w \in Var : at \notin Stores(Current, w) => value_status'[w] = value_status[w]
    BY <1>9, <1>10
  <2> QED
    BY <1>2, <1>9, <2>1, <2>2, InstrStack
<1>12. OperandsOK' /\ PairsInv'
  <2>1. \A w \in Var : ~LoadAt(source, Current, at, w)
    BY <1>1 DEF LoadAt, code
  <2> QED
    BY <1>1, <1>2, <2>1, InstrOperands
<1>13. source \in Programs /\ TypeOK
  BY <1>2, InstrSame
<1> QED
  BY <1>1, <1>2, <1>9, <1>11, <1>12, <1>13, OperandTypes, InstrInv

LEMMA StepRenameOther == Inv /\ RenameOther => Inv'
<1> SUFFICES ASSUME Inv, RenameOther PROVE Inv'
  OBVIOUS
<1>1. /\ pc = "rename" /\ at <= Len(source.code[Current])
      /\ at \in Listed(Current) => ~isLocalVarOp(source.code[Current][at])
      /\ operand' = operand /\ pairs' = pairs /\ value_status' = value_status
  BY DEF RenameOther, renaming, code
<1>2. source \in Programs /\ TypeOK /\ PathInv /\ Lists
  BY <1>1 DEF Inv
<1>3. Current \in Block /\ Current \notin Left
  BY <1>1, <1>2, OpenPath DEF Walking
<1>4. InstrStep
  <2>1. at \in 1..Len(source.code[Current])
    BY <1>1, <1>2, <1>3, Code DEF TypeOK
  <2>2. at \in DOMAIN source.code[Current]
    BY <1>2, <1>3, <2>1, Code
  <2> QED
    BY <1>1, <2>2 DEF InstrStep, RenameOther, renaming
<1>5. \A v \in Var : LoadAt(source, Current, at, v) => LocalLoad(source, Current, at)
  <2> SUFFICES ASSUME NEW v \in Var, LoadAt(source, Current, at, v), ~LocalLoad(source, Current, at) PROVE FALSE
    OBVIOUS
  <2>1. at \in Listed(Current)
    BY <1>2, <1>3, KeptListed
  <2> QED
    BY <1>1, <2>1 DEF LoadAt, isLocalVarOp
<1>6. StackInv'
  <2>1. \A w \in Var : at \notin Stores(Current, w)
    BY <1>1 DEF Stores, isLocalVarOp, code
  <2>2. value_status' \in [Var -> Seq(Value)]
    BY <1>1, <1>2, OperandTypes
  <2> QED
    BY <1>1, <1>4, <2>1, <2>2, InstrStack
<1>7. OperandsOK' /\ PairsInv'
  BY <1>1, <1>4, <1>5, InstrOperands
<1>8. value_status' \in [Var -> Seq(Value)]
  BY <1>1, <1>2, OperandTypes
<1> QED
  BY <1>1, <1>2, <1>4, <1>6, <1>7, <1>8, OperandTypes, InstrInv

LEMMA LoadReached ==
  ASSUME NEW p \in Programs, NEW b \in Block, NEW k, NEW v, LoadAt(p, b, k, v)
  PROVE  Reached(p, b, k, v)
<1>1. k \in DOMAIN p.code[b] /\ p.code[b][k].op = "load" /\ p.code[b][k].var = v
  BY DEF LoadAt
<1>2. \A l \in DOMAIN p.code[b] : p.code[b][l].op = "load" => Reached(p, b, l, p.code[b][l].var)
  BY ProgramsAssumption DEF Function
<1> QED
  BY <1>1, <1>2

\* The stack of a load that is not behind a store of its block has a value.
LEMMA LoadStack ==
  ASSUME source \in Programs, TypeOK, PathInv, Lists, StackInv, PlacedInv, Walking,
         NEW v \in Var, NEW k \in Nat, LoadAt(source, Current, k, v), ~StoreBefore(source, Current, k, v)
  PROVE  ClosedPhis(v) /\ value_status[v] # <<>>
<1>1. Current \in Block
  BY OpenPath
<1>2. ClosedPhis(v)
  BY <1>1 DEF PlacedInv, GlobalVar
<1>3. Reached(source, Current, k, v)
  BY <1>1, LoadReached
<1>4. \E a \in Block : \E c \in ToSet(source.succ[a]) :
        StoreIn(source, a, v) /\ Current \in ReachIn(Block, Edges(source), c)
  BY <1>3 DEF Reached
<1>5. PICK a \in Block : \E c \in ToSet(source.succ[a]) :
        StoreIn(source, a, v) /\ Current \in ReachIn(Block, Edges(source), c)
  BY <1>4
<1>6. PICK c : Edge(source, a, c) /\ StoreIn(source, a, v) /\ Current \in ReachIn(Block, Edges(source), c)
  BY <1>5 DEF Edge
<1>7. value_status[v] # <<>>
  BY <1>2, <1>6, StackFound
<1> QED
  BY <1>2, <1>7

LEMMA TopValue ==
  ASSUME TypeOK, NEW v \in Var, value_status[v] # <<>>
  PROVE  Top(value_status[v]) \in Value
<1>1. value_status[v] \in Seq(Value)
  BY DEF TypeOK
<1>2. Len(value_status[v]) \in 1..Len(value_status[v])
  BY <1>1, EmptySeq, LenProperties
<1> QED
  BY <1>1, <1>2 DEF Top

\* The step of a load: the value of its variable takes its place everywhere.
LEMMA LoadSubst ==
  ASSUME Inv, RenameLoad, NEW v, v = source.code[Current][at].var, NEW x, x = <<Current, at>>,
         NEW y, y = Top(value_status[v])
  PROVE  /\ InstrStep /\ value_status' = value_status /\ pc = "rename" /\ at \in Listed(Current)
         /\ LoadAt(source, Current, at, v) /\ v \in Var /\ ~StoreBefore(source, Current, at, v)
         /\ ClosedPhis(v) /\ value_status[v] # <<>>
         /\ AtHand(y, Current, at) /\ y \in Value /\ ~IsDefinition(x) /\ x # Null /\ x \notin Phi
         /\ \A p \in Phi : pairs'[p] = pairs[p] /\ pairs[p] \subseteq Value \X Block
         /\ \A b \in Block : \A k \in DOMAIN source.code[b] : operand'[b][k] = IF operand[b][k] = x THEN y ELSE operand[b][k]
         /\ DOMAIN operand' = Block /\ DOMAIN pairs' = Phi
         /\ \A b \in Block : operand'[b] \in [DOMAIN source.code[b] -> Value \cup {Null}]
<1>1. /\ pc = "rename" /\ at \in Listed(Current) /\ at \in DOMAIN source.code[Current]
      /\ source.code[Current][at].op = "load"
      /\ Subst(<<Current, at>>, Top(value_status[source.code[Current][at].var]))
      /\ value_status' = value_status
  BY DEF RenameLoad, Renaming, code, Listed, renaming
<1>2. InstrStep
  BY <1>1 DEF InstrStep, RenameLoad, renaming
<1>3. /\ source \in Programs /\ TypeOK /\ PathInv /\ Lists /\ StackInv /\ PlacedInv /\ Walking /\ OperandsOK /\ PairsInv
      /\ Current \in Block /\ at \in Nat
  BY <1>2, InstrSame
<1>5. LoadAt(source, Current, at, v)
  BY <1>1 DEF LoadAt
<1>6. v \in Var /\ ~LocalLoad(source, Current, at) /\ ~StoreBefore(source, Current, at, v)
  BY <1>1, <1>3, <1>5, ListedLoad
<1>7. ClosedPhis(v) /\ value_status[v] # <<>>
  BY <1>3, <1>5, <1>6, LoadStack
<1>9. AtHand(y, Current, at) /\ y \in Value
  <2>1. AtHand(y, Current, Place(Len(calls)))
    BY <1>3, <1>6, <1>7, TopAtHand
  <2>2. Place(Len(calls)) = at
    BY <1>1 DEF Place
  <2> QED
    BY <1>3, <1>6, <1>7, <2>1, <2>2, TopValue
<1>11. Subst(x, y)
  BY <1>1
<1>12. ~IsDefinition(x) /\ x # Null /\ x \notin Phi
  <2>1. x \notin Phi /\ x \in Value
    BY <1>3, Kinds
  <2>2. ~CallAt(source, Current, at)
    BY <1>1 DEF CallAt
  <2>3. \A b \in Block, j \in Nat : x = <<b, j>> => b = Current /\ j = at
    OBVIOUS
  <2>4. x \notin Phi /\ x # Null
    BY <2>1, Kinds
  <2> QED
    BY <2>2, <2>3, <2>4 DEF IsDefinition, Phis
<1>13. /\ operand' = [b \in Block |-> [k \in DOMAIN operand[b] |-> IF operand[b][k] = x THEN y ELSE operand[b][k]]]
       /\ pairs' = [p \in Phi |-> {<<IF q[1] = x THEN y ELSE q[1], q[2]>> : q \in pairs[p]}]
  BY <1>11 DEF Subst
<1>14. /\ DOMAIN operand = Block /\ DOMAIN pairs = Phi /\ \A p \in Phi : pairs[p] \subseteq Value \X Block
       /\ \A b \in Block : operand[b] \in [DOMAIN source.code[b] -> Value \cup {Null}]
       /\ value_status \in [Var -> Seq(Value)]
  BY <1>3, OperandTypes
<1>15. \A p \in Phi : pairs'[p] = pairs[p]
  <2>1. ASSUME NEW p \in Phi PROVE pairs'[p] = pairs[p]
    <3>1. \A q \in pairs[p] : q[1] # x
      <4>1. p \in Phis => PhiFilled(p)
        BY <1>3, <2>1 DEF PairsInv
      <4>2. p \notin Phis => pairs[p] = {}
        BY <1>3, <2>1 DEF PairsInv
      <4> QED
        BY <1>12, <4>1, <4>2 DEF PhiFilled
    <3>2. \A q \in pairs[p] : q = <<q[1], q[2]>>
      BY <1>14
    <3>3. pairs'[p] = {<<IF q[1] = x THEN y ELSE q[1], q[2]>> : q \in pairs[p]}
      BY <1>13
    <3>4. \A q \in pairs[p] : <<IF q[1] = x THEN y ELSE q[1], q[2]>> = q
      BY <3>1, <3>2
    <3> QED
      BY <3>3, <3>4
  <2> QED
    BY <2>1
<1>16. ASSUME NEW b \in Block, NEW k \in DOMAIN source.code[b]
       PROVE  /\ operand'[b][k] = IF operand[b][k] = x THEN y ELSE operand[b][k]
              /\ operand'[b][k] \in Value \cup {Null}
  BY <1>9, <1>13, <1>14
<1>17. \A b \in Block : operand'[b] \in [DOMAIN source.code[b] -> Value \cup {Null}]
  BY <1>13, <1>14, <1>16
<1>18. DOMAIN operand' = Block /\ DOMAIN pairs' = Phi
  BY <1>13
<1>19. \A p \in Phi : pairs[p] \subseteq Value \X Block
  BY <1>14
<1> QED
  BY <1>1, <1>2, <1>5, <1>6, <1>7, <1>9, <1>12, <1>15, <1>16, <1>17, <1>18, <1>19

LEMMA StepRenameLoad == Inv /\ RenameLoad => Inv'
<1> SUFFICES ASSUME Inv, RenameLoad PROVE Inv'
  OBVIOUS
<1>1. PICK v, x, y : v = source.code[Current][at].var /\ x = <<Current, at>> /\ y = Top(value_status[v])
  OBVIOUS
<1>2. /\ InstrStep /\ value_status' = value_status /\ at \in Listed(Current) /\ LoadAt(source, Current, at, v)
      /\ AtHand(y, Current, at) /\ y \in Value /\ ~IsDefinition(x) /\ x # Null
      /\ DOMAIN operand' = Block /\ DOMAIN pairs' = Phi
  BY <1>1, LoadSubst
<1>3. /\ source \in Programs /\ TypeOK /\ Lists /\ OperandsOK /\ PairsInv /\ Current \in Block /\ at \in Nat /\ pc = "rename"
  BY <1>2, InstrSame
<1>4. /\ \A p \in Phi : pairs'[p] = pairs[p] /\ pairs[p] \subseteq Value \X Block
      /\ \A b \in Block : \A k \in DOMAIN source.code[b] : operand'[b][k] = IF operand[b][k] = x THEN y ELSE operand[b][k]
      /\ \A b \in Block : operand'[b] \in [DOMAIN source.code[b] -> Value \cup {Null}]
  BY <1>1, LoadSubst
<1>5. value_status' \in [Var -> Seq(Value)]
  BY <1>2, <1>3, OperandTypes
<1>6. StackInv'
  <2>1. \A w \in Var : at \notin Stores(Current, w)
    BY <1>2 DEF LoadAt, Stores, code
  <2> QED
    BY <1>2, <1>5, <2>1, InstrStack
<1>7. PairsInv'
  <2>1. source' = source /\ Phis' = Phis /\ Filled' = Filled
    BY <1>2, InstrSame
  <2>2. \A z : IsDefinition(z)' <=> IsDefinition(z)
    BY <1>2, InstrSame, AtHandSame
  <2>3. \A p \in Phi : PhiFilled(p)' <=> PhiFilled(p)
    BY <1>4, <2>1, <2>2 DEF PhiFilled
  <2> QED
    BY <1>3, <1>4, <2>1, <2>3 DEF PairsInv
<1>8. OperandsOK'
  <2>1. \A z, b, k : AtHand(z, b, k)' <=> AtHand(z, b, k)
    BY <1>2, InstrSame, AtHandSame
  <2>2. ASSUME NEW z, NEW b \in Block, NEW k, Waiting(z, b, k), z # x PROVE Waiting(z, b, k)'
    <3>1. PICK j \in Nat : z = <<b, j>> /\ KeptAt(source, b, k, j) /\ ~CallAt(source, b, j) /\ ~Renamed(b, j)
      BY <2>2 DEF Waiting
    <3>2. ~(b = Current /\ j = at)
      BY <1>1, <2>2, <3>1
    <3>3. ~Renamed(b, j)'
      <4>1. at \in Nat /\ (j < at + 1 => j < at \/ j = at)
        BY <1>3, <3>1
      <4> QED
        BY <1>2, <3>1, <3>2, <4>1, InstrSame DEF Renamed
    <3> QED
      BY <1>2, <3>1, <3>3, InstrSame DEF Waiting
  <2>3. ASSUME NEW b \in Block, NEW k, Waiting(x, b, k), k \in DOMAIN source.code[b] PROVE AtHand(y, b, k)
    <3>1. b = Current /\ at < k
      BY <1>1, <2>3 DEF Waiting, KeptAt
    <3>2. k \in Nat
      BY <1>3, <2>3, Instruction
    <3> QED
      BY <1>2, <1>3, <3>1, <3>2, AtHandLater
  <2>4. ForwardedBlocks' = ForwardedBlocks /\ ForwardedBlocks = Block
    BY <1>2, <1>3, InstrSame DEF Lists, ForwardedBlocks
  <2>5. ASSUME NEW b \in Block, NEW k \in DOMAIN source.code[b]
        PROVE  IF Uses(source, b, k) THEN (AtHand(operand[b][k], b, k) \/ Waiting(operand[b][k], b, k))'
                                     ELSE operand'[b][k] = Null
    <3>1. IF Uses(source, b, k) THEN AtHand(operand[b][k], b, k) \/ Waiting(operand[b][k], b, k)
                                ELSE operand[b][k] = Null
      BY <1>3, <2>4 DEF OperandsOK, code
    <3>2. CASE ~Uses(source, b, k)
      BY <1>2, <1>4, <3>1, <3>2
    <3>3. CASE Uses(source, b, k) /\ operand[b][k] = x
      <4>1. ~AtHand(x, b, k)
        BY <1>2 DEF AtHand
      <4>2. AtHand(y, b, k)
        BY <2>3, <3>1, <3>3, <4>1
      <4>3. operand'[b][k] = y
        BY <1>4, <3>3
      <4>4. AtHand(y, b, k)'
        BY <2>1, <4>2
      <4> QED
        BY <3>3, <4>3, <4>4
    <3>4. CASE Uses(source, b, k) /\ operand[b][k] # x
      <4>1. operand'[b][k] = operand[b][k]
        BY <1>4, <3>4
      <4>2. PICK z : z = operand[b][k]
        OBVIOUS
      <4>3. AtHand(z, b, k)' \/ Waiting(z, b, k)'
        BY <2>1, <2>2, <3>1, <3>4, <4>2
      <4> QED
        BY <3>4, <4>1, <4>2, <4>3
    <3> QED
      BY <3>2, <3>3, <3>4
  <2>6. source' = source
    BY <1>2, InstrSame
  <2> QED
    BY <2>4, <2>5, <2>6 DEF OperandsOK, code
<1>9. \A p \in Phi : pairs'[p] \subseteq Value \X Block
  BY <1>4
<1> QED
  BY <1>2, <1>4, <1>5, <1>6, <1>7, <1>8, <1>9, InstrInv

-----------------------------------------------------------------------------
(* valueForwarding, the end of a block.                                    *)

\* What reaches the end of a block is on the stack there.
LEMMA EndStack ==
  ASSUME source \in Programs, TypeOK, PathInv, Lists, StackInv, Walking, pc = "rename" => at = End(source, Current),
         NEW v \in Var, ClosedPhis(v), Reached(source, Current, End(source, Current), v)
  PROVE  value_status[v] # <<>>
<1>1. Current \in Block /\ Current \notin Left /\ Len(calls) \in 1..Len(calls) /\ calls[Len(calls)] = Current
  BY OpenPath
<1>2. CASE StoreBefore(source, Current, End(source, Current), v)
  <2>1. StoreIn(source, Current, v)
    BY <1>1, <1>2, StorePlaces
  <2>2. PICK m \in Stores(Current, v) : m \in Nat /\ m < End(source, Current)
    BY <1>1, <2>1, ListedStore
  <2>3. m \in Tokens(Current, v)
    BY <2>2 DEF Tokens
  <2> QED
    BY <1>1, <2>3, StackFull
<1>3. CASE \E a \in Block : \E c \in ToSet(source.succ[a]) :
             StoreIn(source, a, v) /\ Current \in ReachIn(Block, Edges(source), c)
  <2>1. PICK a \in Block : \E c \in ToSet(source.succ[a]) :
          StoreIn(source, a, v) /\ Current \in ReachIn(Block, Edges(source), c)
    BY <1>3
  <2>2. PICK c : Edge(source, a, c) /\ StoreIn(source, a, v) /\ Current \in ReachIn(Block, Edges(source), c)
    BY <2>1 DEF Edge
  <2> QED
    BY <2>2, StackFound
<1> QED
  BY <1>2, <1>3 DEF Reached

LEMMA StepFill == Inv /\ FillPhis => Inv'
<1> SUFFICES ASSUME Inv, FillPhis PROVE Inv'
  OBVIOUS
<1>1. /\ pc = "rename" /\ pc' = "walk" /\ at > Len(source.code[Current]) /\ pairs' = Fill(Current)
      /\ source' = source /\ operand' = operand /\ deleted' = deleted /\ at' = at /\ next' = next
      /\ defined_list' = defined_list /\ new_value' = new_value /\ forward_list' = forward_list /\ delete_list' = delete_list
      /\ phis' = phis /\ todo' = todo /\ var' = var /\ queue' = queue
      /\ define_var' = define_var /\ value_status' = value_status /\ visited' = visited /\ calls' = calls
      /\ allocas' = allocas
  BY DEF FillPhis, forwarding, placing, renaming, code
<1>2. /\ source \in Programs /\ TypeOK /\ Lists /\ OperandsOK /\ AllocasInv
      /\ PlacedInv /\ PathInv /\ StackInv /\ PairsInv /\ Walking
  BY <1>1 DEF Inv, Walking
<1>3. /\ Len(calls) \in Nat /\ Len(calls) \in 1..Len(calls) /\ \A i \in 1..Len(calls) : calls[i] \in Block
      /\ \A i, j \in 1..Len(calls) : calls[i] = calls[j] => i = j
      /\ Current \in Block /\ Current = calls[Len(calls)] /\ Current \in visited /\ Current \notin Left
  BY <1>2, OpenPath DEF IsPath
<1>4. at = End(source, Current) /\ at \in Nat
  <2>1. at <= End(source, Current)
    BY <1>1, <1>2 DEF PathInv
  <2>2. at \in Nat /\ Len(source.code[Current]) \in Nat
    BY <1>2, <1>3, Code DEF TypeOK
  <2> QED
    BY <1>1, <2>1, <2>2 DEF End
<1>5. Current' = Current /\ Left' = Left /\ Phis' = Phis
  BY <1>1 DEF Current, Left, Phis
<1>6. Lists'
  BY <1>1, <1>2, <1>5, ListsFrame
<1>7. OperandsOK'
  <2>1. ASSUME NEW x, NEW b \in Block, NEW k, Waiting(x, b, k) PROVE Waiting(x, b, k)'
    <3>1. PICK j \in Nat : x = <<b, j>> /\ KeptAt(source, b, k, j) /\ ~CallAt(source, b, j) /\ ~Renamed(b, j)
      BY <2>1 DEF Waiting
    <3>2. j \in DOMAIN source.code[b]
      BY <3>1 DEF KeptAt, CallAt, LoadAt
    <3>3. b = Current => j < at
      BY <1>2, <1>4, <3>2, Instruction
    <3>4. ~Renamed(b, j)'
      BY <1>1, <3>1, <3>3 DEF Renamed
    <3> QED
      BY <1>1, <3>1, <3>4 DEF Waiting
  <2>2. ForwardedBlocks = Block
    BY <1>1, <1>2 DEF Lists
  <2> QED
    BY <1>1, <1>2, <1>5, <2>1, <2>2, OperandsFrame
<1>8. PathInv'
  <2>1. \A b : succ(b)' = succ(b)
    BY <1>1 DEF succ
  <2> QED
    BY <1>1, <1>2, <1>5, <2>1 DEF PathInv
<1>9. PlacedInv'
  BY <1>1, <1>2 DEF PlacedInv, ClosedPhis, DefBlock
<1>10. StackInv'
  <2>1. \A b \in Block : \A v : Stores(b, v)' = Stores(b, v)
    BY <1>1 DEF Stores, Listed, code
  <2>2. \A b \in Block : \A v : Tokens(b, v)' = Tokens(b, v)
    <3>1. \A v : \A k \in Stores(Current, v) : k < at
      <4>1. \A v : \A k \in Stores(Current, v) : k \in DOMAIN source.code[Current]
        BY DEF Stores, Listed, code
      <4> QED
        BY <1>2, <1>3, <1>4, <4>1, Instruction
    <3> QED
      BY <1>1, <2>1, <3>1 DEF Tokens
  <2>3. \A v : TokenSets(v)' = TokenSets(v)
    BY <2>2 DEF TokenSets
  <2>4. \A m, v : Height(m, v)' = Height(m, v)
    BY <1>1, <2>3 DEF Height
  <2>5. \A m \in 1..Len(calls) : Place(m)' = Place(m)
    BY <1>1, <1>3, <1>4 DEF Place
  <2>6. \A x, c, k : AtHand(x, c, k)' <=> AtHand(x, c, k)
    BY <1>1, AtHandSame
  <2>7. StackHeights'
    BY <1>1, <1>2, <2>4 DEF StackInv, StackHeights
  <2>8. StackValues'
    <3> SUFFICES ASSUME NEW v \in Var, NEW m \in 1..Len(calls), NEW j \in DOMAIN value_status[v],
                        Height(m - 1, v) < j /\ j <= Height(m, v)
                 PROVE  AtHand(value_status[v][j], calls[m], Place(m))'
      BY <1>1, <2>4 DEF StackValues
    <3>1. AtHand(value_status[v][j], calls[m], Place(m))
      BY <1>2 DEF StackInv, StackValues
    <3> QED
      BY <1>1, <2>5, <2>6, <3>1
  <2>9. DefineCounts'
    <3>1. \A b \in Block : \A v : Defines(b, v)' = Defines(b, v)
      BY <1>1, <2>1 DEF Defines
    <3>2. DefineCounts
      BY <1>1, <1>2 DEF StackInv
    <3> QED
      BY <1>1, <1>5, <3>1, <3>2 DEF DefineCounts
  <2> QED
    BY <2>7, <2>8, <2>9 DEF StackInv
<1>11. /\ DOMAIN pairs' = Phi
       /\ \A p \in Phi : IF Edge(source, Current, p[1]) /\ p \in Phis /\ value_status[p[2]] # <<>>
                         THEN pairs'[p] = pairs[p] \cup {<<Top(value_status[p[2]]), Current>>}
                         ELSE pairs'[p] = pairs[p]
  BY <1>1 DEF Fill, succ, Edge, Phis
<1>12. Filled' = visited /\ Filled = visited \ {Current} /\ Current \notin Filled
  BY <1>1 DEF Filled
<1>13. ASSUME NEW p \in Phis
       PROVE  /\ p \in Phi /\ p[1] \in Block /\ p[2] \in Var /\ ClosedPhis(p[2])
              /\ value_status[p[2]] # <<>> <=> Reached(source, Current, End(source, Current), p[2])
              /\ value_status[p[2]] # <<>> =>
                   LET x == Top(value_status[p[2]]) IN x \in Value /\ IsDefinition(x) /\ Dom(source, x[1], Current)
  <2>1. p \in Phi /\ p[1] \in Block /\ p[2] \in Var /\ p[2] \in phis[p[1]]
    BY DEF Phis, Phi
  <2>2. ClosedPhis(p[2])
    BY <1>2, <2>1 DEF PlacedInv
  <2>3. value_status[p[2]] # <<>> => Reached(source, Current, End(source, Current), p[2])
    BY <1>2, <2>1, StackReached
  <2>4. Reached(source, Current, End(source, Current), p[2]) => value_status[p[2]] # <<>>
    BY <1>2, <1>4, <2>1, <2>2, EndStack
  <2>5. value_status[p[2]] # <<>> => AtHand(Top(value_status[p[2]]), Current, Place(Len(calls)))
    BY <1>2, <2>1, <2>2, TopAtHand
  <2>6. value_status[p[2]] # <<>> => Top(value_status[p[2]]) \in Value
    BY <1>2, <2>1, TopValue
  <2> QED
    BY <2>1, <2>2, <2>3, <2>4, <2>5, <2>6 DEF AtHand
<1>14. PairsInv'
  <2>1. \A p \in Phi : p \notin Phis' => pairs'[p] = {}
    BY <1>2, <1>5, <1>11 DEF PairsInv
  <2>2. ASSUME NEW p \in Phis PROVE PhiFilled(p)'
    <3>1. PhiFilled(p) /\ p \in Phi
      BY <1>2, <2>2 DEF PairsInv, Phis
    <3>2. PICK v : v = p[2]
      OBVIOUS
    <3>3. PICK x : x = Top(value_status[v])
      OBVIOUS
    <3>4. \A z : IsDefinition(z)' <=> IsDefinition(z)
      BY <1>1, AtHandSame
    <3>5. ASSUME NEW q \in pairs[p]
          PROVE  /\ IsDefinition(q[1]) /\ Dom(source, q[1][1], q[2])
                 /\ q[2] \in Filled /\ q[2] \in visited /\ q[2] # Current /\ Edge(source, q[2], p[1])
                 /\ Reached(source, q[2], End(source, q[2]), v)
      BY <1>12, <3>1, <3>2 DEF PhiFilled
    <3>6. /\ \A q, r \in pairs[p] : q[2] = r[2] => q = r
          /\ \A b \in Filled : Edge(source, b, p[1]) /\ Reached(source, b, End(source, b), v) =>
               \E q \in pairs[p] : q[2] = b
      BY <3>1, <3>2 DEF PhiFilled
    <3>7. CASE Edge(source, Current, p[1]) /\ value_status[v] # <<>>
      <4>1. pairs'[p] = pairs[p] \cup {<<x, Current>>}
        BY <1>11, <2>2, <3>1, <3>2, <3>3, <3>7
      <4>2. IsDefinition(x) /\ Dom(source, x[1], Current) /\ Reached(source, Current, End(source, Current), v)
        BY <1>13, <3>2, <3>3, <3>7
      <4>3. \A q \in pairs'[p] : /\ IsDefinition(q[1]) /\ Dom(source, q[1][1], q[2])
                                 /\ q[2] \in visited /\ Edge(source, q[2], p[1])
                                 /\ Reached(source, q[2], End(source, q[2]), v)
        <5> SUFFICES ASSUME NEW q \in pairs'[p]
                     PROVE  /\ IsDefinition(q[1]) /\ Dom(source, q[1][1], q[2])
                            /\ q[2] \in visited /\ Edge(source, q[2], p[1])
                            /\ Reached(source, q[2], End(source, q[2]), v)
          OBVIOUS
        <5>1. CASE q \in pairs[p]
          BY <3>5, <5>1
        <5>2. CASE q = <<x, Current>>
          <6>1. q[1] = x /\ q[2] = Current
            BY <5>2
          <6> QED
            BY <1>3, <3>7, <4>2, <6>1
        <5> QED
          BY <4>1, <5>1, <5>2
      <4>4. \A q, r \in pairs'[p] : q[2] = r[2] => q = r
        <5>1. <<x, Current>>[2] = Current
          OBVIOUS
        <5> QED
          BY <3>5, <3>6, <4>1, <5>1
      <4>5. \A b \in visited : Edge(source, b, p[1]) /\ Reached(source, b, End(source, b), v) =>
              \E q \in pairs'[p] : q[2] = b
        <5>1. \E q \in pairs'[p] : q[2] = Current
          <6>1. <<x, Current>>[2] = Current /\ <<x, Current>> \in pairs'[p]
            BY <4>1
          <6> QED
            BY <6>1
        <5> QED
          BY <1>12, <3>6, <4>1, <5>1
      <4> QED
        BY <1>1, <1>12, <3>2, <3>4, <4>3, <4>4, <4>5 DEF PhiFilled
    <3>8. CASE ~(Edge(source, Current, p[1]) /\ value_status[v] # <<>>)
      <4>1. pairs'[p] = pairs[p]
        BY <1>11, <3>1, <3>2, <3>8
      <4>2. \A b \in visited : Edge(source, b, p[1]) /\ Reached(source, b, End(source, b), v) =>
              \E q \in pairs'[p] : q[2] = b
        <5>1. ~(Edge(source, Current, p[1]) /\ Reached(source, Current, End(source, Current), v))
          BY <1>13, <2>2, <3>2, <3>8
        <5> QED
          BY <1>12, <3>6, <4>1, <5>1
      <4>3. \A q \in pairs'[p] : /\ IsDefinition(q[1]) /\ Dom(source, q[1][1], q[2])
                                 /\ q[2] \in visited /\ Edge(source, q[2], p[1])
                                 /\ Reached(source, q[2], End(source, q[2]), v)
        BY <3>5, <4>1
      <4>4. \A q, r \in pairs'[p] : q[2] = r[2] => q = r
        BY <3>6, <4>1
      <4> QED
        BY <1>1, <1>12, <3>2, <3>4, <4>2, <4>3, <4>4 DEF PhiFilled
    <3> QED
      BY <3>7, <3>8
  <2> QED
    BY <1>5, <2>1, <2>2 DEF PairsInv
<1>15. TypeOK'
  <2>1. (DOMAIN operand = Block /\ \A c \in Block : operand[c] \in [DOMAIN code[c] -> Value \cup {Null}])'
    BY <1>1, <1>2 DEF TypeOK, code
  <2>2. (DOMAIN pairs = Phi /\ \A p \in Phi : pairs[p] \subseteq Value \X Block)'
    <3>1. \A p \in Phi : pairs[p] \subseteq Value \X Block
      BY <1>2 DEF TypeOK
    <3>2. ASSUME NEW p \in Phi PROVE pairs'[p] \subseteq Value \X Block
      <4>1. p \in Phis /\ value_status[p[2]] # <<>> => <<Top(value_status[p[2]]), Current>> \in Value \X Block
        BY <1>3, <1>13
      <4> QED
        BY <1>11, <3>1, <4>1
    <3> QED
      BY <1>11, <3>2
  <2> QED
    BY <1>1, <1>2, <2>1, <2>2 DEF TypeOK
<1>16. AllocasInv'
  BY <1>1, <1>2 DEF AllocasInv
<1> QED
  BY <1>1, <1>2, <1>6, <1>7, <1>8, <1>9, <1>10, <1>14, <1>15, <1>16 DEF Inv

-----------------------------------------------------------------------------
(* A call of valueForwarding returns.                                      *)

\* What the innermost call has pushed is what it pops.
LEMMA PopCount ==
  ASSUME source \in Programs, TypeOK, PathInv, StackInv, pc = "walk", NEW n, n = Len(calls), NEW v \in Var
  PROVE  /\ \A m \in 0..n : Height(m, v) \in Nat
         /\ define_var[Current][v] \in Nat
         /\ Len(value_status[v]) = Height(n - 1, v) + define_var[Current][v]
<1>1. /\ Walking /\ n \in Nat /\ n \in 1..n /\ Current = calls[n] /\ Current \in Block /\ Current \notin Left
  BY OpenPath DEF Walking
<1>2. Counts(calls, TokenSets(v))
  BY Counted
<1>3. /\ \A m \in 0..n : Height(m, v) \in Nat
      /\ Height(n, v) = Height(n - 1, v) + Cardinality(Tokens(Current, v))
  <2>1. TokenSets(v)[calls[n]] = Tokens(Current, v)
    BY <1>1 DEF TokenSets
  <2> QED
    BY <1>1, <1>2, <2>1 DEF Counts, Height
<1>4. define_var[Current][v] = Defines(Current, v)
  BY <1>1 DEF StackInv, DefineCounts
<1>5. Defines(Current, v) = Cardinality(Tokens(Current, v))
  <2>1. /\ v \in phis[Current] => Defines(Current, v) = Cardinality(Stores(Current, v) \cup {0})
        /\ v \notin phis[Current] => Defines(Current, v) = Cardinality(Stores(Current, v))
    BY <1>1, StoresFinite
  <2>2. v \in phis[Current] => Tokens(Current, v) = Stores(Current, v) \cup {0}
    BY DEF Tokens
  <2>3. v \notin phis[Current] => Tokens(Current, v) = Stores(Current, v)
    BY DEF Tokens
  <2> QED
    BY <2>1, <2>2, <2>3
<1>6. Len(value_status[v]) = Height(n, v)
  BY DEF StackInv, StackHeights
<1>7. define_var[Current][v] \in Nat
  BY <1>1 DEF TypeOK
<1> QED
  BY <1>3, <1>4, <1>5, <1>6, <1>7

LEMMA PopKeeps ==
  ASSUME NEW S, NEW s \in Seq(S), NEW h \in Nat, NEW d \in Nat, Len(s) = h + d
  PROVE  /\ Pop(s, d) \in Seq(S) /\ Len(Pop(s, d)) = h
         /\ DOMAIN Pop(s, d) = 1..h /\ \A j \in 1..h : Pop(s, d)[j] = s[j]
<1>1. DOMAIN s = 1..(h + d) /\ Len(s) - d = h /\ ~(d > Len(s))
  BY LenProperties
<1>2. Pop(s, d) = SubSeq(s, 1, h)
  BY <1>1 DEF Pop
<1>3. \A i \in 1..h : s[i] \in S
  BY <1>1
<1>4. /\ SubSeq(s, 1, h) \in Seq(S) /\ Len(SubSeq(s, 1, h)) = IF 1 <= h THEN h - 1 + 1 ELSE 0
      /\ \A i \in 1..(h - 1 + 1) : SubSeq(s, 1, h)[i] = s[1 + i - 1]
  BY <1>3, SubSeqProperties
<1>5. Len(SubSeq(s, 1, h)) = h
  BY <1>4
<1>6. \A j \in 1..h : SubSeq(s, 1, h)[j] = s[j]
  <2>1. \A j \in 1..h : j \in 1..(h - 1 + 1) /\ 1 + j - 1 = j
    OBVIOUS
  <2> QED
    BY <1>4, <2>1
<1>7. DOMAIN SubSeq(s, 1, h) = 1..h
  BY <1>4, <1>5, LenProperties
<1> QED
  BY <1>2, <1>4, <1>5, <1>6, <1>7

LEMMA StepReturn == Inv /\ Return => Inv'
<1> SUFFICES ASSUME Inv, Return PROVE Inv'
  OBVIOUS
<1>1. /\ pc = "walk" /\ succ(Current) \subseteq visited
      /\ source' = source /\ operand' = operand /\ at' = at /\ next' = next
      /\ defined_list' = defined_list /\ new_value' = new_value /\ forward_list' = forward_list /\ delete_list' = delete_list
      /\ phis' = phis /\ pairs' = pairs /\ todo' = todo /\ var' = var /\ queue' = queue
      /\ define_var' = define_var /\ visited' = visited /\ allocas' = allocas
  BY DEF Return, forwarding, placing
<1>2. /\ value_status' = [v \in Var |-> Pop(value_status[v], define_var[Current][v])]
      /\ deleted' = deleted \cup {<<Current, k>> : k \in {k \in Listed(Current) : isLocalVarOp(code[Current][k])}}
      /\ calls' = SubSeq(calls, 1, Len(calls) - 1)
      /\ Len(calls) = 1 => pc' = "remove"
      /\ Len(calls) # 1 => pc' = "walk"
  BY DEF Return
<1>3. /\ source \in Programs /\ TypeOK /\ Lists /\ OperandsOK /\ AllocasInv
      /\ PlacedInv /\ PathInv /\ StackInv /\ PairsInv /\ Walking
  BY <1>1 DEF Inv, Walking
<1>4. PICK n : n = Len(calls)
  OBVIOUS
<1>5. /\ n \in Nat /\ n \in 1..n /\ \A i \in 1..n : calls[i] \in Block /\ calls[i] \in ToSet(calls)
      /\ \A i, j \in 1..n : calls[i] = calls[j] => i = j
      /\ Current \in Block /\ Current = calls[n] /\ Current \in visited /\ Current \notin Left
      /\ calls \in Seq(Block) /\ DOMAIN calls = 1..n /\ calls[1] = Root
  BY <1>3, <1>4, OpenPath DEF IsPath, ToSet
<1>6. PICK c : c = Current
  OBVIOUS
<1>7. /\ calls' \in Seq(Block) /\ Len(calls') = n - 1 /\ DOMAIN calls' = 1..(n - 1)
      /\ \A i \in 1..(n - 1) : calls'[i] = calls[i]
  <2>1. \A i \in 1..(n - 1) : calls[i] \in Block
    BY <1>5
  <2>2. calls' = SubSeq(calls, 1, n - 1)
    BY <1>2, <1>4
  <2>3. /\ calls' \in Seq(Block) /\ Len(calls') = IF 1 <= n - 1 THEN (n - 1) - 1 + 1 ELSE 0
        /\ \A i \in 1..((n - 1) - 1 + 1) : calls'[i] = calls[1 + i - 1]
    BY <1>5, <2>1, <2>2, SubSeqProperties
  <2>4. Len(calls') = n - 1
    BY <1>5, <2>3
  <2>5. \A i \in 1..(n - 1) : i \in 1..((n - 1) - 1 + 1) /\ 1 + i - 1 = i
    BY <1>5
  <2>6. \A i \in 1..(n - 1) : calls'[i] = calls[i]
    BY <2>3, <2>5
  <2> QED
    BY <2>3, <2>4, <2>6, LenProperties
<1>8. Left' = Left \cup {c} /\ c \in Block /\ c \notin Left
  <2>1. ToSet(calls') = ToSet(calls) \ {c}
    <3>1. ToSet(calls) = {calls[i] : i \in 1..n}
      BY <1>5 DEF ToSet
    <3>2. ToSet(calls') = {calls[i] : i \in 1..(n - 1)}
      BY <1>7 DEF ToSet
    <3>3. \A i \in 1..(n - 1) : i \in 1..n /\ calls[i] # c
      BY <1>5, <1>6
    <3>4. \A i \in 1..n : calls[i] # c => i \in 1..(n - 1)
      BY <1>5, <1>6
    <3> QED
      BY <3>1, <3>2, <3>3, <3>4
  <2> QED
    BY <1>1, <1>5, <1>6, <2>1 DEF Left
<1>9. pc' \in {"walk", "remove"}
  BY <1>2
<1>10. /\ \A x \in deleted : x \in deleted'
       /\ \A x \in deleted' : x \in deleted \/ \E k \in Nat : x = <<c, k>> /\ LocalVarOp(source, c, k)
       /\ \A k \in Nat : LocalVarOp(source, c, k) => <<c, k>> \in deleted'
       /\ \A b, k : b # c => (<<b, k>> \in deleted' <=> <<b, k>> \in deleted)
  <2>1. deleted' = deleted \cup {<<c, k>> : k \in {k \in Listed(c) : isLocalVarOp(source.code[c][k])}}
    BY <1>2, <1>6 DEF code
  <2>2. \A k \in Listed(c) : k \in Nat /\ k \in DOMAIN source.code[c]
    BY <1>3, <1>8, Instruction DEF Listed, code
  <2>3. \A k \in Nat : LocalVarOp(source, c, k) => k \in Listed(c) \/ <<c, k>> \in deleted
    BY DEF LocalVarOp, Listed, code
  <2> QED
    BY <2>1, <2>2, <2>3 DEF LocalVarOp
<1>11. Lists'
  <2>1. ForwardedBlocks' = ForwardedBlocks /\ ForwardedBlocks = Block
    BY <1>1, <1>3 DEF ForwardedBlocks, Lists
  <2>2. ASSUME NEW x \in deleted'
        PROVE  \E b \in Block : \E k \in Nat :
                 x = <<b, k>> /\ LocalVarOp(source, b, k)
                   /\ (b \in Left' \/ LocalLoad(source, b, k) \/ Overwritten(source, b, k))
    <3>1. CASE x \in deleted
      <4>1. \E b \in Block : \E k \in Nat :
                 x = <<b, k>> /\ LocalVarOp(source, b, k)
                   /\ (b \in Left \/ LocalLoad(source, b, k) \/ Overwritten(source, b, k))
        BY <1>3, <3>1 DEF Lists
      <4> QED
        BY <1>8, <4>1
    <3>2. CASE \E k \in Nat : x = <<c, k>> /\ LocalVarOp(source, c, k)
      BY <1>8, <3>2
    <3> QED
      BY <1>10, <3>1, <3>2
  <2>3. \A b \in Block : \A k \in Nat : LocalLoad(source, b, k) => <<b, k>> \in deleted'
    BY <1>3, <1>10, <2>1 DEF Lists
  <2>4. \A b \in Left' : \A k \in Nat : LocalVarOp(source, b, k) => <<b, k>> \in deleted'
    BY <1>3, <1>8, <1>10 DEF Lists
  <2> QED
    BY <1>1, <2>1, <2>2, <2>3, <2>4 DEF Lists
<1>12. OperandsOK'
  <2>1. \A x, b, k : Waiting(x, b, k) => Waiting(x, b, k)'
    BY <1>1, <1>9 DEF Waiting, Renamed
  <2>2. ForwardedBlocks = Block /\ \A x \in Phis : x \in Phis'
    BY <1>1, <1>3 DEF Lists, Phis
  <2> QED
    BY <1>1, <1>3, <2>1, <2>2, OperandsFrame
<1>13. PathInv'
  <2>1. pc' \in {"rename", "walk"} => calls' # <<>> /\ calls'[1] = Root
    <3> SUFFICES ASSUME pc' \in {"rename", "walk"} PROVE calls' # <<>> /\ calls'[1] = Root
      OBVIOUS
    <3>1. n # 1
      BY <1>2, <1>4
    <3>2. Len(calls') # 0 /\ 1 \in 1..(n - 1)
      BY <1>5, <1>7, <3>1
    <3> QED
      BY <1>5, <1>7, <3>2, EmptySeq
  <2>2. pc' \in {"remove", "done"} => calls' = <<>> /\ Root \in visited'
    <3> SUFFICES ASSUME pc' \in {"remove", "done"} PROVE calls' = <<>> /\ Root \in visited'
      OBVIOUS
    <3>1. n = 1
      BY <1>2, <1>4
    <3>2. Len(calls') = 0
      BY <1>7, <3>1
    <3> QED
      BY <1>1, <1>5, <1>7, <3>1, <3>2, EmptySeq
  <2>3. pc' # "rename"
    BY <1>9
  <2>4. \A i, j \in 1..(n - 1) : calls'[i] = calls'[j] => i = j
    <3>1. \A i \in 1..(n - 1) : i \in 1..n
      BY <1>5
    <3> QED
      BY <1>5, <1>7, <3>1
  <2>5. ToSet(calls') \subseteq visited'
    <3>1. \A i \in 1..(n - 1) : calls'[i] \in ToSet(calls)
      BY <1>5, <1>7
    <3>2. ToSet(calls) \subseteq visited
      BY <1>3 DEF PathInv
    <3> QED
      BY <1>1, <1>7, <3>1, <3>2 DEF ToSet
  <2>6. \A i \in 1..((n - 1) - 1) : Edge(source, calls'[i], calls'[i + 1])
    <3>1. \A i \in 1..((n - 1) - 1) : i \in 1..(n - 1) /\ i + 1 \in 1..(n - 1)
      BY <1>5
    <3>2. \A i \in 1..(n - 1) : Edge(source, calls[i], calls[i + 1])
      BY <1>3, <1>4 DEF PathInv
    <3> QED
      BY <1>7, <3>1, <3>2
  <2>7. \A b \in Left' : (succ(b) \subseteq visited)'
    <3>1. \A b \in Left : succ(b) \subseteq visited
      BY <1>3 DEF PathInv
    <3> QED
      BY <1>1, <1>6, <1>8, <3>1 DEF succ
  <2> QED
    BY <1>1, <1>7, <2>1, <2>2, <2>3, <2>4, <2>5, <2>6, <2>7 DEF PathInv
<1>14. PlacedInv'
  BY <1>1, <1>3 DEF PlacedInv, ClosedPhis, DefBlock
<1>15. \A b \in Block : \A v : b # c => Stores(b, v)' = Stores(b, v)
  BY <1>1, <1>10 DEF Stores, Listed, code
<1>16. DefineCounts'
  <2>1. \A b \in Block : \A v : b # c => Defines(b, v)' = Defines(b, v)
    BY <1>1, <1>15 DEF Defines
  <2>2. DefineCounts
    BY <1>1, <1>3 DEF StackInv
  <2> QED
    BY <1>1, <1>8, <2>1, <2>2 DEF DefineCounts
<1>17. \A v : \A m \in 0..(n - 1) : Height(m, v)' = Height(m, v)
  <2> SUFFICES ASSUME NEW v, NEW m \in 0..(n - 1) PROVE Height(m, v)' = Height(m, v)
    OBVIOUS
  <2>1. m \in Nat /\ \A i \in 1..m : i \in 1..(n - 1) /\ i \in 1..n /\ i # n
    BY <1>5
  <2>2. \A i \in 1..m : calls[i] \in Block /\ calls'[i] = calls[i] /\ calls[i] # c
    BY <1>5, <1>6, <1>7, <2>1
  <2>3. \A b \in Block : b # c => Tokens(b, v)' = Tokens(b, v)
    BY <1>1, <1>9, <1>15 DEF Tokens
  <2>4. \A b \in Block : (\E i \in 1..m : calls[i] = b) => Tokens(b, v)' = Tokens(b, v)
    BY <2>2, <2>3
  <2> QED
    BY <2>1, <2>2, <2>4, HeightSame
<1>18. ASSUME NEW v \in Var
       PROVE  /\ value_status'[v] \in Seq(Value) /\ Len(value_status'[v]) = Height(n - 1, v)
              /\ DOMAIN value_status'[v] = 1..Height(n - 1, v)
              /\ \A j \in 1..Height(n - 1, v) : value_status'[v][j] = value_status[v][j] /\ j \in DOMAIN value_status[v]
  <2>1. value_status'[v] = Pop(value_status[v], define_var[Current][v])
    BY <1>2
  <2>2. PICK d : d = define_var[Current][v]
    OBVIOUS
  <2>3. d \in Nat /\ Len(value_status[v]) = Height(n - 1, v) + d /\ \A m \in 0..n : Height(m, v) \in Nat
    BY <1>1, <1>3, <1>4, <2>2, PopCount
  <2>4. Height(n - 1, v) \in Nat
    <3>1. n - 1 \in 0..n
      BY <1>5
    <3> QED
      BY <2>3, <3>1
  <2>5. value_status[v] \in Seq(Value)
    BY <1>3 DEF TypeOK
  <2>6. PICK h \in Nat : h = Height(n - 1, v)
    BY <2>4
  <2>7. PICK s : s = value_status[v]
    OBVIOUS
  <2>8. s \in Seq(Value) /\ Len(s) = h + d
    BY <2>3, <2>5, <2>6, <2>7
  <2>9. /\ Pop(s, d) \in Seq(Value) /\ Len(Pop(s, d)) = h
        /\ DOMAIN Pop(s, d) = 1..h /\ \A j \in 1..h : Pop(s, d)[j] = s[j]
    BY <2>3, <2>8, PopKeeps
  <2>10. \A j \in 1..h : j \in DOMAIN s
    BY <2>3, <2>8, LenProperties
  <2> QED
    BY <2>1, <2>2, <2>6, <2>7, <2>9, <2>10
<1>19. StackInv'
  <2>1. StackHeights'
    <3>1. \A v : (Height(Len(calls), v))' = Height(n - 1, v)'
      BY <1>7 DEF Height
    <3>2. n - 1 \in 0..(n - 1)
      BY <1>5
    <3> QED
      BY <1>17, <1>18, <3>1, <3>2 DEF StackHeights
  <2>2. ASSUME NEW v \in Var, NEW m \in 1..(n - 1), NEW j \in DOMAIN value_status'[v],
               Height(m - 1, v)' < j /\ j <= Height(m, v)'
        PROVE  AtHand(value_status'[v][j], calls'[m], Place(m)')
    <3>1. m - 1 \in 0..(n - 1) /\ m \in 0..(n - 1) /\ m \in 1..n
      BY <1>5
    <3>2. Height(m - 1, v) < j /\ j <= Height(m, v)
      BY <1>17, <2>2, <3>1
    <3>3. value_status'[v][j] = value_status[v][j] /\ j \in DOMAIN value_status[v]
      BY <1>18
    <3>4. AtHand(value_status[v][j], calls[m], Place(m))
      BY <1>3, <1>4, <3>1, <3>2, <3>3 DEF StackInv, StackValues
    <3>5. Place(m) = End(source, calls[m])
      BY <1>1 DEF Place
    <3>6. Place(m)' = End(source, calls'[m])
      BY <1>1, <1>9 DEF Place
    <3> QED
      BY <1>7, <3>3, <3>4, <3>5, <3>6
  <2>3. StackValues'
    <3>1. \A x, b, k : AtHand(x, b, k)' <=> AtHand(x, b, k)
      BY <1>1, AtHandSame
    <3>2. \A v \in Var : \A m \in 1..(n - 1) : \A j \in DOMAIN value_status'[v] :
            Height(m - 1, v)' < j /\ j <= Height(m, v)' => AtHand(value_status'[v][j], calls'[m], Place(m)')
      BY <2>2
    <3>3. \A v \in Var : \A m \in 1..(n - 1) : \A j \in DOMAIN value_status'[v] :
            Height(m - 1, v)' < j /\ j <= Height(m, v)' => AtHand(value_status[v][j], calls[m], Place(m))'
      BY <3>1, <3>2
    <3> QED
      BY <1>7, <3>3 DEF StackValues
  <2> QED
    BY <1>16, <2>1, <2>3 DEF StackInv
<1>20. PairsInv'
  <2>1. Filled' = Filled
    BY <1>1, <1>9 DEF Filled
  <2>2. Phis' = Phis /\ \A x : IsDefinition(x)' <=> IsDefinition(x)
    BY <1>1, AtHandSame
  <2>3. \A p : PhiFilled(p)' <=> PhiFilled(p)
    BY <1>1, <2>1, <2>2 DEF PhiFilled
  <2> QED
    BY <1>1, <1>3, <2>2, <2>3 DEF PairsInv
<1>21. TypeOK'
  <2>1. (DOMAIN operand = Block /\ \A b \in Block : operand[b] \in [DOMAIN code[b] -> Value \cup {Null}])'
    BY <1>1, <1>3 DEF TypeOK, code
  <2>2. deleted' \subseteq Id
    BY <1>3, <1>8, <1>10 DEF TypeOK, Id
  <2>3. value_status' \in [Var -> Seq(Value)]
    BY <1>2, <1>18
  <2>4. pc' \in {"forward", "phis", "rename", "walk", "remove", "done"}
    BY <1>9
  <2> QED
    BY <1>1, <1>3, <1>7, <2>1, <2>2, <2>3, <2>4 DEF TypeOK
<1>22. AllocasInv'
  BY <1>1, <1>3 DEF AllocasInv
<1>23. source' \in Programs /\ pc' \notin {"forward", "phis"}
  BY <1>1, <1>3, <1>9
<1> QED
  BY <1>11, <1>12, <1>13, <1>14, <1>19, <1>20, <1>21, <1>22, <1>23 DEF Inv

LEMMA StepRemove == Inv /\ RemoveAlloc => Inv'
<1> SUFFICES ASSUME Inv, RemoveAlloc PROVE Inv'
  OBVIOUS
<1>1. /\ pc = "remove" /\ pc' = "done" /\ allocas' = {}
      /\ source' = source /\ operand' = operand /\ deleted' = deleted /\ at' = at /\ next' = next
      /\ defined_list' = defined_list /\ new_value' = new_value /\ forward_list' = forward_list /\ delete_list' = delete_list
      /\ phis' = phis /\ pairs' = pairs /\ todo' = todo /\ var' = var /\ queue' = queue
      /\ define_var' = define_var /\ value_status' = value_status /\ visited' = visited /\ calls' = calls
  BY DEF RemoveAlloc, forwarding, placing, renaming
<1>2. source \in Programs /\ TypeOK /\ Lists /\ OperandsOK /\ PlacedInv /\ PathInv /\ StackInv /\ PairsInv
  BY <1>1 DEF Inv
<1>3. Left' = Left /\ Phis' = Phis /\ Filled' = Filled
  BY <1>1 DEF Left, Phis, Filled
<1>4. Lists'
  BY <1>1, <1>2, <1>3, ListsFrame
<1>5. OperandsOK'
  <2>1. \A x, b, k : Waiting(x, b, k) => Waiting(x, b, k)'
    BY <1>1 DEF Waiting, Renamed
  <2>2. ForwardedBlocks = Block
    BY <1>1, <1>2 DEF Lists
  <2> QED
    BY <1>1, <1>2, <1>3, <2>1, <2>2, OperandsFrame
<1>6. PathInv'
  <2>1. \A b : succ(b)' = succ(b)
    BY <1>1 DEF succ
  <2> QED
    BY <1>1, <1>2, <1>3, <2>1 DEF PathInv
<1>7. PlacedInv'
  BY <1>1, <1>2 DEF PlacedInv, ClosedPhis, DefBlock
<1>8. StackInv'
  <2>1. \A b \in Block : \A v : Tokens(b, v)' = Tokens(b, v)
    BY <1>1 DEF Tokens, Stores, Listed, code
  <2>2. \A v : TokenSets(v)' = TokenSets(v)
    BY <2>1 DEF TokenSets
  <2>3. \A m, v : Height(m, v)' = Height(m, v)
    BY <1>1, <2>2 DEF Height
  <2>4. StackHeights'
    BY <1>1, <1>2, <2>3 DEF StackInv, StackHeights
  <2>5. StackValues'
    <3>1. calls = <<>>
      BY <1>1, <1>2 DEF PathInv
    <3>2. Len(calls) = 0
      BY <3>1
    <3> QED
      BY <1>1, <3>2 DEF StackValues
  <2> QED
    BY <1>1, <2>4, <2>5 DEF StackInv
<1>9. PairsInv'
  <2>1. \A x : IsDefinition(x)' <=> IsDefinition(x)
    BY <1>1, AtHandSame
  <2>2. \A p : PhiFilled(p)' <=> PhiFilled(p)
    BY <1>1, <1>3, <2>1 DEF PhiFilled
  <2> QED
    BY <1>1, <1>2, <1>3, <2>2 DEF PairsInv
<1>10. TypeOK'
  <2>1. (DOMAIN operand = Block /\ \A b \in Block : operand[b] \in [DOMAIN code[b] -> Value \cup {Null}])'
    BY <1>1, <1>2 DEF TypeOK, code
  <2> QED
    BY <1>1, <1>2, <2>1 DEF TypeOK
<1> QED
  BY <1>1, <1>2, <1>4, <1>5, <1>6, <1>7, <1>8, <1>9, <1>10 DEF Inv, AllocasInv

\* A step that changes nothing.
LEMMA StepStutter == Inv /\ UNCHANGED vars => Inv'
<1> SUFFICES ASSUME Inv, UNCHANGED vars PROVE Inv'
  OBVIOUS
<1>1. /\ pc' = pc /\ allocas' = allocas
      /\ source' = source /\ operand' = operand /\ deleted' = deleted /\ at' = at /\ next' = next
      /\ defined_list' = defined_list /\ new_value' = new_value /\ forward_list' = forward_list /\ delete_list' = delete_list
      /\ phis' = phis /\ pairs' = pairs /\ todo' = todo /\ var' = var /\ queue' = queue
      /\ define_var' = define_var /\ value_status' = value_status /\ visited' = visited /\ calls' = calls
  BY DEF vars, forwarding, placing, renaming
<1>2. source' \in Programs /\ TypeOK' /\ Lists' /\ OperandsOK' /\ AllocasInv'
  <2>1. (source \in Programs)' /\ AllocasInv'
    BY <1>1 DEF Inv, AllocasInv
  <2>2. TypeOK'
    <3>1. TypeOK
      BY DEF Inv
    <3>2. (DOMAIN operand = Block /\ \A b \in Block : operand[b] \in [DOMAIN code[b] -> Value \cup {Null}])'
      BY <1>1, <3>1 DEF TypeOK, code
    <3> QED
      BY <1>1, <3>1, <3>2 DEF TypeOK
  <2>3. Left' = Left /\ ForwardedBlocks' = ForwardedBlocks /\ Phis' = Phis
    BY <1>1 DEF Left, ForwardedBlocks, Phis
  <2>4. Lists'
    <3>1. Lists
      BY DEF Inv
    <3> QED
      BY <1>1, <2>3, <3>1 DEF Lists
  <2>5. OperandsOK'
    <3>1. \A b, j : Renamed(b, j)' <=> Renamed(b, j)
      BY <1>1 DEF Renamed, Current
    <3>2. \A x, b, k : Waiting(x, b, k)' <=> Waiting(x, b, k)
      BY <1>1, <3>1 DEF Waiting
    <3>3. \A x, b, k : AtHand(x, b, k)' <=> AtHand(x, b, k)
      BY <1>1, AtHandSame
    <3>4. OperandsOK /\ code' = code
      BY <1>1 DEF Inv, code
    <3> QED
      BY <1>1, <2>3, <3>2, <3>3, <3>4 DEF OperandsOK
  <2> QED
    BY <2>1, <2>2, <2>4, <2>5
<1>3. (pc = "forward" => ScanInv /\ Unplaced)'
  <2>1. \A b : ScanState(b)' <=> ScanState(b)
    <3>1. \A b, v : LastDefined(b, v)' <=> LastDefined(b, v)
      BY <1>1 DEF LastDefined
    <3> QED
      BY <1>1, <3>1 DEF ScanState
  <2>2. \A b : Untouched(b)' <=> Untouched(b)
    BY <1>1 DEF Untouched, code
  <2>3. Scanned' = Scanned /\ ForwardedBlocks' = ForwardedBlocks
    BY <1>1 DEF Scanned, ForwardedBlocks
  <2>4. ScanState(Scanned)' <=> ScanState(Scanned)
    <3>1. PICK b : b = Scanned
      OBVIOUS
    <3>2. ScanState(Scanned)' <=> ScanState(b)'
      BY <2>3, <3>1
    <3> QED
      BY <2>1, <3>1, <3>2
  <2>5. ScanInv' <=> ScanInv
    BY <1>1, <2>2, <2>3, <2>4 DEF ScanInv
  <2>6. Unplaced' <=> Unplaced
    BY <1>1 DEF Unplaced
  <2> QED
    BY <1>1, <2>5, <2>6 DEF Inv
<1>4. (pc = "phis" => PlacingInv)' /\ (pc \in {"forward", "phis"} => Fresh)'
  <2>1. \A v : PhiClosed(v)' <=> PhiClosed(v)
    BY <1>1 DEF PhiClosed, DefBlock, dom_frontier
  <2>2. PhiClosed(var)' <=> PhiClosed(var)
    BY <1>1 DEF PhiClosed, DefBlock, dom_frontier
  <2>3. \A b : DefBlock(b, var)' <=> DefBlock(b, var)
    BY <1>1 DEF DefBlock
  <2>4. PlacingInv' <=> PlacingInv
    BY <1>1, <2>1, <2>2, <2>3 DEF PlacingInv
  <2>5. Fresh' <=> Fresh
    BY <1>1 DEF Fresh
  <2> QED
    BY <1>1, <2>4, <2>5 DEF Inv
<1>5. (pc \notin {"forward", "phis"} => PlacedInv /\ PathInv /\ StackInv /\ PairsInv)'
  <2>1. Left' = Left /\ Phis' = Phis /\ Filled' = Filled /\ Current' = Current
    BY <1>1 DEF Left, Phis, Filled, Current
  <2>2. PlacedInv' <=> PlacedInv
    BY <1>1 DEF PlacedInv, ClosedPhis, DefBlock
  <2>3. PathInv' <=> PathInv
    BY <1>1, <2>1 DEF PathInv, succ
  <2>4. \A b, v : Tokens(b, v)' = Tokens(b, v)
    BY <1>1, <2>1 DEF Tokens, Stores, Listed, code
  <2>5. \A v : TokenSets(v)' = TokenSets(v)
    BY <2>4 DEF TokenSets
  <2>6. \A m, v : Height(m, v)' = Height(m, v)
    BY <1>1, <2>5 DEF Height
  <2>7. \A m : Place(m)' = Place(m)
    BY <1>1 DEF Place
  <2>8. StackHeights' <=> StackHeights
    BY <1>1, <2>6 DEF StackHeights
  <2>9. \A x, b, k : AtHand(x, b, k)' <=> AtHand(x, b, k)
    BY <1>1, AtHandSame
  <2>10. ASSUME StackValues PROVE StackValues'
    <3> SUFFICES ASSUME NEW v \in Var, NEW m \in 1..Len(calls), NEW j \in DOMAIN value_status[v],
                        Height(m - 1, v) < j /\ j <= Height(m, v)
                 PROVE  AtHand(value_status[v][j], calls[m], Place(m))'
      BY <1>1, <2>6 DEF StackValues
    <3>1. AtHand(value_status[v][j], calls[m], Place(m))
      BY <2>10 DEF StackValues
    <3> QED
      BY <1>1, <2>7, <2>9, <3>1
  <2>11. \A b, v : Defines(b, v)' = Defines(b, v)
    BY <1>1 DEF Defines, Stores, Listed, code
  <2>12. DefineCounts' <=> DefineCounts
    BY <1>1, <2>1, <2>11 DEF DefineCounts
  <2>13. StackInv => StackInv'
    BY <1>1, <2>8, <2>10, <2>12 DEF StackInv
  <2>14. \A x : IsDefinition(x)' <=> IsDefinition(x)
    BY <1>1, AtHandSame
  <2>15. \A p : PhiFilled(p)' <=> PhiFilled(p)
    BY <1>1, <2>1, <2>14 DEF PhiFilled
  <2>16. PairsInv' <=> PairsInv
    BY <1>1, <2>1, <2>15 DEF PairsInv
  <2> QED
    BY <1>1, <2>2, <2>3, <2>13, <2>16 DEF Inv
<1> QED
  BY <1>2, <1>3, <1>4, <1>5 DEF Inv

LEMMA NextInv == Inv /\ [Next]_vars => Inv'
<1> SUFFICES ASSUME Inv, [Next]_vars PROVE Inv'
  OBVIOUS
<1>1. CASE Pass
  BY <1>1, StepStore, StepLoad, StepOther, StepForward, StepCollect, StepVar, StepPlace, StepStart,
     StepRenameLoad, StepRenameStore, StepRenameOther, StepFill, StepDescend, StepReturn, StepRemove DEF Pass
<1>2. CASE UNCHANGED vars
  BY <1>2, StepStutter
<1>3. CASE Finished
  BY <1>3, StepStutter DEF Finished
<1> QED
  BY <1>1, <1>2, <1>3 DEF Next

LEMMA Invariance == Spec => []Inv
<1> QED
  BY InitInv, NextInv, PTL DEF Spec

-----------------------------------------------------------------------------
(* What the invariant says at every moment.                                *)

\* A value on a stack was pushed by some open call.
LEMMA StackDefinitions ==
  ASSUME source \in Programs, TypeOK, PathInv, StackInv, NEW v \in Var, NEW j \in DOMAIN value_status[v]
  PROVE  IsDefinition(value_status[v][j])
<1> DEFINE n == Len(calls)
           s == value_status[v]
           K == {m \in 0..n : Height(m, v) >= j}
<1>1. s \in Seq(Value) /\ j \in 1..Len(s) /\ Len(s) \in Nat /\ j \in Nat /\ j # 0
  BY LenProperties DEF TypeOK
<1>2. Counts(calls, TokenSets(v)) /\ n \in Nat
  BY Counted, LenProperties DEF TypeOK
<1>3. Height(0, v) = 0 /\ \A m \in 0..n : Height(m, v) \in Nat
  BY <1>2 DEF Counts, Height
<1>4. n \in K
  BY <1>1, <1>2, <1>3 DEF StackInv, StackHeights
<1>5. PICK m \in K : \A k \in K : m <= k
  <2>1. K \in SUBSET Nat /\ K # {}
    BY <1>2, <1>4
  <2> HIDE DEF K
  <2> QED
    BY <2>1, LeastMember
<1>6. m \in 1..n /\ Height(m - 1, v) < j /\ j <= Height(m, v)
  <2>1. m # 0
    BY <1>1, <1>3, <1>5
  <2>2. m - 1 \in 0..n /\ m - 1 \notin K
    BY <1>2, <1>5, <2>1
  <2> QED
    BY <1>1, <1>2, <1>3, <1>5, <2>1, <2>2
<1>7. AtHand(value_status[v][j], calls[m], Place(m))
  BY <1>6 DEF StackInv, StackValues
<1> QED
  BY <1>7 DEF AtHand

LEMMA BalancedInv == Inv => StacksBalanced
<1> SUFFICES ASSUME Inv, NEW v \in Var PROVE Len(value_status[v]) = Cardinality(OpenDefs(v))
  BY DEF StacksBalanced
<1>1. PICK n : n = Len(calls)
  OBVIOUS
<1>2. calls \in Seq(Block) /\ DOMAIN calls = 1..n /\ ToSet(calls) = {calls[i] : i \in 1..n} /\ n = Len(calls)
  BY <1>1, LenProperties DEF Inv, TypeOK, ToSet
<1>3. \A i \in 1..n : calls[i] \in Block
  BY <1>2, LenProperties
<1>4. OpenDefs(v) = Open(calls, TokenSets(v), n)
  <2>1. \A b \in Block : TokenSets(v)[b] = Tokens(b, v)
    BY DEF TokenSets
  <2>2. ASSUME NEW x \in OpenDefs(v) PROVE x \in Open(calls, TokenSets(v), n)
    <3>1. PICK b \in ToSet(calls) : \E t \in Tokens(b, v) : x = <<b, t>>
      BY <2>2 DEF OpenDefs, Tokens
    <3>2. PICK i \in 1..n : calls[i] = b
      BY <1>2, <3>1
    <3>3. x \in {<<calls[i], t>> : t \in TokenSets(v)[calls[i]]}
      BY <1>3, <2>1, <3>1, <3>2
    <3> QED
      BY <3>3 DEF Open
  <2>3. ASSUME NEW x \in Open(calls, TokenSets(v), n) PROVE x \in OpenDefs(v)
    <3>1. PICK i \in 1..n : x \in {<<calls[i], t>> : t \in TokenSets(v)[calls[i]]}
      BY <2>3 DEF Open
    <3>2. PICK b : b = calls[i]
      OBVIOUS
    <3>3. b \in ToSet(calls) /\ \E t \in Tokens(b, v) : x = <<b, t>>
      BY <1>2, <1>3, <2>1, <3>1, <3>2
    <3> QED
      BY <3>3 DEF OpenDefs, Tokens
  <2> QED
    BY <2>2, <2>3
<1>5. CASE pc \in {"forward", "phis"}
  <2>1. calls = <<>> /\ value_status[v] = <<>>
    BY <1>5 DEF Inv, Fresh
  <2>2. Open(calls, TokenSets(v), n) = {} /\ Len(value_status[v]) = 0
    BY <1>1, <2>1 DEF Open
  <2> QED
    BY <1>4, <2>2, FS_EmptySet
<1>6. CASE pc \notin {"forward", "phis"}
  <2>1. StackHeights
    BY <1>6 DEF Inv, StackInv
  <2> QED
    BY <1>1, <1>4, <2>1 DEF StackHeights, Height
<1> QED
  BY <1>5, <1>6

\* Calls are never deleted.
LEMMA DefinitionExists ==
  ASSUME source \in Programs, Lists, NEW x, IsDefinition(x)
  PROVE  Exists(x)
<1>1. CASE x \in Phis
  BY <1>1 DEF Exists
<1>2. CASE \E b \in Block : \E j \in Nat : x = <<b, j>> /\ CallAt(source, b, j)
  <2>1. PICK b \in Block : \E j \in Nat : x = <<b, j>> /\ CallAt(source, b, j)
    BY <1>2
  <2>2. PICK j \in Nat : x = <<b, j>> /\ CallAt(source, b, j)
    BY <2>1
  <2>3. <<b, j>> \notin deleted
    BY <2>2 DEF Lists, LocalVarOp, isLocalVarOp, CallAt
  <2>4. j \in Listed(b) /\ code[b][j].op = "call"
    BY <2>2, <2>3 DEF Listed, CallAt, code
  <2> QED
    BY <2>2, <2>4 DEF Exists
<1> QED
  BY <1>1, <1>2 DEF IsDefinition

LEMMA OperandsInv == Inv => OperandsExist
<1> SUFFICES ASSUME Inv PROVE OperandsExist
  OBVIOUS
<1>1. source \in Programs /\ TypeOK /\ Lists /\ OperandsOK
  BY DEF Inv
<1>2. ASSUME NEW b \in Block, NEW k \in Listed(b), code[b][k].op \in {"store", "out"}
      PROVE  Exists(operand[b][k])
  <2>0. k \in DOMAIN source.code[b] /\ Uses(source, b, k)
    BY <1>2 DEF Listed, Uses, code
  <2>1. CASE b \notin ForwardedBlocks
    <3>1. pc = "forward"
      BY <1>1, <2>1 DEF Lists
    <3>2. Untouched(b)
      BY <2>1, <3>1 DEF Inv, ScanInv
    <3>3. PICK m \in Nat : /\ m < k /\ source.code[b][k].val = <<b, m>>
                           /\ (CallAt(source, b, m) \/ \E v \in Var : LoadAt(source, b, m, v))
      BY <1>1, <1>2, <2>0, Instruction DEF code
    <3>4. m \in DOMAIN source.code[b] /\ source.code[b][m].op \in {"load", "call"}
      BY <3>3 DEF CallAt, LoadAt
    <3>5. m \in Listed(b) /\ operand[b][k] = <<b, m>> /\ code[b][m].op \in {"load", "call"}
      BY <2>0, <3>2, <3>3, <3>4 DEF Untouched, Listed, code
    <3> QED
      BY <3>5 DEF Exists
  <2>2. CASE b \in ForwardedBlocks
    <3>1. AtHand(operand[b][k], b, k) \/ Waiting(operand[b][k], b, k)
      BY <1>1, <2>0, <2>2 DEF OperandsOK, code
    <3>2. CASE AtHand(operand[b][k], b, k)
      BY <1>1, <3>2, DefinitionExists DEF AtHand
    <3>3. CASE Waiting(operand[b][k], b, k)
      <4>1. PICK j \in Nat : /\ operand[b][k] = <<b, j>> /\ KeptAt(source, b, k, j)
                             /\ ~CallAt(source, b, j) /\ ~Renamed(b, j)
        BY <3>3 DEF Waiting
      <4>2. PICK v \in Var : LoadAt(source, b, j, v) /\ ~LocalLoad(source, b, j)
        BY <4>1 DEF KeptAt
      <4>3. b \notin Left
        <5> SUFFICES ASSUME b \in Left PROVE FALSE
          OBVIOUS
        <5>1. b \in visited /\ pc = "rename" /\ b = Current
          BY <4>1 DEF Renamed, Left
        <5>2. PathInv /\ Walking
          BY <5>1 DEF Inv, Walking
        <5> QED
          BY <1>1, <5>1, <5>2, OpenPath
      <4>4. j \in Listed(b)
        BY <1>1, <4>2, <4>3, KeptListed
      <4> QED
        BY <4>1, <4>2, <4>4 DEF Exists, LoadAt, code
    <3> QED
      BY <3>1, <3>2, <3>3
  <2> QED
    BY <2>1, <2>2
<1>3. ASSUME NEW p \in Phis, NEW q \in pairs[p] PROVE Exists(q[1])
  <2>1. pc \notin {"forward", "phis"}
    <3>1. p \in Phi
      BY DEF Phis
    <3> QED
      BY <1>3, <3>1 DEF Inv, Fresh
  <2>2. PhiFilled(p)
    BY <2>1 DEF Inv, PairsInv, Phis
  <2>3. IsDefinition(q[1])
    BY <2>2 DEF PhiFilled
  <2> QED
    BY <1>1, <2>3, DefinitionExists
<1>4. ASSUME NEW v \in Var, NEW x \in ToSet(value_status[v]) PROVE Exists(x)
  <2>1. PICK j \in DOMAIN value_status[v] : x = value_status[v][j]
    BY DEF ToSet
  <2>2. pc \notin {"forward", "phis"}
    BY <2>1 DEF Inv, Fresh
  <2>3. PathInv /\ StackInv
    BY <2>2 DEF Inv
  <2>4. IsDefinition(x)
    BY <1>1, <2>1, <2>3, StackDefinitions
  <2> QED
    BY <1>1, <2>4, DefinitionExists
<1> QED
  BY <1>2, <1>3, <1>4 DEF OperandsExist

\* At the end every block has been visited and left.
LEMMA AllLeft ==
  ASSUME source \in Programs, TypeOK, PathInv, pc = "done"
  PROVE  visited = Block /\ Left = Block /\ Filled = Block
<1>1. calls = <<>> /\ Root \in visited /\ visited \subseteq Block
  BY DEF PathInv, TypeOK
<1>2. Left = visited
  BY <1>1 DEF Left, ToSet
<1>3. Closed(Block, Edges(source), visited)
  <2>1. \A b \in visited : ToSet(source.succ[b]) \subseteq visited
    BY <1>2 DEF PathInv, succ
  <2>2. \A b \in Block : Edges(source)[b] = ToSet(source.succ[b])
    BY Graph
  <2> QED
    BY <1>1, <2>1, <2>2 DEF Closed
<1>4. visited \cap Block = visited
  BY <1>1
<1>5. ReachIn(Block, Edges(source), Root) \subseteq visited
  BY <1>1, <1>3, <1>4, SetsFinite, ReachLeast
<1>6. ReachIn(Block, Edges(source), Root) = Block
  BY Graph
<1> QED
  BY <1>1, <1>2, <1>5, <1>6 DEF Filled

LEMMA NoLocalInv == Inv => NoLocalLeft
<1> SUFFICES ASSUME Inv, NEW b \in Block, NEW k \in Listed(b) PROVE code[b][k].var \in allocas \cup {Null}
  BY DEF NoLocalLeft
<1>1. source \in Programs /\ TypeOK /\ Lists /\ AllocasInv
  BY DEF Inv
<1>2. /\ k \in DOMAIN source.code[b] /\ k \in Nat /\ <<b, k>> \notin deleted
      /\ source.code[b][k].op \in {"load", "store"} => source.code[b][k].var \in Var
      /\ source.code[b][k].op \notin {"load", "store"} => source.code[b][k].var = Null
  BY <1>1, Instruction DEF Listed, code
<1>3. CASE pc # "done"
  BY <1>1, <1>2, <1>3 DEF AllocasInv, code
<1>4. CASE pc = "done"
  <2>1. PathInv
    BY <1>4 DEF Inv
  <2>2. b \in Left
    BY <1>1, <1>4, <2>1, AllLeft
  <2>3. ~LocalVarOp(source, b, k)
    BY <1>1, <1>2, <2>2 DEF Lists
  <2> QED
    BY <1>2, <2>3 DEF LocalVarOp, isLocalVarOp, code
<1> QED
  BY <1>3, <1>4

-----------------------------------------------------------------------------
(* What the invariant says of the result.                                  *)

LEMMA CompleteInv == Inv => PhisComplete
<1> SUFFICES ASSUME Inv, pc = "done", NEW p \in Phis
             PROVE  /\ pairs[p] # {}
                    /\ \A q, r \in pairs[p] : q[2] = r[2] => q = r
                    /\ {q[2] : q \in pairs[p]} =
                         {b \in Block : p[1] \in succ(b) /\ Reached(source, b, Len(code[b]) + 1, p[2])}
  BY DEF PhisComplete
<1>1. source \in Programs /\ TypeOK /\ PathInv /\ PlacedInv /\ PairsInv
  BY DEF Inv
<1>2. p \in Phi /\ p[1] \in Block /\ p[2] \in Var /\ p[2] \in phis[p[1]]
  BY DEF Phis, Phi
<1>3. PhiFilled(p) /\ Filled = Block
  BY <1>1, <1>2, AllLeft DEF PairsInv
<1>4. \A b \in Block : b \in {q[2] : q \in pairs[p]}
                         <=> Edge(source, b, p[1]) /\ Reached(source, b, End(source, b), p[2])
  BY <1>3 DEF PhiFilled
<1>5. {q[2] : q \in pairs[p]} \subseteq Block
  BY <1>3 DEF PhiFilled
<1>6. {q[2] : q \in pairs[p]} = {b \in Block : Edge(source, b, p[1]) /\ Reached(source, b, End(source, b), p[2])}
  BY <1>4, <1>5
<1>7. Justified(source, p[1], p[2])
  BY <1>1, <1>2 DEF PlacedInv
<1>8. pairs[p] # {}
  BY <1>6, <1>7 DEF Justified
<1>9. \A q, r \in pairs[p] : q[2] = r[2] => q = r
  BY <1>3 DEF PhiFilled
<1> QED
  BY <1>6, <1>8, <1>9 DEF Edge, End, succ, code

LEMMA DominateInv == Inv => DefsDominateUses
<1> SUFFICES ASSUME Inv, pc = "done" PROVE
      /\ \A b \in Block : \A k \in Listed(b) : code[b][k].op = "out" =>
           LET x == operand[b][k] IN
           IF x[1] # b \/ x \in Phis THEN Dominates(Block, Edges(source), Root, x[1], b)
           ELSE x[2] \in Listed(b) /\ x[2] < k
      /\ \A p \in Phis : \A q \in pairs[p] : Dominates(Block, Edges(source), Root, q[1][1], q[2])
  BY DEF DefsDominateUses
<1>1. source \in Programs /\ TypeOK /\ Lists /\ OperandsOK /\ PathInv /\ PairsInv
  BY DEF Inv
<1>2. ASSUME NEW b \in Block, NEW k \in Listed(b), code[b][k].op = "out", NEW x, x = operand[b][k]
      PROVE  IF x[1] # b \/ x \in Phis THEN Dominates(Block, Edges(source), Root, x[1], b)
             ELSE x[2] \in Listed(b) /\ x[2] < k
  <2>1. k \in DOMAIN source.code[b] /\ Uses(source, b, k)
    BY <1>2 DEF Listed, Uses, code
  <2>2. ForwardedBlocks = Block /\ visited = Block
    BY <1>1, AllLeft DEF Lists
  <2>3. AtHand(x, b, k) \/ Waiting(x, b, k)
    BY <1>1, <1>2, <2>1, <2>2 DEF OperandsOK, code
  <2>4. ~Waiting(x, b, k)
    BY <2>2 DEF Waiting, Renamed
  <2>5. IsDefinition(x) /\ Dom(source, x[1], b) /\ (x[1] = b /\ x \notin Phi => x[2] < k)
    BY <2>3, <2>4 DEF AtHand
  <2>6. CASE x[1] # b \/ x \in Phis
    BY <2>5, <2>6 DEF Dom
  <2>7. CASE ~(x[1] # b \/ x \in Phis)
    <3>1. PICK c \in Block : \E j \in Nat : x = <<c, j>> /\ CallAt(source, c, j)
      BY <2>5, <2>7 DEF IsDefinition
    <3>2. PICK j \in Nat : x = <<c, j>> /\ CallAt(source, c, j)
      BY <3>1
    <3>3. c = b /\ x[2] = j /\ x \notin Phi
      BY <2>7, <3>2, Kinds
    <3>4. <<b, j>> \notin deleted
      BY <1>1, <3>2, <3>3 DEF Lists, LocalVarOp, isLocalVarOp, CallAt
    <3>5. j \in Listed(b)
      BY <3>2, <3>3, <3>4 DEF Listed, CallAt, code
    <3> QED
      BY <2>5, <2>7, <3>3, <3>5
  <2> QED
    BY <2>6, <2>7
<1>3. ASSUME NEW p \in Phis, NEW q \in pairs[p] PROVE Dominates(Block, Edges(source), Root, q[1][1], q[2])
  <2>1. PhiFilled(p)
    BY <1>1 DEF PairsInv, Phis
  <2> QED
    BY <2>1 DEF PhiFilled, Dom
<1> QED
  BY <1>2, <1>3

\* At every moment of the pass, for every function: the stacks of the renaming
\* hold exactly what the open calls have pushed, no operand is a value that is
\* gone, and no instruction names a variable without its alloca.
THEOREM RenamingSound == Spec => []StateSound
<1>1. Inv => StateSound
  BY BalancedInv, OperandsInv, NoLocalInv DEF StateSound, Inv
<1> QED
  BY <1>1, Invariance, PTL

\* What Mem2Reg leaves is in SSA form: every definition dominates its uses, and
\* a phi has exactly one value for each predecessor that a store reaches.
THEOREM ResultInSSA == Spec => []SSAForm
<1>1. Inv => SSAForm
  BY CompleteInv, DominateInv DEF SSAForm
<1> QED
  BY <1>1, Invariance, PTL

-----------------------------------------------------------------------------
(* The meaning of the operands.                                            *)

\* The place k of b has the value of place j as its operand, as it was given.
UseOf(b, k, j) == k \in Nat /\ j \in Nat /\ Uses(source, b, k) /\ source.code[b][k].val = <<b, j>>

\* The value that a definition of v leaves at the end of d: that of the last
\* store, or the phi.
ValueOf(d, v, x) ==
  /\ \A m \in Nat : LastStoreAt(source, d, End(source, d), v, m) => x = operand[d][m]
  /\ ~StoreIn(source, d, v) => x = <<d, v>>

\* The nearest definition of v above a block, and the one above its phis.
Nearest(d, b, v) ==
  /\ DefBlock(d, v) /\ Dom(source, d, b)
  /\ \A e \in Block : DefBlock(e, v) /\ Dom(source, e, b) => Dom(source, e, d)
NearestAbove(d, b, v) ==
  /\ DefBlock(d, v) /\ d # b /\ Dom(source, d, b)
  /\ \A e \in Block : DefBlock(e, v) /\ e # b /\ Dom(source, e, b) => Dom(source, e, d)

\* x is what v holds at the end of b, and behind its phis.
AtEnd(b, v, x) == \E d \in Filled : Nearest(d, b, v) /\ ValueOf(d, v, x)
AtStart(b, v, x) ==
  \/ v \in phis[b] /\ x = <<b, v>>
  \/ v \notin phis[b] /\ \E d \in Filled : NearestAbove(d, b, v) /\ ValueOf(d, v, x)

\* What the operand of a use means, by what defines the value as it was given:
\* a call, a load behind a store, one that waits, one that has been renamed.
CallsMean ==
  \A b \in ForwardedBlocks : \A k, j \in Nat :
    UseOf(b, k, j) /\ CallAt(source, b, j) => operand[b][k] = <<b, j>>
LocalsMean ==
  \A b \in ForwardedBlocks : \A k, j, m \in Nat : \A v \in Var :
    UseOf(b, k, j) /\ LoadAt(source, b, j, v) /\ LastStoreAt(source, b, j, v, m) => operand[b][k] = operand[b][m]
GlobalUse(b, k, j, v) == UseOf(b, k, j) /\ LoadAt(source, b, j, v) /\ ~StoreBefore(source, b, j, v)
WaitingMean ==
  \A b \in ForwardedBlocks : \A k, j \in Nat : \A v \in Var :
    GlobalUse(b, k, j, v) /\ ~Renamed(b, j) => operand[b][k] = <<b, j>>
RenamedMean ==
  \A b \in ForwardedBlocks : \A k, j \in Nat : \A v \in Var :
    GlobalUse(b, k, j, v) /\ Renamed(b, j) => AtStart(b, v, operand[b][k])
OperandsMean == CallsMean /\ LocalsMean /\ WaitingMean /\ RenamedMean

\* The same for the block that insideBlockForwarding scans.
Functional == \A f, g \in forward_list : f[1] = g[1] => f = g
ForwardedMeans(b) ==
  \A j, m \in Nat : \A v \in Var : \A f \in forward_list :
    f[1] = <<b, j>> /\ LoadAt(source, b, j, v) /\ LastStoreAt(source, b, j, v, m) =>
      f[2] = Forwarded(forward_list, source.code[b][m].val)
NewValueMeans(b) ==
  \A v \in Var : \A m \in Nat : LastStoreAt(source, b, at, v, m) =>
    new_value[v] = Forwarded(forward_list, source.code[b][m].val)
ScanMeans(b) == Functional /\ ForwardedMeans(b) /\ NewValueMeans(b)

\* On top of what an open call has pushed is its last definition.
Pushed(c, t, v, x) == x = IF t = 0 THEN <<c, v>> ELSE operand[c][t]
LastToken(c, v, t) == t \in Tokens(c, v) /\ \A u \in Tokens(c, v) : u <= t
LastPushed ==
  \A v \in Var : \A m \in 1..Len(calls) : \A t \in Nat :
    LastToken(calls[m], v, t) => Pushed(calls[m], t, v, value_status[v][Height(m, v)])

PairsMean == \A p \in Phis : \A q \in pairs[p] : AtEnd(q[2], p[2], q[1])

Meaning ==
  /\ pc = "forward" /\ next <= Len(source.blocks) => ScanMeans(Scanned)
  /\ OperandsMean
  /\ pc \notin {"forward", "phis"} => LastPushed /\ PairsMean

\* A value keeps its meaning when every operand x becomes y, if it does too.
LEMMA MeansSubst ==
  ASSUME source' = source, phis' = phis, Filled \subseteq Filled', Filled \subseteq Block,
         NEW x, x \notin Phi, NEW y,
         \A d \in Block : \A m \in DOMAIN source.code[d] :
           operand'[d][m] = IF operand[d][m] = x THEN y ELSE operand[d][m],
         NEW b \in Block, NEW v \in Var, NEW z
  PROVE  /\ AtEnd(b, v, z) => AtEnd(b, v, IF z = x THEN y ELSE z)'
         /\ AtStart(b, v, z) => AtStart(b, v, IF z = x THEN y ELSE z)'
<1> PICK w : w = IF z = x THEN y ELSE z
  OBVIOUS
<1>1. \A d : /\ Nearest(d, b, v)' <=> Nearest(d, b, v)
             /\ NearestAbove(d, b, v)' <=> NearestAbove(d, b, v)
  BY DEF Nearest, NearestAbove, DefBlock
<1>2. ASSUME NEW d \in Filled, ValueOf(d, v, z) PROVE ValueOf(d, v, w)'
  <2>1. \A m \in Nat : LastStoreAt(source, d, End(source, d), v, m) => w = operand'[d][m]
    <3> SUFFICES ASSUME NEW m \in Nat, LastStoreAt(source, d, End(source, d), v, m) PROVE w = operand'[d][m]
      OBVIOUS
    <3>1. z = operand[d][m] /\ m \in DOMAIN source.code[d] /\ d \in Block
      BY <1>2 DEF ValueOf, LastStoreAt, StoreAt
    <3> QED
      BY <3>1
  <2>2. ~StoreIn(source, d, v) => w = <<d, v>>
    <3> SUFFICES ASSUME ~StoreIn(source, d, v) PROVE w = <<d, v>>
      OBVIOUS
    <3>1. z = <<d, v>> /\ z \in Phi
      BY <1>2 DEF ValueOf, Phi
    <3> QED
      BY <3>1
  <2> QED
    BY <2>1, <2>2 DEF ValueOf
<1>3. AtEnd(b, v, z) => AtEnd(b, v, w)'
  BY <1>1, <1>2 DEF AtEnd
<1>4. AtStart(b, v, z) => AtStart(b, v, w)'
  <2>1. CASE v \in phis[b] /\ z = <<b, v>>
    <3>1. z \in Phi /\ w = <<b, v>>
      BY <2>1 DEF Phi
    <3> QED
      BY <2>1, <3>1 DEF AtStart
  <2>2. CASE v \notin phis[b] /\ \E d \in Filled : NearestAbove(d, b, v) /\ ValueOf(d, v, z)
    BY <1>1, <1>2, <2>2 DEF AtStart
  <2> QED
    BY <2>1, <2>2 DEF AtStart
<1> QED
  BY <1>3, <1>4

LEMMA MeansSame ==
  ASSUME source' = source, phis' = phis, Filled \subseteq Filled', Filled \subseteq Block, operand' = operand,
         NEW b \in Block, NEW v \in Var, NEW z
  PROVE  /\ AtEnd(b, v, z) => AtEnd(b, v, z)'
         /\ AtStart(b, v, z) => AtStart(b, v, z)'
<1>1. PICK x : x = Null
  OBVIOUS
<1>2. x \notin Phi
  BY <1>1, Kinds DEF Value
<1>3. \A d \in Block : \A m \in DOMAIN source.code[d] :
        operand'[d][m] = IF operand[d][m] = x THEN x ELSE operand[d][m]
  OBVIOUS
<1>4. /\ AtEnd(b, v, z) => AtEnd(b, v, IF z = x THEN x ELSE z)'
      /\ AtStart(b, v, z) => AtStart(b, v, IF z = x THEN x ELSE z)'
  BY <1>2, <1>3, MeansSubst
<1>5. z = IF z = x THEN x ELSE z
  OBVIOUS
<1> QED
  BY <1>4, <1>5

\* Operands that stay keep their meaning.
LEMMA OperandsMeanFrame ==
  ASSUME OperandsMean, source' = source, phis' = phis, Filled \subseteq Filled', Filled \subseteq Block,
         operand' = operand, next' = next, ForwardedBlocks \subseteq Block,
         \A b \in Block : \A k, j \in Nat : \A v \in Var : GlobalUse(b, k, j, v) => (Renamed(b, j)' <=> Renamed(b, j))
  PROVE  OperandsMean'
<1>1. ForwardedBlocks' = ForwardedBlocks
  BY DEF ForwardedBlocks
<1>2. /\ \A b, k, j : UseOf(b, k, j)' <=> UseOf(b, k, j)
      /\ \A b, k, j, v : GlobalUse(b, k, j, v)' <=> GlobalUse(b, k, j, v)
  BY DEF UseOf, GlobalUse
<1>3. CallsMean' /\ LocalsMean'
  BY <1>1, <1>2 DEF OperandsMean, CallsMean, LocalsMean
<1>4. WaitingMean'
  BY <1>1, <1>2 DEF OperandsMean, WaitingMean
<1>5. RenamedMean'
  <2>1. ASSUME NEW b \in ForwardedBlocks, NEW k \in Nat, NEW j \in Nat, NEW v \in Var,
               GlobalUse(b, k, j, v), Renamed(b, j)'
        PROVE  AtStart(b, v, operand[b][k])'
    <3>1. PICK z : z = operand[b][k]
      OBVIOUS
    <3>2. AtStart(b, v, z)
      BY <2>1, <3>1 DEF OperandsMean, RenamedMean
    <3>3. AtStart(b, v, z)'
      BY <3>2, MeansSame
    <3>4. z = operand'[b][k]
      BY <3>1
    <3> QED
      BY <3>3, <3>4
  <2> QED
    BY <1>1, <1>2, <2>1 DEF RenamedMean
<1> QED
  BY <1>3, <1>4, <1>5 DEF OperandsMean

-----------------------------------------------------------------------------
(* insideBlockForwarding.                                                  *)

LEMMA ForwardedTo ==
  ASSUME NEW list, \A f, g \in list : f[1] = g[1] => f = g, NEW f \in list
  PROVE  Forwarded(list, f[1]) = f[2]
BY DEF Forwarded

\* The value of a store or use comes before it in its block.
LEMMA ValueBefore ==
  ASSUME NEW p \in Programs, NEW b \in Block, NEW k \in DOMAIN p.code[b], Uses(p, b, k)
  PROVE  \E m \in Nat : m < k /\ p.code[b][k].val = <<b, m>>
                          /\ (CallAt(p, b, m) \/ \E v \in Var : LoadAt(p, b, m, v))
BY Instruction DEF Uses

LEMMA StoreUses ==
  ASSUME NEW p \in Programs, NEW b \in Block, NEW m, NEW v, StoreAt(p, b, m, v)
  PROVE  Uses(p, b, m) /\ m \in DOMAIN p.code[b] /\ m \in Nat
BY Instruction DEF Uses, StoreAt

LEMMA ScanMeaning ==
  ASSUME Inv, Meaning, Scanning, ScanNext, NEW b, b = Scanned, ScanMeans(b)'
  PROVE  Meaning'
<1>1. /\ source' = source /\ pc' = pc /\ operand' = operand /\ next' = next /\ phis' = phis
      /\ visited' = visited /\ calls' = calls
  BY DEF ScanNext, renaming
<1>2. pc = "forward" /\ source \in Programs /\ TypeOK /\ Fresh
  BY ScanPlace
<1>3. Scanned' = b /\ pc' = "forward"
  BY <1>1, <1>2 DEF Scanned
<1>4. OperandsMean'
  <2>1. visited = {} /\ Filled = {} /\ Filled' = {}
    BY <1>1, <1>2 DEF Fresh, Filled
  <2>2. \A c, j : Renamed(c, j)' <=> Renamed(c, j)
    BY <1>1, <2>1 DEF Renamed
  <2>3. ForwardedBlocks \subseteq Block
    <3>1. source.blocks \in Seq(Block) /\ next \in Nat \ {0} /\ next <= Len(source.blocks) + 1
      BY <1>2, Blocks, ScanPlace DEF TypeOK, ScanInv
    <3>2. \A n \in 1..(next - 1) : n \in 1..Len(source.blocks)
      BY <3>1, LenProperties
    <3> QED
      BY <3>1, <3>2 DEF ForwardedBlocks
  <2> QED
    BY <1>1, <2>1, <2>2, <2>3, OperandsMeanFrame DEF Meaning
<1>5. (ScanMeans(Scanned))'
  BY <1>3
<1> QED
  BY <1>3, <1>4, <1>5 DEF Meaning

\* What the next place changes about the last stores.
LEMMA LastStoreStep ==
  ASSUME NEW p \in Programs, NEW b \in Block, NEW k \in DOMAIN p.code[b], NEW v, NEW m \in Nat,
         LastStoreAt(p, b, k + 1, v, m)
  PROVE  IF StoreAt(p, b, k, v) THEN m = k ELSE LastStoreAt(p, b, k, v, m)
<1>1. k \in Nat
  BY Instruction
<1>2. StoreAt(p, b, m, v) /\ m < k + 1 /\ \A n \in Nat : m < n /\ n < k + 1 => ~StoreAt(p, b, n, v)
  BY DEF LastStoreAt
<1>3. m < k \/ m = k
  BY <1>1, <1>2
<1>4. CASE StoreAt(p, b, k, v)
  <2>1. ~(m < k)
    BY <1>1, <1>2, <1>4
  <2> QED
    BY <1>3, <1>4, <2>1
<1>5. CASE ~StoreAt(p, b, k, v)
  <2>1. m < k
    BY <1>2, <1>3, <1>5
  <2>2. \A n \in Nat : n < k => n < k + 1
    BY <1>1
  <2> QED
    BY <1>2, <1>5, <2>1, <2>2 DEF LastStoreAt
<1> QED
  BY <1>4, <1>5

LEMMA MeaningStore == ASSUME Inv, Meaning, ScanStore PROVE Meaning'
<1> DEFINE b == Scanned
           i == source.code[b][at]
<1>0. Scanning /\ ScanNext /\ i.op = "store" /\ source' = source /\ at' = at + 1 /\ forward_list' = forward_list
  BY DEF ScanStore, ScanNext, code
<1>1. pc = "forward" /\ source \in Programs /\ TypeOK /\ b \in Block /\ at \in DOMAIN source.code[b] /\ at \in Nat
  BY <1>0, ScanPlace
<1>2. i.var \in Var /\ \A v : StoreAt(source, b, at, v) <=> v = i.var
  BY <1>0, <1>1, Instruction DEF StoreAt
<1>3. ScanMeans(b)
  BY <1>0, <1>1 DEF Meaning, Scanning
<1>4. new_value' = [new_value EXCEPT ![i.var] = Forwarded(forward_list, i.val)] /\ new_value \in [Var -> Id \cup {Null}]
  BY <1>1 DEF ScanStore, TypeOK, code
<1> HIDE DEF b, i
<1>5. new_value'[i.var] = Forwarded(forward_list, i.val) /\ \A v \in Var \ {i.var} : new_value'[v] = new_value[v]
  BY <1>2, <1>4
<1>6. PICK c : c = b
  OBVIOUS
<1>7. NewValueMeans(c)'
  <2>1. ASSUME NEW v \in Var, NEW m \in Nat, LastStoreAt(source, c, at + 1, v, m)
        PROVE  new_value'[v] = Forwarded(forward_list, source.code[c][m].val)
    <3>1. IF StoreAt(source, c, at, v) THEN m = at ELSE LastStoreAt(source, c, at, v, m)
      BY <1>1, <1>6, <2>1, LastStoreStep
    <3>2. CASE StoreAt(source, c, at, v)
      <4>1. m = at /\ v = i.var
        BY <1>2, <1>6, <3>1, <3>2
      <4> QED
        BY <1>5, <1>6, <4>1 DEF i
    <3>3. CASE ~StoreAt(source, c, at, v)
      <4>1. new_value[v] = Forwarded(forward_list, source.code[c][m].val)
        BY <1>3, <1>6, <3>1, <3>3 DEF ScanMeans, NewValueMeans
      <4>2. v # i.var
        BY <1>2, <1>6, <3>3
      <4> QED
        BY <1>5, <4>1, <4>2
    <3> QED
      BY <3>2, <3>3
  <2> QED
    BY <1>0, <2>1 DEF NewValueMeans
<1>8. ScanMeans(c)'
  BY <1>0, <1>3, <1>6, <1>7 DEF ScanMeans, Functional, ForwardedMeans
<1>9. c = Scanned
  BY <1>6 DEF b
<1> QED
  BY <1>0, <1>8, <1>9, ScanMeaning

LEMMA MeaningLoad == ASSUME Inv, Meaning, ScanLoad PROVE Meaning'
<1> DEFINE b == Scanned
           i == source.code[b][at]
<1>0. Scanning /\ ScanNext /\ i.op = "load" /\ source' = source /\ at' = at + 1 /\ new_value' = new_value
  BY DEF ScanLoad, ScanNext, code
<1>1. /\ pc = "forward" /\ source \in Programs /\ TypeOK /\ b \in Block /\ ScanState(b)
      /\ at \in DOMAIN source.code[b] /\ at \in Nat
  BY <1>0, ScanPlace
<1>2. i.var \in Var /\ (\A v : LoadAt(source, b, at, v) => v = i.var) /\ \A v : ~StoreAt(source, b, at, v)
  BY <1>0, <1>1, Instruction DEF LoadAt, StoreAt
<1>3. ScanMeans(b)
  BY <1>0, <1>1 DEF Meaning, Scanning
<1>4. PICK g : g = <<<<b, at>>, new_value[i.var]>>
  OBVIOUS
<1>5. g[1] = <<b, at>> /\ g[2] = new_value[i.var]
  BY <1>4
<1>6. forward_list' = forward_list \/ forward_list' = forward_list \cup {g}
  BY <1>4 DEF ScanLoad, code
<1>7. \A f \in forward_list : f[1] # <<b, at>>
  <2>1. \A f \in forward_list : \E m \in Nat : f[1] = <<b, m>> /\ m < at
    BY <1>1 DEF ScanState
  <2> QED
    BY <1>1, <2>1
<1> HIDE DEF b, i
<1>8. PICK c : c = b
  OBVIOUS
<1>9. Functional'
  BY <1>3, <1>5, <1>6, <1>7 DEF ScanMeans, Functional
<1>10. \A x : x # <<b, at>> => Forwarded(forward_list', x) = Forwarded(forward_list, x)
  <2>1. CASE forward_list' = forward_list
    BY <2>1
  <2>2. CASE forward_list' = forward_list \cup {g}
    <3> SUFFICES ASSUME NEW x, x # <<b, at>> PROVE Forwarded(forward_list', x) = Forwarded(forward_list, x)
      OBVIOUS
    <3>1. CASE \E f \in forward_list : f[1] = x
      <4>1. PICK f \in forward_list : f[1] = x
        BY <3>1
      <4>2. Forwarded(forward_list, x) = f[2]
        BY <1>3, <4>1, ForwardedTo DEF ScanMeans, Functional
      <4>3. f \in forward_list' /\ \A h, k \in forward_list' : h[1] = k[1] => h = k
        BY <1>9, <2>2, <4>1 DEF Functional
      <4>4. Forwarded(forward_list', x) = f[2]
        BY <4>1, <4>3, ForwardedTo
      <4> QED
        BY <4>2, <4>4
    <3>2. CASE ~\E f \in forward_list : f[1] = x
      <4>1. ~\E f \in forward_list' : f[1] = x
        BY <1>5, <2>2, <3>2
      <4> QED
        BY <3>2, <4>1 DEF Forwarded
    <3> QED
      BY <3>1, <3>2
  <2> QED
    BY <1>6, <2>1, <2>2
<1>11. ASSUME NEW m, NEW v, StoreAt(source, b, m, v), m <= at
       PROVE  Forwarded(forward_list', source.code[b][m].val) = Forwarded(forward_list, source.code[b][m].val)
  <2>1. PICK l \in Nat : l < m /\ source.code[b][m].val = <<b, l>>
    BY <1>1, <1>11, StoreUses, ValueBefore
  <2>2. l # at
    BY <1>1, <1>11, <2>1, StoreUses
  <2> QED
    BY <1>10, <2>1, <2>2
<1>12. NewValueMeans(c)'
  <2>1. ASSUME NEW v \in Var, NEW m \in Nat, LastStoreAt(source, c, at + 1, v, m)
        PROVE  new_value[v] = Forwarded(forward_list', source.code[c][m].val)
    <3>1. LastStoreAt(source, c, at, v, m)
      BY <1>1, <1>2, <1>8, <2>1, LastStoreStep
    <3>2. new_value[v] = Forwarded(forward_list, source.code[c][m].val)
      BY <1>3, <1>8, <3>1 DEF ScanMeans, NewValueMeans
    <3>3. StoreAt(source, c, m, v) /\ m <= at
      BY <1>1, <3>1 DEF LastStoreAt
    <3> QED
      BY <1>8, <1>11, <3>2, <3>3
  <2> QED
    BY <1>0, <2>1 DEF NewValueMeans
<1>13. ForwardedMeans(c)'
  <2>1. ASSUME NEW j \in Nat, NEW m \in Nat, NEW v \in Var, NEW f \in forward_list',
               f[1] = <<c, j>>, LoadAt(source, c, j, v), LastStoreAt(source, c, j, v, m)
        PROVE  f[2] = Forwarded(forward_list', source.code[c][m].val)
    <3>1. StoreAt(source, c, m, v) /\ m < j
      BY <2>1 DEF LastStoreAt
    <3>2. CASE f \in forward_list
      <4>1. f[2] = Forwarded(forward_list, source.code[c][m].val)
        BY <1>3, <1>8, <2>1, <3>2 DEF ScanMeans, ForwardedMeans
      <4>2. \E l \in Nat : f[1] = <<b, l>> /\ l < at
        BY <1>1, <3>2 DEF ScanState
      <4>3. m <= at
        BY <1>1, <1>8, <2>1, <3>1, <4>2
      <4> QED
        BY <1>8, <1>11, <3>1, <4>1, <4>3
    <3>3. CASE f = g
      <4>1. j = at /\ v = i.var
        BY <1>2, <1>5, <1>8, <2>1, <3>3
      <4>2. new_value[v] = Forwarded(forward_list, source.code[c][m].val)
        BY <1>3, <1>8, <2>1, <4>1 DEF ScanMeans, NewValueMeans
      <4>3. m <= at
        BY <1>1, <3>1, <4>1
      <4> QED
        BY <1>5, <1>8, <1>11, <3>1, <3>3, <4>1, <4>2, <4>3
    <3> QED
      BY <1>6, <3>2, <3>3
  <2> QED
    BY <1>0, <2>1 DEF ForwardedMeans
<1>14. ScanMeans(c)'
  BY <1>9, <1>12, <1>13 DEF ScanMeans
<1>15. c = Scanned
  BY <1>8 DEF b
<1> QED
  BY <1>0, <1>14, <1>15, ScanMeaning

LEMMA MeaningOther == ASSUME Inv, Meaning, ScanOther PROVE Meaning'
<1> DEFINE b == Scanned
<1>0. /\ Scanning /\ ScanNext /\ source.code[b][at].op \notin {"load", "store"} /\ source' = source /\ at' = at + 1
      /\ new_value' = new_value /\ forward_list' = forward_list
  BY DEF ScanOther, ScanNext, code, isLocalVarOp
<1>1. pc = "forward" /\ source \in Programs /\ b \in Block /\ at \in DOMAIN source.code[b]
  BY <1>0, ScanPlace
<1>2. \A v : ~StoreAt(source, b, at, v)
  BY <1>0 DEF StoreAt
<1>3. ScanMeans(b)
  BY <1>0, <1>1 DEF Meaning, Scanning
<1> HIDE DEF b
<1>4. PICK c : c = b
  OBVIOUS
<1>5. \A v : \A m \in Nat : LastStoreAt(source, c, at + 1, v, m) => LastStoreAt(source, c, at, v, m)
  BY <1>1, <1>2, <1>4, LastStoreStep
<1>6. ScanMeans(c)'
  BY <1>0, <1>3, <1>4, <1>5 DEF ScanMeans, Functional, ForwardedMeans, NewValueMeans
<1>7. c = Scanned
  BY <1>4 DEF b
<1> QED
  BY <1>0, <1>6, <1>7, ScanMeaning

\* The operands of a block once it has been forwarded.
LEMMA MeaningForwarded ==
  ASSUME Inv, Meaning, ForwardBlock, NEW b, b = Scanned, NEW k \in Nat, NEW j \in Nat, UseOf(b, k, j)
  PROVE  /\ CallAt(source, b, j) => operand'[b][k] = <<b, j>>
         /\ \A v \in Var : LoadAt(source, b, j, v) /\ ~StoreBefore(source, b, j, v) => operand'[b][k] = <<b, j>>
         /\ \A v \in Var : \A m \in Nat : LoadAt(source, b, j, v) /\ LastStoreAt(source, b, j, v, m) =>
              operand'[b][k] = operand'[b][m]
<1>1. /\ pc = "forward" /\ source \in Programs /\ ScanState(b) /\ b \in Block /\ at = End(source, b)
      /\ Untouched(b) /\ next <= Len(source.blocks)
  BY ForwardPlace
<1>2. \A l \in DOMAIN source.code[b] : operand'[b][l] = Forwarded(forward_list, source.code[b][l].val)
  <2>1. \A c \in Block : \A l \in DOMAIN source.code[c] : operand'[c][l] = Forwarded(forward_list, operand[c][l])
    BY ForwardOperands
  <2>2. \A l \in DOMAIN source.code[b] : operand[b][l] = source.code[b][l].val
    BY <1>1 DEF Untouched, code
  <2> QED
    BY <1>1, <2>1, <2>2
<1>3. k \in DOMAIN source.code[b] /\ source.code[b][k].val = <<b, j>>
  BY DEF UseOf, Uses
<1>4. ScanMeans(b)
  BY <1>1 DEF Meaning
<1>5. ~LocalLoad(source, b, j) => operand'[b][k] = <<b, j>>
  <2> SUFFICES ASSUME ~LocalLoad(source, b, j) PROVE operand'[b][k] = <<b, j>>
    OBVIOUS
  <2>1. ~\E m \in Nat : <<b, j>> = <<b, m>> /\ LocalLoad(source, b, m)
    OBVIOUS
  <2>2. Forwarded(forward_list, <<b, j>>) = <<b, j>>
    BY <1>1, <2>1, ForwardedOther
  <2> QED
    BY <1>2, <1>3, <2>2
<1>6. CallAt(source, b, j) => ~LocalLoad(source, b, j)
  BY DEF CallAt, LoadAt, LocalLoad
<1>7. ASSUME NEW v, LoadAt(source, b, j, v), ~StoreBefore(source, b, j, v) PROVE ~LocalLoad(source, b, j)
  BY <1>7 DEF LoadAt, LocalLoad
<1>8. ASSUME NEW v \in Var, NEW m \in Nat, LoadAt(source, b, j, v), LastStoreAt(source, b, j, v, m)
      PROVE  operand'[b][k] = operand'[b][m]
  <2>1. StoreAt(source, b, m, v) /\ m < j
    BY <1>8 DEF LastStoreAt
  <2>2. LocalLoad(source, b, j)
    BY <1>1, <1>8, <2>1, StorePlaces DEF LocalLoad
  <2>3. j < at
    BY <1>1, <1>8, Instruction DEF LoadAt
  <2>4. PICK f \in forward_list : f[1] = <<b, j>>
    BY <1>1, <2>2, <2>3 DEF ScanState
  <2>5. f[2] = Forwarded(forward_list, source.code[b][m].val)
    BY <1>4, <1>8, <2>4 DEF ScanMeans, ForwardedMeans
  <2>6. Forwarded(forward_list, f[1]) = f[2]
    BY <1>4, ForwardedTo DEF ScanMeans, Functional
  <2>7. m \in DOMAIN source.code[b]
    BY <2>1 DEF StoreAt
  <2> QED
    BY <1>2, <1>3, <2>4, <2>5, <2>6, <2>7
<1> QED
  BY <1>5, <1>6, <1>7, <1>8

LEMMA MeaningForward == ASSUME Inv, Meaning, ForwardBlock PROVE Meaning'
<1>0. PICK b : b = Scanned
  OBVIOUS
<1>1. /\ pc = "forward" /\ source \in Programs /\ TypeOK /\ Fresh /\ b \in Block /\ next \in Nat
      /\ b \notin ForwardedBlocks /\ ForwardedBlocks' = ForwardedBlocks \cup {b} /\ ForwardedBlocks \subseteq Block
  BY <1>0, ForwardPlace
<1>2. /\ source' = source /\ pc' = pc /\ next' = next + 1 /\ at' = 1 /\ forward_list' = {} /\ visited' = visited
      /\ phis' = phis /\ calls' = calls
  BY DEF ForwardBlock, renaming
<1>3. \A c \in Block : \A k \in DOMAIN source.code[c] : c # b => operand'[c][k] = operand[c][k]
  BY <1>0, ForwardOperands
<1>4. visited = {} /\ \A c, j : ~Renamed(c, j)' /\ ~Renamed(c, j)
  BY <1>1, <1>2 DEF Fresh, Renamed
<1>5. \A c, k, j : UseOf(c, k, j)' <=> UseOf(c, k, j)
  BY <1>2 DEF UseOf
<1>6. CallsMean'
  <2>1. ASSUME NEW c \in ForwardedBlocks', NEW k \in Nat, NEW j \in Nat, UseOf(c, k, j), CallAt(source, c, j)
        PROVE  operand'[c][k] = <<c, j>>
    <3>1. CASE c = b
      BY <1>0, <2>1, <3>1, MeaningForwarded
    <3>2. CASE c # b
      <4>1. c \in ForwardedBlocks /\ c \in Block /\ k \in DOMAIN source.code[c]
        BY <1>1, <2>1, <3>2 DEF UseOf, Uses
      <4>2. operand[c][k] = <<c, j>>
        BY <2>1, <4>1 DEF Meaning, OperandsMean, CallsMean
      <4> QED
        BY <1>3, <3>2, <4>1, <4>2
    <3> QED
      BY <3>1, <3>2
  <2> QED
    BY <1>2, <1>5, <2>1 DEF CallsMean
<1>7. LocalsMean'
  <2>1. ASSUME NEW c \in ForwardedBlocks', NEW k \in Nat, NEW j \in Nat, NEW m \in Nat, NEW v \in Var,
               UseOf(c, k, j), LoadAt(source, c, j, v), LastStoreAt(source, c, j, v, m)
        PROVE  operand'[c][k] = operand'[c][m]
    <3>1. CASE c = b
      BY <1>0, <2>1, <3>1, MeaningForwarded
    <3>2. CASE c # b
      <4>1. c \in ForwardedBlocks /\ c \in Block /\ k \in DOMAIN source.code[c] /\ m \in DOMAIN source.code[c]
        BY <1>1, <2>1, <3>2 DEF UseOf, Uses, LastStoreAt, StoreAt
      <4>2. operand[c][k] = operand[c][m]
        BY <2>1, <4>1 DEF Meaning, OperandsMean, LocalsMean
      <4> QED
        BY <1>3, <3>2, <4>1, <4>2
    <3> QED
      BY <3>1, <3>2
  <2> QED
    BY <1>2, <1>5, <2>1 DEF LocalsMean
<1>8. WaitingMean'
  <2>1. ASSUME NEW c \in ForwardedBlocks', NEW k \in Nat, NEW j \in Nat, NEW v \in Var, GlobalUse(c, k, j, v)
        PROVE  operand'[c][k] = <<c, j>>
    <3>1. CASE c = b
      BY <1>0, <2>1, <3>1, MeaningForwarded DEF GlobalUse
    <3>2. CASE c # b
      <4>1. c \in ForwardedBlocks /\ c \in Block /\ k \in DOMAIN source.code[c]
        BY <1>1, <2>1, <3>2 DEF GlobalUse, UseOf, Uses
      <4>2. operand[c][k] = <<c, j>>
        BY <1>4, <2>1, <4>1 DEF Meaning, OperandsMean, WaitingMean
      <4> QED
        BY <1>3, <3>2, <4>1, <4>2
    <3> QED
      BY <3>1, <3>2
  <2> QED
    BY <1>2, <1>5, <2>1 DEF WaitingMean, GlobalUse
<1>9. RenamedMean'
  BY <1>4 DEF RenamedMean
<1>10. (next <= Len(source.blocks) => ScanMeans(Scanned))'
  <2> SUFFICES ASSUME next + 1 <= Len(source.blocks) PROVE (ScanMeans(Scanned))'
    BY <1>2
  <2>1. PICK c : c = source.blocks[next + 1]
    OBVIOUS
  <2>2. c \in Block /\ c = Scanned'
    <3>1. source.blocks \in Seq(Block) /\ next + 1 \in 1..Len(source.blocks)
      BY <1>1, Blocks, LenProperties
    <3> QED
      BY <1>2, <2>1, <3>1 DEF Scanned
  <2>3. \A v : \A m \in Nat : ~LastStoreAt(source, c, 1, v, m)
    <3>1. \A v : \A m \in Nat : StoreAt(source, c, m, v) => m >= 1
      BY <1>1, <2>2, Instruction DEF StoreAt
    <3> QED
      BY <3>1 DEF LastStoreAt
  <2>4. ScanMeans(c)'
    BY <1>2, <2>3 DEF ScanMeans, Functional, ForwardedMeans, NewValueMeans
  <2> QED
    BY <2>2, <2>4
<1> QED
  BY <1>1, <1>2, <1>6, <1>7, <1>8, <1>9, <1>10 DEF Meaning, OperandsMean

-----------------------------------------------------------------------------
(* genPhi: nothing has been renamed yet.                                   *)

LEMMA MeaningUnvisited ==
  ASSUME Inv, OperandsMean, ForwardedBlocks \subseteq Block, visited = {}, source' = source, operand' = operand, next' = next,
         \A b \in Block : \A j \in Nat : ~Renamed(b, j)'
  PROVE  OperandsMean'
<1>1. ForwardedBlocks' = ForwardedBlocks
  BY DEF ForwardedBlocks
<1>2. /\ \A b, k, j : UseOf(b, k, j)' <=> UseOf(b, k, j)
      /\ \A b, k, j, v : GlobalUse(b, k, j, v)' <=> GlobalUse(b, k, j, v)
  BY DEF UseOf, GlobalUse
<1>3. \A b, j : ~Renamed(b, j)
  BY DEF Renamed
<1>4. CallsMean' /\ LocalsMean'
  BY <1>1, <1>2 DEF OperandsMean, CallsMean, LocalsMean
<1>5. WaitingMean'
  BY <1>1, <1>2, <1>3 DEF OperandsMean, WaitingMean
<1>6. RenamedMean'
  BY <1>1 DEF RenamedMean
<1> QED
  BY <1>4, <1>5, <1>6 DEF OperandsMean

LEMMA MeaningCollect == ASSUME Inv, Meaning, CollectGlobals PROVE Meaning'
<1>1. /\ pc = "forward" /\ pc' = "phis" /\ source' = source /\ operand' = operand /\ next' = next
      /\ next > Len(source.blocks) /\ visited' = visited
  BY DEF CollectGlobals, forwarding, renaming
<1>2. visited = {} /\ Lists' /\ ForwardedBlocks' = ForwardedBlocks
  BY <1>1, StepCollect DEF Inv, Fresh, ForwardedBlocks
<1>3. ForwardedBlocks = Block
  BY <1>1, <1>2 DEF Lists
<1>4. OperandsMean'
  BY <1>1, <1>2, <1>3, MeaningUnvisited DEF Meaning, Renamed
<1> QED
  BY <1>1, <1>4 DEF Meaning

LEMMA MeaningVar == ASSUME Inv, Meaning, StartVar \/ PlacePhis PROVE Meaning'
<1>1. /\ pc = "phis" /\ pc' = "phis" /\ source' = source /\ operand' = operand /\ next' = next /\ visited' = visited
  BY DEF StartVar, PlacePhis, forwarding, renaming
<1>2. visited = {} /\ ForwardedBlocks = Block
  BY <1>1 DEF Inv, Fresh, Lists
<1>3. OperandsMean'
  BY <1>1, <1>2, MeaningUnvisited DEF Meaning, Renamed
<1> QED
  BY <1>1, <1>3 DEF Meaning

-----------------------------------------------------------------------------
(* valueForwarding: entering a block.                                      *)

\* What LastPushed says at one level stays when the level does.
LEMMA PushedSame ==
  ASSUME LastPushed, NEW v \in Var, NEW m \in 1..Len(calls), calls'[m] = calls[m],
         Tokens(calls[m], v)' = Tokens(calls[m], v), Height(m, v)' = Height(m, v),
         value_status'[v][Height(m, v)] = value_status[v][Height(m, v)],
         \A t \in Tokens(calls[m], v) : t = 0 \/ operand'[calls[m]][t] = operand[calls[m]][t],
         NEW t \in Nat, LastToken(calls[m], v, t)'
  PROVE  Pushed(calls[m], t, v, value_status[v][Height(m, v)])'
<1>1. LastToken(calls[m], v, t)
  BY DEF LastToken
<1>2. Pushed(calls[m], t, v, value_status[v][Height(m, v)])
  BY <1>1 DEF LastPushed
<1>3. t = 0 \/ operand'[calls[m]][t] = operand[calls[m]][t]
  BY <1>1 DEF LastToken
<1> QED
  BY <1>2, <1>3 DEF Pushed

-----------------------------------------------------------------------------
(* What the value on top of a stack means.                                 *)

\* What dominates the end of a path and lies before m on it dominates block m.
LEMMA PathTail ==
  ASSUME NEW p \in Programs, NEW s, IsPath(p, s), NEW m \in 1..Len(s), NEW n \in m..Len(s), NEW i \in 1..m,
         Dom(p, s[i], s[n])
  PROVE  Dom(p, s[i], s[m])
<1> DEFINE K == {j \in m..n : ~Dom(p, s[i], s[j])}
<1> SUFFICES ASSUME ~Dom(p, s[i], s[m]) PROVE FALSE
  OBVIOUS
<1>1. Len(s) \in Nat /\ n \in Nat /\ m \in Nat /\ i \in Nat /\ \A j \in 1..Len(s) : s[j] \in Block
  BY PathFacts
<1>2. m \in K
  BY <1>1
<1>3. ASSUME NEW j \in m..(n - 1), j \in K PROVE j + 1 \in K
  <2>1. Edge(p, s[j], s[j + 1]) /\ j + 1 \in m..n /\ j \in 1..Len(s) /\ j + 1 \in 1..Len(s) /\ i \in 1..Len(s)
    BY <1>1 DEF IsPath
  <2>2. s[j + 1] # s[i]
    <3>1. j + 1 # i
      BY <1>1
    <3> QED
      BY <2>1, <3>1 DEF IsPath
  <2>3. s[j + 1] \in Edges(p)[s[j]]
    BY <1>1, <2>1, Graph DEF Edge
  <2>4. IsFiniteSet(Block) /\ s[j + 1] \in Block
    BY <1>1, <2>1, SetsFinite
  <2>5. ~Dom(p, s[i], s[j + 1])
    <3> SUFFICES ASSUME Dom(p, s[i], s[j + 1]) PROVE FALSE
      OBVIOUS
    <3>1. Dominates(Block, Edges(p), Root, s[i], s[j + 1])
      BY DEF Dom
    <3>2. Dominates(Block, Edges(p), Root, s[i], s[j])
      BY <2>2, <2>3, <2>4, <3>1, DomPred
    <3> QED
      BY <1>3, <3>2 DEF Dom
  <2> QED
    BY <2>1, <2>5
<1>4. n \in K
  <2>1. \A j \in m..(n - 1) : j \in K => j + 1 \in K
    BY <1>3
  <2> HIDE DEF K
  <2>2. \A j \in m..n : j \in K
    BY <1>1, <1>2, <2>1, Along
  <2> QED
    BY <1>1, <2>2
<1> QED
  BY <1>4

\* Behind all its instructions, the last definition of a block gives the value
\* that the variable has at the end.
LEMMA TokenValue ==
  ASSUME source \in Programs, Lists, NEW b \in Block, b \notin Left, NEW v \in Var, NEW x,
         pc = "rename" /\ b = Current => at = End(source, b),
         Tokens(b, v) # {}, \A t \in Nat : LastToken(b, v, t) => Pushed(b, t, v, x)
  PROVE  ValueOf(b, v, x)
<1>1. \A k \in Stores(b, v) : StoreAt(source, b, k, v) /\ k \in Nat /\ k # 0 /\ k < End(source, b)
  BY Instruction DEF Stores, Listed, StoreAt, code
<1>2. Tokens(b, v) = (IF v \in phis[b] THEN {0} ELSE {}) \cup Stores(b, v)
  BY <1>1 DEF Tokens
<1>3. ASSUME NEW m \in Nat, LastStoreAt(source, b, End(source, b), v, m) PROVE x = operand[b][m]
  <2>1. StoreAt(source, b, m, v) /\ \A k \in Nat : m < k /\ k < End(source, b) => ~StoreAt(source, b, k, v)
    BY <1>3 DEF LastStoreAt
  <2>2. m \in DOMAIN source.code[b] /\ m >= 1 /\ source.code[b][m].op = "store"
    BY <2>1, Instruction DEF StoreAt
  <2>3. ~Overwritten(source, b, m) /\ ~LocalLoad(source, b, m)
    <3>1. ASSUME NEW k \in Nat, m < k PROVE ~StoreAt(source, b, k, v)
      BY <2>1, <3>1, Instruction DEF StoreAt
    <3>2. \A w : StoreAt(source, b, m, w) => w = v
      BY <2>1 DEF StoreAt
    <3> QED
      BY <2>2, <3>1, <3>2 DEF Overwritten, LocalLoad, LoadAt
  <2>4. <<b, m>> \notin deleted
    BY <2>3 DEF Lists
  <2>5. m \in Stores(b, v)
    BY <2>1, <2>4 DEF Stores, Listed, StoreAt, code
  <2>6. \A u \in Tokens(b, v) : u <= m
    <3>1. \A u \in Stores(b, v) : u <= m
      BY <1>1, <2>1
    <3> QED
      BY <1>2, <3>1
  <2>7. LastToken(b, v, m)
    BY <1>2, <2>5, <2>6 DEF LastToken
  <2> QED
    BY <2>2, <2>7 DEF Pushed
<1>4. ASSUME ~StoreIn(source, b, v) PROVE x = <<b, v>>
  <2>1. Stores(b, v) = {}
    BY <1>1, <1>4, StorePlaces
  <2>2. Tokens(b, v) = {0}
    BY <1>2, <2>1
  <2>3. LastToken(b, v, 0)
    BY <2>2 DEF LastToken
  <2> QED
    BY <2>3 DEF Pushed
<1> QED
  BY <1>3, <1>4 DEF ValueOf

\* The innermost call that defines a variable is the nearest definition.
LEMMA TopDefines ==
  ASSUME source \in Programs, TypeOK, PathInv, Lists, StackInv, Walking, LastPushed,
         NEW v \in Var, ClosedPhis(v), value_status[v] # <<>>
  PROVE  \E m \in 1..Len(calls) :
           /\ DefBlock(calls[m], v) /\ Dom(source, calls[m], Current) /\ Tokens(calls[m], v) # {}
           /\ \A i \in (m + 1)..Len(calls) : Tokens(calls[i], v) = {}
           /\ \A e \in Block : /\ DefBlock(e, v) /\ Dom(source, e, Current)
                               /\ e = Current => pc # "rename" \/ at = End(source, Current)
                               => Dom(source, e, calls[m])
           /\ \A t \in Nat : LastToken(calls[m], v, t) => Pushed(calls[m], t, v, Top(value_status[v]))
           /\ (calls[m] = Current => pc # "rename" \/ at = End(source, Current)) =>
                ValueOf(calls[m], v, Top(value_status[v]))
<1>1. PICK m \in 1..Len(calls) :
        /\ Height(m, v) = Len(value_status[v])
        /\ Tokens(calls[m], v) # {} /\ DefBlock(calls[m], v)
        /\ \A i \in (m + 1)..Len(calls) : Tokens(calls[i], v) = {}
        /\ Dom(source, calls[m], Current)
  BY TopLevel
<1>2. PICK n : n = Len(calls)
  OBVIOUS
<1>3. n \in Nat /\ n \in 1..n /\ IsPath(source, calls) /\ Current = calls[n] /\ \A i \in 1..n : calls[i] \in Block /\ calls[i] \notin Left
  BY <1>2, OpenPath
<1>4. PICK x : x = Top(value_status[v])
  OBVIOUS
<1>5. x = value_status[v][Height(m, v)]
  BY <1>1, <1>4 DEF Top
<1>6. \A t \in Nat : LastToken(calls[m], v, t) => Pushed(calls[m], t, v, x)
  BY <1>1, <1>5 DEF LastPushed
<1>7. (calls[m] = Current => pc # "rename" \/ at = End(source, Current)) => ValueOf(calls[m], v, x)
  BY <1>1, <1>2, <1>3, <1>6, TokenValue
<1>8. ASSUME NEW e \in Block, DefBlock(e, v), Dom(source, e, Current),
             e = Current => pc # "rename" \/ at = End(source, Current)
      PROVE  Dom(source, e, calls[m])
  <2>1. PICK i \in 1..n : calls[i] = e
    BY <1>2, <1>3, <1>8, PathDominators
  <2>2. Tokens(e, v) # {}
    <3>1. CASE v \in phis[e]
      BY <3>1 DEF Tokens
    <3>2. CASE StoreIn(source, e, v)
      <4>1. PICK k \in Stores(e, v) : k \in Nat /\ k < End(source, e)
        BY <1>3, <2>1, <3>2, ListedStore
      <4>2. k \in Tokens(e, v)
        BY <1>8, <4>1 DEF Tokens
      <4> QED
        BY <4>2
    <3> QED
      BY <1>8, <3>1, <3>2 DEF DefBlock
  <2>3. i \in 1..m
    BY <1>1, <1>2, <1>3, <2>1, <2>2
  <2>4. n \in m..n
    BY <1>1, <1>2, <1>3
  <2> QED
    BY <1>1, <1>2, <1>3, <1>8, <2>1, <2>3, <2>4, PathTail
<1> QED
  BY <1>1, <1>4, <1>6, <1>7, <1>8

LEMMA PushedHeight ==
  ASSUME source \in Programs, TypeOK, PathInv, StackInv, Walking, NEW v \in Var,
         NEW m \in 1..Len(calls), Tokens(calls[m], v) # {}
  PROVE  Height(m, v) \in 1..Len(value_status[v])
<1> DEFINE n == Len(calls)
<1>1. calls[m] \in Block /\ n \in Nat /\ m \in Nat
  BY OpenPath
<1>2. Cardinality(Tokens(calls[m], v)) \in Nat /\ Cardinality(Tokens(calls[m], v)) # 0
  BY <1>1, StoresFinite, FS_CardinalityType, FS_EmptySet
<1>3. Counts(calls, TokenSets(v)) /\ TokenSets(v)[calls[m]] = Tokens(calls[m], v)
  BY <1>1, Counted DEF TokenSets
<1>4. /\ Height(m, v) = Height(m - 1, v) + Cardinality(Tokens(calls[m], v))
      /\ Height(m - 1, v) \in Nat /\ Height(m, v) <= Height(n, v) /\ Height(n, v) \in Nat
  BY <1>1, <1>3 DEF Counts, Height
<1>5. Len(value_status[v]) = Height(n, v)
  BY DEF StackInv, StackHeights
<1> QED
  BY <1>2, <1>4, <1>5

LEMMA PairsMeanFrame ==
  ASSUME TypeOK, PairsMean, source' = source, phis' = phis, Filled \subseteq Filled', Filled \subseteq Block,
         operand' = operand, pairs' = pairs
  PROVE  PairsMean'
<1> SUFFICES ASSUME NEW p \in Phis', NEW q \in pairs[p]
             PROVE  AtEnd(q[2], p[2], q[1])'
  BY DEF PairsMean
<1>1. p \in Phis /\ p \in Phi /\ p[2] \in Var
  BY DEF Phis, Phi
<1>2. q[2] \in Block
  BY <1>1 DEF TypeOK
<1>3. PICK b, v, z : b = q[2] /\ v = p[2] /\ z = q[1]
  OBVIOUS
<1>4. AtEnd(b, v, z)
  BY <1>1, <1>3 DEF PairsMean
<1>5. AtEnd(b, v, z)'
  BY <1>1, <1>2, <1>3, <1>4, MeansSame
<1> QED
  BY <1>3, <1>5

LEMMA EnterMeaning ==
  ASSUME Inv, OperandsMean, LastPushed, PairsMean, StackHeights, pc \in {"phis", "walk"},
         NEW b \in Block, b \notin visited, Enter(b),
         UNCHANGED <<source, operand, deleted, next, phis, pairs>>
  PROVE  Meaning'
<1> DEFINE n == Len(calls)
<1>1. /\ source \in Programs /\ TypeOK /\ source' = source /\ operand' = operand /\ deleted' = deleted /\ next' = next
      /\ phis' = phis /\ pairs' = pairs /\ ForwardedBlocks = Block /\ visited \subseteq Block
      /\ \A i, j \in 1..n : calls[i] = calls[j] => i = j
  <2>1. \A i, j \in 1..n : calls[i] = calls[j] => i = j
    <3>1. calls \in Seq(Block)
      BY DEF Inv, TypeOK
    <3>2. pc = "phis" => n = 0
      BY DEF Inv, Fresh
    <3>3. pc = "walk" => \A i, j \in DOMAIN calls : calls[i] = calls[j] => i = j
      BY DEF Inv, PathInv
    <3> QED
      BY <3>1, <3>2, <3>3, LenProperties
  <2> QED
    BY <2>1 DEF Inv, Lists, TypeOK
<1>2. /\ calls' \in Seq(Block) /\ n \in Nat /\ Len(calls') = n + 1
      /\ \A i \in 1..n : calls'[i] = calls[i] /\ calls[i] \in Block /\ calls[i] \in ToSet(calls)
      /\ calls'[n + 1] = b /\ Current' = b /\ at' = 1 /\ pc' = "rename"
      /\ visited' = visited \cup {b}
  BY <1>1, EnterCalls
<1>3. \A v \in Var : /\ v \in phis[b] => value_status'[v] = Append(value_status[v], <<b, v>>)
                     /\ v \notin phis[b] => value_status'[v] = value_status[v]
  BY <1>1, EnterCalls
<1>4. b \notin ToSet(calls)
  <2>1. ToSet(calls) \subseteq visited
    <3>1. pc = "phis" => calls = <<>>
      BY DEF Inv, Fresh
    <3>2. pc = "walk" => ToSet(calls) \subseteq visited
      BY DEF Inv, PathInv
    <3>3. ToSet(<<>>) = {}
      BY DEF ToSet
    <3> QED
      BY <3>1, <3>2, <3>3
  <2> QED
    BY <2>1
<1>5. Filled = visited /\ Filled' = visited
  BY <1>2 DEF Filled
<1>6. OperandsMean'
  <2>1. \A c \in Block : \A j \in Nat : j >= 1 => (Renamed(c, j)' <=> Renamed(c, j))
    BY <1>2 DEF Renamed
  <2>2. \A c \in Block : \A k, j \in Nat : \A v \in Var : GlobalUse(c, k, j, v) => j >= 1
    BY <1>1, Instruction DEF GlobalUse, LoadAt
  <2> QED
    BY <1>1, <1>5, <2>1, <2>2, OperandsMeanFrame
<1>7. PairsMean'
  BY <1>1, <1>5, PairsMeanFrame
<1>8. \A c \in Block : \A v \in Var : c # b => Tokens(c, v)' = Tokens(c, v)
  <2>1. \A c \in Block : \A v \in Var : Stores(c, v)' = Stores(c, v)
    BY <1>1 DEF Stores, Listed, code
  <2> QED
    BY <1>1, <1>2, <2>1 DEF Tokens
<1>9. \A v \in Var : Tokens(b, v)' = IF v \in phis[b] THEN {0} ELSE {}
  <2>1. \A v \in Var : \A k \in Stores(b, v)' : k >= 1
    BY <1>1, Instruction DEF Stores, Listed, code
  <2>2. \A v \in Var : \A k \in Stores(b, v)' : ~(k < 1)
    <3>1. \A v \in Var : \A k \in Stores(b, v)' : k \in Nat
      BY <1>1, Instruction DEF Stores, Listed, code
    <3> QED
      BY <2>1, <3>1
  <2> QED
    BY <1>1, <1>2, <2>2 DEF Tokens
<1>10. ASSUME NEW v \in Var, NEW m \in 1..(n + 1), NEW t \in Nat, LastToken(calls[m], v, t)'
       PROVE  Pushed(calls[m], t, v, value_status[v][Height(m, v)])'
  <2>1. PICK c : c = calls'[m]
    OBVIOUS
  <2>2. LastToken(c, v, t)'
    BY <1>10, <2>1
  <2>3. PICK h : h = Height(m, v)'
    OBVIOUS
  <2>4. CASE m = n + 1
    <3>1. c = b /\ v \in phis[b] /\ t = 0
      BY <1>2, <1>9, <2>1, <2>2, <2>4 DEF LastToken
    <3>2. Height(n, v) = Len(value_status[v]) /\ value_status[v] \in Seq(Value)
      BY <1>1 DEF StackHeights, TypeOK
    <3>3. h = Len(value_status[v]) + 1
      <4>1. pc # "rename" /\ n \in 0..n
        BY <1>2
      <4>2. \A r, l : r = n /\ l = r + 1 => Height(l, v)' = Height(r, v) + IF v \in phis[b] THEN 1 ELSE 0
        BY <1>1, <1>4, <4>1, EnterHeights
      <4>3. Height(m, v)' = Height(n, v) + 1
        BY <2>4, <3>1, <4>2
      <4> QED
        BY <2>3, <3>2, <4>3
    <3>4. value_status'[v][h] = <<b, v>>
      BY <1>3, <3>1, <3>2, <3>3, AppendProperties
    <3> QED
      BY <2>1, <2>3, <3>1, <3>4 DEF Pushed
  <2>5. CASE m # n + 1
    <3>1. m \in 1..n /\ n # 0 /\ m \in 0..n /\ calls'[m] = calls[m] /\ c = calls[m] /\ c \in Block /\ c # b
      BY <1>2, <1>4, <2>1, <2>5
    <3>2. Tokens(c, v)' = Tokens(c, v)
      BY <1>8, <3>1
    <3>3. Tokens(calls[m], v)' = Tokens(calls[m], v)
      BY <2>1, <3>1, <3>2
    <3>4. Height(m, v)' = Height(m, v)
      BY <1>1, <1>4, <3>1, EnterHeights
    <3>5. Height(m, v) \in 1..Len(value_status[v])
      <4>1. pc = "walk"
        <5>1. pc = "phis" => n = 0
          BY DEF Inv, Fresh
        <5> QED
          BY <3>1, <5>1
      <4>2. PathInv /\ StackInv /\ Walking
        BY <4>1 DEF Inv, Walking
      <4>3. Tokens(calls[m], v) # {}
        BY <2>2, <3>1, <3>2 DEF LastToken
      <4> QED
        BY <1>1, <3>1, <4>2, <4>3, PushedHeight
    <3>6. value_status'[v][Height(m, v)] = value_status[v][Height(m, v)]
      <4>1. value_status[v] \in Seq(Value) /\ <<b, v>> \in Value
        BY <1>1 DEF TypeOK, Value, Phi
      <4> QED
        BY <1>3, <3>5, <4>1, AppendProperties
    <3>7. \A u \in Tokens(calls[m], v) : u = 0 \/ operand'[calls[m]][u] = operand[calls[m]][u]
      BY <1>1
    <3> QED
      BY <1>10, <3>1, <3>3, <3>4, <3>6, <3>7, PushedSame
  <2> QED
    BY <2>4, <2>5
<1>11. LastPushed'
  BY <1>2, <1>10 DEF LastPushed
<1> QED
  BY <1>2, <1>6, <1>7, <1>11 DEF Meaning

LEMMA MeaningStart == ASSUME Inv, Meaning, StartRenaming PROVE Meaning'
<1>1. /\ pc = "phis" /\ Enter(Root) /\ UNCHANGED <<source, operand, deleted, next, phis, pairs>>
      /\ source \in Programs /\ TypeOK /\ Fresh
  BY DEF StartRenaming, forwarding, Inv
<1>2. visited = {} /\ calls = <<>> /\ Len(calls) = 0
  BY <1>1 DEF Fresh
<1>3. StackHeights
  <2>1. \A v : Counts(calls, TokenSets(v))
    <3>1. \A v : \A c \in Block : IsFiniteSet(TokenSets(v)[c])
      BY <1>1, StoresFinite DEF TokenSets
    <3>2. calls \in Seq(Block) /\ \A i, j \in 1..Len(calls) : calls[i] = calls[j] => i = j
      BY <1>1, <1>2 DEF TypeOK
    <3> QED
      BY <3>1, <3>2, OpenCounts
  <2>2. \A v : Height(0, v) = 0
    BY <2>1 DEF Counts, Height
  <2> QED
    BY <1>1, <1>2, <2>2 DEF StackHeights, Fresh
<1>4. LastPushed /\ PairsMean
  BY <1>1, <1>2 DEF LastPushed, PairsMean, Fresh, Phis
<1>5. Root \in Block /\ Root \notin visited
  BY <1>2, RootIsBlock
<1> QED
  BY <1>1, <1>3, <1>4, <1>5, EnterMeaning DEF Meaning

LEMMA MeaningDescend == ASSUME Inv, Meaning, Descend PROVE Meaning'
<1>1. PICK k \in DOMAIN source.succ[Current] : source.succ[Current][k] \notin visited /\ Enter(source.succ[Current][k])
  BY DEF Descend
<1>2. pc = "walk" /\ UNCHANGED <<source, operand, deleted, next, phis, pairs>>
  BY DEF Descend, forwarding
<1>3. PICK b : b = source.succ[Current][k]
  OBVIOUS
<1>4. b \in Block
  <2>1. source \in Programs /\ TypeOK /\ PathInv /\ Walking
    BY <1>2 DEF Inv, Walking
  <2>2. Current \in Block /\ b \in ToSet(source.succ[Current])
    BY <1>3, <2>1, OpenPath DEF ToSet
  <2> QED
    BY <2>1, <2>2, Graph DEF Edge
<1>5. Enter(b) /\ b \notin visited
  BY <1>1, <1>3
<1>6. LastPushed /\ PairsMean /\ OperandsMean /\ StackHeights
  BY <1>2 DEF Meaning, Inv, StackInv
<1> QED
  BY <1>2, <1>4, <1>5, <1>6, EnterMeaning

-----------------------------------------------------------------------------
(* valueForwarding: the instructions.                                      *)

LEMMA InstrPushed ==
  ASSUME Inv, LastPushed, InstrStep,
         \A v \in Var : \A m \in 1..Len(calls) : \A u \in Tokens(calls[m], v) :
           u = 0 \/ operand'[calls[m]][u] = operand[calls[m]][u],
         \A v \in Var : at \in Stores(Current, v) =>
           value_status'[v] = Append(value_status[v], operand'[Current][at]),
         \A v \in Var : at \notin Stores(Current, v) => value_status'[v] = value_status[v]
  PROVE  LastPushed'
<1> DEFINE n == Len(calls)
<1>1. /\ source \in Programs /\ TypeOK /\ PathInv /\ StackInv /\ Walking /\ Lists
      /\ source' = source /\ calls' = calls /\ deleted' = deleted /\ phis' = phis /\ Current' = Current /\ at' = at + 1
      /\ pc = "rename" /\ pc' = "rename" /\ at \in Nat
  BY InstrSame
<1>2. /\ n \in Nat /\ n \in 1..n /\ Current = calls[n] /\ \A i \in 1..n : calls[i] \in Block
      /\ \A i, j \in 1..n : calls[i] = calls[j] => i = j
  <2>1. IsPath(source, calls)
    BY <1>1, OpenPath
  <2> QED
    BY <1>1, <2>1, OpenPath DEF IsPath
<1>3. \A b \in Block : \A v \in Var : Stores(b, v)' = Stores(b, v) /\ Stores(b, v) \subseteq Nat /\ 0 \notin Stores(b, v)
  BY <1>1, StoresFinite, InstrFrame
<1> PICK e : e = Current
  OBVIOUS
<1>4. /\ \A b \in Block : \A v \in Var : b # e => Tokens(b, v)' = Tokens(b, v)
      /\ \A v \in Var : at \notin Stores(e, v) => Tokens(e, v)' = Tokens(e, v)
      /\ \A v \in Var : at \in Stores(e, v) => Tokens(e, v)' = Tokens(e, v) \cup {at}
  <2>1. \A b \in Block : \A v \in Var : b # e => Tokens(b, v)' = Tokens(b, v)
    BY <1>1, <1>3 DEF Tokens
  <2>2. e \in Block
    BY <1>2
  <2>3. ASSUME NEW v \in Var
        PROVE  /\ Tokens(e, v)' = (IF v \in phis[e] THEN {0} ELSE {}) \cup {k \in Stores(e, v) : k < at \/ k = at}
               /\ Tokens(e, v) = (IF v \in phis[e] THEN {0} ELSE {}) \cup {k \in Stores(e, v) : k < at}
    <3>1. Tokens(e, v)' = (IF v \in phis[e] THEN {0} ELSE {}) \cup {k \in Stores(e, v) : k < at + 1}
      BY <1>1, <1>3, <2>2 DEF Tokens
    <3>2. \A k \in Stores(e, v) : k < at + 1 <=> k < at \/ k = at
      BY <1>1, <1>3, <2>2
    <3>3. {k \in Stores(e, v) : k < at + 1} = {k \in Stores(e, v) : k < at \/ k = at}
      BY <3>2
    <3>4. Tokens(e, v) = (IF v \in phis[e] THEN {0} ELSE {}) \cup {k \in Stores(e, v) : k < at}
      BY <1>1 DEF Tokens
    <3> QED
      BY <3>1, <3>3, <3>4
  <2>4. ASSUME NEW v \in Var, at \notin Stores(e, v) PROVE Tokens(e, v)' = Tokens(e, v)
    <3>1. {k \in Stores(e, v) : k < at \/ k = at} = {k \in Stores(e, v) : k < at}
      BY <2>4
    <3> QED
      BY <2>3, <3>1
  <2>5. ASSUME NEW v \in Var, at \in Stores(e, v) PROVE Tokens(e, v)' = Tokens(e, v) \cup {at}
    <3>1. {k \in Stores(e, v) : k < at \/ k = at} = {k \in Stores(e, v) : k < at} \cup {at}
      BY <2>5
    <3> QED
      BY <2>3, <3>1
  <2> QED
    BY <2>1, <2>4, <2>5
<1>5. ASSUME NEW v \in Var, NEW m \in 1..n, NEW t \in Nat, LastToken(calls[m], v, t)'
      PROVE  Pushed(calls[m], t, v, value_status[v][Height(m, v)])'
  <2>1. PICK c : c = calls[m] /\ c \in Block
    BY <1>2
  <2>2. LastToken(c, v, t)'
    BY <1>1, <1>5, <2>1
  <2>3. PICK h : h = Height(m, v)'
    OBVIOUS
  <2>4. value_status[v] \in Seq(Value) /\ Len(value_status[v]) = Height(n, v)
    BY <1>1 DEF TypeOK, StackInv, StackHeights
  <2>5. CASE m = n /\ at \in Stores(Current, v)
    <3>1. c = Current /\ Tokens(c, v)' = Tokens(c, v) \cup {at}
      BY <1>2, <1>4, <2>1, <2>5
    <3>2. \A u \in Tokens(c, v) : u \in Nat /\ (u < at \/ u = 0)
      BY <1>1, <1>3, <2>1, <3>1 DEF Tokens
    <3>3. t = at
      <4>1. at <= t /\ t \in Tokens(c, v) \cup {at}
        BY <2>2, <3>1 DEF LastToken
      <4>2. at # 0
        BY <1>2, <1>3, <2>5
      <4> QED
        BY <1>1, <3>2, <4>1, <4>2
    <3>4. h = Len(value_status[v]) + 1
      <4>1. PICK r : r = n
        OBVIOUS
      <4>2. Height(r, v)' = Height(r, v) + 1
        BY <2>5, <4>1, InstrHeights
      <4> QED
        BY <2>3, <2>4, <2>5, <4>1, <4>2
    <3>5. value_status'[v][h] = operand'[c][t]
      <4>1. value_status'[v] = Append(value_status[v], operand'[Current][at])
        BY <2>5
      <4>2. \A s \in Seq(Value) : \A x : Append(s, x)[Len(s) + 1] = x
        BY SMT
      <4> QED
        BY <2>4, <3>1, <3>3, <3>4, <4>1, <4>2
    <3>6. t # 0
      BY <1>2, <1>3, <2>5, <3>3
    <3> QED
      BY <1>1, <2>1, <2>3, <3>5, <3>6 DEF Pushed
  <2>6. CASE ~(m = n /\ at \in Stores(Current, v))
    <3>1. Tokens(c, v)' = Tokens(c, v)
      <4>1. m = n => c = Current
        BY <1>2, <2>1
      <4>2. m # n => c # Current
        BY <1>2, <2>1
      <4> QED
        BY <1>4, <2>1, <2>6, <4>1, <4>2
    <3>2. Tokens(calls[m], v)' = Tokens(calls[m], v)
      BY <1>1, <2>1, <3>1
    <3>3. Height(m, v)' = Height(m, v)
      <4>1. PICK r : r = n
        OBVIOUS
      <4>2. m # r => m \in 0..(r - 1)
        BY <1>2, <4>1
      <4> QED
        BY <2>6, <4>1, <4>2, InstrHeights
    <3>4. Height(m, v) \in 1..Len(value_status[v])
      <4>1. Tokens(calls[m], v) # {}
        BY <2>1, <2>2, <3>1 DEF LastToken
      <4> QED
        BY <1>1, <4>1, PushedHeight
    <3>5. value_status'[v][Height(m, v)] = value_status[v][Height(m, v)]
      <4>1. \A s \in Seq(Value) : \A x : \A i \in 1..Len(s) : Append(s, x)[i] = s[i]
        BY SMT
      <4>2. at \in Stores(Current, v) => value_status'[v] = Append(value_status[v], operand'[Current][at])
        OBVIOUS
      <4>3. at \notin Stores(Current, v) => value_status'[v] = value_status[v]
        OBVIOUS
      <4> QED
        BY <2>4, <3>4, <4>1, <4>2, <4>3
    <3> QED
      BY <1>1, <1>5, <3>2, <3>3, <3>5, PushedSame
  <2> QED
    BY <2>5, <2>6
<1> QED
  BY <1>1, <1>5 DEF LastPushed

\* An instruction that is no load changes no operand.
LEMMA InstrMeaning ==
  ASSUME Inv, Meaning, InstrStep, operand' = operand, pairs' = pairs, LastPushed',
         \A v \in Var : LoadAt(source, Current, at, v) => LocalLoad(source, Current, at)
  PROVE  Meaning'
<1>1. /\ source \in Programs /\ TypeOK /\ Lists /\ source' = source /\ phis' = phis /\ next' = next
      /\ Filled' = Filled /\ visited' = visited /\ Current' = Current /\ at' = at + 1
      /\ pc = "rename" /\ pc' = "rename" /\ at \in Nat /\ Current \in Block
  BY InstrSame
<1>2. Filled \subseteq Block /\ ForwardedBlocks \subseteq Block
  BY <1>1 DEF Filled, TypeOK, Lists
<1>3. ASSUME NEW b \in Block, NEW k \in Nat, NEW j \in Nat, NEW v \in Var, GlobalUse(b, k, j, v)
      PROVE  Renamed(b, j)' <=> Renamed(b, j)
  <2>1. ~(b = Current /\ j = at)
    <3> SUFFICES ASSUME b = Current, j = at PROVE FALSE
      OBVIOUS
    <3>1. PICK w \in Var : LoadAt(source, b, j, w) /\ StoreBefore(source, b, j, w)
      BY <1>3 DEF GlobalUse, LocalLoad
    <3>2. w = v
      BY <1>3, <3>1 DEF GlobalUse, LoadAt
    <3> QED
      BY <1>3, <3>1, <3>2 DEF GlobalUse
  <2>2. b = Current => (j < at + 1 <=> j < at)
    BY <1>1, <2>1
  <2> QED
    BY <1>1, <2>2 DEF Renamed
<1>4. OperandsMean'
  BY <1>1, <1>2, <1>3, OperandsMeanFrame DEF Meaning
<1>5. PairsMean'
  BY <1>1, <1>2, PairsMeanFrame DEF Meaning
<1> QED
  BY <1>1, <1>4, <1>5 DEF Meaning

LEMMA MeaningRenameStore == ASSUME Inv, Meaning, RenameStore PROVE Meaning'
<1>1. /\ pc = "rename" /\ at \in Listed(Current) /\ source.code[Current][at].op = "store"
      /\ operand' = operand /\ pairs' = pairs
      /\ value_status' = [value_status EXCEPT ![source.code[Current][at].var] = Append(@, operand[Current][at])]
  BY DEF RenameStore, Renaming, code
<1>2. InstrStep
  BY <1>1 DEF InstrStep, RenameStore, Listed, code
<1>3. PICK v : v = source.code[Current][at].var
  OBVIOUS
<1>4. value_status \in [Var -> Seq(Value)]
  BY DEF Inv, TypeOK
<1>5. \A w \in Var : at \in Stores(Current, w) <=> w = v
  BY <1>1, <1>3 DEF Stores, code
<1>6. \A w \in Var : value_status'[w] = IF w = v THEN Append(value_status[w], operand[Current][at]) ELSE value_status[w]
  BY <1>1, <1>3, <1>4
<1>7. LastPushed'
  <2>1. \A w \in Var : at \in Stores(Current, w) => value_status'[w] = Append(value_status[w], operand'[Current][at])
    BY <1>1, <1>5, <1>6
  <2>2. \A w \in Var : at \notin Stores(Current, w) => value_status'[w] = value_status[w]
    BY <1>5, <1>6
  <2> QED
    BY <1>1, <1>2, <2>1, <2>2, InstrPushed DEF Meaning
<1>8. \A w : ~LoadAt(source, Current, at, w)
  BY <1>1 DEF LoadAt
<1> QED
  BY <1>1, <1>2, <1>7, <1>8, InstrMeaning

LEMMA MeaningRenameOther == ASSUME Inv, Meaning, RenameOther PROVE Meaning'
<1>1. /\ pc = "rename" /\ at <= Len(source.code[Current])
      /\ at \in Listed(Current) => ~isLocalVarOp(source.code[Current][at])
      /\ operand' = operand /\ pairs' = pairs /\ value_status' = value_status
  BY DEF RenameOther, renaming, code
<1>2. source \in Programs /\ TypeOK /\ PathInv /\ Lists
  BY <1>1 DEF Inv
<1>3. Current \in Block /\ Current \notin Left
  BY <1>1, <1>2, OpenPath DEF Walking
<1>4. InstrStep
  <2>1. at \in 1..Len(source.code[Current])
    BY <1>1, <1>2, <1>3, Code DEF TypeOK
  <2>2. at \in DOMAIN source.code[Current]
    BY <1>2, <1>3, <2>1, Code
  <2> QED
    BY <1>1, <2>2 DEF InstrStep, RenameOther, renaming
<1>5. \A v \in Var : LoadAt(source, Current, at, v) => LocalLoad(source, Current, at)
  <2> SUFFICES ASSUME NEW v \in Var, LoadAt(source, Current, at, v), ~LocalLoad(source, Current, at) PROVE FALSE
    OBVIOUS
  <2>1. at \in Listed(Current)
    BY <1>2, <1>3, KeptListed
  <2> QED
    BY <1>1, <2>1 DEF LoadAt, isLocalVarOp
<1>6. LastPushed'
  <2>1. \A w \in Var : at \notin Stores(Current, w)
    BY <1>1 DEF Stores, isLocalVarOp, code
  <2> QED
    BY <1>1, <1>4, <2>1, InstrPushed DEF Meaning
<1> QED
  BY <1>1, <1>4, <1>5, <1>6, InstrMeaning

\* At a load that no store of its block precedes, the top of the stack is what
\* the variable holds behind the phis of the block.
LEMMA TopStart ==
  ASSUME source \in Programs, TypeOK, PathInv, Lists, StackInv, LastPushed, pc = "rename",
         NEW v \in Var, ClosedPhis(v), value_status[v] # <<>>, ~StoreBefore(source, Current, at, v), at \in Nat
  PROVE  AtStart(Current, v, Top(value_status[v]))
<1> DEFINE n == Len(calls)
<1>1. PICK c, x : c = Current /\ x = Top(value_status[v])
  OBVIOUS
<1>2. Walking /\ n \in Nat /\ n \in 1..n /\ c = calls[n] /\ c \in Block /\ c \in visited
      /\ \A i \in 1..n : calls[i] \in Block
  BY <1>1, OpenPath DEF Walking
<1>3. PICK m \in 1..n :
        /\ DefBlock(calls[m], v) /\ Dom(source, calls[m], c) /\ Tokens(calls[m], v) # {}
        /\ \A i \in (m + 1)..n : Tokens(calls[i], v) = {}
        /\ \A e \in Block : DefBlock(e, v) /\ Dom(source, e, c) /\ e # c => Dom(source, e, calls[m])
        /\ \A t \in Nat : LastToken(calls[m], v, t) => Pushed(calls[m], t, v, x)
        /\ calls[m] # c => ValueOf(calls[m], v, x)
  BY <1>1, <1>2, TopDefines
<1>4. Tokens(c, v) = IF v \in phis[c] THEN {0} ELSE {}
  <2>1. \A k \in Stores(c, v) : StoreAt(source, c, k, v) /\ k \in Nat
    BY <1>2, StoresFinite DEF Stores, Listed, StoreAt, code
  <2>2. \A k \in Stores(c, v) : ~(k < at)
    BY <1>1, <1>2, <2>1, StorePlaces
  <2> QED
    BY <1>1, <2>2 DEF Tokens
<1>5. CASE v \in phis[c]
  <2>1. m = n
    <3>1. Tokens(calls[n], v) # {}
      BY <1>2, <1>4, <1>5
    <3>2. n \notin (m + 1)..n
      BY <1>3, <3>1
    <3> QED
      BY <1>2, <3>2
  <2>2. LastToken(c, v, 0)
    BY <1>4, <1>5 DEF LastToken
  <2>3. x = <<c, v>>
    BY <1>2, <1>3, <2>1, <2>2 DEF Pushed
  <2> QED
    BY <1>1, <1>5, <2>3 DEF AtStart
<1>6. CASE v \notin phis[c]
  <2>1. calls[m] # c
    BY <1>3, <1>4, <1>6
  <2>2. calls[m] \in Filled
    <3>1. calls[m] \in visited
      BY <1>2 DEF PathInv, ToSet
    <3> QED
      BY <1>1, <2>1, <3>1 DEF Filled
  <2>3. NearestAbove(calls[m], c, v) /\ ValueOf(calls[m], v, x)
    BY <1>3, <2>1 DEF NearestAbove
  <2> QED
    BY <1>1, <1>6, <2>2, <2>3 DEF AtStart
<1> QED
  BY <1>5, <1>6

LEMMA MeaningRenameLoad == ASSUME Inv, Meaning, RenameLoad PROVE Meaning'
<1>1. PICK v, c, x, y : v = source.code[Current][at].var /\ c = Current /\ x = <<c, at>> /\ y = Top(value_status[v])
  OBVIOUS
<1>2. /\ InstrStep /\ value_status' = value_status /\ pc = "rename" /\ LoadAt(source, c, at, v) /\ v \in Var
      /\ ~StoreBefore(source, c, at, v) /\ ClosedPhis(v) /\ value_status[v] # <<>>
      /\ AtHand(y, c, at) /\ ~IsDefinition(x) /\ x \notin Phi
  BY <1>1, LoadSubst
<1>3. /\ \A p \in Phi : pairs'[p] = pairs[p] /\ pairs[p] \subseteq Value \X Block
      /\ \A b \in Block : \A k \in DOMAIN source.code[b] : operand'[b][k] = IF operand[b][k] = x THEN y ELSE operand[b][k]
  BY <1>1, LoadSubst
<1>4. /\ source \in Programs /\ TypeOK /\ Lists /\ PathInv /\ StackInv /\ OperandsOK /\ PairsInv
      /\ source' = source /\ phis' = phis /\ next' = next /\ Phis' = Phis /\ deleted' = deleted
      /\ Filled' = Filled /\ visited' = visited /\ calls' = calls /\ Current' = c /\ at' = at + 1
      /\ pc' = "rename" /\ at \in Nat /\ c \in Block /\ c \in visited
  BY <1>1, <1>2, InstrSame
<1>5. Filled \subseteq Block /\ ForwardedBlocks = Block /\ ForwardedBlocks' = Block
  BY <1>2, <1>4 DEF Filled, TypeOK, Lists, ForwardedBlocks
<1>6. CallsMean /\ LocalsMean /\ WaitingMean /\ RenamedMean /\ LastPushed /\ PairsMean
  BY <1>2 DEF Meaning, OperandsMean
<1>7. y # x
  BY <1>2 DEF AtHand
<1>8. ASSUME NEW b \in Block, NEW w \in Var, NEW z
      PROVE  /\ AtEnd(b, w, z) => AtEnd(b, w, IF z = x THEN y ELSE z)'
             /\ AtStart(b, w, z) => AtStart(b, w, IF z = x THEN y ELSE z)'
  <2>1. source' = source /\ phis' = phis /\ Filled \subseteq Filled' /\ Filled \subseteq Block /\ x \notin Phi
    BY <1>2, <1>4, <1>5
  <2>2. \A d \in Block : \A m \in DOMAIN source.code[d] : operand'[d][m] = IF operand[d][m] = x THEN y ELSE operand[d][m]
    BY <1>3
  <2> QED
    BY <2>1, <2>2, MeansSubst
<1>9. /\ \A b, k, j : UseOf(b, k, j)' <=> UseOf(b, k, j)
      /\ \A b, k, j, w : GlobalUse(b, k, j, w)' <=> GlobalUse(b, k, j, w)
      /\ \A b, k, j : UseOf(b, k, j) => k \in DOMAIN source.code[b]
      /\ \A b, k, j, w : GlobalUse(b, k, j, w) => UseOf(b, k, j) /\ LoadAt(source, b, j, w)
  BY <1>4 DEF UseOf, GlobalUse, Uses
<1>10. \A b \in Block : \A j \in Nat : Renamed(b, j)' <=> Renamed(b, j) \/ (b = c /\ j = at)
  <2>1. \A j \in Nat : j < at + 1 <=> j < at \/ j = at
    BY <1>4
  <2>2. \A b \in Block : \A j \in Nat : Renamed(b, j)' <=> b \in visited /\ (b = c => j < at + 1)
    BY <1>4 DEF Renamed
  <2>3. \A b \in Block : \A j \in Nat : Renamed(b, j) <=> b \in visited /\ (b = c => j < at)
    BY <1>1, <1>2 DEF Renamed
  <2> QED
    BY <1>4, <2>1, <2>2, <2>3
<1>11. ~Renamed(c, at)
  BY <1>1, <1>2, <1>4 DEF Renamed
<1>12. CallsMean'
  <2> SUFFICES ASSUME NEW b \in Block, NEW k \in Nat, NEW j \in Nat, UseOf(b, k, j), CallAt(source, b, j)
               PROVE  operand'[b][k] = <<b, j>>
    BY <1>4, <1>5, <1>9 DEF CallsMean
  <2>1. operand[b][k] = <<b, j>> /\ k \in DOMAIN source.code[b]
    BY <1>5, <1>6, <1>9 DEF CallsMean
  <2>2. <<b, j>> # x
    BY <1>1, <1>2 DEF CallAt, LoadAt
  <2> QED
    BY <1>3, <2>1, <2>2
<1>13. LocalsMean'
  <2> SUFFICES ASSUME NEW b \in Block, NEW k \in Nat, NEW j \in Nat, NEW m \in Nat, NEW w \in Var,
                      UseOf(b, k, j), LoadAt(source, b, j, w), LastStoreAt(source, b, j, w, m)
               PROVE  operand'[b][k] = operand'[b][m]
    BY <1>4, <1>5, <1>9 DEF LocalsMean
  <2>1. operand[b][k] = operand[b][m]
    BY <1>5, <1>6 DEF LocalsMean
  <2>2. k \in DOMAIN source.code[b] /\ m \in DOMAIN source.code[b]
    BY <1>9 DEF LastStoreAt, StoreAt
  <2> QED
    BY <1>3, <2>1, <2>2
<1>14. WaitingMean'
  <2> SUFFICES ASSUME NEW b \in Block, NEW k \in Nat, NEW j \in Nat, NEW w \in Var,
                      GlobalUse(b, k, j, w), ~Renamed(b, j)'
               PROVE  operand'[b][k] = <<b, j>>
    BY <1>4, <1>5, <1>9 DEF WaitingMean
  <2>1. ~Renamed(b, j) /\ ~(b = c /\ j = at)
    BY <1>10
  <2>2. operand[b][k] = <<b, j>>
    BY <1>5, <1>6, <2>1 DEF WaitingMean
  <2>3. <<b, j>> # x /\ k \in DOMAIN source.code[b]
    BY <1>1, <1>9, <2>1
  <2> QED
    BY <1>3, <2>2, <2>3
<1>15. AtStart(c, v, y)'
  <2>1. AtStart(c, v, y)
    BY <1>1, <1>2, <1>4, <1>6, TopStart
  <2>2. AtStart(c, v, IF y = x THEN y ELSE y)'
    BY <1>2, <1>4, <1>8, <2>1
  <2>3. y = IF y = x THEN y ELSE y
    OBVIOUS
  <2> QED
    BY <2>2, <2>3
<1>16. RenamedMean'
  <2>1. ASSUME NEW b \in Block, NEW k \in Nat, NEW j \in Nat, NEW w \in Var, GlobalUse(b, k, j, w), Renamed(b, j)'
        PROVE  AtStart(b, w, operand[b][k])'
    <3>1. PICK z, u : z = operand[b][k] /\ u = operand'[b][k]
      OBVIOUS
    <3>2. u = IF z = x THEN y ELSE z
      BY <1>3, <1>9, <2>1, <3>1
    <3>3. CASE b = c /\ j = at
      <4>1. z = x
        BY <1>1, <1>5, <1>6, <1>11, <2>1, <3>1, <3>3 DEF WaitingMean
      <4>2. w = v
        BY <1>2, <1>9, <2>1, <3>3 DEF LoadAt
      <4> QED
        BY <1>15, <3>1, <3>2, <3>3, <4>1, <4>2
    <3>4. CASE ~(b = c /\ j = at)
      <4>1. Renamed(b, j)
        BY <1>10, <2>1, <3>4
      <4>2. AtStart(b, w, z)
        BY <1>5, <1>6, <2>1, <3>1, <4>1 DEF RenamedMean
      <4>3. AtStart(b, w, IF z = x THEN y ELSE z)'
        BY <1>8, <4>2
      <4> QED
        BY <3>1, <3>2, <4>3
    <3> QED
      BY <3>3, <3>4
  <2> QED
    BY <1>5, <1>9, <2>1 DEF RenamedMean
<1>17. LastPushed'
  <2>1. \A w \in Var : at \notin Stores(Current, w)
    BY <1>1, <1>2 DEF LoadAt, Stores, code
  <2>2. ASSUME NEW w \in Var, NEW m \in 1..Len(calls), NEW u \in Tokens(calls[m], w), u # 0
        PROVE  operand'[calls[m]][u] = operand[calls[m]][u]
    <3>1. PICK b : b = calls[m] /\ b \in Block
      BY <1>2, <1>4, OpenPath DEF Walking
    <3>2. StoreAt(source, b, u, w) /\ (b = c => u < at)
      BY <1>1, <1>2, <2>2, <3>1 DEF Tokens, Stores, Listed, StoreAt, code
    <3>3. Uses(source, b, u) /\ u \in DOMAIN source.code[b] /\ u \in Nat
      BY <1>4, <3>1, <3>2, StoreUses
    <3>4. AtHand(operand[b][u], b, u) \/ Waiting(operand[b][u], b, u)
      BY <1>4, <1>5, <3>1, <3>3 DEF OperandsOK, code
    <3>5. operand[b][u] # x
      <4>1. ~AtHand(x, b, u)
        BY <1>2 DEF AtHand
      <4>2. ~Waiting(x, b, u)
        <5> SUFFICES ASSUME Waiting(x, b, u) PROVE FALSE
          OBVIOUS
        <5>1. b = c /\ at < u
          BY <1>1 DEF Waiting, KeptAt
        <5> QED
          BY <1>4, <3>2, <3>3, <5>1
      <4> QED
        BY <3>4, <4>1, <4>2
    <3> QED
      BY <1>3, <3>1, <3>3, <3>5
  <2>3. \A w \in Var : \A m \in 1..Len(calls) : \A u \in Tokens(calls[m], w) :
          u = 0 \/ operand'[calls[m]][u] = operand[calls[m]][u]
    BY <2>2
  <2> QED
    BY <1>2, <1>6, <2>1, <2>3, InstrPushed
<1>18. PairsMean'
  <2> SUFFICES ASSUME NEW p \in Phis', NEW q \in pairs'[p]
               PROVE  AtEnd(q[2], p[2], q[1])'
    BY DEF PairsMean
  <2>1. p \in Phis /\ p \in Phi /\ p[2] \in Var /\ q \in pairs[p]
    BY <1>3, <1>4 DEF Phis, Phi
  <2>2. q[2] \in Block /\ IsDefinition(q[1])
    BY <1>3, <1>4, <2>1 DEF PairsInv, PhiFilled
  <2>3. PICK b, w, z : b = q[2] /\ w = p[2] /\ z = q[1]
    OBVIOUS
  <2>4. AtEnd(b, w, z)
    BY <1>6, <2>1, <2>3 DEF PairsMean
  <2>5. AtEnd(b, w, IF z = x THEN y ELSE z)'
    BY <1>8, <2>1, <2>2, <2>3, <2>4
  <2>6. z = IF z = x THEN y ELSE z
    BY <1>2, <2>2, <2>3
  <2> QED
    BY <2>3, <2>5, <2>6
<1> QED
  BY <1>4, <1>12, <1>13, <1>14, <1>16, <1>17, <1>18 DEF Meaning, OperandsMean

-----------------------------------------------------------------------------
(* valueForwarding: the end of a block and of a call.                      *)

LEMMA MeaningFill == ASSUME Inv, Meaning, FillPhis PROVE Meaning'
<1>1. /\ pc = "rename" /\ pc' = "walk" /\ at > Len(source.code[Current]) /\ pairs' = Fill(Current)
      /\ source' = source /\ operand' = operand /\ deleted' = deleted /\ at' = at /\ next' = next
      /\ phis' = phis /\ value_status' = value_status /\ visited' = visited /\ calls' = calls
  BY DEF FillPhis, forwarding, placing, renaming, code
<1>2. /\ source \in Programs /\ TypeOK /\ Lists /\ PlacedInv /\ PathInv /\ StackInv /\ PairsInv /\ Walking
      /\ OperandsMean /\ LastPushed /\ PairsMean
  BY <1>1 DEF Inv, Walking, Meaning
<1>3. PICK c : c = Current
  OBVIOUS
<1>4. /\ c \in Block /\ c \in visited /\ Current' = c /\ Len(calls) \in Nat
      /\ \A i \in 1..Len(calls) : calls[i] \in Block /\ calls[i] \in visited
  <2>1. \A i \in 1..Len(calls) : calls[i] \in visited
    BY <1>2, OpenPath DEF PathInv, ToSet
  <2> QED
    BY <1>1, <1>2, <1>3, <2>1, OpenPath DEF Current
<1>5. at = End(source, c) /\ at \in Nat
  <2>1. at <= End(source, c)
    BY <1>1, <1>2, <1>3 DEF PathInv
  <2>2. at \in Nat /\ Len(source.code[c]) \in Nat
    BY <1>2, <1>4, Code DEF TypeOK
  <2> QED
    BY <1>1, <1>3, <2>1, <2>2 DEF End
<1>6. Filled \subseteq visited /\ Filled' = visited /\ visited \subseteq Block /\ ForwardedBlocks = Block
  BY <1>1, <1>2 DEF Filled, TypeOK, Lists
<1>7. OperandsMean'
  <2>1. ASSUME NEW b \in Block, NEW k \in Nat, NEW j \in Nat, NEW v \in Var, GlobalUse(b, k, j, v)
        PROVE  Renamed(b, j)' <=> Renamed(b, j)
    <3>1. b = c => j < at
      BY <1>2, <1>5, <2>1, Instruction DEF GlobalUse, LoadAt
    <3> QED
      BY <1>1, <1>3, <3>1 DEF Renamed
  <2>2. Filled \subseteq Filled' /\ Filled \subseteq Block /\ ForwardedBlocks \subseteq Block
    BY <1>6
  <2> QED
    BY <1>1, <1>2, <2>1, <2>2, OperandsMeanFrame
<1>8. \A b \in Block : \A v \in Var : Tokens(b, v)' = Tokens(b, v)
  <2>1. \A b \in Block : \A v \in Var : Stores(b, v)' = Stores(b, v)
    BY <1>1 DEF Stores, Listed, code
  <2>2. \A v \in Var : \A k \in Stores(c, v) : k < at
    <3>1. \A v \in Var : \A k \in Stores(c, v) : k \in DOMAIN source.code[c]
      BY DEF Stores, Listed, code
    <3> QED
      BY <1>2, <1>4, <1>5, <3>1, Instruction
  <2> QED
    BY <1>1, <1>3, <2>1, <2>2 DEF Tokens
<1>9. LastPushed'
  <2>1. ASSUME NEW v \in Var, NEW m \in 1..Len(calls), NEW t \in Nat, LastToken(calls[m], v, t)'
        PROVE  Pushed(calls[m], t, v, value_status[v][Height(m, v)])'
    <3>1. Tokens(calls[m], v)' = Tokens(calls[m], v)
      <4>1. PICK b \in Block : b = calls[m]
        BY <1>4
      <4> QED
        BY <1>1, <1>8, <4>1
    <3>2. Height(m, v)' = Height(m, v)
      <4>1. m \in Nat /\ \A i \in 1..m : calls[i] \in Block /\ calls'[i] = calls[i]
        BY <1>1, <1>4
      <4> QED
        BY <1>8, <4>1, HeightSame
    <3>3. /\ calls'[m] = calls[m] /\ value_status'[v][Height(m, v)] = value_status[v][Height(m, v)]
          /\ \A u \in Tokens(calls[m], v) : u = 0 \/ operand'[calls[m]][u] = operand[calls[m]][u]
      BY <1>1
    <3> QED
      BY <1>2, <2>1, <3>1, <3>2, <3>3, PushedSame
  <2> QED
    BY <1>1, <2>1 DEF LastPushed
<1>10. ASSUME NEW v \in Var, ClosedPhis(v), value_status[v] # <<>>, NEW x, x = Top(value_status[v])
       PROVE  AtEnd(c, v, x)'
  <2>1. PICK m \in 1..Len(calls) :
          /\ DefBlock(calls[m], v) /\ Dom(source, calls[m], c)
          /\ \A e \in Block : DefBlock(e, v) /\ Dom(source, e, c) => Dom(source, e, calls[m])
          /\ ValueOf(calls[m], v, x)
    BY <1>2, <1>3, <1>5, <1>10, TopDefines
  <2>2. PICK d \in visited : d = calls[m]
    BY <1>4
  <2>3. Nearest(d, c, v) /\ ValueOf(d, v, x)
    BY <2>1, <2>2 DEF Nearest
  <2>4. Nearest(d, c, v)' /\ ValueOf(d, v, x)'
    BY <1>1, <2>3 DEF Nearest, ValueOf, DefBlock
  <2> QED
    BY <1>6, <2>4 DEF AtEnd
<1>11. PairsMean'
  <2>1. ASSUME NEW p \in Phis, NEW q \in pairs'[p] PROVE AtEnd(q[2], p[2], q[1])'
    <3>1. p \in Phi /\ p[1] \in Block /\ p[2] \in Var /\ p[2] \in phis[p[1]]
      BY DEF Phis, Phi
    <3>2. PICK b, v, z : b = q[2] /\ v = p[2] /\ z = q[1]
      OBVIOUS
    <3>3. q \in pairs[p] \/ (value_status[v] # <<>> /\ q = <<Top(value_status[v]), c>>)
      BY <1>1, <1>3, <3>1, <3>2 DEF Fill
    <3>4. CASE q \in pairs[p]
      <4>1. b \in Block
        BY <1>2, <3>1, <3>2, <3>4 DEF TypeOK
      <4>2. AtEnd(b, v, z)
        BY <1>2, <3>2, <3>4 DEF PairsMean
      <4>3. Filled \subseteq Filled' /\ Filled \subseteq Block
        BY <1>6
      <4>4. AtEnd(b, v, z)'
        BY <1>1, <3>1, <3>2, <4>1, <4>2, <4>3, MeansSame
      <4> QED
        BY <3>2, <4>4
    <3>5. CASE value_status[v] # <<>> /\ q = <<Top(value_status[v]), c>>
      <4>1. ClosedPhis(v)
        BY <1>2, <3>1, <3>2 DEF PlacedInv
      <4>2. b = c /\ z = Top(value_status[v])
        BY <3>2, <3>5
      <4> QED
        BY <1>10, <3>1, <3>2, <3>5, <4>1, <4>2
    <3> QED
      BY <3>3, <3>4, <3>5
  <2>2. Phis' = Phis
    BY <1>1 DEF Phis
  <2> QED
    BY <2>1, <2>2 DEF PairsMean
<1> QED
  BY <1>1, <1>7, <1>9, <1>11 DEF Meaning

LEMMA MeaningReturn == ASSUME Inv, Meaning, Return PROVE Meaning'
<1>1. /\ pc = "walk" /\ pc' \in {"walk", "remove"} /\ source' = source /\ operand' = operand /\ next' = next
      /\ phis' = phis /\ pairs' = pairs /\ visited' = visited
      /\ value_status' = [v \in Var |-> Pop(value_status[v], define_var[Current][v])]
      /\ deleted' = deleted \cup {<<Current, k>> : k \in {k \in Listed(Current) : isLocalVarOp(code[Current][k])}}
      /\ calls' = SubSeq(calls, 1, Len(calls) - 1)
  BY DEF Return, forwarding, placing
<1>2. /\ source \in Programs /\ TypeOK /\ Lists /\ PathInv /\ StackInv /\ Walking
      /\ OperandsMean /\ LastPushed /\ PairsMean
  BY <1>1 DEF Inv, Walking, Meaning
<1>3. PICK n, c : n = Len(calls) /\ c = Current
  OBVIOUS
<1>4. /\ n \in Nat /\ n \in 1..n /\ \A i \in 1..n : calls[i] \in Block
      /\ \A i, j \in 1..n : calls[i] = calls[j] => i = j
      /\ c \in Block /\ c = calls[n] /\ calls \in Seq(Block)
  BY <1>2, <1>3, OpenPath DEF IsPath
<1>5. /\ Len(calls') = n - 1
      /\ \A i \in 1..(n - 1) : calls'[i] = calls[i] /\ calls[i] \in Block /\ calls[i] # c
  <2>1. calls' = SubSeq(calls, 1, n - 1) /\ \A i \in 1..(n - 1) : calls[i] \in Block
    BY <1>1, <1>3, <1>4
  <2>2. /\ Len(calls') = IF 1 <= n - 1 THEN (n - 1) - 1 + 1 ELSE 0
        /\ \A i \in 1..((n - 1) - 1 + 1) : calls'[i] = calls[1 + i - 1]
    BY <1>4, <2>1, SubSeqProperties
  <2>3. \A i \in 1..(n - 1) : i \in 1..((n - 1) - 1 + 1) /\ 1 + i - 1 = i /\ i \in 1..n /\ i # n
    BY <1>4
  <2>4. Len(calls') = n - 1
    BY <1>4, <2>2
  <2>5. \A i \in 1..(n - 1) : calls'[i] = calls[i]
    BY <2>2, <2>3
  <2> QED
    BY <1>4, <2>3, <2>4, <2>5
<1>6. Filled' = Filled /\ Filled \subseteq Block /\ ForwardedBlocks = Block
  BY <1>1, <1>2 DEF Filled, TypeOK, Lists
<1>7. OperandsMean'
  <2>1. \A b, j : Renamed(b, j)' <=> Renamed(b, j)
    BY <1>1 DEF Renamed
  <2> QED
    BY <1>1, <1>2, <1>6, <2>1, OperandsMeanFrame
<1>8. PairsMean'
  BY <1>1, <1>2, <1>6, PairsMeanFrame
<1>9. \A b \in Block : \A v \in Var : b # c => Tokens(b, v)' = Tokens(b, v)
  <2>1. \A b, k : b # c => (<<b, k>> \in deleted' <=> <<b, k>> \in deleted)
    BY <1>1, <1>3
  <2>2. \A b \in Block : \A v \in Var : b # c => Stores(b, v)' = Stores(b, v)
    BY <1>1, <2>1 DEF Stores, Listed, code
  <2> QED
    BY <1>1, <2>2 DEF Tokens
<1>10. ASSUME NEW v \in Var, NEW m \in 1..(n - 1), NEW t \in Nat, LastToken(calls[m], v, t)'
       PROVE  Pushed(calls[m], t, v, value_status[v][Height(m, v)])'
  <2>1. PICK b : b = calls[m] /\ b \in Block /\ calls'[m] = b /\ b # c
    BY <1>5
  <2>2. Tokens(calls[m], v)' = Tokens(calls[m], v) /\ Tokens(calls[m], v) # {}
    <3>1. LastToken(b, v, t)'
      BY <1>10, <2>1
    <3> QED
      BY <1>9, <2>1, <3>1 DEF LastToken
  <2>3. Height(m, v)' = Height(m, v)
    <3>1. m \in Nat /\ \A i \in 1..m : calls[i] \in Block /\ calls'[i] = calls[i] /\ calls[i] # c
      BY <1>4, <1>5
    <3>2. \A d \in Block : (\E i \in 1..m : calls[i] = d) => Tokens(d, v)' = Tokens(d, v)
      BY <1>9, <3>1
    <3> QED
      BY <3>1, <3>2, HeightSame
  <2>4. Height(m, v) \in 1..Height(n - 1, v)
    <3>1. Height(m, v) \in 1..Len(value_status[v])
      <4>1. m \in 1..Len(calls)
        BY <1>3, <1>4
      <4> QED
        BY <1>2, <2>2, <4>1, PushedHeight
    <3>2. \A l, r \in 0..Len(calls) : l <= r => Height(l, v) <= Height(r, v)
      BY <1>2, Counted DEF Counts, Height
    <3>3. m \in 0..Len(calls) /\ n - 1 \in 0..Len(calls) /\ m <= n - 1
      BY <1>3, <1>4
    <3>4. Height(n - 1, v) \in Nat
      BY <1>1, <1>2, <1>3, <3>3, PopCount
    <3> QED
      BY <3>1, <3>2, <3>3, <3>4
  <2>5. value_status'[v][Height(m, v)] = value_status[v][Height(m, v)]
    <3>1. value_status'[v] = Pop(value_status[v], define_var[c][v]) /\ value_status[v] \in Seq(Value)
      BY <1>1, <1>2, <1>3 DEF TypeOK
    <3>2. define_var[c][v] \in Nat /\ Len(value_status[v]) = Height(n - 1, v) + define_var[c][v] /\ Height(n - 1, v) \in Nat
      <4>1. \A r \in 0..n : Height(r, v) \in Nat
        BY <1>1, <1>2, <1>3, PopCount
      <4> QED
        BY <1>1, <1>2, <1>3, <1>4, <4>1, PopCount
    <3> QED
      BY <2>4, <3>1, <3>2, PopKeeps
  <2>6. m \in 1..Len(calls) /\ calls'[m] = calls[m]
    BY <1>3, <1>4, <2>1
  <2>7. \A u \in Tokens(calls[m], v) : u = 0 \/ operand'[calls[m]][u] = operand[calls[m]][u]
    BY <1>1
  <2> QED
    BY <1>2, <1>10, <2>2, <2>3, <2>5, <2>6, <2>7, PushedSame
<1>11. LastPushed'
  BY <1>5, <1>10 DEF LastPushed
<1> QED
  BY <1>1, <1>7, <1>8, <1>11 DEF Meaning

LEMMA MeaningRemove == ASSUME Inv, Meaning, RemoveAlloc PROVE Meaning'
<1>1. /\ pc = "remove" /\ pc' = "done" /\ source' = source /\ operand' = operand /\ next' = next
      /\ phis' = phis /\ pairs' = pairs /\ visited' = visited /\ calls' = calls
  BY DEF RemoveAlloc, forwarding, renaming
<1>2. TypeOK /\ Lists /\ PathInv /\ OperandsMean /\ PairsMean
  BY <1>1 DEF Inv, Meaning
<1>3. Filled' = Filled /\ Filled \subseteq Block /\ ForwardedBlocks = Block
  BY <1>1, <1>2 DEF Filled, TypeOK, Lists
<1>4. OperandsMean'
  <2>1. \A b, j : Renamed(b, j)' <=> Renamed(b, j)
    BY <1>1 DEF Renamed
  <2> QED
    BY <1>1, <1>2, <1>3, <2>1, OperandsMeanFrame
<1>5. PairsMean'
  BY <1>1, <1>2, <1>3, PairsMeanFrame
<1>6. LastPushed'
  <2>1. calls' = <<>>
    BY <1>1, <1>2 DEF PathInv
  <2> QED
    BY <2>1 DEF LastPushed
<1> QED
  BY <1>1, <1>4, <1>5, <1>6 DEF Meaning

LEMMA MeaningStutter == ASSUME Inv, Meaning, UNCHANGED vars PROVE Meaning'
<1>1. /\ source' = source /\ pc' = pc /\ operand' = operand /\ deleted' = deleted /\ at' = at /\ next' = next
      /\ new_value' = new_value /\ forward_list' = forward_list /\ phis' = phis /\ pairs' = pairs
      /\ value_status' = value_status /\ visited' = visited /\ calls' = calls
  BY DEF vars, forwarding, placing, renaming
<1>2. /\ Scanned' = Scanned /\ Current' = Current /\ ForwardedBlocks' = ForwardedBlocks /\ Filled' = Filled /\ Phis' = Phis
  BY <1>1 DEF Scanned, Current, ForwardedBlocks, Filled, Phis
<1>3. ScanMeans(Scanned)' <=> ScanMeans(Scanned)
  BY <1>1, <1>2 DEF ScanMeans, Functional, ForwardedMeans, NewValueMeans
<1>4. /\ \A d, b, v : Nearest(d, b, v)' <=> Nearest(d, b, v)
      /\ \A d, b, v : NearestAbove(d, b, v)' <=> NearestAbove(d, b, v)
      /\ \A d, v, x : ValueOf(d, v, x)' <=> ValueOf(d, v, x)
  BY <1>1 DEF Nearest, NearestAbove, ValueOf, DefBlock
<1>5. /\ \A b, v, x : AtEnd(b, v, x)' <=> AtEnd(b, v, x)
      /\ \A b, v, x : AtStart(b, v, x)' <=> AtStart(b, v, x)
  BY <1>1, <1>2, <1>4 DEF AtEnd, AtStart
<1>6. /\ \A b, k, j : UseOf(b, k, j)' <=> UseOf(b, k, j)
      /\ \A b, k, j, v : GlobalUse(b, k, j, v)' <=> GlobalUse(b, k, j, v)
      /\ \A b, j : Renamed(b, j)' <=> Renamed(b, j)
  BY <1>1, <1>2 DEF UseOf, GlobalUse, Renamed
<1>7. OperandsMean'
  <2>1. CallsMean' /\ LocalsMean' /\ WaitingMean'
    BY <1>1, <1>2, <1>6 DEF Meaning, OperandsMean, CallsMean, LocalsMean, WaitingMean
  <2>2. RenamedMean'
    BY <1>1, <1>2, <1>5, <1>6 DEF Meaning, OperandsMean, RenamedMean
  <2> QED
    BY <2>1, <2>2 DEF OperandsMean
<1>8. LastPushed => LastPushed'
  <2>1. \A b, v : Tokens(b, v)' = Tokens(b, v)
    BY <1>1, <1>2 DEF Tokens, Stores, Listed, code
  <2>2. \A m, v : Height(m, v)' = Height(m, v)
    <3>1. \A v : TokenSets(v)' = TokenSets(v)
      BY <2>1 DEF TokenSets
    <3> QED
      BY <1>1, <3>1 DEF Height
  <2> QED
    BY <1>1, <2>1, <2>2 DEF LastPushed, LastToken, Pushed
<1>9. PairsMean => PairsMean'
  BY <1>1, <1>2, <1>5 DEF PairsMean
<1> QED
  BY <1>1, <1>3, <1>7, <1>8, <1>9 DEF Meaning

LEMMA InitMeaning == Init => Meaning
<1> SUFFICES ASSUME Init PROVE Meaning
  OBVIOUS
<1>1. source \in Programs /\ pc = "forward" /\ next = 1 /\ at = 1 /\ forward_list = {}
  BY DEF Init
<1>2. OperandsMean
  <2>1. ForwardedBlocks = {}
    BY <1>1 DEF ForwardedBlocks
  <2> QED
    BY <2>1 DEF OperandsMean, CallsMean, LocalsMean, WaitingMean, RenamedMean
<1>3. next <= Len(source.blocks) => ScanMeans(Scanned)
  <2> SUFFICES ASSUME next <= Len(source.blocks) PROVE ScanMeans(Scanned)
    OBVIOUS
  <2>1. PICK b : b = Scanned
    OBVIOUS
  <2>2. b \in Block
    <3>1. source.blocks \in Seq(Block) /\ 1 \in 1..Len(source.blocks)
      BY <1>1, Blocks, LenProperties
    <3> QED
      BY <1>1, <2>1, <3>1 DEF Scanned
  <2>3. \A v : \A m \in Nat : ~LastStoreAt(source, b, 1, v, m)
    <3>1. \A v : \A m \in Nat : StoreAt(source, b, m, v) => m >= 1
      BY <1>1, <2>2, Instruction DEF StoreAt
    <3> QED
      BY <3>1 DEF LastStoreAt
  <2>4. ScanMeans(b)
    BY <1>1, <2>3 DEF ScanMeans, Functional, ForwardedMeans, NewValueMeans
  <2> QED
    BY <2>1, <2>4
<1> QED
  BY <1>1, <1>2, <1>3 DEF Meaning

LEMMA NextMeaning == Inv /\ Meaning /\ [Next]_vars => Meaning'
<1> SUFFICES ASSUME Inv, Meaning, [Next]_vars PROVE Meaning'
  OBVIOUS
<1>1. CASE Pass
  BY <1>1, MeaningStore, MeaningLoad, MeaningOther, MeaningForward, MeaningCollect, MeaningVar, MeaningStart,
     MeaningRenameLoad, MeaningRenameStore, MeaningRenameOther, MeaningFill, MeaningDescend, MeaningReturn,
     MeaningRemove DEF Pass
<1>2. CASE UNCHANGED vars
  BY <1>2, MeaningStutter
<1>3. CASE Finished
  BY <1>3, MeaningStutter DEF Finished
<1> QED
  BY <1>1, <1>2, <1>3 DEF Next

-----------------------------------------------------------------------------
(* The function that is left, run beside the one that was given.           *)

\* The values hold what the memory does, wherever the block that ran last leaves
\* a variable with a value.
MemoryMeans(b) ==
  \A v \in Var : memory[v] # Undef =>
    /\ Reached(source, b, End(source, b), v)
    /\ ClosedPhis(v) => \A x : AtEnd(b, v, x) => x \in Names /\ env[x] = memory[v]

RunInv ==
  /\ at_block # Null => at_block \in Block /\ pc = "done" /\ MemoryMeans(at_block)
  /\ at_block = Null => \A v \in Var : memory[v] = Undef

\* A block that the run may enter.
Entered(b) == IF at_block = Null THEN b = Root ELSE Edge(source, at_block, b)

LEMMA DoneFacts ==
  ASSUME Inv, Meaning, pc = "done"
  PROVE  /\ source \in Programs /\ OperandsOK /\ OperandsMean /\ PairsMean /\ PlacedInv /\ PairsInv /\ Lists
         /\ Filled = Block /\ ForwardedBlocks = Block
         /\ \A b \in Block : \A j : Renamed(b, j)
         /\ \A b \in Block : \A k \in DOMAIN source.code[b] :
              source.code[b][k].op \in {"call", "out"} => k \in Listed(b)
<1>1. /\ source \in Programs /\ TypeOK /\ PathInv /\ OperandsOK /\ OperandsMean /\ PairsMean /\ PlacedInv /\ PairsInv /\ Lists
  BY DEF Inv, Meaning
<1>2. visited = Block /\ Filled = Block /\ ForwardedBlocks = Block
  BY <1>1, AllLeft DEF Lists
<1>3. \A b \in Block : \A j : Renamed(b, j)
  BY <1>2 DEF Renamed
<1>4. ASSUME NEW b \in Block, NEW k \in DOMAIN source.code[b], source.code[b][k].op \in {"call", "out"} PROVE k \in Listed(b)
  <2>1. ~LocalVarOp(source, b, k) /\ k \in Nat
    BY <1>1, <1>4, Instruction DEF LocalVarOp, isLocalVarOp
  <2>2. <<b, k>> \notin deleted
    BY <1>1, <2>1 DEF Lists
  <2> QED
    BY <2>2 DEF Listed, code
<1> QED
  BY <1>1, <1>2, <1>3, <1>4

\* What a variable holds before a block with no phi of it, it holds at the end
\* of each predecessor.
LEMMA StartAtPred ==
  ASSUME source \in Programs, Filled \subseteq Block, NEW v \in Var, ClosedPhis(v),
         NEW a \in Block, NEW b \in Block, Edge(source, a, b), v \notin phis[b], NEW x, AtStart(b, v, x)
  PROVE  AtEnd(a, v, x)
<1>1. PICK d \in Filled : NearestAbove(d, b, v) /\ ValueOf(d, v, x)
  BY DEF AtStart
<1>2. /\ DefBlock(d, v) /\ d # b /\ Dom(source, d, b) /\ d \in Block
      /\ \A e \in Block : DefBlock(e, v) /\ e # b /\ Dom(source, e, b) => Dom(source, e, d)
  BY <1>1 DEF NearestAbove
<1>3. Dom(source, d, a)
  <2>1. b \in Edges(source)[a] /\ IsFiniteSet(Block)
    BY Graph, SetsFinite DEF Edge
  <2>2. Dominates(Block, Edges(source), Root, d, b)
    BY <1>2 DEF Dom
  <2>3. Dominates(Block, Edges(source), Root, d, a)
    BY <1>2, <2>1, <2>2, DomPred
  <2> QED
    BY <2>3 DEF Dom
<1>4. ASSUME NEW e \in Block, DefBlock(e, v), Dom(source, e, a) PROVE Dom(source, e, d)
  <2>1. b \notin Frontier(Block, Edges(source), Root, e)
    BY <1>4 DEF ClosedPhis
  <2>2. b # e /\ Dom(source, e, b)
    BY <1>4, <2>1, FrontierStep
  <2> QED
    BY <1>2, <1>4, <2>2
<1>5. Nearest(d, a, v)
  BY <1>2, <1>3, <1>4 DEF Nearest
<1> QED
  BY <1>1, <1>5 DEF AtEnd

\* The value of a definition above a block is no value of that block.
LEMMA ValueAbove ==
  ASSUME source \in Programs, OperandsOK, ForwardedBlocks = Block, \A b \in Block : \A j : Renamed(b, j),
         NEW d \in Block, NEW b \in Block, d # b, Dom(source, d, b), NEW v \in Var, NEW x, ValueOf(d, v, x)
  PROVE  x[1] # b
<1>1. CASE ~StoreIn(source, d, v)
  BY <1>1 DEF ValueOf
<1>2. CASE StoreIn(source, d, v)
  <2>1. StoreBefore(source, d, End(source, d), v) /\ End(source, d) \in Nat
    BY <1>2, Code, StorePlaces DEF End
  <2>2. PICK m \in Nat : LastStoreAt(source, d, End(source, d), v, m)
    BY <2>1, LastStoreExists
  <2>3. x = operand[d][m] /\ StoreAt(source, d, m, v)
    BY <2>2 DEF ValueOf, LastStoreAt
  <2>4. Uses(source, d, m) /\ m \in DOMAIN source.code[d]
    BY <2>3, StoreUses
  <2>5. AtHand(x, d, m)
    <3>1. AtHand(x, d, m) \/ Waiting(x, d, m)
      BY <2>3, <2>4 DEF OperandsOK, code
    <3> QED
      BY <3>1 DEF Waiting
  <2>6. Dom(source, x[1], d)
    BY <2>5 DEF AtHand
  <2> QED
    BY <2>6, DomFacts
<1> QED
  BY <1>1, <1>2

\* The values of a block, at whatever place, hold what the memory does when the
\* run enters the block.
LEMMA StartValues ==
  ASSUME Inv, Meaning, RunInv, pc = "done", NEW b \in Block, Entered(b), NEW k, NEW result,
         NEW v \in Var, memory[v] # Undef, ClosedPhis(v), NEW x, AtStart(b, v, x)
  PROVE  x \in Names /\ ValuesAt(b, k, result)[x] = memory[v]
<1>1. /\ source \in Programs /\ OperandsOK /\ PairsMean /\ PairsInv /\ Filled = Block /\ ForwardedBlocks = Block
      /\ \A c \in Block : \A j : Renamed(c, j)
  BY DoneFacts
<1>2. PICK a : a = at_block
  OBVIOUS
<1>3. a \in Block /\ Edge(source, a, b) /\ MemoryMeans(a)
  BY <1>2 DEF RunInv, Entered
<1>4. Reached(source, a, End(source, a), v) /\ \A z : AtEnd(a, v, z) => z \in Names /\ env[z] = memory[v]
  BY <1>3 DEF MemoryMeans
<1>5. CASE v \in phis[b]
  <2>1. x = <<b, v>> /\ x \in Phi /\ x \in Phis /\ x[1] = b /\ x[2] = v
    BY <1>5 DEF AtStart, Phi, Phis
  <2>2. PhiFilled(x)
    BY <1>1, <2>1 DEF PairsInv
  <2>3. \E q \in pairs[x] : q[2] = a
    BY <1>1, <1>3, <1>4, <2>1, <2>2 DEF PhiFilled
  <2>4. PICK q : q = CHOOSE r \in pairs[x] : r[2] = a
    OBVIOUS
  <2>5. q \in pairs[x] /\ q[2] = a
    BY <2>3, <2>4
  <2>6. AtEnd(a, v, q[1])
    BY <1>1, <2>1, <2>5 DEF PairsMean
  <2>7. q[1] \in Names /\ env[q[1]] = memory[v]
    BY <1>4, <2>6
  <2>8. PhiValue(x, a) = env[q[1]]
    BY <2>3, <2>4, <2>7 DEF PhiValue
  <2>9. x \in Names
    BY <2>1 DEF Names
  <2>10. ValuesAt(b, k, result)[x] = PhiValue(x, a)
    BY <1>2, <2>1, <2>9 DEF ValuesAt
  <2> QED
    BY <2>7, <2>8, <2>9, <2>10
<1>6. CASE v \notin phis[b]
  <2>1. AtEnd(a, v, x)
    BY <1>1, <1>3, <1>6, StartAtPred
  <2>2. x \in Names /\ env[x] = memory[v]
    BY <1>4, <2>1
  <2>3. x[1] # b
    <3>1. PICK d \in Filled : NearestAbove(d, b, v) /\ ValueOf(d, v, x)
      BY <1>6 DEF AtStart
    <3>2. d \in Block /\ d # b /\ Dom(source, d, b)
      BY <1>1, <3>1 DEF NearestAbove
    <3> QED
      BY <1>1, <3>1, <3>2, ValueAbove
  <2>4. x \notin {<<b, m>> : m \in Calls(b) \cap Listed(b)}
    BY <2>3
  <2>5. ValuesAt(b, k, result)[x] = env[x]
    BY <2>2, <2>3, <2>4 DEF ValuesAt
  <2> QED
    BY <2>2, <2>5
<1> QED
  BY <1>5, <1>6

\* From a use on, what is at hand there keeps its value up to the end.
LEMMA LaterSame ==
  ASSUME source \in Programs, NEW b \in Block, NEW k \in DOMAIN source.code[b], NEW result, NEW x \in Names, AtHand(x, b, k)
  PROVE  ValuesAt(b, k, result)[x] = ValuesAt(b, End(source, b), result)[x]
<1> DEFINE C == {<<b, m>> : m \in Calls(b) \cap Listed(b)}
<1>1. x \in C => x[2] < k /\ x[2] < End(source, b)
  <2> SUFFICES ASSUME x \in C PROVE x[2] < k /\ x[2] < End(source, b)
    OBVIOUS
  <2>1. PICK m \in Calls(b) : x = <<b, m>>
    OBVIOUS
  <2>2. m \in DOMAIN source.code[b]
    BY <2>1 DEF Calls, code
  <2>3. m \in Nat /\ m < End(source, b)
    BY <2>2, Instruction
  <2>4. x \notin Phi
    BY <2>1, <2>3, Kinds
  <2>5. x[2] < k
    BY <2>1, <2>4 DEF AtHand
  <2> QED
    BY <2>1, <2>3, <2>5
<1> HIDE DEF C
<1>2. \A n : ValuesAt(b, n, result)[x] = IF x \in Phis /\ x[1] = b THEN PhiValue(x, at_block)
                                         ELSE IF x \in C /\ x[2] < n THEN result[x[2]] ELSE env[x]
  BY DEF ValuesAt, C
<1> QED
  BY <1>1, <1>2

-----------------------------------------------------------------------------
(* The registers of a block.                                               *)

\* What v holds before place k of block b, when the places have the values of f.
Stored(f, b, k, v) == IF StoreBefore(source, b, k, v) THEN f[StoredPlace(b, k, v)] ELSE memory[v]

\* What Registers gives place k, when the places have the values of f.
RegisterAt(f, b, result, k) ==
  CASE code[b][k].op = "call" -> result[k]
    [] code[b][k].op \in {"store", "out"} -> Undef
    [] OTHER -> Stored(f, b, k, code[b][k].var)
IsRegisters(f, b, result) == f = [k \in DOMAIN code[b] |-> RegisterAt(f, b, result, k)]

LEMMA LastStoreIs ==
  ASSUME source \in Programs, NEW b \in Block, NEW k \in Nat, k <= End(source, b),
         NEW v, NEW m \in Nat, LastStoreAt(source, b, k, v, m)
  PROVE  LastStore(b, k, v) = m
<1> DEFINE After(n) == \A i \in (n + 1)..(k - 1) : ~(code[b][i].op = "store" /\ code[b][i].var = v)
<1>1. StoreAt(source, b, m, v) /\ m < k /\ \A n \in Nat : m < n /\ n < k => ~StoreAt(source, b, n, v)
  BY DEF LastStoreAt
<1>2. DOMAIN code[b] = 1..Len(code[b]) /\ Len(code[b]) \in Nat /\ k <= Len(code[b]) + 1
  BY Code DEF code, End
<1>3. After(m)
  <2> SUFFICES ASSUME NEW i \in (m + 1)..(k - 1) PROVE ~(code[b][i].op = "store" /\ code[b][i].var = v)
    OBVIOUS
  <2>1. i \in Nat /\ m < i /\ i < k /\ i \in DOMAIN code[b]
    BY <1>2
  <2>2. ~StoreAt(source, b, i, v)
    BY <1>1, <2>1
  <2> QED
    BY <2>1, <2>2 DEF StoreAt, code
<1>4. ASSUME NEW n \in DOMAIN code[b], n < k, code[b][n].op = "store", code[b][n].var = v, After(n) PROVE n = m
  <2>1. n \in Nat /\ StoreAt(source, b, n, v)
    BY <1>2, <1>4 DEF StoreAt, code
  <2>2. ~(m < n)
    BY <1>1, <1>4, <2>1
  <2>3. ~(n < m)
    <3>1. n < m => m \in (n + 1)..(k - 1)
      BY <1>1, <2>1
    <3>2. code[b][m].op = "store" /\ code[b][m].var = v
      BY <1>1 DEF StoreAt, code
    <3> QED
      BY <1>4, <3>1, <3>2
  <2> QED
    BY <2>1, <2>2, <2>3
<1>5. m \in DOMAIN code[b] /\ m < k /\ code[b][m].op = "store" /\ code[b][m].var = v
  BY <1>1 DEF StoreAt, code
<1> QED
  BY <1>3, <1>4, <1>5 DEF LastStore

\* What a load behind a store, or the end of the block, gets, whatever the
\* registers: that of the value which the last store has.
LEMMA StoredLast ==
  ASSUME source \in Programs, NEW b \in Block, NEW k \in Nat, k <= End(source, b),
         NEW v, NEW m \in Nat, LastStoreAt(source, b, k, v, m)
  PROVE  \E l \in Nat : /\ l < m /\ l \in DOMAIN source.code[b]
                        /\ UseOf(b, m, l)
                        /\ \A f : Stored(f, b, k, v) = f[l]
<1>1. StoreAt(source, b, m, v) /\ m < k
  BY DEF LastStoreAt
<1>2. Uses(source, b, m) /\ m \in DOMAIN source.code[b]
  BY <1>1, StoreUses
<1>3. PICK l \in Nat : l < m /\ source.code[b][m].val = <<b, l>>
                       /\ (CallAt(source, b, l) \/ \E w \in Var : LoadAt(source, b, l, w))
  BY <1>2, ValueBefore
<1>4. l \in DOMAIN source.code[b]
  BY <1>3 DEF CallAt, LoadAt
<1>5. UseOf(b, m, l)
  BY <1>2, <1>3 DEF UseOf
<1>6. LastStore(b, k, v) = m /\ StoreBefore(source, b, k, v)
  BY <1>1, LastStoreIs, StorePlaces
<1>7. StoredPlace(b, k, v) = l
  BY <1>3, <1>6 DEF code, StoredPlace
<1>8. \A f : Stored(f, b, k, v) = f[l]
  BY <1>6, <1>7 DEF Stored
<1> QED
  BY <1>3, <1>4, <1>5, <1>8

LEMMA StoredBefore ==
  ASSUME source \in Programs, NEW b \in Block, NEW k \in Nat, k <= End(source, b), NEW v,
         NEW f, NEW g, \A l \in DOMAIN source.code[b] : l < k => f[l] = g[l]
  PROVE  Stored(f, b, k, v) = Stored(g, b, k, v)
<1>1. CASE StoreBefore(source, b, k, v)
  <2>1. PICK m \in Nat : LastStoreAt(source, b, k, v, m)
    BY <1>1, LastStoreExists
  <2>2. PICK l \in Nat : l < m /\ l \in DOMAIN source.code[b] /\ \A h : Stored(h, b, k, v) = h[l]
    BY <2>1, StoredLast
  <2>3. m < k
    BY <2>1 DEF LastStoreAt
  <2>4. f[l] = g[l]
    BY <2>2, <2>3
  <2> QED
    BY <2>2, <2>4
<1>2. CASE ~StoreBefore(source, b, k, v)
  BY <1>2 DEF Stored
<1> QED
  BY <1>1, <1>2

LEMMA RegistersExist ==
  ASSUME source \in Programs, NEW b \in Block, NEW result
  PROVE  \E f : IsRegisters(f, b, result)
<1> DEFINE D == DOMAIN code[b]
           Upto(f, n) == f = [k \in D |-> f[k]] /\ \A k \in 1..n : f[k] = RegisterAt(f, b, result, k)
           K == {n \in 0..Len(code[b]) : \E f : Upto(f, n)}
<1>1. D = 1..Len(code[b]) /\ Len(code[b]) \in Nat
  BY Code DEF code
<1>2. 0 \in K
  <2>1. PICK f : f = [k \in D |-> Undef]
    OBVIOUS
  <2>2. Upto(f, 0)
    BY <2>1
  <2> HIDE DEF Upto
  <2> QED
    BY <1>1, <2>2
<1>3. ASSUME NEW n \in 0..(Len(code[b]) - 1), n \in K PROVE n + 1 \in K
  <2>1. PICK f : Upto(f, n)
    BY <1>3
  <2>2. PICK g : g = [k \in D |-> IF k = n + 1 THEN RegisterAt(f, b, result, k) ELSE f[k]]
    OBVIOUS
  <2>3. g = [k \in D |-> g[k]]
    BY <2>2
  <2>4. ASSUME NEW k \in 1..(n + 1) PROVE g[k] = RegisterAt(g, b, result, k)
    <3>1. k \in Nat /\ k <= n + 1 /\ k \in D /\ k < End(source, b)
      BY <1>1, <1>3 DEF End, code
    <3>2. \A l \in DOMAIN source.code[b] : l < k => f[l] = g[l]
      BY <1>1, <1>3, <2>2, <3>1 DEF code
    <3>3. \A v : Stored(f, b, k, v) = Stored(g, b, k, v)
      BY <3>1, <3>2, StoredBefore, Code DEF End
    <3>4. RegisterAt(g, b, result, k) = RegisterAt(f, b, result, k)
      BY <3>3 DEF RegisterAt
    <3>5. g[k] = RegisterAt(f, b, result, k)
      <4>1. CASE k = n + 1
        BY <2>2, <3>1, <4>1
      <4>2. CASE k # n + 1
        <5>1. k \in 1..n
          BY <1>3, <4>2
        <5>2. f[k] = RegisterAt(f, b, result, k)
          BY <2>1, <5>1
        <5> QED
          BY <2>2, <3>1, <4>2, <5>2
      <4> QED
        BY <4>1, <4>2
    <3> QED
      BY <3>4, <3>5
  <2>5. Upto(g, n + 1)
    BY <2>3, <2>4
  <2>6. n + 1 \in 0..Len(code[b])
    BY <1>1, <1>3
  <2> HIDE DEF Upto
  <2> QED
    BY <2>5, <2>6
<1>4. Len(code[b]) \in K
  <2> HIDE DEF K
  <2>1. \A n \in 0..Len(code[b]) : n \in K
    BY <1>1, <1>2, <1>3, Along
  <2> QED
    BY <1>1, <2>1
<1>5. PICK f : f = [k \in D |-> f[k]] /\ \A k \in 1..Len(code[b]) : f[k] = RegisterAt(f, b, result, k)
  BY <1>4
<1>6. IsRegisters(f, b, result)
  BY <1>1, <1>5 DEF IsRegisters
<1> QED
  BY <1>6

LEMMA RegistersDef ==
  ASSUME source \in Programs, NEW b \in Block, NEW result
  PROVE  IsRegisters(Registers(b, result), b, result)
<1> DEFINE g == CHOOSE f : IsRegisters(f, b, result)
<1>1. IsRegisters(g, b, result)
  BY RegistersExist
<1>2. Registers(b, result) = g
  BY Zenon DEF Registers, IsRegisters, RegisterAt, Stored
<1> QED
  BY <1>1, <1>2

LEMMA RegisterFacts ==
  ASSUME source \in Programs, NEW b \in Block, NEW result, NEW reg, reg = Registers(b, result), NEW j
  PROVE  /\ CallAt(source, b, j) => reg[j] = result[j]
         /\ \A v : LoadAt(source, b, j, v) => reg[j] = Stored(reg, b, j, v)
<1>1. IsRegisters(reg, b, result)
  BY RegistersDef
<1>2. \A k \in DOMAIN source.code[b] : reg[k] = RegisterAt(reg, b, result, k)
  BY <1>1 DEF IsRegisters, code
<1>3. CallAt(source, b, j) => reg[j] = result[j]
  <2> SUFFICES ASSUME CallAt(source, b, j) PROVE reg[j] = result[j]
    OBVIOUS
  <2>1. j \in DOMAIN source.code[b] /\ code[b][j].op = "call"
    BY DEF CallAt, code
  <2>2. RegisterAt(reg, b, result, j) = result[j]
    BY <2>1 DEF RegisterAt
  <2> QED
    BY <1>2, <2>1, <2>2
<1>4. ASSUME NEW v, LoadAt(source, b, j, v) PROVE reg[j] = Stored(reg, b, j, v)
  <2>1. j \in DOMAIN source.code[b] /\ code[b][j].op = "load" /\ code[b][j].var = v
    BY <1>4 DEF LoadAt, code
  <2>2. RegisterAt(reg, b, result, j) = Stored(reg, b, j, v)
    BY <2>1 DEF RegisterAt
  <2> QED
    BY <1>2, <2>1, <2>2
<1> QED
  BY <1>3, <1>4

\* What a use in the block sees with memory, its operand is at the end.
LEMMA RegistersMean ==
  ASSUME Inv, Meaning, RunInv, pc = "done", NEW b \in Block, Entered(b), NEW result,
         NEW reg, reg = Registers(b, result),
         NEW j \in Nat, NEW k \in Nat, UseOf(b, k, j), reg[j] # Undef
  PROVE  operand[b][k] \in Names /\ ValuesAt(b, End(source, b), result)[operand[b][k]] = reg[j]
<1> DEFINE Good(i, l) == operand[b][i] \in Names /\ ValuesAt(b, End(source, b), result)[operand[b][i]] = reg[l]
           K == {l \in Nat : reg[l] # Undef /\ \E i \in Nat : UseOf(b, i, l) /\ ~Good(i, l)}
<1>1. /\ source \in Programs /\ OperandsMean /\ PlacedInv /\ ForwardedBlocks = Block
      /\ \A c \in Block : \A i : Renamed(c, i)
      /\ \A i \in DOMAIN source.code[b] : source.code[b][i].op \in {"call", "out"} => i \in Listed(b)
  BY DoneFacts
<1>2. ASSUME NEW l \in Nat, reg[l] # Undef, NEW i \in Nat, UseOf(b, i, l), \A n \in K : l <= n
      PROVE  Good(i, l)
  <2>0. PICK x : x = operand[b][i]
    OBVIOUS
  <2>1. CallAt(source, b, l) \/ \E v \in Var : LoadAt(source, b, l, v)
    <3>1. Uses(source, b, i) /\ source.code[b][i].val = <<b, l>> /\ i \in DOMAIN source.code[b]
      BY <1>2 DEF UseOf, Uses
    <3>2. PICK n \in Nat : source.code[b][i].val = <<b, n>>
                           /\ (CallAt(source, b, n) \/ \E v \in Var : LoadAt(source, b, n, v))
      BY <1>1, <3>1, ValueBefore
    <3>3. n = l
      BY <3>1, <3>2
    <3> QED
      BY <3>2, <3>3
  <2>2. CASE CallAt(source, b, l)
    <3>1. x = <<b, l>> /\ reg[l] = result[l]
      BY <1>1, <1>2, <2>0, <2>2, RegisterFacts DEF OperandsMean, CallsMean
    <3>2. l \in DOMAIN source.code[b] /\ source.code[b][l].op = "call"
      BY <2>2 DEF CallAt
    <3>3. l \in Calls(b) /\ l \in Listed(b) /\ l < End(source, b)
      BY <1>1, <3>2, Instruction DEF Calls, code
    <3>4. x \in Names
      BY <3>1, <3>3 DEF Names
    <3>5. x \notin Phis /\ x[1] = b /\ x[2] = l
      BY <1>2, <3>1, Kinds DEF Phis
    <3>6. x \in {<<b, n>> : n \in Calls(b) \cap Listed(b)} /\ x[2] < End(source, b)
      BY <3>1, <3>3, <3>5
    <3>7. ValuesAt(b, End(source, b), result)[x] = result[l]
      BY <3>4, <3>5, <3>6 DEF ValuesAt
    <3> QED
      BY <2>0, <3>1, <3>4, <3>7
  <2>3. ASSUME NEW v \in Var, LoadAt(source, b, l, v), StoreBefore(source, b, l, v) PROVE Good(i, l)
    <3>1. PICK m \in Nat : LastStoreAt(source, b, l, v, m)
      BY <1>1, <2>3, LastStoreExists
    <3>2. l < End(source, b)
      BY <1>1, <2>3, Instruction DEF LoadAt
    <3>3. End(source, b) \in Nat /\ l <= End(source, b)
      BY <1>1, <3>2, Code DEF End
    <3>4. PICK n \in Nat : n < m /\ UseOf(b, m, n) /\ \A f : Stored(f, b, l, v) = f[n]
      BY <1>1, <3>1, <3>3, StoredLast
    <3>5. reg[l] = reg[n]
      BY <1>1, <2>3, <3>4, RegisterFacts
    <3>6. n < l
      <4>1. m < l
        BY <3>1 DEF LastStoreAt
      <4> QED
        BY <3>4, <4>1
    <3>7. n \notin K
      BY <1>2, <3>6
    <3>8. Good(m, n)
      BY <1>2, <3>4, <3>5, <3>7
    <3>9. operand[b][i] = operand[b][m]
      BY <1>1, <1>2, <2>3, <3>1 DEF OperandsMean, LocalsMean
    <3> QED
      BY <3>5, <3>8, <3>9
  <2>4. ASSUME NEW v \in Var, LoadAt(source, b, l, v), ~StoreBefore(source, b, l, v) PROVE Good(i, l)
    <3>1. GlobalUse(b, i, l, v)
      BY <1>2, <2>4 DEF GlobalUse
    <3>2. AtStart(b, v, x)
      BY <1>1, <2>0, <3>1 DEF OperandsMean, RenamedMean, GlobalUse, UseOf
    <3>3. reg[l] = memory[v]
      <4>1. reg[l] = Stored(reg, b, l, v)
        BY <1>1, <2>4, RegisterFacts
      <4> QED
        BY <2>4, <4>1 DEF Stored
    <3>4. ClosedPhis(v)
      BY <1>1, <1>2, <2>4 DEF PlacedInv, GlobalVar
    <3>5. x \in Names /\ ValuesAt(b, End(source, b), result)[x] = memory[v]
      BY <1>2, <3>2, <3>3, <3>4, StartValues
    <3> QED
      BY <2>0, <3>3, <3>5
  <2> QED
    BY <2>1, <2>2, <2>3, <2>4
<1>3. K = {}
  <2> SUFFICES ASSUME K # {} PROVE FALSE
    OBVIOUS
  <2>1. K \in SUBSET Nat
    OBVIOUS
  <2>2. PICK l \in K : \A n \in K : l <= n
    <3> HIDE DEF K
    <3> QED
      BY <2>1, LeastMember
  <2>3. PICK i \in Nat : UseOf(b, i, l) /\ ~Good(i, l)
    BY <2>2
  <2> QED
    BY <1>2, <2>2, <2>3
<1> QED
  BY <1>3

\* What a variable holds at the end of the block.
LEMMA MemoryStep ==
  ASSUME Inv, Meaning, RunInv, pc = "done", NEW b \in Block, Entered(b), NEW result,
         NEW reg, reg = Registers(b, result), NEW v \in Var,
         NEW y, y = IF StoreIn(source, b, v) THEN reg[StoredPlace(b, End(source, b), v)] ELSE memory[v], y # Undef
  PROVE  /\ Reached(source, b, End(source, b), v)
         /\ ClosedPhis(v) => \A x : AtEnd(b, v, x) => x \in Names /\ ValuesAt(b, End(source, b), result)[x] = y
<1>1. source \in Programs /\ Filled = Block /\ End(source, b) \in Nat
  <2>1. source \in Programs /\ Filled = Block
    BY DoneFacts
  <2> QED
    BY <2>1, Code DEF End
<1>2. ASSUME NEW x, AtEnd(b, v, x), DefBlock(b, v) PROVE ValueOf(b, v, x)
  <2>1. PICK d \in Block : Nearest(d, b, v) /\ ValueOf(d, v, x)
    BY <1>1, <1>2 DEF AtEnd
  <2>2. Dom(source, d, b) /\ Dom(source, b, d)
    BY <1>1, <1>2, <2>1, DomFacts DEF Nearest
  <2>3. d = b
    BY <1>1, <2>2, DomFacts
  <2> QED
    BY <2>1, <2>3
<1>3. CASE StoreIn(source, b, v)
  <2>1. StoreBefore(source, b, End(source, b), v)
    BY <1>1, <1>3, StorePlaces
  <2>2. PICK m \in Nat : LastStoreAt(source, b, End(source, b), v, m)
    BY <1>1, <2>1, LastStoreExists
  <2>3. PICK l \in Nat : UseOf(b, m, l) /\ \A f : Stored(f, b, End(source, b), v) = f[l]
    BY <1>1, <2>2, StoredLast
  <2>4. y = reg[l]
    BY <1>3, <2>1, <2>3 DEF Stored
  <2>5. operand[b][m] \in Names /\ ValuesAt(b, End(source, b), result)[operand[b][m]] = y
    BY <2>3, <2>4, RegistersMean
  <2>6. ASSUME NEW x, AtEnd(b, v, x) PROVE x = operand[b][m]
    <3>1. ValueOf(b, v, x)
      BY <1>2, <1>3, <2>6 DEF DefBlock
    <3> QED
      BY <2>2, <3>1 DEF ValueOf
  <2> QED
    BY <2>1, <2>5, <2>6 DEF Reached
<1>4. CASE ~StoreIn(source, b, v)
  <2>1. y = memory[v] /\ memory[v] # Undef
    BY <1>4
  <2>2. Reached(source, b, End(source, b), v)
    <3>1. PICK a : a = at_block
      OBVIOUS
    <3>2. a \in Block /\ Edge(source, a, b) /\ MemoryMeans(a)
      BY <2>1, <3>1 DEF RunInv, Entered
    <3>3. Reached(source, a, End(source, a), v)
      BY <2>1, <3>2 DEF MemoryMeans
    <3> QED
      BY <1>1, <3>2, <3>3, ReachedStep
  <2>3. ASSUME NEW x, AtEnd(b, v, x) PROVE AtStart(b, v, x)
    <3>1. CASE v \in phis[b]
      <4>1. ValueOf(b, v, x)
        BY <1>2, <2>3, <3>1 DEF DefBlock
      <4> QED
        BY <1>4, <3>1, <4>1 DEF ValueOf, AtStart
    <3>2. CASE v \notin phis[b]
      <4>1. PICK d \in Filled : Nearest(d, b, v) /\ ValueOf(d, v, x)
        BY <2>3 DEF AtEnd
      <4>2. d # b
        BY <1>4, <3>2, <4>1 DEF Nearest, DefBlock
      <4>3. NearestAbove(d, b, v)
        BY <4>1, <4>2 DEF Nearest, NearestAbove
      <4> QED
        BY <3>2, <4>1, <4>3 DEF AtStart
    <3> QED
      BY <3>1, <3>2
  <2>4. ASSUME ClosedPhis(v), NEW x, AtEnd(b, v, x)
        PROVE  x \in Names /\ ValuesAt(b, End(source, b), result)[x] = y
    <3>1. AtStart(b, v, x)
      BY <2>3, <2>4
    <3> QED
      BY <2>1, <2>4, <3>1, StartValues
  <2> QED
    BY <2>2, <2>4
<1> QED
  BY <1>3, <1>4

\* What an instruction that stays sees in the two functions.
LEMMA SeesSame ==
  ASSUME Inv, Meaning, RunInv, pc = "done", NEW b \in Block, Entered(b), NEW result,
         NEW reg, reg = Registers(b, result), NEW k \in Outs(b), NEW y, y = reg[code[b][k].val[2]], y # Undef
  PROVE  Sees(b, k, result) = y
<1>1. /\ source \in Programs /\ OperandsOK /\ ForwardedBlocks = Block
      /\ \A i \in DOMAIN source.code[b] : source.code[b][i].op \in {"call", "out"} => i \in Listed(b)
      /\ \A i : Renamed(b, i)
  BY DoneFacts
<1>2. k \in DOMAIN source.code[b] /\ source.code[b][k].op = "out" /\ k \in Nat
  <2>1. k \in DOMAIN source.code[b] /\ source.code[b][k].op = "out"
    BY DEF Outs, code
  <2> QED
    BY <1>1, <2>1, Instruction
<1>3. k \in Listed(b) /\ Uses(source, b, k)
  BY <1>1, <1>2 DEF Uses
<1>4. PICK j \in Nat : source.code[b][k].val = <<b, j>>
  BY <1>1, <1>2, Instruction
<1>5. UseOf(b, k, j) /\ y = reg[j]
  BY <1>2, <1>3, <1>4 DEF UseOf, code
<1>6. PICK x : x = operand[b][k]
  OBVIOUS
<1>7. x \in Names /\ ValuesAt(b, End(source, b), result)[x] = y
  BY <1>2, <1>5, <1>6, RegistersMean
<1>8. AtHand(x, b, k)
  <2>1. AtHand(x, b, k) \/ Waiting(x, b, k)
    BY <1>1, <1>2, <1>3, <1>6 DEF OperandsOK, code
  <2> QED
    BY <1>1, <2>1 DEF Waiting
<1>9. ValuesAt(b, k, result)[x] = y
  BY <1>1, <1>2, <1>7, <1>8, LaterSame
<1> QED
  BY <1>3, <1>6, <1>7, <1>9 DEF Sees

-----------------------------------------------------------------------------
(* Every step of the run.                                                  *)

LEMMA MeansKept == ASSUME UNCHANGED vars PROVE \A b, v, x : AtEnd(b, v, x)' <=> AtEnd(b, v, x)
BY DEF vars, forwarding, placing, renaming, AtEnd, Nearest, ValueOf, DefBlock, Filled, Current

LEMMA RunExecute == ASSUME Inv, Meaning, RunInv, SameMeaning, Execute PROVE RunInv' /\ SameMeaning'
<1>1. pc = "done" /\ UNCHANGED vars
  BY DEF Execute
<1>2. PICK b : /\ b \in IF at_block = Null THEN {Root} ELSE succ(at_block)
               /\ \E result \in [Calls(b) -> Datum] :
                    LET end == Len(code[b]) + 1
                        reg == Registers(b, result)
                    IN  /\ at_block' = b
                        /\ memory' = [v \in Var |-> IF StoreIn(source, b, v) THEN reg[StoredPlace(b, end, v)] ELSE memory[v]]
                        /\ env' = ValuesAt(b, end, result)
                        /\ seen' = {<<k, reg[code[b][k].val[2]], Sees(b, k, result)>> : k \in Outs(b)}
  BY DEF Execute
<1>3. b \in Block /\ Entered(b)
  <2>1. CASE at_block = Null
    BY <1>2, <2>1, RootIsBlock DEF Entered
  <2>2. CASE at_block # Null
    <3>1. PICK a : a = at_block
      OBVIOUS
    <3>2. a \in Block /\ b \in succ(a) /\ source \in Programs
      BY <1>2, <2>2, <3>1 DEF RunInv, Inv
    <3>3. Edge(source, a, b)
      BY <3>2 DEF Edge, succ
    <3>4. b \in Block
      BY <3>2, <3>3, Graph
    <3> QED
      BY <2>2, <3>1, <3>3, <3>4 DEF Entered
  <2> QED
    BY <2>1, <2>2
<1>4. PICK result : LET end == Len(code[b]) + 1
                        reg == Registers(b, result)
                    IN  /\ at_block' = b
                        /\ memory' = [v \in Var |-> IF StoreIn(source, b, v) THEN reg[StoredPlace(b, end, v)] ELSE memory[v]]
                        /\ env' = ValuesAt(b, end, result)
                        /\ seen' = {<<k, reg[code[b][k].val[2]], Sees(b, k, result)>> : k \in Outs(b)}
  BY <1>2
<1>5. PICK reg : reg = Registers(b, result)
  OBVIOUS
<1>6. /\ at_block' = b
      /\ memory' = [v \in Var |-> IF StoreIn(source, b, v) THEN reg[StoredPlace(b, End(source, b), v)] ELSE memory[v]]
      /\ env' = ValuesAt(b, End(source, b), result)
      /\ seen' = {<<k, reg[code[b][k].val[2]], Sees(b, k, result)>> : k \in Outs(b)}
  BY <1>4, <1>5 DEF End, code
<1>7. SameMeaning'
  <2>1. ASSUME NEW k \in Outs(b), reg[code[b][k].val[2]] # Undef PROVE Sees(b, k, result) = reg[code[b][k].val[2]]
    BY <1>1, <1>3, <1>5, <2>1, SeesSame
  <2>2. ASSUME NEW o \in seen', o[2] # Undef PROVE o[3] = o[2]
    <3>1. PICK k \in Outs(b) : o = <<k, reg[code[b][k].val[2]], Sees(b, k, result)>>
      BY <1>6, <2>2
    <3>2. o[2] = reg[code[b][k].val[2]] /\ o[3] = Sees(b, k, result)
      BY <3>1
    <3> QED
      BY <2>1, <2>2, <3>2
  <2> QED
    BY <2>2 DEF SameMeaning
<1>8. MemoryMeans(b)'
  <2>1. /\ source' = source
        /\ \A v : ClosedPhis(v)' <=> ClosedPhis(v)
        /\ Names' = Names
    BY <1>1 DEF vars, ClosedPhis, DefBlock, Names, Calls, code
  <2>2. ASSUME NEW v \in Var, memory'[v] # Undef
        PROVE  /\ Reached(source, b, End(source, b), v)
               /\ ClosedPhis(v) => \A x : AtEnd(b, v, x) => x \in Names /\ env'[x] = memory'[v]
    <3>1. PICK y : y = memory'[v]
      OBVIOUS
    <3>2. y = IF StoreIn(source, b, v) THEN reg[StoredPlace(b, End(source, b), v)] ELSE memory[v]
      BY <1>6, <3>1
    <3>3. /\ Reached(source, b, End(source, b), v)
          /\ ClosedPhis(v) => \A x : AtEnd(b, v, x) => x \in Names /\ ValuesAt(b, End(source, b), result)[x] = y
      BY <1>1, <1>3, <1>5, <2>2, <3>1, <3>2, MemoryStep
    <3> QED
      BY <1>6, <3>1, <3>3
  <2>3. \A v, x : AtEnd(b, v, x)' <=> AtEnd(b, v, x)
    BY <1>1, MeansKept
  <2> QED
    BY <2>1, <2>2, <2>3 DEF MemoryMeans
<1>9. RunInv'
  <2>1. b # Null
    BY <1>3, NullAssumption
  <2>2. pc' = "done"
    BY <1>1 DEF vars
  <2>3. PICK c : c = b
    OBVIOUS
  <2>4. at_block' = c /\ c \in Block /\ c # Null /\ MemoryMeans(c)'
    BY <1>3, <1>6, <1>8, <2>1, <2>3
  <2>5. MemoryMeans(at_block)'
    BY <2>4
  <2> QED
    BY <2>2, <2>4, <2>5 DEF RunInv
<1> QED
  BY <1>7, <1>9

LEMMA RunPass == ASSUME RunInv, SameMeaning, Pass \/ UNCHANGED vars, UNCHANGED run PROVE RunInv' /\ SameMeaning'
<1>1. at_block' = at_block /\ memory' = memory /\ env' = env /\ seen' = seen
  BY DEF run
<1>2. SameMeaning'
  BY <1>1 DEF SameMeaning
<1>3. CASE Pass
  <2>1. pc # "done"
    <3>1. CASE ScanStore \/ ScanLoad \/ ScanOther \/ ForwardBlock
      BY <3>1 DEF ScanStore, ScanLoad, ScanOther, ForwardBlock, Scanning
    <3>2. CASE CollectGlobals \/ StartVar \/ PlacePhis \/ StartRenaming
      BY <3>2 DEF CollectGlobals, StartVar, PlacePhis, StartRenaming
    <3>3. CASE RenameLoad \/ RenameStore \/ RenameOther \/ FillPhis
      BY <3>3 DEF RenameLoad, RenameStore, RenameOther, FillPhis, Renaming
    <3>4. CASE Descend \/ Return \/ RemoveAlloc
      BY <3>4 DEF Descend, Return, RemoveAlloc
    <3> QED
      BY <1>3, <3>1, <3>2, <3>3, <3>4 DEF Pass
  <2> QED
    BY <1>1, <1>2, <2>1 DEF RunInv
<1>4. CASE UNCHANGED vars
  <2>1. PICK b : b = at_block
    OBVIOUS
  <2>2. pc' = pc /\ source' = source
    BY <1>4 DEF vars
  <2>3. MemoryMeans(b) => MemoryMeans(b)'
    <3>1. /\ \A v : ClosedPhis(v)' <=> ClosedPhis(v)
          /\ Names' = Names
      BY <1>4 DEF vars, ClosedPhis, DefBlock, Names, Calls, code
    <3>2. \A v, x : AtEnd(b, v, x)' <=> AtEnd(b, v, x)
      BY <1>4, MeansKept
    <3> QED
      BY <1>1, <2>2, <3>1, <3>2 DEF MemoryMeans
  <2>4. at_block' = b
    BY <1>1, <2>1
  <2>5. b # Null => MemoryMeans(at_block)'
    <3>1. b # Null => MemoryMeans(b)'
      BY <2>1, <2>3 DEF RunInv
    <3> QED
      BY <2>4, <3>1
  <2>6. RunInv'
    BY <1>1, <2>1, <2>2, <2>4, <2>5 DEF RunInv
  <2> QED
    BY <1>2, <2>6
<1> QED
  BY <1>3, <1>4

\* On every path of every function that Mem2Reg may be given, and for whatever
\* data the calls return, each instruction that is left sees the same value after
\* the pass as it did before, wherever it saw a defined one: insideBlockForwarding,
\* genPhi and valueForwarding (Mem2Reg.cpp:23-223) change no result.
THEOREM MeaningKept == SpecRun => []SameMeaning
<1> DEFINE I == Inv /\ Meaning /\ RunInv /\ SameMeaning
<1>1. InitRun => I
  <2> SUFFICES ASSUME InitRun PROVE I
    OBVIOUS
  <2>1. Init /\ at_block = Null /\ memory = [v \in Var |-> Undef] /\ seen = {}
    BY DEF InitRun
  <2>2. Inv /\ Meaning
    BY <2>1, InitInv, InitMeaning
  <2>3. RunInv /\ SameMeaning
    BY <2>1 DEF RunInv, SameMeaning
  <2> QED
    BY <2>2, <2>3
<1>2. I /\ [NextRun]_<<vars, run>> => I'
  <2> SUFFICES ASSUME I, [NextRun]_<<vars, run>> PROVE I'
    OBVIOUS
  <2>1. ((Pass \/ UNCHANGED vars) /\ UNCHANGED run) \/ Execute
    BY DEF NextRun, Halt
  <2>2. [Next]_vars
    BY <2>1 DEF Next, Execute
  <2>3. Inv' /\ Meaning'
    BY <2>2, NextInv, NextMeaning
  <2>4. RunInv' /\ SameMeaning'
    <3>1. CASE Execute
      BY <3>1, RunExecute
    <3>2. CASE (Pass \/ UNCHANGED vars) /\ UNCHANGED run
      BY <3>2, RunPass
    <3> QED
      BY <2>1, <3>1, <3>2
  <2> QED
    BY <2>3, <2>4
<1>3. I => SameMeaning
  OBVIOUS
<1> HIDE DEF I
<1> QED
  BY <1>1, <1>2, <1>3, PTL DEF SpecRun
=============================================================================
