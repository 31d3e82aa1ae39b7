-------------------------- MODULE IRBuilderProofs --------------------------
(***************************************************************************)
(* Proofs about IRBuilder, for functions of any size: the graph and the    *)
(* code agree at every moment (GraphInStep), a finished function is well   *)
(* formed (WellFormed), break and continue belong to the innermost loop    *)
(* (JumpsInnermost), and the shared variables are restored                 *)
(* (StateRestored).                                                        *)
(*                                                                         *)
(* The invariant has two halves.  Sound says of a function under           *)
(* construction, its insert block and the blocks that are created but not  *)
(* yet begun what each operation on the graph preserves; it does not       *)
(* mention the visitor.  The other half relates the stack of visit calls   *)
(* to the shared variables, and says which blocks the calls hold.          *)
(***************************************************************************)
EXTENDS IRBuilder, CfgProofs, SequenceTheorems

-----------------------------------------------------------------------------
(* The function under construction.                                        *)

Instructions ==
  {<<"op">>, <<"alloca">>, <<"ret">>} \cup ({"test"} \X Nat)
    \cup ({"br"} \X BlockIds) \cup ({"br"} \X BlockIds \X BlockIds)

FnType == [blocks : SUBSET BlockIds, n : Nat,
           pre : [BlockIds -> Seq(BlockIds)], succ : [BlockIds -> Seq(BlockIds)],
           code : [BlockIds -> Seq(Instructions)]]

Succ(f) == [b \in f.blocks |-> ToSet(f.succ[b])]
Pred(f) == [b \in f.blocks |-> ToSet(f.pre[b])]

\* Blocks that are not in the function, erased or not created, are blank.
Created(f) ==
  /\ f.blocks \subseteq 1..f.n /\ f.n <= MaxBlocks
  /\ \A b \in BlockIds \ f.blocks : f.pre[b] = <<>> /\ f.succ[b] = <<>> /\ f.code[b] = <<>>

\* The successors of b are what its terminator says.
SuccessorsMatch(f, b) ==
  \/ ~Terminated(f, b) /\ f.succ[b] = <<>>
  \/ f.code[b] # <<>> /\ Last(f.code[b]) = <<"ret">> /\ f.succ[b] = <<>>
  \/ f.code[b] # <<>> /\ \E t \in BlockIds : Last(f.code[b]) = <<"br", t>> /\ f.succ[b] = <<t>>
  \/ f.code[b] # <<>> /\ \E t, e \in BlockIds :
       Last(f.code[b]) = <<"br", t, e>> /\ f.succ[b] = <<e, t>>

CodeSound(f) ==
  \A b \in BlockIds :
    /\ \A k \in 1..(Len(f.code[b]) - 1) : ~IsTerminator(f.code[b][k])
    /\ SuccessorsMatch(f, b)
    /\ \A k \in DOMAIN f.code[b] : /\ f.code[b][k] = <<"alloca">> => b = Entry
                                   /\ f.code[b][k] = <<"ret">> => b = Ret

TargetsSound(f) == \A b \in BlockIds : ToSet(f.succ[b]) \subseteq f.blocks \ {Entry}

Symmetric(f) ==
  \A a, b \in BlockIds : Occurrences(f.succ[a], b) = Occurrences(f.pre[b], a)

\* in is the insert block and P the blocks still to be begun: every other one
\* is complete.
Working(f, in, P) ==
  /\ {Entry, Ret, in} \subseteq f.blocks
  /\ P \subseteq f.blocks \ {Entry, in}
  /\ \A b \in P : f.code[b] = <<>>
  /\ \A b \in f.blocks \ (P \cup {in}) : Terminated(f, b)

Dom(f, h, b) == Dominates(f.blocks, Succ(f), Entry, h, b)

\* What has been begun is reachable.
Forward(f, P) == f.blocks \ P \subseteq ReachIn(f.blocks, Succ(f), Entry)

\* A path leads from b into E.
LeadsTo(f, b, E) ==
  \A X \in SUBSET f.blocks :
    E \subseteq X /\ (\A a \in f.blocks : ToSet(f.succ[a]) \cap X # {} => a \in X) => b \in X

\* Where paths may end for now.
Exits(f, in, P) == P \cup {Ret} \cup (IF Terminated(f, in) THEN {} ELSE {in})

Backward(f, in, P) == \A b \in f.blocks : LeadsTo(f, b, Exits(f, in, P))

\* Z pairs the heads of open loops with blocks that they lead to.
Repeats(f, Z) ==
  /\ Z \subseteq f.blocks \X f.blocks
  /\ \A h, b \in f.blocks : <<h, b>> \in Z => LeadsTo(f, h, {b})

\* O pairs the heads of open loops with blocks that they dominate, the insert
\* block among them.
Entered(f, in, O) ==
  /\ O \subseteq f.blocks \X f.blocks
  /\ \A h, b \in f.blocks :
       <<h, b>> \in O => <<h, in>> \in O /\ Dom(f, h, b)

NoSelfLoop(f) == \A b \in f.blocks : b \notin ToSet(f.succ[b])

\* No cycle but through an edge to a dominator: every set of blocks has one
\* that no other edge leads from into the set.
Structured(f) ==
  \A X \in (SUBSET f.blocks) \ {{}} : \E a \in X :
    \A c \in ToSet(f.succ[a]) \cap X : Dom(f, c, a)

Sound(f, in, P, Z, O) ==
  /\ f \in FnType
  /\ Created(f) /\ CodeSound(f) /\ TargetsSound(f) /\ Symmetric(f)
  /\ Working(f, in, P)
  /\ Forward(f, P) /\ Backward(f, in, P) /\ Repeats(f, Z)
  /\ Entered(f, in, O) /\ NoSelfLoop(f) /\ Structured(f)

-----------------------------------------------------------------------------
(* The stack of visit calls, numbered from the bottom.                     *)

FrameType ==
  [visit : {"FuncDef", "FuncDefExit", "Block"}]
    \cup [visit : {"Items"}, need_exit_scope : BOOLEAN, first : BOOLEAN]
    \cup [visit : {"Stmt"}, item : BOOLEAN]
    \cup [visit : {"Cond"}, level : {"LOr", "LAnd", "Eq"}]
    \cup [visit : {"LOrRhs"}, falseBB : BlockIds]
    \cup [visit : {"LAndRhs"}, trueBB : BlockIds]
    \cup [visit : {"IfCond", "IfThen", "IfElse"}, has_else : BOOLEAN, block : BOOLEAN,
          trueBB : BlockIds, falseBB : BlockIds, nextBB : BlockIds]
    \cup [visit : {"WhileCond", "WhileBody"}, block : BOOLEAN,
          whileBB : BlockIds, trueBB : BlockIds, nextBB : BlockIds]

InCond(fr)  == fr.visit \in {"Cond", "LOrRhs", "LAndRhs"}
HasCond(fr) == fr.visit \in {"IfCond", "WhileCond"}
IsIf(fr)    == fr.visit \in {"IfCond", "IfThen", "IfElse"}
IsWhile(fr) == fr.visit \in {"WhileCond", "WhileBody"}

\* The calls that go on behind a statement, whatever it did.
Resumes(fr) ==
  fr.visit \in {"FuncDefExit", "IfThen", "IfElse", "WhileBody"} \/ (fr.visit = "Items" /\ ~fr.first)

\* The blocks that a call has created and will begin, and those it has begun.
Pending(fr) ==
  {b \in BlockIds :
     \/ fr.visit = "FuncDefExit" /\ b = Ret
     \/ fr.visit = "LOrRhs" /\ b = fr.falseBB
     \/ fr.visit = "LAndRhs" /\ b = fr.trueBB
     \/ fr.visit = "IfCond" /\ b \in {fr.trueBB, fr.falseBB, fr.nextBB}
     \/ fr.visit = "IfThen" /\ b \in {fr.falseBB, fr.nextBB}
     \/ fr.visit = "IfElse" /\ b = fr.nextBB
     \/ fr.visit = "WhileCond" /\ b \in {fr.trueBB, fr.nextBB}
     \/ fr.visit = "WhileBody" /\ b = fr.nextBB}

Begun(fr) ==
  {b \in BlockIds :
     \/ fr.visit = "FuncDefExit" /\ b = Entry
     \/ fr.visit \in {"IfThen", "IfElse"} /\ b = fr.trueBB
     \/ IsWhile(fr) /\ b = fr.whileBB}

Owned(fr) == Pending(fr) \cup Begun(fr)

Depths(c)   == 1..Len(c)
Frame(c, p) == c[Len(c) + 1 - p]

Loops(c)  == {p \in Depths(c) : IsWhile(Frame(c, p))}
Conds(c)  == {p \in Depths(c) : HasCond(Frame(c, p))}

AllPending(c) == UNION {Pending(Frame(c, p)) : p \in Depths(c)}
AllOwned(c)   == UNION {Owned(Frame(c, p)) : p \in Depths(c)}

\* What the head of an open loop leads to, and what it dominates.
LeadTo(fr, in) == IF fr.visit = "WhileCond" THEN in ELSE fr.nextBB

Returns(c, in) == {<<Frame(c, p).whileBB, LeadTo(Frame(c, p), in)>> : p \in Loops(c)}

Inside(c, p) ==
  (Pending(Frame(c, p)) \ {Frame(c, p).nextBB}) \cup UNION {Owned(Frame(c, q)) : q \in (p + 1)..Len(c)}

Dominated(c, in) == UNION {{Frame(c, p).whileBB} \X ({in} \cup Inside(c, p)) : p \in Loops(c)}

-----------------------------------------------------------------------------
(* The invariant.                                                          *)

\* What may lie under a call.
Shape(c) ==
  \A p \in Depths(c) :
    /\ Frame(c, p).visit = "FuncDefExit" <=> p = 1
    /\ Frame(c, p).visit # "FuncDef"
    /\ p > 1 /\ ~InCond(Frame(c, p)) => Resumes(Frame(c, p - 1))
    /\ InCond(Frame(c, p)) <=> \E q \in Conds(c) : q < p

\* The blocks that the calls hold.
Distinct(fr) ==
  /\ IsIf(fr) => fr.trueBB # fr.falseBB /\ fr.trueBB # fr.nextBB /\ fr.falseBB # fr.nextBB
  /\ IsWhile(fr) => fr.whileBB # fr.trueBB /\ fr.whileBB # fr.nextBB /\ fr.trueBB # fr.nextBB

Holding(c, f) ==
  \A p \in Depths(c) :
    /\ Owned(Frame(c, p)) \subseteq f.blocks
    /\ Distinct(Frame(c, p))
    /\ \A q \in Depths(c) : p # q => Owned(Frame(c, p)) \cap Owned(Frame(c, q)) = {}

\* Which of them are branched to.
BranchedFor(fr, f, in) ==
  /\ fr.visit \in {"IfCond", "IfThen"} /\ ~fr.has_else => f.pre[fr.falseBB] = <<>>
  /\ fr.visit = "IfThen" /\ fr.has_else => f.pre[fr.falseBB] # <<>>
  /\ fr.visit = "WhileBody" => f.pre[fr.nextBB] # <<>> /\ in # fr.whileBB

Branched(c, f, in) == \A p \in Depths(c) : BranchedFor(Frame(c, p), f, in)

\* Only the calls that go on anyway find a terminated insert block, and outside
\* of loops that means a return.
Open(c, f, in) ==
  c # <<>> /\ Terminated(f, in) => Resumes(Head(c)) /\ (Loops(c) = {} => f.pre[Ret] # <<>>)

\* How many of the depths up to p are in T.
Count(T, p) == Cardinality(T \cap 1..p)

Scoped(fr) ==
  \/ fr.visit = "FuncDefExit"
  \/ fr.visit = "Items" /\ fr.need_exit_scope
  \/ fr.visit \in {"IfThen", "IfElse", "WhileBody"} /\ ~fr.block

Scopeds(c) == {p \in Depths(c) : Scoped(Frame(c, p))}

ScopeMatches(c, sc) == sc = 1 + Count(Scopeds(c), Len(c))

Targets(fr) == [trueBB |-> fr.whileBB, falseBB |-> fr.nextBB]

LoopsMatch(c, ws) ==
  /\ Len(ws) = Count(Loops(c), Len(c))
  /\ \A p \in Loops(c) : ws[Count(Loops(c), p)] = Targets(Frame(c, p))

Pushed(fr) == HasCond(fr) \/ fr.visit = "LOrRhs"

FalseOf(fr) ==
  IF fr.visit = "LOrRhs" \/ (fr.visit = "IfCond" /\ fr.has_else) THEN fr.falseBB ELSE fr.nextBB

Ors(c) == {p \in Depths(c) : Pushed(Frame(c, p))}

OrsMatch(c, os) ==
  /\ Len(os) = Count(Ors(c), Len(c))
  /\ \A p \in Ors(c) : os[Count(Ors(c), p)].falseBB = FalseOf(Frame(c, p))
  /\ \A i \in DOMAIN os : \A p \in Conds(c) : os[i].trueBB = Frame(c, p).trueBB

\* While the condition of a loop is visited there is no current block.
Emptied(c) == \E p \in Depths(c) : Frame(c, p).visit = "WhileCond"

ListMatches(c, f, in, list) ==
  /\ IF c = <<>> \/ Emptied(c)
     THEN list = <<>> ELSE \E b \in 1..f.n : list = <<b>>
  /\ c # <<>> /\ ~InCond(Head(c)) /\ ~HasCond(Head(c)) /\ ~Terminated(f, in) => list = <<in>>

\* The shared variables sc, ws and os belong to the stack c.
Matches(c, sc, ws, os) == ScopeMatches(c, sc) /\ LoopsMatch(c, ws) /\ OrsMatch(c, os)

\* The graph f belongs to the stack c.
Fits(c, f, in) ==
  /\ Sound(f, in, AllPending(c), Returns(c, in), Dominated(c, in))
  /\ Holding(c, f) /\ Branched(c, f, in)

Builds(c, f, in) == Fits(c, f, in) /\ Shape(c) /\ Open(c, f, in)

Tokens   == {<<"or">>, <<"and">>} \cup ({"leaf"} \X Nat)
CondType == [start : Nat, prefix : Seq(Tokens)]

\* The shared variables list, ws, os and sc, the graph and the stack agree.
Agrees(c, f, in, list, ws, os, sc) ==
  /\ c \in Seq(FrameType) /\ ws \in Seq(Branch) /\ os \in Seq(Branch) /\ sc \in Nat
  /\ Builds(c, f, in) /\ Matches(c, sc, ws, os) /\ ListMatches(c, f, in, list)

Starting ==
  /\ calls = <<[visit |-> "FuncDef"]>>
  /\ fn = EmptyFn /\ insert = 0 /\ cur_basic_block_list = <<>>
  /\ while_stack = <<>> /\ or_stack = <<>> /\ scope = 1 /\ ~pre_enter_scope

Running ==
  /\ Agrees(calls, fn, insert, cur_basic_block_list, while_stack, or_stack, scope)
  /\ calls = <<>> => insert = Ret /\ Terminated(fn, Ret) /\ Last(fn.code[Ret]) = <<"ret">>
  /\ pre_enter_scope => calls = <<[visit |-> "Block"], [visit |-> "FuncDefExit"]>>

\* What the bounds leave is enough for the blocks that may still be created.
Within(n, st, cn) ==
  /\ st \in Nat /\ cn \in Nat
  /\ \E b \in Bounds : st <= b[1] /\ cn <= b[2] /\ n + 3 * st + cn <= 2 + 3 * b[1] + b[2]

Inv ==
  /\ void \in BOOLEAN /\ pre_enter_scope \in BOOLEAN
  /\ cond \in CondType
  /\ (Starting /\ Within(2, stmts, conns)) \/ (Running /\ Within(fn.n, stmts, conns))

-----------------------------------------------------------------------------
(* Numbers, counts and sequences.                                          *)

\* A finite set of numbers has a greatest one.
LEMMA MaxMember ==
  ASSUME NEW K \in SUBSET Nat, IsFiniteSet(K), K # {}
  PROVE  Max(K) \in K /\ \A k \in K : k <= Max(K)
<1> DEFINE Bad == {Y \in SUBSET K : Y # {} /\ \A m \in Y : \E y \in Y : y > m}
           R   == StrictSubsetOrdering(K)
<1>1. Bad = {}
  <2> SUFFICES ASSUME Bad # {} PROVE FALSE
    OBVIOUS
  <2>1. IsWellFoundedOn(R, FiniteSubsetsOf(K))
    BY FS_StrictSubsetOrderingWellFounded
  <2>2. FiniteSubsetsOf(K) = SUBSET K
    BY FS_FiniteSubsetsOfFinite
  <2>3. \E Y \in Bad : \A Z \in Bad : <<Z, Y>> \notin R
    <3>1. Bad \subseteq FiniteSubsetsOf(K)
      BY <2>2
    <3> HIDE DEF R, Bad
    <3> QED BY <2>1, <3>1, WFMin
  <2>4. PICK Y \in Bad : \A Z \in Bad : <<Z, Y>> \notin R
    BY <2>3
  <2>5. PICK m \in Y : TRUE
    OBVIOUS
  <2>6. Y \ {m} # {} /\ Y \ {m} \in SUBSET K
    OBVIOUS
  <2>7. Y \ {m} \notin Bad
    BY <2>4, <2>5, <2>6 DEF StrictSubsetOrdering
  <2>8. PICK n \in Y \ {m} : \A y \in Y \ {m} : ~(y > n)
    BY <2>6, <2>7
  <2>9. m \in Nat /\ n \in Nat
    OBVIOUS
  <2>10. \E k \in Y : \A y \in Y : ~(y > k)
    <3>1. CASE m > n
      <4>1. \A y \in Y : ~(y > m)
        BY <2>8, <2>9, <3>1
      <4> QED BY <4>1, <2>5
    <3>2. CASE ~(m > n)
      BY <2>8, <3>2
    <3> QED BY <3>1, <3>2
  <2> QED BY <2>10
<1>2. K \notin Bad
  BY <1>1
<1>3. \E m \in K : \A y \in K : m >= y
  BY <1>2
<1> QED BY <1>3 DEF Max

LEMMA BlocksNat ==
  /\ Bounds # {} => MaxBlocks \in Nat
  /\ \A b \in Bounds : 2 + 3 * b[1] + b[2] <= MaxBlocks
<1> DEFINE K == {2 + 3 * b[1] + b[2] : b \in Bounds}
<1>1. \A b \in Bounds : b[1] \in Nat /\ b[2] \in Nat
  BY BoundsNat
<1>2. K \in SUBSET Nat
  BY <1>1
<1>3. IsFiniteSet(K)
  <2> DEFINE g == [b \in Bounds |-> 2 + 3 * b[1] + b[2]]
  <2>1. g \in Surjection(Bounds, K)
    BY DEF Surjection
  <2> HIDE DEF g, K
  <2> QED BY <2>1, BoundsNat, FS_Surjection
<1> QED BY <1>2, <1>3, MaxMember DEF MaxBlocks

LEMMA OccurrencesNat ==
  ASSUME NEW V, NEW s \in Seq(V), NEW x
  PROVE  Occurrences(s, x) \in Nat /\ (Occurrences(s, x) = 0 <=> x \notin ToSet(s))
<1> DEFINE K == {k \in DOMAIN s : s[k] = x}
<1>1. IsFiniteSet(K)
  <2>1. DOMAIN s = 1..Len(s) /\ Len(s) \in Nat
    OBVIOUS
  <2>2. IsFiniteSet(1..Len(s))
    BY <2>1, FS_Interval
  <2> QED BY <2>1, <2>2, FS_Subset
<1>2. K = {} <=> x \notin ToSet(s)
  BY DEF ToSet
<1> HIDE DEF K
<1>3. Cardinality(K) \in Nat /\ (Cardinality(K) = 0 <=> K = {})
  BY <1>1, FS_CardinalityType, FS_EmptySet
<1> QED BY <1>2, <1>3 DEF K, Occurrences

LEMMA OccurrencesAppend ==
  ASSUME NEW V, NEW s \in Seq(V), NEW e \in V, NEW x
  PROVE  Occurrences(Append(s, e), x) = Occurrences(s, x) + (IF e = x THEN 1 ELSE 0)
<1> DEFINE K == {k \in DOMAIN s : s[k] = x}
           n == Len(s) + 1
<1>0. DOMAIN s = 1..Len(s) /\ Len(s) \in Nat
  OBVIOUS
<1>1. IsFiniteSet(K) /\ Cardinality(K) \in Nat
  <2>1. IsFiniteSet(1..Len(s))
    BY <1>0, FS_Interval
  <2> QED BY <1>0, <2>1, FS_Subset, FS_CardinalityType
<1>2. DOMAIN Append(s, e) = 1..n /\ Append(s, e)[n] = e /\ \A k \in 1..Len(s) : Append(s, e)[k] = s[k]
  OBVIOUS
<1>3. {k \in DOMAIN Append(s, e) : Append(s, e)[k] = x} = IF e = x THEN K \cup {n} ELSE K
  BY <1>0, <1>2
<1>4. n \notin K
  BY <1>0
<1> HIDE DEF K, n
<1>5. Cardinality(K \cup {n}) = Cardinality(K) + 1
  BY <1>1, <1>4, FS_AddElement
<1>6. Occurrences(s, x) = Cardinality(K)
  BY DEF K, Occurrences
<1>7. Occurrences(Append(s, e), x) = Cardinality(IF e = x THEN K \cup {n} ELSE K)
  BY <1>3 DEF Occurrences
<1> QED BY <1>1, <1>5, <1>6, <1>7

LEMMA Appended ==
  ASSUME NEW V, NEW s \in Seq(V), NEW e \in V
  PROVE  /\ Append(s, e) \in Seq(V) /\ Append(s, e) # <<>>
         /\ Len(Append(s, e)) = Len(s) + 1
         /\ Last(Append(s, e)) = e /\ Front(Append(s, e)) = s
         /\ ToSet(Append(s, e)) = ToSet(s) \cup {e}
         /\ \A k \in 1..Len(s) : Append(s, e)[k] = s[k]
<1>1. Append(s, e) \in Seq(V) /\ Len(Append(s, e)) = Len(s) + 1
  OBVIOUS
<1>2. Append(s, e)[Len(s) + 1] = e /\ \A k \in 1..Len(s) : Append(s, e)[k] = s[k]
  OBVIOUS
<1>3. Append(s, e) # <<>>
  <2>1. Len(Append(s, e)) # 0 /\ Len(<<>>) = 0
    BY <1>1
  <2> QED BY <2>1
<1>4. Last(Append(s, e)) = e
  BY <1>1, <1>2 DEF Last
<1>5. SubSeq(Append(s, e), 1, Len(s)) = s
  OBVIOUS
<1>6. Front(Append(s, e)) = s
  <2>1. Len(s) + 1 - 1 = Len(s)
    OBVIOUS
  <2> QED BY <1>1, <1>5, <2>1 DEF Front
<1>7. ToSet(Append(s, e)) = ToSet(s) \cup {e}
  <2>1. DOMAIN s = 1..Len(s) /\ DOMAIN Append(s, e) = 1..(Len(s) + 1) /\ Len(s) \in Nat
    BY <1>1
  <2> QED BY <1>2, <2>1 DEF ToSet
<1> QED BY <1>1, <1>2, <1>3, <1>4, <1>6, <1>7

LEMMA Shortened ==
  ASSUME NEW V, NEW s \in Seq(V), s # <<>>
  PROVE  /\ Front(s) \in Seq(V) /\ Len(Front(s)) = Len(s) - 1
         /\ Last(s) \in V /\ Len(s) \in DOMAIN s /\ Len(s) >= 1
         /\ \A k \in 1..(Len(s) - 1) : Front(s)[k] = s[k]
         /\ Append(Front(s), Last(s)) = s
<1>1. Len(s) \in Nat /\ Len(s) >= 1 /\ DOMAIN s = 1..Len(s)
  OBVIOUS
<1>2. SubSeq(s, 1, Len(s) - 1) \in Seq(V) /\ Len(SubSeq(s, 1, Len(s) - 1)) = Len(s) - 1
  BY <1>1
<1>3. \A k \in 1..(Len(s) - 1) : SubSeq(s, 1, Len(s) - 1)[k] = s[k]
  BY <1>1
<1>4. s[Len(s)] \in V
  BY <1>1
<1>5. Append(SubSeq(s, 1, Len(s) - 1), s[Len(s)]) = s
  BY <1>1
<1> QED BY <1>1, <1>2, <1>3, <1>4, <1>5 DEF Front, Last

LEMMA WithCode ==
  ASSUME NEW f \in FnType, NEW c \in [BlockIds -> Seq(Instructions)]
  PROVE  LET g == [f EXCEPT !.code = c] IN
         /\ g \in FnType /\ g.code = c
         /\ g.blocks = f.blocks /\ g.n = f.n /\ g.pre = f.pre /\ g.succ = f.succ
  BY DEF FnType

LEMMA AppendedTwo ==
  \A s \in Seq(BlockIds) : \A d, e \in BlockIds : s \o <<d, e>> = Append(Append(s, d), e)
  OBVIOUS

LEMMA PutFacts ==
  ASSUME NEW f \in FnType, NEW b \in BlockIds, NEW i \in Instructions
  PROVE  LET g == Put(f, b, i) IN
         /\ g \in FnType
         /\ g.blocks = f.blocks /\ g.n = f.n /\ g.pre = f.pre /\ g.succ = f.succ
         /\ g.code[b] = Append(f.code[b], i)
         /\ \A a \in BlockIds \ {b} : g.code[a] = f.code[a]
<1> DEFINE g == Put(f, b, i)
<1>1. f.code \in [BlockIds -> Seq(Instructions)]
  BY DEF FnType
<1>2. f.code[b] \in Seq(Instructions)
  BY <1>1
<1>3. Append(f.code[b], i) \in Seq(Instructions)
  BY <1>2, Appended
<1>4. PICK c : c = [f.code EXCEPT ![b] = Append(f.code[b], i)]
  OBVIOUS
<1>5. c \in [BlockIds -> Seq(Instructions)] /\ c[b] = Append(f.code[b], i)
  BY <1>1, <1>3, <1>4
<1>6. g = [f EXCEPT !.code = c]
  BY <1>4 DEF Put, FnType
<1>61. g \in FnType /\ g.code = c
       /\ g.blocks = f.blocks /\ g.n = f.n /\ g.pre = f.pre /\ g.succ = f.succ
  BY <1>5, <1>6, WithCode
<1>7. g.code[b] = Append(f.code[b], i) /\ \A a \in BlockIds \ {b} : g.code[a] = f.code[a]
  BY <1>1, <1>4, <1>5, <1>61
<1> QED BY <1>61, <1>7

LEMMA PutEnds ==
  ASSUME NEW f \in FnType, NEW b \in BlockIds, NEW i \in Instructions
  PROVE  /\ Terminated(Put(f, b, i), b) <=> IsTerminator(i)
         /\ \A a \in BlockIds \ {b} : Terminated(Put(f, b, i), a) <=> Terminated(f, a)
<1>1. PICK g : g = Put(f, b, i)
  OBVIOUS
<1>2. g.code[b] = Append(f.code[b], i) /\ \A a \in BlockIds \ {b} : g.code[a] = f.code[a]
  BY <1>1, PutFacts
<1>3. f.code[b] \in Seq(Instructions)
  BY DEF FnType
<1>4. Append(f.code[b], i) # <<>> /\ Last(Append(f.code[b], i)) = i
  BY <1>3, Appended
<1> QED BY <1>1, <1>2, <1>4 DEF Terminated

LEMMA AppendedBoth == \A d, e \in BlockIds : Append(Append(<<>>, d), e) = <<d, e>>
<1> SUFFICES ASSUME NEW d \in BlockIds, NEW e \in BlockIds PROVE Append(Append(<<>>, d), e) = <<d, e>>
  OBVIOUS
<1>1. <<>> \o <<d, e>> = Append(Append(<<>>, d), e)
  <2>1. <<>> \in Seq(BlockIds)
    OBVIOUS
  <2> QED BY <2>1, AppendedTwo
<1>2. <<>> \o <<d, e>> = <<d, e>>
  OBVIOUS
<1> QED BY <1>1, <1>2

Jump(t)      == <<"br", t>>
Choice(t, e) == <<"br", t, e>>

LEMMA JumpFacts ==
  \A t, e \in BlockIds : \A i \in {Jump(t), Choice(t, e)} :
    i \in Instructions /\ IsTerminator(i) /\ i # <<"alloca">> /\ i # <<"ret">>
<1> SUFFICES ASSUME NEW t \in BlockIds, NEW e \in BlockIds
             PROVE  \A i \in {Jump(t), Choice(t, e)} :
                      i \in Instructions /\ IsTerminator(i) /\ i # <<"alloca">> /\ i # <<"ret">>
  OBVIOUS
<1>1. ASSUME NEW i, i[1] = "br" PROVE IsTerminator(i) /\ i # <<"alloca">> /\ i # <<"ret">>
  <2>1. <<"alloca">>[1] = "alloca" /\ <<"ret">>[1] = "ret"
    OBVIOUS
  <2> QED BY <1>1, <2>1 DEF IsTerminator
<1>2. Jump(t)[1] = "br" /\ Choice(t, e)[1] = "br"
  BY DEF Jump, Choice
<1>3. Jump(t) \in Instructions
  BY DEF Jump, Instructions
<1>4. Choice(t, e) \in Instructions
  BY DEF Choice, Instructions
<1> QED BY <1>1, <1>2, <1>3, <1>4

\* What a branch does: the lists of its ends, and its instruction at the end of b.
Branches(f, b, g, i) ==
  /\ g \in FnType /\ g.blocks = f.blocks /\ g.n = f.n
  /\ g.code[b] = Append(f.code[b], i) /\ \A a \in BlockIds \ {b} : g.code[a] = f.code[a]

JumpsTo(f, b, t, g) ==
  /\ g.pre[t] = Append(f.pre[t], b) /\ \A a \in BlockIds \ {t} : g.pre[a] = f.pre[a]
  /\ g.succ[b] = Append(f.succ[b], t) /\ \A a \in BlockIds \ {b} : g.succ[a] = f.succ[a]

Chooses(f, b, t, e, g) ==
  /\ \E p \in [BlockIds -> Seq(BlockIds)] :
       /\ p[t] = Append(f.pre[t], b) /\ \A a \in BlockIds \ {t} : p[a] = f.pre[a]
       /\ g.pre[e] = Append(p[e], b) /\ \A a \in BlockIds \ {e} : g.pre[a] = p[a]
  /\ g.succ[b] = Append(Append(f.succ[b], e), t) /\ \A a \in BlockIds \ {b} : g.succ[a] = f.succ[a]

LEMMA BranchFacts ==
  ASSUME NEW f, NEW b \in BlockIds, NEW i \in Instructions,
         NEW h \in FnType, h.blocks = f.blocks, h.n = f.n, h.code = f.code
  PROVE  Branches(f, b, Put(h, b, i), i) /\ Put(h, b, i).pre = h.pre /\ Put(h, b, i).succ = h.succ
<1>1. PICK g : g = Put(h, b, i)
  OBVIOUS
<1>2. /\ g \in FnType /\ g.blocks = h.blocks /\ g.n = h.n /\ g.pre = h.pre /\ g.succ = h.succ
      /\ g.code[b] = Append(h.code[b], i)
      /\ \A a \in BlockIds \ {b} : g.code[a] = h.code[a]
  BY <1>1, PutFacts
<1> QED BY <1>1, <1>2 DEF Branches

LEMMA BrFacts ==
  ASSUME NEW f \in FnType, NEW b \in BlockIds, NEW t \in BlockIds
  PROVE  Branches(f, b, CreateBr(f, b, t), Jump(t)) /\ JumpsTo(f, b, t, CreateBr(f, b, t))
<1>1. f.pre \in [BlockIds -> Seq(BlockIds)] /\ f.succ \in [BlockIds -> Seq(BlockIds)]
  BY DEF FnType
<1>2. Append(f.pre[t], b) \in Seq(BlockIds) /\ Append(f.succ[b], t) \in Seq(BlockIds)
  <2>1. f.pre[t] \in Seq(BlockIds) /\ f.succ[b] \in Seq(BlockIds)
    BY <1>1
  <2> QED BY <2>1, Appended
<1>3. PICK p : p = [f.pre EXCEPT ![t] = Append(f.pre[t], b)]
  OBVIOUS
<1>4. PICK s : s = [f.succ EXCEPT ![b] = Append(f.succ[b], t)]
  OBVIOUS
<1>5. p \in [BlockIds -> Seq(BlockIds)] /\ s \in [BlockIds -> Seq(BlockIds)]
  BY <1>1, <1>2, <1>3, <1>4
<1>6. PICK i : i = Jump(t)
  OBVIOUS
<1>7. i \in Instructions
  BY <1>6, JumpFacts
<1>8. PICK h : h = [f EXCEPT !.pre = p, !.succ = s]
  OBVIOUS
<1>81. h \in FnType /\ h.pre = p /\ h.succ = s /\ h.blocks = f.blocks /\ h.n = f.n /\ h.code = f.code
  BY <1>5, <1>8 DEF FnType
<1>82. PICK g : g = Put(h, b, i)
  OBVIOUS
<1>9. g = CreateBr(f, b, t)
  BY <1>3, <1>4, <1>6, <1>8, <1>82 DEF CreateBr, FnType, Jump
<1>10. Branches(f, b, g, i) /\ g.pre = p /\ g.succ = s
  BY <1>7, <1>81, <1>82, BranchFacts
<1>11. p[t] = Append(f.pre[t], b) /\ \A a \in BlockIds \ {t} : p[a] = f.pre[a]
  BY <1>1, <1>3
<1>12. s[b] = Append(f.succ[b], t) /\ \A a \in BlockIds \ {b} : s[a] = f.succ[a]
  BY <1>1, <1>4
<1>13. JumpsTo(f, b, t, g)
  BY <1>10, <1>11, <1>12 DEF JumpsTo
<1> QED BY <1>6, <1>9, <1>10, <1>13

LEMMA CondBrFacts ==
  ASSUME NEW f \in FnType, NEW b \in BlockIds, NEW t \in BlockIds, NEW e \in BlockIds
  PROVE  /\ Branches(f, b, CreateCondBr(f, b, t, e), Choice(t, e))
         /\ Chooses(f, b, t, e, CreateCondBr(f, b, t, e))
<1>1. f.pre \in [BlockIds -> Seq(BlockIds)] /\ f.succ \in [BlockIds -> Seq(BlockIds)]
  BY DEF FnType
<1>2. Append(f.pre[t], b) \in Seq(BlockIds) /\ Append(Append(f.succ[b], e), t) \in Seq(BlockIds)
      /\ f.succ[b] \o <<e, t>> = Append(Append(f.succ[b], e), t)
  <2>1. f.pre[t] \in Seq(BlockIds) /\ f.succ[b] \in Seq(BlockIds)
    BY <1>1
  <2>2. f.succ[b] \o <<e, t>> = Append(Append(f.succ[b], e), t)
    BY <2>1, AppendedTwo
  <2> QED BY <2>1, <2>2, Appended
<1>3. PICK q : q = [f.pre EXCEPT ![t] = Append(f.pre[t], b)]
  OBVIOUS
<1>4. q \in [BlockIds -> Seq(BlockIds)]
  BY <1>1, <1>2, <1>3
<1>5. Append(q[e], b) \in Seq(BlockIds)
  <2>1. q[e] \in Seq(BlockIds)
    BY <1>4
  <2> QED BY <2>1, Appended
<1>6. PICK p : p = [q EXCEPT ![e] = Append(q[e], b)]
  OBVIOUS
<1>7. PICK s : s = [f.succ EXCEPT ![b] = Append(Append(f.succ[b], e), t)]
  OBVIOUS
<1>8. p \in [BlockIds -> Seq(BlockIds)] /\ s \in [BlockIds -> Seq(BlockIds)]
  BY <1>1, <1>2, <1>4, <1>5, <1>6, <1>7
<1>9. PICK i : i = Choice(t, e)
  OBVIOUS
<1>10. i \in Instructions
  BY <1>9, JumpFacts
<1>11. PICK h : h = [f EXCEPT !.pre = p, !.succ = s]
  OBVIOUS
<1>111. h \in FnType /\ h.pre = p /\ h.succ = s /\ h.blocks = f.blocks /\ h.n = f.n /\ h.code = f.code
  BY <1>8, <1>11 DEF FnType
<1>112. PICK g : g = Put(h, b, i)
  OBVIOUS
<1>12. g = CreateCondBr(f, b, t, e)
  <2>1. s = [f.succ EXCEPT ![b] = f.succ[b] \o <<e, t>>]
    BY <1>2, <1>7
  <2> QED BY <1>3, <1>6, <1>9, <1>11, <1>112, <2>1 DEF CreateCondBr, FnType, Choice
<1>13. Branches(f, b, g, i) /\ g.pre = p /\ g.succ = s
  BY <1>10, <1>111, <1>112, BranchFacts
<1>14. q[t] = Append(f.pre[t], b) /\ \A a \in BlockIds \ {t} : q[a] = f.pre[a]
  BY <1>1, <1>3
<1>15. p[e] = Append(q[e], b) /\ \A a \in BlockIds \ {e} : p[a] = q[a]
  BY <1>4, <1>6
<1>16. s[b] = Append(Append(f.succ[b], e), t) /\ \A a \in BlockIds \ {b} : s[a] = f.succ[a]
  BY <1>1, <1>7
<1>17. \E r \in [BlockIds -> Seq(BlockIds)] :
         /\ r[t] = Append(f.pre[t], b) /\ \A a \in BlockIds \ {t} : r[a] = f.pre[a]
         /\ g.pre[e] = Append(r[e], b) /\ \A a \in BlockIds \ {e} : g.pre[a] = r[a]
  <2> WITNESS q \in [BlockIds -> Seq(BlockIds)]
  <2> QED BY <1>13, <1>14, <1>15
<1>18. Chooses(f, b, t, e, g)
  BY <1>13, <1>16, <1>17 DEF Chooses
<1> QED BY <1>9, <1>12, <1>13, <1>18

LEMMA NewFacts ==
  ASSUME NEW f \in FnType, NEW k \in Nat, MaxBlocks \in Nat, f.n + k <= MaxBlocks
  PROVE  LET g == NewBlocks(f, k) IN
         /\ g \in FnType /\ g.n = f.n + k /\ g.blocks = f.blocks \cup (f.n + 1)..(f.n + k)
         /\ g.pre = f.pre /\ g.succ = f.succ /\ g.code = f.code
<1>1. f.n \in Nat /\ f.blocks \subseteq BlockIds
  BY DEF FnType
<1>2. f.n + k \in Nat
  BY <1>1
<1>3. (f.n + 1)..(f.n + k) \subseteq BlockIds
  BY <1>1 DEF BlockIds
<1>4. f.blocks \cup (f.n + 1)..(f.n + k) \in SUBSET BlockIds
  BY <1>1, <1>3
<1> QED BY <1>2, <1>4 DEF NewBlocks, FnType

\* A block without neighbours is just taken out of the list.
LEMMA EraseFacts ==
  ASSUME NEW f \in FnType, NEW b \in BlockIds, f.pre[b] = <<>>, f.succ[b] = <<>>
  PROVE  LET g == EraseBlock(f, b) IN
         /\ g \in FnType /\ g.n = f.n /\ g.blocks = f.blocks \ {b}
         /\ g.pre = f.pre /\ g.succ = f.succ /\ g.code = f.code
<1>1. f.pre \in [BlockIds -> Seq(BlockIds)] /\ f.succ \in [BlockIds -> Seq(BlockIds)]
  BY DEF FnType
<1>2. \A x : ~Contains(f.pre[b], x) /\ ~Contains(f.succ[b], x)
  BY DEF Contains
<1> DEFINE s == [p \in BlockIds |->
                   IF Contains(f.pre[b], p) THEN SelectSeq(f.succ[p], LAMBDA x : x # b) ELSE f.succ[p]]
           q == [p \in BlockIds |->
                   IF Contains(f.succ[b], p) THEN SelectSeq(f.pre[p], LAMBDA x : x # b) ELSE f.pre[p]]
<1>3. s = f.succ /\ q = f.pre
  BY <1>1, <1>2
<1>4. EraseBlock(f, b) = [f EXCEPT !.blocks = f.blocks \ {b}, !.succ = s, !.pre = q]
  BY DEF EraseBlock, FnType
<1> HIDE DEF s, q
<1>5. EraseBlock(f, b) = [f EXCEPT !.blocks = f.blocks \ {b}, !.succ = f.succ, !.pre = f.pre]
  BY <1>3, <1>4
<1> QED BY <1>5 DEF FnType

LEMMA OpFacts ==
  ASSUME NEW f \in FnType, NEW b \in BlockIds
  PROVE  LET g == PutOp(f, b) IN
         /\ g \in FnType
         /\ g.blocks = f.blocks /\ g.n = f.n /\ g.pre = f.pre /\ g.succ = f.succ
         /\ g.code[b] \in {f.code[b], Append(f.code[b], <<"op">>)}
         /\ \A a \in BlockIds \ {b} : g.code[a] = f.code[a]
<1>1. <<"op">> \in Instructions
  BY DEF Instructions
<1>2. CASE f.code[b] # <<>> /\ Last(f.code[b]) = <<"op">>
  BY <1>2 DEF PutOp
<1>3. CASE ~(f.code[b] # <<>> /\ Last(f.code[b]) = <<"op">>)
  <2>1. PutOp(f, b) = Put(f, b, <<"op">>)
    BY <1>3 DEF PutOp
  <2> QED BY <1>1, <2>1, PutFacts
<1> QED BY <1>2, <1>3

\* The alloca of a local ends up in the entry block, in front of its terminator.
LEMMA LocalFacts ==
  ASSUME NEW f \in FnType, NEW b \in BlockIds, Entry \in BlockIds,
         ~Terminated(f, b)
  PROVE  LET g == CreateLocal(f, b, b)
             c == f.code[Entry]
         IN  /\ g \in FnType
             /\ g.blocks = f.blocks /\ g.n = f.n /\ g.pre = f.pre /\ g.succ = f.succ
             /\ g.code[Entry] = IF Terminated(f, Entry)
                                THEN Append(Append(Front(c), <<"alloca">>), Last(c))
                                ELSE Append(c, <<"alloca">>)
             /\ \A a \in BlockIds \ {Entry} : g.code[a] = f.code[a]
<1> DEFINE ends == Terminated(f, Entry)
           c    == f.code[Entry]
<1>0. PICK i : i = <<"alloca">>
  OBVIOUS
<1>1. i \in Instructions
  BY <1>0 DEF Instructions
<1>2. f.code \in [BlockIds -> Seq(Instructions)] /\ c \in Seq(Instructions)
  BY DEF FnType
<1>3. PICK open : open = IF ends THEN [f EXCEPT !.code[Entry] = Front(@)] ELSE f
  OBVIOUS
<1>4. /\ open \in FnType /\ open.blocks = f.blocks /\ open.n = f.n /\ open.pre = f.pre
      /\ open.succ = f.succ
      /\ open.code[Entry] = IF ends THEN Front(c) ELSE c
      /\ \A a \in BlockIds \ {Entry} : open.code[a] = f.code[a]
  <2>1. CASE ends
    <3>1. Front(c) \in Seq(Instructions)
      BY <1>2, <2>1, Shortened DEF Terminated
    <3>2. PICK d : d = [f.code EXCEPT ![Entry] = Front(c)]
      OBVIOUS
    <3>3. d \in [BlockIds -> Seq(Instructions)] /\ d[Entry] = Front(c)
          /\ \A a \in BlockIds \ {Entry} : d[a] = f.code[a]
      BY <1>2, <3>1, <3>2
    <3>4. open = [f EXCEPT !.code = d]
      BY <1>3, <2>1, <3>2 DEF FnType
    <3>5. /\ open \in FnType /\ open.code = d
          /\ open.blocks = f.blocks /\ open.n = f.n /\ open.pre = f.pre /\ open.succ = f.succ
      BY <3>3, <3>4, WithCode
    <3> QED BY <2>1, <3>3, <3>5
  <2>2. CASE ~ends
    BY <1>3, <2>2
  <2> QED BY <2>1, <2>2
<1>5. PICK made : made = Put(open, b, i)
  OBVIOUS
<1>6. /\ made \in FnType /\ made.blocks = open.blocks /\ made.n = open.n /\ made.pre = open.pre
      /\ made.succ = open.succ
      /\ made.code[b] = Append(open.code[b], i)
      /\ \A a \in BlockIds \ {b} : made.code[a] = open.code[a]
  BY <1>1, <1>4, <1>5, PutFacts
<1>7. PICK taken : taken = [made EXCEPT !.code[b] = Front(@)]
  OBVIOUS
<1>8. /\ taken \in FnType /\ taken.blocks = open.blocks /\ taken.n = open.n /\ taken.pre = open.pre
      /\ taken.succ = open.succ
      /\ \A a \in BlockIds : taken.code[a] = open.code[a]
  <2>0. made.code \in [BlockIds -> Seq(Instructions)] /\ open.code[b] \in Seq(Instructions)
    BY <1>4, <1>6 DEF FnType
  <2>1. Front(made.code[b]) = open.code[b]
    BY <1>1, <1>6, <2>0, Appended
  <2>2. PICK d : d = [made.code EXCEPT ![b] = open.code[b]]
    OBVIOUS
  <2>3. d \in [BlockIds -> Seq(Instructions)] /\ \A a \in BlockIds : d[a] = open.code[a]
    BY <1>6, <2>0, <2>2
  <2>4. taken = [made EXCEPT !.code = d]
    BY <1>6, <1>7, <2>1, <2>2 DEF FnType
  <2>5. /\ taken \in FnType /\ taken.code = d /\ taken.blocks = made.blocks /\ taken.n = made.n
        /\ taken.pre = made.pre /\ taken.succ = made.succ
    BY <1>6, <2>3, <2>4, WithCode
  <2> QED BY <1>6, <2>3, <2>5
<1>9. PICK moved : moved = Put(taken, Entry, i)
  OBVIOUS
<1>10. /\ moved \in FnType /\ moved.blocks = f.blocks /\ moved.n = f.n /\ moved.pre = f.pre
       /\ moved.succ = f.succ
       /\ moved.code[Entry] = Append(IF ends THEN Front(c) ELSE c, i)
       /\ \A a \in BlockIds \ {Entry} : moved.code[a] = f.code[a]
  <2>1. /\ moved \in FnType /\ moved.blocks = taken.blocks /\ moved.n = taken.n
        /\ moved.pre = taken.pre /\ moved.succ = taken.succ
        /\ moved.code[Entry] = Append(taken.code[Entry], i)
        /\ \A a \in BlockIds \ {Entry} : moved.code[a] = taken.code[a]
    BY <1>1, <1>8, <1>9, PutFacts
  <2> QED BY <2>1, <1>4, <1>8
<1>11. CreateLocal(f, b, b) = IF ends THEN Put(moved, Entry, Last(c)) ELSE moved
  BY <1>0, <1>3, <1>5, <1>7, <1>9 DEF CreateLocal
<1>12. CASE ends
  <2>1. Last(c) \in Instructions
    BY <1>2, <1>12, Shortened DEF Terminated
  <2>2. PICK l : l = Last(c)
    OBVIOUS
  <2>3. PICK g : g = Put(moved, Entry, l)
    OBVIOUS
  <2>4. /\ g \in FnType /\ g.blocks = moved.blocks /\ g.n = moved.n
        /\ g.pre = moved.pre /\ g.succ = moved.succ
        /\ g.code[Entry] = Append(moved.code[Entry], l)
        /\ \A a \in BlockIds \ {Entry} : g.code[a] = moved.code[a]
    BY <1>10, <2>1, <2>2, <2>3, PutFacts
  <2> QED BY <1>0, <1>10, <1>11, <1>12, <2>2, <2>3, <2>4
<1>13. CASE ~ends
  BY <1>0, <1>10, <1>11, <1>13
<1> QED BY <1>12, <1>13

-----------------------------------------------------------------------------
(* Code.                                                                   *)

LEMMA EdgeBack ==
  ASSUME NEW f \in FnType, Symmetric(f), NEW a \in BlockIds, NEW b \in BlockIds
  PROVE  b \in ToSet(f.succ[a]) <=> a \in ToSet(f.pre[b])
<1>1. f.succ[a] \in Seq(BlockIds) /\ f.pre[b] \in Seq(BlockIds)
  BY DEF FnType
<1>2. Occurrences(f.succ[a], b) = Occurrences(f.pre[b], a)
  BY DEF Symmetric
<1>3. Occurrences(f.succ[a], b) = 0 <=> b \notin ToSet(f.succ[a])
  BY <1>1, OccurrencesNat
<1>4. Occurrences(f.pre[b], a) = 0 <=> a \notin ToSet(f.pre[b])
  BY <1>1, OccurrencesNat
<1> QED BY <1>2, <1>3, <1>4

LEMMA CodeOnly ==
  ASSUME NEW f, NEW in, NEW P, NEW Z, NEW O, Sound(f, in, P, Z, O),
         NEW g \in FnType,
         g.blocks = f.blocks, g.n = f.n, g.pre = f.pre, g.succ = f.succ,
         \A b \in BlockIds \ {in, Entry} : g.code[b] = f.code[b],
         CodeSound(g), \A b \in BlockIds : Terminated(g, b) <=> Terminated(f, b)
  PROVE  Sound(g, in, P, Z, O)
<1>1. f \in FnType /\ f.blocks \subseteq BlockIds
  BY DEF Sound, FnType
<1>2. Created(g)
  BY DEF Sound, Created, Working
<1>3. TargetsSound(g) /\ Symmetric(g) /\ NoSelfLoop(g)
  BY DEF Sound, TargetsSound, Symmetric, NoSelfLoop
<1>4. Working(g, in, P)
  BY <1>1 DEF Sound, Working
<1>5. Succ(g) = Succ(f)
  BY DEF Succ
<1>6. Forward(g, P) /\ Entered(g, in, O) /\ Structured(g)
  BY <1>5 DEF Sound, Forward, Entered, Structured, Dom
<1>7. \A b, E : LeadsTo(g, b, E) <=> LeadsTo(f, b, E)
  BY DEF LeadsTo
<1>8. Exits(g, in, P) = Exits(f, in, P)
  BY <1>1, <1>4 DEF Exits, Working
<1>9. Backward(g, in, P) /\ Repeats(g, Z)
  BY <1>7, <1>8 DEF Sound, Backward, Repeats
<1> QED BY <1>2, <1>3, <1>4, <1>6, <1>9 DEF Sound

\* An instruction that is no terminator, at the end of an open block.
LEMMA PlainCode ==
  ASSUME NEW f \in FnType, CodeSound(f), NEW b \in BlockIds, ~Terminated(f, b),
         NEW i \in Instructions, ~IsTerminator(i), i = <<"alloca">> => b = Entry,
         NEW g \in FnType, g.succ = f.succ, g.code[b] = Append(f.code[b], i),
         \A a \in BlockIds \ {b} : g.code[a] = f.code[a]
  PROVE  CodeSound(g) /\ \A a \in BlockIds : Terminated(g, a) <=> Terminated(f, a)
<1>1. f.code[b] \in Seq(Instructions)
  BY DEF FnType
<1>2. /\ Append(f.code[b], i) # <<>> /\ Last(Append(f.code[b], i)) = i
      /\ Len(Append(f.code[b], i)) = Len(f.code[b]) + 1
      /\ \A k \in 1..Len(f.code[b]) : Append(f.code[b], i)[k] = f.code[b][k]
  BY <1>1, Appended
<1>3. ~Terminated(g, b)
  BY <1>2 DEF Terminated
<1>4. \A a \in BlockIds \ {b} : Terminated(g, a) <=> Terminated(f, a)
  BY DEF Terminated
<1>5. \A k \in 1..Len(f.code[b]) : ~IsTerminator(f.code[b][k])
  <2> SUFFICES ASSUME NEW k \in 1..Len(f.code[b]) PROVE ~IsTerminator(f.code[b][k])
    OBVIOUS
  <2>1. Len(f.code[b]) \in Nat /\ f.code[b] # <<>>
    BY <1>1
  <2>2. CASE k = Len(f.code[b])
    BY <2>1, <2>2 DEF Terminated, Last
  <2>3. CASE k # Len(f.code[b])
    <3>1. k \in 1..(Len(f.code[b]) - 1)
      BY <2>1, <2>3
    <3> QED BY <3>1 DEF CodeSound
  <2> QED BY <2>2, <2>3
<1>6. i # <<"ret">>
  <2>1. IsTerminator(<<"ret">>)
    BY DEF IsTerminator
  <2> QED BY <2>1
<1>7. ASSUME NEW a \in BlockIds
      PROVE  /\ \A k \in 1..(Len(g.code[a]) - 1) : ~IsTerminator(g.code[a][k])
             /\ SuccessorsMatch(g, a)
             /\ \A k \in DOMAIN g.code[a] : /\ g.code[a][k] = <<"alloca">> => a = Entry
                                            /\ g.code[a][k] = <<"ret">> => a = Ret
  <2>1. CASE a = b
    <3>1. \A k \in 1..(Len(g.code[b]) - 1) : ~IsTerminator(g.code[b][k])
      BY <1>1, <1>2, <1>5
    <3>2. SuccessorsMatch(g, b)
      <4>1. f.succ[b] = <<>>
        <5>1. SuccessorsMatch(f, b)
          BY DEF CodeSound
        <5>2. \A t, e : IsTerminator(<<"ret">>) /\ IsTerminator(<<"br", t>>) /\ IsTerminator(<<"br", t, e>>)
          BY DEF IsTerminator
        <5> QED BY <5>1, <5>2 DEF SuccessorsMatch, Terminated
      <4> QED BY <1>3, <4>1 DEF SuccessorsMatch
    <3>3. \A k \in DOMAIN g.code[b] : /\ g.code[b][k] = <<"alloca">> => b = Entry
                                      /\ g.code[b][k] = <<"ret">> => b = Ret
      <4> SUFFICES ASSUME NEW k \in DOMAIN g.code[b]
                   PROVE  /\ g.code[b][k] = <<"alloca">> => b = Entry
                          /\ g.code[b][k] = <<"ret">> => b = Ret
        OBVIOUS
      <4>1. Len(f.code[b]) \in Nat /\ DOMAIN f.code[b] = 1..Len(f.code[b])
            /\ DOMAIN g.code[b] = 1..(Len(f.code[b]) + 1)
            /\ g.code[b][Len(f.code[b]) + 1] = i
        BY <1>1
      <4>2. CASE k = Len(f.code[b]) + 1
        BY <1>6, <4>1, <4>2
      <4>3. CASE k # Len(f.code[b]) + 1
        <5>1. k \in DOMAIN f.code[b] /\ g.code[b][k] = f.code[b][k]
          BY <1>2, <4>1, <4>3
        <5> QED BY <5>1 DEF CodeSound
      <4> QED BY <4>2, <4>3
    <3> QED BY <2>1, <3>1, <3>2, <3>3
  <2>2. CASE a # b
    <3>1. g.code[a] = f.code[a] /\ g.succ[a] = f.succ[a]
      BY <2>2
    <3>2. SuccessorsMatch(g, a)
      BY <1>4, <2>2, <3>1 DEF CodeSound, SuccessorsMatch
    <3> QED BY <3>1, <3>2 DEF CodeSound
  <2> QED BY <2>1, <2>2
<1>8. CodeSound(g)
  BY <1>7 DEF CodeSound
<1> QED BY <1>3, <1>4, <1>8

LEMMA PlainSound ==
  ASSUME NEW f, NEW in, NEW P, NEW Z, NEW O, Sound(f, in, P, Z, O), ~Terminated(f, in),
         NEW i \in Instructions, ~IsTerminator(i), i = <<"alloca">> => in = Entry
  PROVE  LET g == Put(f, in, i) IN
         Sound(g, in, P, Z, O) /\ ~Terminated(g, in) /\ g.pre = f.pre /\ g.n = f.n /\ g.blocks = f.blocks
<1>1. f \in FnType /\ in \in BlockIds /\ Entry \in BlockIds /\ CodeSound(f)
  BY DEF Sound, Working, FnType
<1>2. PICK g : g = Put(f, in, i)
  OBVIOUS
<1>3. /\ g \in FnType /\ g.blocks = f.blocks /\ g.n = f.n /\ g.pre = f.pre /\ g.succ = f.succ
      /\ g.code[in] = Append(f.code[in], i)
      /\ \A a \in BlockIds \ {in} : g.code[a] = f.code[a]
  BY <1>1, <1>2, PutFacts
<1>4. CodeSound(g) /\ \A a \in BlockIds : Terminated(g, a) <=> Terminated(f, a)
  BY <1>1, <1>3, PlainCode
<1>5. Sound(g, in, P, Z, O)
  BY <1>3, <1>4, CodeOnly
<1> QED BY <1>1, <1>2, <1>3, <1>4, <1>5

LEMMA OpSound ==
  ASSUME NEW f, NEW in, NEW P, NEW Z, NEW O, Sound(f, in, P, Z, O), ~Terminated(f, in)
  PROVE  LET g == PutOp(f, in) IN
         Sound(g, in, P, Z, O) /\ ~Terminated(g, in) /\ g.pre = f.pre /\ g.n = f.n /\ g.blocks = f.blocks
<1>1. CASE f.code[in] # <<>> /\ Last(f.code[in]) = <<"op">>
  BY <1>1 DEF PutOp
<1>2. CASE ~(f.code[in] # <<>> /\ Last(f.code[in]) = <<"op">>)
  <2>1. PICK i : i = <<"op">>
    OBVIOUS
  <2>2. i \in Instructions /\ ~IsTerminator(i) /\ i # <<"alloca">>
    BY <2>1 DEF Instructions, IsTerminator
  <2>3. PutOp(f, in) = Put(f, in, i)
    BY <1>2, <2>1 DEF PutOp
  <2> QED BY <2>2, <2>3, PlainSound
<1> QED BY <1>1, <1>2

LEMMA TestSound ==
  ASSUME NEW f, NEW in, NEW P, NEW Z, NEW O, Sound(f, in, P, Z, O), ~Terminated(f, in), NEW n \in Nat
  PROVE  LET g == Put(f, in, <<"test", n>>) IN
         Sound(g, in, P, Z, O) /\ ~Terminated(g, in) /\ g.pre = f.pre /\ g.n = f.n /\ g.blocks = f.blocks
<1>1. PICK i : i = <<"test", n>>
  OBVIOUS
<1>2. i \in Instructions /\ ~IsTerminator(i)
  BY <1>1 DEF Instructions, IsTerminator
<1>3. i # <<"alloca">>
  <2>1. i[1] = "test" /\ <<"alloca">>[1] = "alloca"
    BY <1>1
  <2> QED BY <2>1
<1> QED BY <1>1, <1>2, <1>3, PlainSound

\* The alloca in front of the terminator of the entry block.
LEMMA LocalSound ==
  ASSUME NEW f, NEW in, NEW P, NEW Z, NEW O, Sound(f, in, P, Z, O), ~Terminated(f, in)
  PROVE  LET g == CreateLocal(f, in, in) IN
         Sound(g, in, P, Z, O) /\ ~Terminated(g, in) /\ g.pre = f.pre /\ g.n = f.n /\ g.blocks = f.blocks
<1>1. f \in FnType /\ in \in BlockIds /\ Entry \in BlockIds /\ CodeSound(f)
  BY DEF Sound, Working, FnType
<1>2. PICK c : c = f.code[Entry]
  OBVIOUS
<1>20. c \in Seq(Instructions)
  BY <1>1, <1>2 DEF FnType
<1>3. PICK i : i = <<"alloca">>
  OBVIOUS
<1>31. i \in Instructions /\ ~IsTerminator(i) /\ i # <<"ret">>
  BY <1>3 DEF Instructions, IsTerminator
<1>4. PICK g : g = CreateLocal(f, in, in)
  OBVIOUS
<1>5. /\ g \in FnType /\ g.blocks = f.blocks /\ g.n = f.n /\ g.pre = f.pre /\ g.succ = f.succ
      /\ g.code[Entry] = IF Terminated(f, Entry) THEN Append(Append(Front(c), i), Last(c)) ELSE Append(c, i)
      /\ \A a \in BlockIds \ {Entry} : g.code[a] = f.code[a]
  BY <1>1, <1>2, <1>3, <1>4, LocalFacts
<1>6. CASE ~Terminated(f, Entry)
  <2>1. CodeSound(g) /\ \A a \in BlockIds : Terminated(g, a) <=> Terminated(f, a)
    <3>1. g.code[Entry] = Append(f.code[Entry], i)
      BY <1>2, <1>5, <1>6
    <3> QED BY <1>1, <1>31, <1>5, <1>6, <3>1, PlainCode
  <2>2. Sound(g, in, P, Z, O)
    BY <1>5, <2>1, CodeOnly
  <2> QED BY <1>1, <1>4, <1>5, <2>1, <2>2
<1>7. CASE Terminated(f, Entry)
  <2>1. c # <<>> /\ IsTerminator(Last(c))
    BY <1>2, <1>7 DEF Terminated
  <2>2. PICK s : s = Front(c)
    OBVIOUS
  <2>3. PICK l : l = Last(c)
    OBVIOUS
  <2>4. s \in Seq(Instructions) /\ Len(s) = Len(c) - 1 /\ l \in Instructions
        /\ (\A k \in 1..(Len(c) - 1) : s[k] = c[k]) /\ Len(c) \in Nat /\ Len(c) >= 1
    BY <1>20, <2>1, <2>2, <2>3, Shortened
  <2>5. PICK m : m = Append(s, i)
    OBVIOUS
  <2>6. m \in Seq(Instructions) /\ Len(m) = Len(c) /\ Last(m) = i
        /\ \A k \in 1..(Len(c) - 1) : m[k] = c[k]
    <3>1. m \in Seq(Instructions) /\ Len(m) = Len(s) + 1 /\ Last(m) = i
          /\ \A k \in 1..Len(s) : m[k] = s[k]
      BY <1>31, <2>4, <2>5, Appended
    <3> QED BY <2>4, <3>1
  <2>7. g.code[Entry] = Append(m, l)
    BY <1>5, <1>7, <2>2, <2>3, <2>5
  <2>8. /\ Append(m, l) # <<>> /\ Last(Append(m, l)) = l /\ Len(Append(m, l)) = Len(c) + 1
        /\ \A k \in 1..Len(c) : Append(m, l)[k] = m[k]
    BY <2>4, <2>6, Appended
  <2>9. \A a \in BlockIds : Terminated(g, a) <=> Terminated(f, a)
    <3>1. Terminated(g, Entry)
      BY <2>1, <2>3, <2>7, <2>8 DEF Terminated
    <3> QED BY <1>5, <1>7, <3>1 DEF Terminated
  <2>10. ASSUME NEW a \in BlockIds
         PROVE  /\ \A k \in 1..(Len(g.code[a]) - 1) : ~IsTerminator(g.code[a][k])
                /\ SuccessorsMatch(g, a)
                /\ \A k \in DOMAIN g.code[a] : /\ g.code[a][k] = <<"alloca">> => a = Entry
                                               /\ g.code[a][k] = <<"ret">> => a = Ret
    <3>1. CASE a = Entry
      <4>1. Len(c) \in DOMAIN c /\ c[Len(c)] = l
        BY <1>20, <2>3, <2>4 DEF Last
      <4>2. m[Len(c)] = i
        BY <2>6 DEF Last
      <4>3. \A k \in 1..(Len(c) - 1) : ~IsTerminator(c[k])
        BY <1>1, <1>2 DEF CodeSound
      <4>4. \A k \in 1..(Len(g.code[a]) - 1) : ~IsTerminator(g.code[a][k])
        <5> SUFFICES ASSUME NEW k \in 1..Len(c) PROVE ~IsTerminator(m[k])
          BY <2>4, <2>7, <2>8, <3>1
        <5>1. CASE k = Len(c)
          BY <1>31, <4>2, <5>1
        <5>2. CASE k # Len(c)
          BY <2>4, <2>6, <4>3, <5>2
        <5> QED BY <5>1, <5>2
      <4>5. SuccessorsMatch(g, a)
        <5>1. SuccessorsMatch(f, a)
          BY <1>1 DEF CodeSound
        <5>2. Last(g.code[a]) = Last(f.code[a]) /\ g.code[a] # <<>> /\ f.code[a] # <<>>
              /\ g.succ[a] = f.succ[a] /\ Terminated(g, a) /\ Terminated(f, a)
          BY <1>2, <1>5, <1>7, <2>1, <2>3, <2>7, <2>8, <2>9, <3>1
        <5> QED BY <5>1, <5>2 DEF SuccessorsMatch
      <4>6. \A k \in DOMAIN g.code[a] : g.code[a][k] = <<"ret">> => a = Ret
        <5> SUFFICES ASSUME NEW k \in DOMAIN Append(m, l), Append(m, l)[k] = <<"ret">> PROVE a = Ret
          BY <2>7, <3>1
        <5>1. k \in 1..(Len(c) + 1) /\ Append(m, l)[Len(c) + 1] = l
          BY <2>4, <2>6, <2>8
        <5>2. CASE k = Len(c) + 1
          <6>1. c[Len(c)] = <<"ret">>
            BY <4>1, <5>1, <5>2
          <6> QED BY <1>1, <1>2, <3>1, <4>1, <6>1 DEF CodeSound
        <5>3. CASE k = Len(c)
          <6>1. Len(c) \in 1..Len(c)
            BY <2>4
          <6>2. Append(m, l)[Len(c)] = i
            BY <2>8, <4>2, <6>1
          <6> QED BY <1>31, <5>3, <6>2
        <5>4. CASE k # Len(c) /\ k # Len(c) + 1
          <6>1. k \in 1..(Len(c) - 1) /\ k \in DOMAIN c
            BY <1>20, <2>4, <5>1, <5>4
          <6>11. k \in 1..Len(c)
            BY <2>4, <6>1
          <6>2. Append(m, l)[k] = c[k]
            BY <2>6, <2>8, <6>1, <6>11
          <6> QED BY <1>1, <1>2, <3>1, <6>1, <6>2 DEF CodeSound
        <5> QED BY <5>2, <5>3, <5>4
      <4> QED BY <3>1, <4>4, <4>5, <4>6
    <3>2. CASE a # Entry
      <4>1. g.code[a] = f.code[a] /\ g.succ[a] = f.succ[a]
        BY <1>5, <3>2
      <4>2. SuccessorsMatch(g, a)
        BY <1>1, <2>9, <4>1 DEF CodeSound, SuccessorsMatch
      <4> QED BY <1>1, <4>1, <4>2 DEF CodeSound
    <3> QED BY <3>1, <3>2
  <2>11. CodeSound(g)
    BY <2>10 DEF CodeSound
  <2>12. Sound(g, in, P, Z, O)
    BY <1>5, <2>9, <2>11, CodeOnly
  <2> QED BY <1>1, <1>4, <1>5, <2>9, <2>12
<1> QED BY <1>6, <1>7

-----------------------------------------------------------------------------
(* Paths in the graph, by the sets that they cannot leave.                 *)

\* No edge but one to h leads out of X, which holds the entry.
Shut(f, h, X) ==
  /\ X \subseteq f.blocks \ {h} /\ (Entry # h => Entry \in X)
  /\ \A a \in X : ToSet(f.succ[a]) \ {h} \subseteq X

Graph(f) == f \in FnType /\ Created(f) /\ TargetsSound(f) /\ Entry \in f.blocks

LEMMA GraphFacts ==
  ASSUME NEW f, Graph(f)
  PROVE  /\ IsFiniteSet(f.blocks) /\ f.blocks \subseteq BlockIds
         /\ \A a \in f.blocks : Succ(f)[a] = ToSet(f.succ[a]) /\ ToSet(f.succ[a]) \subseteq f.blocks \ {Entry}
<1>1. f.blocks \subseteq BlockIds /\ f.n \in Nat /\ f.blocks \subseteq 1..f.n
  BY DEF Graph, FnType, Created
<1>2. IsFiniteSet(1..f.n)
  BY <1>1, FS_Interval
<1>3. IsFiniteSet(f.blocks)
  BY <1>1, <1>2, FS_Subset
<1> QED BY <1>1, <1>3 DEF Graph, TargetsSound, Succ

LEMMA SoundGraph ==
  ASSUME NEW f, NEW in, NEW P, NEW Z, NEW O, Sound(f, in, P, Z, O)
  PROVE  Graph(f)
  BY DEF Sound, Working, Graph

LEMMA DomShut ==
  ASSUME NEW f, Graph(f), NEW h, NEW b
  PROVE  Dom(f, h, b) <=> h = b \/ \E X \in SUBSET f.blocks : Shut(f, h, X) /\ b \notin X
<1> DEFINE N == f.blocks
           M == N \ {h}
           S == Succ(f)
<1>1. IsFiniteSet(M) /\ Entry \in N
  BY GraphFacts, FS_RemoveElement DEF Graph
<1>2. \A a \in N : S[a] = ToSet(f.succ[a]) /\ ToSet(f.succ[a]) \subseteq N
  BY GraphFacts
<1>3. Dom(f, h, b) <=> h = b \/ b \notin ReachIn(M, S, Entry)
  BY DEF Dom, Dominates
<1> HIDE DEF S
<1>4. Shut(f, h, ReachIn(M, S, Entry)) /\ ReachIn(M, S, Entry) \in SUBSET N
  <2>1. /\ ReachIn(M, S, Entry) \subseteq M
        /\ Entry \in M => Entry \in ReachIn(M, S, Entry)
        /\ Closed(M, S, ReachIn(M, S, Entry))
    BY <1>1, ReachClosed
  <2> QED BY <1>1, <1>2, <2>1 DEF Closed, Shut
<1>5. ASSUME NEW X \in SUBSET N, Shut(f, h, X) PROVE ReachIn(M, S, Entry) \subseteq X
  <2>1. Closed(M, S, X \cap M)
    BY <1>2, <1>5 DEF Shut, Closed
  <2>2. Entry \in M => Entry \in X
    BY <1>5 DEF Shut
  <2> QED BY <1>1, <2>1, <2>2, ReachLeast
<1> QED BY <1>3, <1>4, <1>5

LEMMA ReachShut ==
  ASSUME NEW f, Graph(f)
  PROVE  LET K == ReachIn(f.blocks, Succ(f), Entry) IN
         /\ K \subseteq f.blocks /\ Entry \in K
         /\ \A a \in K : ToSet(f.succ[a]) \subseteq K
         /\ \A X \in SUBSET f.blocks :
              Entry \in X /\ (\A a \in X : ToSet(f.succ[a]) \subseteq X) => K \subseteq X
<1> DEFINE N == f.blocks
           S == Succ(f)
<1>1. IsFiniteSet(N) /\ Entry \in N
  BY GraphFacts DEF Graph
<1>2. \A a \in N : S[a] = ToSet(f.succ[a]) /\ ToSet(f.succ[a]) \subseteq N
  BY GraphFacts
<1> HIDE DEF S
<1>3. /\ ReachIn(N, S, Entry) \subseteq N /\ Entry \in ReachIn(N, S, Entry)
      /\ Closed(N, S, ReachIn(N, S, Entry))
  BY <1>1, ReachClosed
<1>4. \A a \in ReachIn(N, S, Entry) : ToSet(f.succ[a]) \subseteq ReachIn(N, S, Entry)
  BY <1>2, <1>3 DEF Closed
<1>5. ASSUME NEW X \in SUBSET N, Entry \in X, \A a \in X : ToSet(f.succ[a]) \subseteq X
      PROVE ReachIn(N, S, Entry) \subseteq X
  <2>1. Closed(N, S, X \cap N)
    BY <1>2, <1>5 DEF Closed
  <2> QED BY <1>1, <1>5, <2>1, ReachLeast
<1> QED BY <1>3, <1>4, <1>5 DEF S

\* A block that nothing branches to is dominated by every block.
LEMMA DomFresh ==
  ASSUME NEW f, Graph(f), Symmetric(f), NEW b \in f.blocks, b # Entry, f.pre[b] = <<>>, NEW h
  PROVE  Dom(f, h, b)
<1> DEFINE X == f.blocks \ {h, b}
<1>1. \A a \in f.blocks : b \notin ToSet(f.succ[a])
  <2>1. ToSet(<<>>) = {}
    BY DEF ToSet
  <2>2. f \in FnType
    BY DEF Graph
  <2> QED BY <2>1, <2>2, GraphFacts, EdgeBack
<1>2. Shut(f, h, X)
  BY <1>1, GraphFacts DEF Shut, Graph
<1>3. X \in SUBSET f.blocks /\ b \notin X
  OBVIOUS
<1> QED BY <1>2, <1>3, DomShut

\* A pending block has no successors.
LEMMA PendingFacts ==
  ASSUME NEW f, NEW in, NEW P, NEW Z, NEW O, Sound(f, in, P, Z, O), NEW b \in P
  PROVE  /\ b \in f.blocks \ {Entry, in} /\ b \in BlockIds
         /\ f.code[b] = <<>> /\ f.succ[b] = <<>> /\ ToSet(f.succ[b]) = {} /\ ~Terminated(f, b)
<1>1. b \in f.blocks \ {Entry, in} /\ b \in BlockIds /\ f.code[b] = <<>>
  BY SoundGraph, GraphFacts DEF Sound, Working
<1>2. ~Terminated(f, b)
  BY <1>1 DEF Terminated
<1>3. f.succ[b] = <<>>
  BY <1>1, <1>2 DEF Sound, CodeSound, SuccessorsMatch
<1> QED BY <1>1, <1>2, <1>3 DEF ToSet

\* An open block has no successors.
LEMMA OpenFacts ==
  ASSUME NEW f, NEW in, NEW P, NEW Z, NEW O, Sound(f, in, P, Z, O), ~Terminated(f, in)
  PROVE  in \in BlockIds /\ f.succ[in] = <<>> /\ ToSet(f.succ[in]) = {}
<1>1. in \in BlockIds /\ SuccessorsMatch(f, in)
  BY SoundGraph, GraphFacts DEF Sound, Working, CodeSound
<1>2. \A t, e : IsTerminator(<<"ret">>) /\ IsTerminator(<<"br", t>>) /\ IsTerminator(<<"br", t, e>>)
  BY DEF IsTerminator
<1>3. f.succ[in] = <<>>
  BY <1>1, <1>2 DEF SuccessorsMatch, Terminated
<1> QED BY <1>1, <1>3 DEF ToSet

-----------------------------------------------------------------------------
(* What the visitor does to the graph.                                     *)

\* What may be said of paths to insert block in, when Z and O were known.
Follows(f, Z, O, in, Y, Q) ==
  /\ Y \subseteq f.blocks \X f.blocks /\ Q \subseteq f.blocks \X f.blocks
  /\ \A h, b \in f.blocks : <<h, b>> \in Y => <<h, b>> \in Z \/ h = b
  /\ \A h, b \in f.blocks :
       <<h, b>> \in Q => /\ <<h, in>> \in Q
                         /\ <<h, b>> \in O \/ h = b \/ (b # Entry /\ f.pre[b] = <<>>)

LEMMA Turn ==
  ASSUME NEW f, NEW in, NEW P, NEW Z, NEW O, Sound(f, in, P, Z, O),
         NEW to, NEW R, Working(f, to, R), Forward(f, R), Exits(f, to, R) = Exits(f, in, P),
         NEW Y, NEW Q, Follows(f, Z, O, to, Y, Q)
  PROVE  Sound(f, to, R, Y, Q)
<1>1. Repeats(f, Y)
  <2>1. \A h \in f.blocks : LeadsTo(f, h, {h})
    BY DEF LeadsTo
  <2> QED BY <2>1 DEF Sound, Repeats, Follows
<1>2. Entered(f, to, Q)
  <2>1. \A h \in f.blocks : Dom(f, h, h)
    BY DEF Dom, Dominates
  <2>2. Graph(f) /\ Symmetric(f)
    BY SoundGraph DEF Sound
  <2>3. \A h, b \in f.blocks : b # Entry /\ f.pre[b] = <<>> => Dom(f, h, b)
    BY <2>2, DomFresh
  <2> QED BY <2>1, <2>3 DEF Sound, Entered, Follows
<1>3. Backward(f, to, R)
  BY DEF Sound, Backward
<1> QED BY <1>1, <1>2, <1>3 DEF Sound

\* Z and O may be given up, and pairs that hold anyway added.
LEMMA AdjustSound ==
  ASSUME NEW f, NEW in, NEW P, NEW Z, NEW O, Sound(f, in, P, Z, O),
         NEW Y, NEW Q, Follows(f, Z, O, in, Y, Q)
  PROVE  Sound(f, in, P, Y, Q)
<1>1. Working(f, in, P) /\ Forward(f, P)
  BY DEF Sound
<1> QED BY <1>1, Turn

\* Going on in a pending block that was branched to.
LEMMA MoveSound ==
  ASSUME NEW f, NEW in, NEW P, NEW Z, NEW O, Sound(f, in, P, Z, O),
         Terminated(f, in), NEW t \in P, f.pre[t] # <<>>,
         NEW Y, NEW Q, Follows(f, Z, O, t, Y, Q)
  PROVE  Sound(f, t, P \ {t}, Y, Q)
<1>1. /\ t \in f.blocks \ {Entry, in} /\ t \in BlockIds /\ ~Terminated(f, t)
      /\ Graph(f)
  BY PendingFacts, SoundGraph
<1>2. Working(f, t, P \ {t})
  BY <1>1 DEF Sound, Working
<1>3. Exits(f, t, P \ {t}) = Exits(f, in, P)
  BY <1>1 DEF Exits
<1>4. Forward(f, P \ {t})
  <2>1. PICK a \in ToSet(f.pre[t]) : TRUE
    <3>1. f.pre[t] \in Seq(BlockIds)
      BY <1>1 DEF Sound, FnType
    <3>2. 1 \in DOMAIN f.pre[t]
      BY <3>1
    <3>3. f.pre[t][1] \in ToSet(f.pre[t])
      BY <3>2 DEF ToSet
    <3> QED BY <3>3
  <2>2. a \in BlockIds
    <3>1. f.pre[t] \in Seq(BlockIds)
      BY <1>1 DEF Sound, FnType
    <3> QED BY <2>1, <3>1 DEF ToSet
  <2>3. t \in ToSet(f.succ[a])
    BY <1>1, <2>1, <2>2, EdgeBack DEF Sound
  <2>4. a \in f.blocks
    <3>1. ToSet(<<>>) = {}
      BY DEF ToSet
    <3> QED BY <2>2, <2>3, <3>1 DEF Sound, Created
  <2>5. a \notin P
    BY <2>3, PendingFacts
  <2>6. a \in ReachIn(f.blocks, Succ(f), Entry)
    BY <2>4, <2>5 DEF Sound, Forward
  <2>7. t \in ReachIn(f.blocks, Succ(f), Entry)
    BY <1>1, <2>3, <2>6, ReachShut
  <2> QED BY <2>7 DEF Sound, Forward
<1> QED BY <1>2, <1>3, <1>4, Turn

\* Going back to a complete block, when there is nothing to go on in.
LEMMA ReturnSound ==
  ASSUME NEW f, NEW in, NEW P, NEW Z, NEW O, Sound(f, in, P, Z, O),
         Terminated(f, in), NEW t \in f.blocks \ P,
         NEW Y, NEW Q, Follows(f, Z, O, t, Y, Q)
  PROVE  Sound(f, t, P, Y, Q) /\ Terminated(f, t)
<1>1. Terminated(f, t)
  BY DEF Sound, Working
<1>2. Working(f, t, P)
  BY DEF Sound, Working
<1>3. Exits(f, t, P) = Exits(f, in, P)
  BY <1>1 DEF Exits
<1>4. Forward(f, P)
  BY DEF Sound
<1> QED BY <1>1, <1>2, <1>3, <1>4, Turn

\* k new blocks.
Enlarged(f, k, in, g) ==
  LET B == (f.n + 1)..(f.n + k)
  IN  /\ g.n = f.n + k /\ g.blocks = f.blocks \cup B /\ B \cap f.blocks = {}
      /\ g.pre = f.pre /\ Terminated(g, in) = Terminated(f, in)
      /\ \A b \in B : b \in BlockIds /\ b # Entry /\ g.pre[b] = <<>>

\* New blocks, pending.
LEMMA NewSound ==
  ASSUME NEW f, NEW in, NEW P, NEW Z, NEW O, Sound(f, in, P, Z, O),
         NEW k \in Nat, MaxBlocks \in Nat, f.n + k <= MaxBlocks
  PROVE  /\ Sound(NewBlocks(f, k), in, P \cup (f.n + 1)..(f.n + k), Z, O)
         /\ Enlarged(f, k, in, NewBlocks(f, k))
<1> DEFINE B == (f.n + 1)..(f.n + k)
<1>1. PICK g : g = NewBlocks(f, k)
  OBVIOUS
<1>2. f \in FnType /\ Graph(f) /\ f.n \in Nat /\ f.blocks \subseteq 1..f.n
  BY SoundGraph DEF Sound, FnType, Created
<1>3. /\ g \in FnType /\ g.n = f.n + k /\ g.blocks = f.blocks \cup B
      /\ g.pre = f.pre /\ g.succ = f.succ /\ g.code = f.code
  BY <1>1, <1>2, NewFacts
<1>4. B \cap f.blocks = {} /\ B \subseteq BlockIds /\ Entry \notin B /\ in \notin B /\ Ret \notin B
  <2>1. B \cap f.blocks = {} /\ B \subseteq BlockIds
    BY <1>2 DEF BlockIds
  <2> QED BY <2>1 DEF Sound, Working
<1>5. \A b \in B : f.pre[b] = <<>> /\ f.succ[b] = <<>> /\ f.code[b] = <<>> /\ ToSet(f.succ[b]) = {}
                   /\ ~Terminated(f, b)
  BY <1>4 DEF Sound, Created, ToSet, Terminated
<1>6. \A b \in BlockIds : Terminated(g, b) <=> Terminated(f, b)
  BY <1>3 DEF Terminated
<1>7. Created(g)
  <2>1. g.blocks \subseteq 1..g.n /\ g.n <= MaxBlocks
    BY <1>2, <1>3
  <2> QED BY <1>3, <2>1 DEF Sound, Created
<1>8. CodeSound(g)
  BY <1>3, <1>6 DEF Sound, CodeSound, SuccessorsMatch
<1>9. TargetsSound(g) /\ Symmetric(g)
  BY <1>3 DEF Sound, TargetsSound, Symmetric
<1>10. Working(g, in, P \cup B)
  BY <1>2, <1>3, <1>4, <1>5, <1>6, GraphFacts DEF Sound, Working
<1>11. Graph(g)
  BY <1>3, <1>7, <1>9 DEF Graph, Sound, Working
<1>12. Forward(g, P \cup B)
  <2> DEFINE K == ReachIn(f.blocks, Succ(f), Entry)
             L == ReachIn(g.blocks, Succ(g), Entry)
             X == L \cap f.blocks
  <2>1. X \in SUBSET f.blocks /\ Entry \in X /\ \A a \in X : ToSet(f.succ[a]) \subseteq X
    BY <1>2, <1>3, <1>11, ReachShut, GraphFacts DEF Graph
  <2>2. K \subseteq X
    BY <1>2, <2>1, ReachShut
  <2> QED BY <1>3, <2>2 DEF Sound, Forward
<1>13. ASSUME NEW b \in f.blocks, NEW E, LeadsTo(f, b, E \cap f.blocks) PROVE LeadsTo(g, b, E)
  <2> SUFFICES ASSUME NEW X \in SUBSET g.blocks, E \subseteq X,
                      \A a \in g.blocks : ToSet(g.succ[a]) \cap X # {} => a \in X
               PROVE  b \in X
    BY DEF LeadsTo
  <2>1. \A a \in f.blocks : ToSet(f.succ[a]) \cap (X \cap f.blocks) # {} => a \in X \cap f.blocks
    BY <1>3
  <2> QED BY <1>13, <2>1 DEF LeadsTo
<1>14. Backward(g, in, P \cup B)
  <2>1. Exits(g, in, P \cup B) \cap f.blocks = Exits(f, in, P)
    BY <1>2, <1>4, <1>6, GraphFacts DEF Exits, Sound, Working
  <2>2. \A b \in B : LeadsTo(g, b, Exits(g, in, P \cup B))
    BY DEF LeadsTo, Exits
  <2>3. \A b \in f.blocks : LeadsTo(g, b, Exits(g, in, P \cup B))
    BY <1>13, <2>1 DEF Sound, Backward
  <2> QED BY <1>3, <2>2, <2>3 DEF Backward
<1>15. Repeats(g, Z)
  <2>1. \A h, b \in f.blocks : <<h, b>> \in Z => LeadsTo(g, h, {b})
    <3>1. \A b \in f.blocks : {b} \cap f.blocks = {b}
      OBVIOUS
    <3> QED BY <1>13, <3>1 DEF Sound, Repeats
  <2> QED BY <1>3, <2>1 DEF Sound, Repeats
<1>16. ASSUME NEW h, NEW b \in f.blocks, Dom(f, h, b) PROVE Dom(g, h, b)
  <2>1. CASE h = b
    BY <2>1 DEF Dom, Dominates
  <2>2. CASE h # b
    <3>1. PICK X \in SUBSET f.blocks : Shut(f, h, X) /\ b \notin X
      BY <1>2, <1>16, <2>2, DomShut
    <3>2. Shut(g, h, X)
      BY <1>3, <3>1 DEF Shut
    <3> QED BY <1>3, <1>11, <3>1, <3>2, DomShut
  <2> QED BY <2>1, <2>2
<1>17. Entered(g, in, O)
  BY <1>3, <1>16 DEF Sound, Entered
<1>18. NoSelfLoop(g)
  BY <1>3, <1>5 DEF Sound, NoSelfLoop
<1>19. Structured(g)
  <2> SUFFICES ASSUME NEW X \in (SUBSET g.blocks) \ {{}}
               PROVE  \E a \in X : \A c \in ToSet(g.succ[a]) \cap X : Dom(g, c, a)
    BY DEF Structured
  <2>1. CASE X \cap B # {}
    BY <1>3, <1>5, <2>1
  <2>2. CASE X \cap B = {}
    <3>1. X \in (SUBSET f.blocks) \ {{}}
      BY <1>3, <2>2
    <3>2. PICK a \in X : \A c \in ToSet(f.succ[a]) \cap X : Dom(f, c, a)
      BY <3>1 DEF Sound, Structured
    <3> QED BY <1>3, <1>16, <3>1, <3>2
  <2> QED BY <2>1, <2>2
<1>20. Sound(g, in, P \cup B, Z, O)
  BY <1>3, <1>7, <1>8, <1>9, <1>10, <1>12, <1>14, <1>15, <1>17, <1>18, <1>19 DEF Sound
<1>21. Terminated(g, in) = Terminated(f, in)
  BY <1>3 DEF Terminated
<1> QED BY <1>1, <1>3, <1>4, <1>5, <1>20, <1>21 DEF Enlarged

\* Branches from the insert block to T: pending blocks, or the head of an open
\* loop.
Edges(f, in, P, O, Z, g, T) ==
  /\ g \in FnType /\ g.blocks = f.blocks /\ g.n = f.n
  /\ T # {} /\ T \subseteq f.blocks \ {Entry, in}
  /\ ToSet(g.succ[in]) = T /\ \A a \in BlockIds \ {in} : g.succ[a] = f.succ[a]
  /\ \A b \in BlockIds \ f.blocks : g.pre[b] = <<>>
  /\ \A a \in BlockIds \ {in} : g.code[a] = f.code[a]
  /\ Symmetric(g) /\ CodeSound(g) /\ Terminated(g, in)
  /\ \A t \in T : t \in P \/ \E e \in P : <<t, e>> \in Z
  /\ T \subseteq P \/ \A t \in T : <<t, in>> \in O

LEMMA EdgesBasic ==
  ASSUME NEW f, NEW in, NEW P, NEW Z, NEW O, Sound(f, in, P, Z, O), ~Terminated(f, in),
         NEW g, NEW T, Edges(f, in, P, O, Z, g, T)
  PROVE  /\ Created(g) /\ TargetsSound(g) /\ Working(g, in, P) /\ Graph(g) /\ Graph(f)
         /\ Forward(g, P) /\ NoSelfLoop(g)
         /\ ToSet(f.succ[in]) = {} /\ in \in f.blocks
         /\ \A a \in f.blocks \ {in} : ToSet(g.succ[a]) = ToSet(f.succ[a])
<1>1. Graph(f) /\ f.blocks \subseteq BlockIds /\ in \in f.blocks
      /\ \A a \in f.blocks : ToSet(f.succ[a]) \subseteq f.blocks \ {Entry}
  BY SoundGraph, GraphFacts DEF Sound, Working
<1>2. ToSet(f.succ[in]) = {}
  BY OpenFacts
<1>3. \A a \in f.blocks \ {in} : ToSet(g.succ[a]) = ToSet(f.succ[a])
  BY <1>1 DEF Edges
<1>4. Created(g)
  BY <1>1 DEF Sound, Created, Edges
<1>5. TargetsSound(g)
  BY <1>1 DEF Sound, TargetsSound, Edges
<1>6. Working(g, in, P)
  <2>1. \A b \in f.blocks \ {in} : Terminated(g, b) <=> Terminated(f, b)
    BY <1>1 DEF Edges, Terminated
  <2>2. \A b \in P : g.code[b] = <<>>
    BY <1>1 DEF Sound, Working, Edges
  <2> QED BY <2>1, <2>2 DEF Sound, Working, Edges
<1>7. Graph(g)
  BY <1>4, <1>5, <1>6 DEF Graph, Working, Edges
<1>8. NoSelfLoop(g)
  BY <1>1, <1>3 DEF Sound, NoSelfLoop, Edges
<1>9. Forward(g, P)
  <2> DEFINE L == ReachIn(g.blocks, Succ(g), Entry)
  <2>1. L \subseteq f.blocks /\ Entry \in L /\ \A a \in L : ToSet(g.succ[a]) \subseteq L
    BY <1>7, ReachShut DEF Edges
  <2>2. \A a \in L : ToSet(f.succ[a]) \subseteq L
    BY <1>2, <1>3, <2>1
  <2>3. ReachIn(f.blocks, Succ(f), Entry) \subseteq L
    BY <1>1, <2>1, <2>2, ReachShut
  <2> QED BY <2>3 DEF Sound, Forward, Edges
<1> QED BY <1>1, <1>2, <1>3, <1>4, <1>5, <1>6, <1>7, <1>8, <1>9

LEMMA EdgesBack ==
  ASSUME NEW f, NEW in, NEW P, NEW Z, NEW O, Sound(f, in, P, Z, O), ~Terminated(f, in),
         NEW g, NEW T, Edges(f, in, P, O, Z, g, T),
         NEW Y, Y \subseteq f.blocks \X f.blocks,
         \A h, b \in f.blocks : <<h, b>> \in Y => <<h, b>> \in Z \/ (<<h, in>> \in Z /\ b \in T)
  PROVE  Backward(g, in, P) /\ Repeats(g, Y)
<1>1. /\ ToSet(f.succ[in]) = {} /\ in \in f.blocks
      /\ \A a \in f.blocks \ {in} : ToSet(g.succ[a]) = ToSet(f.succ[a])
  BY EdgesBasic
<1>2. g.blocks = f.blocks /\ ToSet(g.succ[in]) = T
  BY DEF Edges
<1>3. ASSUME NEW b, NEW E, LeadsTo(f, b, E) PROVE LeadsTo(g, b, E)
  <2> SUFFICES ASSUME NEW X \in SUBSET f.blocks, E \subseteq X,
                      \A a \in f.blocks : ToSet(g.succ[a]) \cap X # {} => a \in X
               PROVE  b \in X
    BY <1>2 DEF LeadsTo
  <2>1. \A a \in f.blocks : ToSet(f.succ[a]) \cap X # {} => a \in X
    BY <1>1
  <2> QED BY <1>3, <2>1 DEF LeadsTo
<1>4. Backward(g, in, P)
  <2> SUFFICES ASSUME NEW b \in f.blocks, NEW X \in SUBSET f.blocks, Exits(g, in, P) \subseteq X,
                      \A a \in f.blocks : ToSet(g.succ[a]) \cap X # {} => a \in X
               PROVE  b \in X
    BY <1>2 DEF Backward, LeadsTo
  <2>1. PICK t \in T : TRUE
    BY DEF Edges
  <2>2. t \in X
    <3>1. CASE t \in P
      BY <3>1 DEF Exits
    <3>2. CASE t \notin P
      <4>1. PICK e \in P : <<t, e>> \in Z
        BY <2>1, <3>2 DEF Edges
      <4>2. t \in f.blocks /\ e \in f.blocks
        BY <4>1 DEF Sound, Repeats
      <4>3. LeadsTo(g, t, {e})
        BY <1>3, <4>1, <4>2 DEF Sound, Repeats
      <4>4. {e} \subseteq X
        BY <4>1 DEF Exits
      <4> QED BY <1>2, <4>3, <4>4 DEF LeadsTo
    <3> QED BY <3>1, <3>2
  <2>3. in \in X
    BY <1>1, <1>2, <2>1, <2>2
  <2>4. LeadsTo(g, b, Exits(f, in, P))
    BY <1>3 DEF Sound, Backward
  <2>5. Exits(f, in, P) \subseteq X
    BY <2>3 DEF Exits
  <2> QED BY <1>2, <2>4, <2>5 DEF LeadsTo
<1>5. Repeats(g, Y)
  <2> SUFFICES ASSUME NEW h \in f.blocks, NEW b \in f.blocks, <<h, b>> \in Y PROVE LeadsTo(g, h, {b})
    BY <1>2 DEF Repeats
  <2>1. CASE <<h, b>> \in Z
    BY <1>3, <2>1 DEF Sound, Repeats
  <2>2. CASE <<h, in>> \in Z /\ b \in T
    <3>1. LeadsTo(g, h, {in})
      BY <1>1, <1>3, <2>2 DEF Sound, Repeats
    <3> SUFFICES ASSUME NEW X \in SUBSET f.blocks, b \in X,
                        \A a \in f.blocks : ToSet(g.succ[a]) \cap X # {} => a \in X
                 PROVE  h \in X
      BY <1>2 DEF LeadsTo
    <3>2. in \in X
      BY <1>1, <1>2, <2>2
    <3> QED BY <1>2, <3>1, <3>2 DEF LeadsTo
  <2> QED BY <2>1, <2>2
<1> QED BY <1>4, <1>5

\* What the insert block's dominators dominate, they still do.
LEMMA EdgesEntered ==
  ASSUME NEW f, NEW in, NEW P, NEW Z, NEW O, Sound(f, in, P, Z, O), ~Terminated(f, in),
         NEW g, NEW T, Edges(f, in, P, O, Z, g, T)
  PROVE  Entered(g, in, O)
<1>1. /\ Graph(f) /\ Graph(g) /\ in \in f.blocks
      /\ \A a \in f.blocks \ {in} : ToSet(g.succ[a]) = ToSet(f.succ[a])
  BY EdgesBasic
<1>2. g.blocks = f.blocks
  BY DEF Edges
<1> SUFFICES ASSUME NEW h \in f.blocks, NEW b \in f.blocks, Dom(f, h, b), Dom(f, h, in)
             PROVE  Dom(g, h, b)
  BY <1>1, <1>2 DEF Sound, Entered
<1>3. CASE h = b
  BY <1>3 DEF Dom, Dominates
<1>4. CASE h # b
  <2>1. PICK X \in SUBSET f.blocks : Shut(f, h, X) /\ b \notin X
    BY <1>1, <1>4, DomShut
  <2>2. PICK W \in SUBSET f.blocks : Shut(f, h, W) /\ in \notin W
    <3>1. CASE h = in
      BY <2>1, <3>1 DEF Shut
    <3>2. CASE h # in
      BY <1>1, <3>2, DomShut
    <3> QED BY <3>1, <3>2
  <2>3. Shut(g, h, X \cap W)
    BY <1>1, <1>2, <2>1, <2>2 DEF Shut
  <2> QED BY <1>1, <1>2, <2>1, <2>3, DomShut
<1> QED BY <1>3, <1>4

LEMMA EdgesStructured ==
  ASSUME NEW f, NEW in, NEW P, NEW Z, NEW O, Sound(f, in, P, Z, O), ~Terminated(f, in),
         NEW g, NEW T, Edges(f, in, P, O, Z, g, T)
  PROVE  Structured(g)
<1>1. /\ Graph(f) /\ Graph(g) /\ in \in f.blocks
      /\ ToSet(f.succ[in]) = {}
      /\ \A a \in f.blocks \ {in} : ToSet(g.succ[a]) = ToSet(f.succ[a])
  BY EdgesBasic
<1>2. g.blocks = f.blocks /\ ToSet(g.succ[in]) = T /\ T \subseteq f.blocks \ {Entry, in}
  BY DEF Edges
<1> SUFFICES ASSUME NEW X \in (SUBSET f.blocks) \ {{}}
             PROVE  \E a \in X : \A c \in ToSet(g.succ[a]) \cap X : Dom(g, c, a)
  BY <1>2 DEF Structured
<1>3. PICK a \in X : \A c \in ToSet(f.succ[a]) \cap X : Dom(f, c, a)
  BY DEF Sound, Structured
<1>4. \A c : Dom(g, c, c)
  BY DEF Dom, Dominates
<1>5. CASE T \subseteq P
  <2>1. \A t \in T : ToSet(f.succ[t]) = {} /\ ToSet(g.succ[t]) = {}
    BY <1>1, <1>2, <1>5, PendingFacts
  <2>2. CASE X \cap T # {}
    BY <2>1, <2>2
  <2>3. CASE X \cap T = {}
    <3> SUFFICES ASSUME NEW c \in ToSet(g.succ[a]) \cap X PROVE Dom(g, c, a)
      OBVIOUS
    <3>1. c \in ToSet(f.succ[a]) /\ a \notin T /\ a \in f.blocks
      BY <1>1, <1>2, <2>3
    <3>2. CASE c = a
      BY <1>4, <3>2
    <3>3. CASE c # a
      <4>1. PICK W \in SUBSET f.blocks : Shut(f, c, W) /\ a \notin W
        BY <1>1, <1>3, <3>1, <3>3, DomShut
      <4>2. Shut(g, c, W \cup (T \ {c}))
        BY <1>1, <1>2, <2>1, <4>1 DEF Shut
      <4> QED BY <1>1, <1>2, <3>1, <4>1, <4>2, DomShut
    <3> QED BY <3>2, <3>3
  <2> QED BY <2>2, <2>3
<1>6. CASE \A t \in T : <<t, in>> \in O
  <2>1. \A t \in T : Dom(f, t, in)
    BY <1>1, <1>2, <1>6 DEF Sound, Entered
  <2>2. ASSUME NEW c \in f.blocks, NEW b \in f.blocks, Dom(f, c, b) PROVE Dom(g, c, b)
    <3>1. CASE c = b
      BY <1>4, <3>1
    <3>2. CASE c # b
      <4>1. PICK W \in SUBSET f.blocks : Shut(f, c, W) /\ b \notin W
        BY <1>1, <2>2, <3>2, DomShut
      <4>2. CASE T \subseteq W \cup {c}
        <5>1. Shut(g, c, W)
          BY <1>1, <1>2, <4>1, <4>2 DEF Shut
        <5> QED BY <1>1, <1>2, <4>1, <5>1, DomShut
      <4>3. CASE ~(T \subseteq W \cup {c})
        <5>1. PICK t \in T : t \notin W /\ t # c
          BY <4>3
        <5>2. t \in f.blocks /\ t # Entry /\ t # in
          BY <1>2, <5>1
        <5>3. PICK V \in SUBSET f.blocks : Shut(f, t, V) /\ in \notin V
          BY <1>1, <2>1, <5>1, <5>2, DomShut
        <5>4. Shut(g, c, W \cap V)
          BY <1>1, <1>2, <4>1, <5>1, <5>2, <5>3 DEF Shut
        <5> QED BY <1>1, <1>2, <4>1, <5>4, DomShut
      <4> QED BY <4>2, <4>3
    <3> QED BY <3>1, <3>2
  <2>3. \A c \in ToSet(g.succ[a]) \cap X : Dom(g, c, a)
    <3>1. CASE a = in
      <4>1. \A c \in ToSet(g.succ[a]) : Dom(f, c, a) /\ c \in f.blocks
        BY <1>2, <2>1, <3>1
      <4> QED BY <2>2, <4>1
    <3>2. CASE a # in
      BY <1>1, <1>3, <2>2, <3>2
    <3> QED BY <3>1, <3>2
  <2> QED BY <2>3
<1> QED BY <1>5, <1>6 DEF Edges

LEMMA EdgesSound ==
  ASSUME NEW f, NEW in, NEW P, NEW Z, NEW O, Sound(f, in, P, Z, O), ~Terminated(f, in),
         NEW g, NEW T, Edges(f, in, P, O, Z, g, T),
         NEW Y, Y \subseteq f.blocks \X f.blocks,
         \A h, b \in f.blocks : <<h, b>> \in Y => <<h, b>> \in Z \/ (<<h, in>> \in Z /\ b \in T)
  PROVE  Sound(g, in, P, Y, O)
<1>1. Created(g) /\ TargetsSound(g) /\ Working(g, in, P) /\ Forward(g, P) /\ NoSelfLoop(g)
  BY EdgesBasic
<1>2. Backward(g, in, P) /\ Repeats(g, Y)
  BY EdgesBack
<1>3. Entered(g, in, O) /\ Structured(g)
  BY EdgesEntered, EdgesStructured
<1> QED BY <1>1, <1>2, <1>3 DEF Sound, Edges

\* An instruction at the end of an open block, whose successors it states.
LEMMA ClosingCode ==
  ASSUME NEW f \in FnType, CodeSound(f), NEW b \in BlockIds, ~Terminated(f, b),
         NEW i \in Instructions, i = <<"alloca">> => b = Entry, i = <<"ret">> => b = Ret,
         NEW g \in FnType, g.code[b] = Append(f.code[b], i), SuccessorsMatch(g, b),
         \A a \in BlockIds \ {b} : g.code[a] = f.code[a] /\ g.succ[a] = f.succ[a]
  PROVE  CodeSound(g)
<1>1. PICK c : c = f.code[b]
  OBVIOUS
<1>2. c \in Seq(Instructions) /\ Len(c) \in Nat /\ DOMAIN c = 1..Len(c)
  BY <1>1 DEF FnType
<1>3. PICK d : d = g.code[b]
  OBVIOUS
<1>4. /\ d # <<>> /\ Last(d) = i /\ Len(d) = Len(c) + 1 /\ DOMAIN d = 1..(Len(c) + 1)
      /\ d[Len(c) + 1] = i
      /\ \A k \in 1..Len(c) : d[k] = c[k]
  <2>1. d = Append(c, i)
    BY <1>1, <1>3
  <2>2. d \in Seq(Instructions) /\ d # <<>> /\ Last(d) = i /\ Len(d) = Len(c) + 1
        /\ \A k \in 1..Len(c) : d[k] = c[k]
    BY <1>2, <2>1, Appended
  <2>3. DOMAIN d = 1..(Len(c) + 1)
    BY <2>2
  <2> QED BY <2>2, <2>3 DEF Last
<1>5. \A k \in 1..Len(c) : ~IsTerminator(c[k])
  <2> SUFFICES ASSUME NEW k \in 1..Len(c) PROVE ~IsTerminator(c[k])
    OBVIOUS
  <2>1. CASE k = Len(c)
    <3>1. c # <<>>
      BY <1>2
    <3> QED BY <1>1, <1>2, <2>1, <3>1 DEF Terminated, Last
  <2>2. CASE k # Len(c)
    <3>1. k \in 1..(Len(c) - 1)
      BY <1>2, <2>2
    <3> QED BY <1>1, <3>1 DEF CodeSound
  <2> QED BY <2>1, <2>2
<1>6. ASSUME NEW a \in BlockIds
      PROVE  /\ \A k \in 1..(Len(g.code[a]) - 1) : ~IsTerminator(g.code[a][k])
             /\ SuccessorsMatch(g, a)
             /\ \A k \in DOMAIN g.code[a] : /\ g.code[a][k] = <<"alloca">> => a = Entry
                                            /\ g.code[a][k] = <<"ret">> => a = Ret
  <2>1. CASE a = b
    <3>1. \A k \in 1..(Len(d) - 1) : ~IsTerminator(d[k])
      BY <1>2, <1>4, <1>5
    <3>2. \A k \in DOMAIN d : (d[k] = <<"alloca">> => b = Entry) /\ (d[k] = <<"ret">> => b = Ret)
      <4> SUFFICES ASSUME NEW k \in 1..(Len(c) + 1)
                   PROVE  (d[k] = <<"alloca">> => b = Entry) /\ (d[k] = <<"ret">> => b = Ret)
        BY <1>4
      <4>1. CASE k = Len(c) + 1
        BY <1>4, <4>1
      <4>2. CASE k # Len(c) + 1
        <5>1. k \in DOMAIN c /\ d[k] = c[k]
          BY <1>2, <1>4, <4>2
        <5> QED BY <1>1, <5>1 DEF CodeSound
      <4> QED BY <4>1, <4>2
    <3> QED BY <1>3, <2>1, <3>1, <3>2
  <2>2. CASE a # b
    <3>1. g.code[a] = f.code[a] /\ g.succ[a] = f.succ[a]
      BY <2>2
    <3>2. SuccessorsMatch(g, a)
      BY <3>1 DEF CodeSound, SuccessorsMatch, Terminated
    <3> QED BY <3>1, <3>2 DEF CodeSound
  <2> QED BY <2>1, <2>2
<1> QED BY <1>6 DEF CodeSound

LEMMA BrEdges ==
  ASSUME NEW f, NEW in, NEW P, NEW Z, NEW O, Sound(f, in, P, Z, O), ~Terminated(f, in),
         NEW t \in f.blocks \ {Entry, in},
         t \in P \/ (<<t, in>> \in O /\ \E e \in P : <<t, e>> \in Z)
  PROVE  Edges(f, in, P, O, Z, CreateBr(f, in, t), {t})
<1>1. Graph(f) /\ f \in FnType /\ f.blocks \subseteq BlockIds /\ in \in BlockIds /\ t \in BlockIds
      /\ CodeSound(f) /\ Symmetric(f)
  BY SoundGraph, GraphFacts DEF Sound, Working
<1>2. f.succ[in] = <<>>
  BY OpenFacts
<1>31. PICK i : i = Jump(t)
  OBVIOUS
<1>3. PICK g : g = CreateBr(f, in, t)
  OBVIOUS
<1>40. Branches(f, in, g, i) /\ JumpsTo(f, in, t, g)
  BY <1>1, <1>3, <1>31, BrFacts
<1>4. /\ g \in FnType /\ g.blocks = f.blocks /\ g.n = f.n
      /\ g.pre[t] = Append(f.pre[t], in) /\ \A a \in BlockIds \ {t} : g.pre[a] = f.pre[a]
      /\ g.succ[in] = Append(f.succ[in], t) /\ \A a \in BlockIds \ {in} : g.succ[a] = f.succ[a]
  BY <1>40 DEF Branches, JumpsTo
<1>41. g.code[in] = Append(f.code[in], i) /\ \A a \in BlockIds \ {in} : g.code[a] = f.code[a]
  BY <1>40 DEF Branches
<1>5. Terminated(g, in)
  <2>1. i \in Instructions /\ IsTerminator(i)
    BY <1>1, <1>31, JumpFacts
  <2>2. f.code[in] \in Seq(Instructions)
    BY <1>1 DEF FnType
  <2>3. g.code[in] # <<>> /\ Last(g.code[in]) = i
    BY <1>41, <2>1, <2>2, Appended
  <2> QED BY <2>1, <2>3 DEF Terminated
<1>6. f.succ \in [BlockIds -> Seq(BlockIds)] /\ f.pre \in [BlockIds -> Seq(BlockIds)]
  BY <1>1 DEF FnType
<1>7. g.succ[in] = <<t>> /\ \A a \in BlockIds \ {in} : g.succ[a] = f.succ[a]
  <2>1. Append(<<>>, t) = <<t>>
    OBVIOUS
  <2> QED BY <1>1, <1>2, <1>4, <1>6, <2>1
<1>8. ToSet(g.succ[in]) = {t}
  BY <1>7 DEF ToSet
<1>9. Symmetric(g)
  <2> SUFFICES ASSUME NEW a \in BlockIds, NEW b \in BlockIds
               PROVE  Occurrences(g.succ[a], b) = Occurrences(g.pre[b], a)
    BY DEF Symmetric
  <2>1. Occurrences(f.succ[a], b) = Occurrences(f.pre[b], a)
    BY <1>1 DEF Symmetric
  <2>2. Occurrences(g.succ[a], b) = IF a = in /\ b = t THEN Occurrences(f.succ[a], b) + 1
                                    ELSE Occurrences(f.succ[a], b)
    <3>1. f.succ[a] \in Seq(BlockIds) /\ Occurrences(f.succ[a], b) \in Nat
      BY <1>6, OccurrencesNat
    <3>2. CASE a = in
      <4>1. g.succ[a] = Append(f.succ[a], t)
        BY <1>1, <1>4, <1>6, <3>2
      <4> QED BY <1>1, <3>1, <3>2, <4>1, OccurrencesAppend
    <3>3. CASE a # in
      BY <1>7, <3>3
    <3> QED BY <3>2, <3>3
  <2>3. Occurrences(g.pre[b], a) = IF a = in /\ b = t THEN Occurrences(f.pre[b], a) + 1
                                   ELSE Occurrences(f.pre[b], a)
    <3>1. f.pre[b] \in Seq(BlockIds) /\ Occurrences(f.pre[b], a) \in Nat
      BY <1>6, OccurrencesNat
    <3>2. CASE b = t
      <4>1. g.pre[b] = Append(f.pre[b], in)
        BY <1>1, <1>4, <1>6, <3>2
      <4> QED BY <1>1, <3>1, <3>2, <4>1, OccurrencesAppend
    <3>3. CASE b # t
      BY <1>4, <1>6, <3>3
    <3> QED BY <3>2, <3>3
  <2> QED BY <2>1, <2>2, <2>3
<1>10. CodeSound(g)
  <2>2. i \in Instructions /\ i # <<"alloca">> /\ i # <<"ret">>
    BY <1>1, <1>31, JumpFacts
  <2>4. f.code[in] \in Seq(Instructions)
    BY <1>1 DEF FnType
  <2>5. g.code[in] # <<>> /\ Last(g.code[in]) = i
    BY <1>41, <2>2, <2>4, Appended
  <2>6. SuccessorsMatch(g, in)
    BY <1>1, <1>7, <1>31, <2>5 DEF SuccessorsMatch, Jump, Choice
  <2>7. g \in FnType /\ \A a \in BlockIds \ {in} : g.code[a] = f.code[a] /\ g.succ[a] = f.succ[a]
    BY <1>4, <1>41, <1>7
  <2> QED BY <1>1, <1>41, <2>2, <2>6, <2>7, ClosingCode
<1>11. \A b \in BlockIds \ f.blocks : g.pre[b] = <<>>
  BY <1>1, <1>4, <1>6 DEF Sound, Created
<1>12. {t} \subseteq P \/ \A u \in {t} : <<u, in>> \in O
  OBVIOUS
<1>13. \A u \in {t} : u \in P \/ \E e \in P : <<u, e>> \in Z
  OBVIOUS
<1>14. {t} # {} /\ {t} \subseteq f.blocks \ {Entry, in}
  OBVIOUS
<1> QED BY <1>3, <1>4, <1>41, <1>5, <1>7, <1>8, <1>9, <1>10, <1>11, <1>12, <1>13, <1>14, Zenon DEF Edges

LEMMA CondBrEdges ==
  ASSUME NEW f, NEW in, NEW P, NEW Z, NEW O, Sound(f, in, P, Z, O), ~Terminated(f, in),
         NEW t \in P, NEW e \in P
  PROVE  Edges(f, in, P, O, Z, CreateCondBr(f, in, t, e), {t, e})
<1>1. Graph(f) /\ f \in FnType /\ f.blocks \subseteq BlockIds /\ in \in BlockIds
      /\ t \in BlockIds /\ e \in BlockIds /\ {t, e} \subseteq f.blocks \ {Entry, in}
      /\ CodeSound(f) /\ Symmetric(f)
  BY SoundGraph, GraphFacts DEF Sound, Working
<1>2. f.succ[in] = <<>>
  BY OpenFacts
<1>31. PICK i : i = Choice(t, e)
  OBVIOUS
<1>3. PICK g : g = CreateCondBr(f, in, t, e)
  OBVIOUS
<1>40. Branches(f, in, g, i) /\ Chooses(f, in, t, e, g)
  BY <1>1, <1>3, <1>31, CondBrFacts
<1>4. /\ g \in FnType /\ g.blocks = f.blocks /\ g.n = f.n
      /\ \E p \in [BlockIds -> Seq(BlockIds)] :
           /\ p[t] = Append(f.pre[t], in) /\ \A a \in BlockIds \ {t} : p[a] = f.pre[a]
           /\ g.pre[e] = Append(p[e], in) /\ \A a \in BlockIds \ {e} : g.pre[a] = p[a]
      /\ g.succ[in] = Append(Append(f.succ[in], e), t) /\ \A a \in BlockIds \ {in} : g.succ[a] = f.succ[a]
  BY <1>40 DEF Branches, Chooses
<1>41. g.code[in] = Append(f.code[in], i) /\ \A a \in BlockIds \ {in} : g.code[a] = f.code[a]
  BY <1>40 DEF Branches
<1>5. Terminated(g, in)
  <2>1. i \in Instructions /\ IsTerminator(i)
    BY <1>1, <1>31, JumpFacts
  <2>2. f.code[in] \in Seq(Instructions)
    BY <1>1 DEF FnType
  <2>3. g.code[in] # <<>> /\ Last(g.code[in]) = i
    BY <1>41, <2>1, <2>2, Appended
  <2> QED BY <2>1, <2>3 DEF Terminated
<1>6. f.succ \in [BlockIds -> Seq(BlockIds)] /\ f.pre \in [BlockIds -> Seq(BlockIds)]
  BY <1>1 DEF FnType
<1>60. PICK p \in [BlockIds -> Seq(BlockIds)] :
           /\ p[t] = Append(f.pre[t], in) /\ \A a \in BlockIds \ {t} : p[a] = f.pre[a]
           /\ g.pre[e] = Append(p[e], in) /\ \A a \in BlockIds \ {e} : g.pre[a] = p[a]
  BY <1>4
<1>7. g.succ[in] = <<e, t>> /\ \A a \in BlockIds \ {in} : g.succ[a] = f.succ[a]
  <2>1. Append(Append(<<>>, e), t) = <<e, t>>
    BY <1>1, AppendedBoth
  <2> QED BY <1>1, <1>2, <1>4, <1>6, <2>1
<1>8. ToSet(g.succ[in]) = {t, e}
  BY <1>7 DEF ToSet
<1>9. Symmetric(g)
  <2> SUFFICES ASSUME NEW a \in BlockIds, NEW b \in BlockIds
               PROVE  Occurrences(g.succ[a], b) = Occurrences(g.pre[b], a)
    BY DEF Symmetric
  <2> DEFINE one == IF a = in /\ b = t THEN 1 ELSE 0
             two == IF a = in /\ b = e THEN 1 ELSE 0
  <2>1. Occurrences(f.succ[a], b) = Occurrences(f.pre[b], a)
    BY <1>1 DEF Symmetric
  <2>2. Occurrences(g.succ[a], b) = Occurrences(f.succ[a], b) + two + one
    <3>1. f.succ[a] \in Seq(BlockIds) /\ Occurrences(f.succ[a], b) \in Nat
      BY <1>6, OccurrencesNat
    <3>2. CASE a = in
      <4>1. PICK s : s = Append(f.succ[a], e)
        OBVIOUS
      <4>2. s \in Seq(BlockIds)
        BY <1>1, <3>1, <4>1
      <4>3. Occurrences(s, b) = Occurrences(f.succ[a], b) + (IF e = b THEN 1 ELSE 0)
        BY <1>1, <3>1, <4>1, OccurrencesAppend
      <4>4. g.succ[a] = Append(s, t)
        BY <1>1, <1>4, <1>6, <3>2, <4>1
      <4>5. Occurrences(g.succ[a], b) = Occurrences(s, b) + (IF t = b THEN 1 ELSE 0)
        BY <1>1, <4>2, <4>4, OccurrencesAppend
      <4> QED BY <3>1, <3>2, <4>3, <4>5
    <3>3. CASE a # in
      BY <1>7, <3>1, <3>3
    <3> QED BY <3>2, <3>3
  <2>3. Occurrences(p[b], a) = Occurrences(f.pre[b], a) + one
    <3>1. f.pre[b] \in Seq(BlockIds) /\ Occurrences(f.pre[b], a) \in Nat
      BY <1>6, OccurrencesNat
    <3>2. CASE b = t
      <4>1. p[b] = Append(f.pre[b], in)
        BY <1>1, <1>60, <1>6, <3>2
      <4> QED BY <1>1, <3>1, <3>2, <4>1, OccurrencesAppend
    <3>3. CASE b # t
      BY <1>60, <1>6, <3>1, <3>3
    <3> QED BY <3>2, <3>3
  <2>4. Occurrences(g.pre[b], a) = Occurrences(p[b], a) + two
    <3>1. p[b] \in Seq(BlockIds) /\ Occurrences(p[b], a) \in Nat
      BY OccurrencesNat
    <3>2. CASE b = e
      <4>1. g.pre[b] = Append(p[b], in)
        BY <1>1, <1>60, <3>2
      <4> QED BY <1>1, <3>1, <3>2, <4>1, OccurrencesAppend
    <3>3. CASE b # e
      <4>1. g.pre[b] = p[b]
        BY <1>60, <3>3
      <4> QED BY <3>1, <3>3, <4>1
    <3> QED BY <3>2, <3>3
  <2>5. Occurrences(f.pre[b], a) \in Nat
    BY <1>6, OccurrencesNat
  <2> QED BY <2>1, <2>2, <2>3, <2>4, <2>5
<1>10. CodeSound(g)
  <2>2. i \in Instructions /\ i # <<"alloca">> /\ i # <<"ret">>
    BY <1>1, <1>31, JumpFacts
  <2>4. f.code[in] \in Seq(Instructions)
    BY <1>1 DEF FnType
  <2>5. g.code[in] # <<>> /\ Last(g.code[in]) = i
    BY <1>41, <2>2, <2>4, Appended
  <2>6. SuccessorsMatch(g, in)
    BY <1>1, <1>7, <1>31, <2>5 DEF SuccessorsMatch, Jump, Choice
  <2>7. g \in FnType /\ \A a \in BlockIds \ {in} : g.code[a] = f.code[a] /\ g.succ[a] = f.succ[a]
    BY <1>4, <1>41, <1>7
  <2> QED BY <1>1, <1>41, <2>2, <2>6, <2>7, ClosingCode
<1>11. \A b \in BlockIds \ f.blocks : g.pre[b] = <<>>
  BY <1>1, <1>60, <1>6 DEF Sound, Created
<1>12. {t, e} \subseteq P /\ {t, e} # {}
  OBVIOUS
<1>13. \A u \in {t, e} : u \in P
  OBVIOUS
<1> QED BY <1>1, <1>3, <1>4, <1>41, <1>5, <1>7, <1>8, <1>9, <1>10, <1>11, <1>12, <1>13, Zenon DEF Edges

\* What a branch from in to T leaves as it was.
Grown(f, g, in, T) ==
  /\ g.blocks = f.blocks /\ g.n = f.n /\ Terminated(g, in)
  /\ \A a \in BlockIds \ {in} : g.code[a] = f.code[a]
  /\ \A a \in T : g.pre[a] # <<>>
  /\ \A a \in BlockIds \ T : g.pre[a] = f.pre[a]

\* Where a jump may go: to a pending block, or back to the head of a loop.
MayJump(f, in, P, Z, O, t) ==
  t \in f.blocks \ {Entry, in} /\ (t \in P \/ (<<t, in>> \in O /\ \E e \in P : <<t, e>> \in Z))

Jumped(f, in, t, g) == Grown(f, g, in, {t}) /\ g.succ[in] = <<t>>

LEMMA BrSound ==
  ASSUME NEW f, NEW in, NEW P, NEW Z, NEW O, Sound(f, in, P, Z, O), ~Terminated(f, in),
         NEW t, MayJump(f, in, P, Z, O, t)
  PROVE  Sound(CreateBr(f, in, t), in, P, Z, O) /\ Jumped(f, in, t, CreateBr(f, in, t))
<1>0. t \in f.blocks \ {Entry, in} /\ (t \in P \/ (<<t, in>> \in O /\ \E e \in P : <<t, e>> \in Z))
  BY DEF MayJump
<1>1. PICK g : g = CreateBr(f, in, t)
  OBVIOUS
<1>2. Edges(f, in, P, O, Z, g, {t})
  BY <1>0, <1>1, BrEdges
<1>3. \A h, b \in f.blocks : <<h, b>> \in Z => <<h, b>> \in Z \/ (<<h, in>> \in Z /\ b \in {t})
  OBVIOUS
<1>4. Z \subseteq f.blocks \X f.blocks
  BY DEF Sound, Repeats
<1>5. Sound(g, in, P, Z, O)
  BY <1>2, <1>3, <1>4, EdgesSound
<1>6. f \in FnType /\ in \in BlockIds /\ t \in BlockIds /\ f.succ[in] = <<>>
  BY <1>0, SoundGraph, GraphFacts, OpenFacts DEF Sound
<1>7. JumpsTo(f, in, t, g)
  BY <1>1, <1>6, BrFacts
<1>8. g.pre[t] # <<>> /\ \A a \in BlockIds \ {t} : g.pre[a] = f.pre[a]
  <2>1. f.pre[t] \in Seq(BlockIds)
    BY <1>6 DEF FnType
  <2>2. Append(f.pre[t], in) # <<>>
    BY <1>6, <2>1, Appended
  <2> QED BY <1>7, <2>2 DEF JumpsTo
<1>9. g.succ[in] = <<t>>
  <2>1. Append(<<>>, t) = <<t>>
    OBVIOUS
  <2> QED BY <1>6, <1>7, <2>1 DEF JumpsTo
<1>10. Grown(f, g, in, {t})
  BY <1>2, <1>8 DEF Grown, Edges
<1> QED BY <1>1, <1>5, <1>9, <1>10 DEF Jumped

\* What may be said of paths in Y after a branch from in to T, when Z was known.
Leads(f, in, Z, Y, T) ==
  /\ Y \subseteq f.blocks \X f.blocks
  /\ \A h, b \in f.blocks : <<h, b>> \in Y => <<h, b>> \in Z \/ (<<h, in>> \in Z /\ b \in T)

LEMMA CondBrSound ==
  ASSUME NEW f, NEW in, NEW P, NEW Z, NEW O, Sound(f, in, P, Z, O), ~Terminated(f, in),
         NEW t \in P, NEW e \in P, NEW Y, Leads(f, in, Z, Y, {t, e})
  PROVE  /\ Sound(CreateCondBr(f, in, t, e), in, P, Y, O)
         /\ Grown(f, CreateCondBr(f, in, t, e), in, {t, e})
<1>1. PICK g : g = CreateCondBr(f, in, t, e)
  OBVIOUS
<1>2. Edges(f, in, P, O, Z, g, {t, e})
  BY <1>1, CondBrEdges
<1>5. Sound(g, in, P, Y, O)
  <2>1. /\ Y \subseteq f.blocks \X f.blocks
        /\ \A h, b \in f.blocks : <<h, b>> \in Y => <<h, b>> \in Z \/ (<<h, in>> \in Z /\ b \in {t, e})
    BY DEF Leads
  <2> QED BY <1>2, <2>1, EdgesSound
<1>6. f \in FnType /\ in \in BlockIds /\ t \in BlockIds /\ e \in BlockIds
  BY SoundGraph, GraphFacts, OpenFacts DEF Sound, Working
<1>7. Chooses(f, in, t, e, g)
  BY <1>1, <1>6, CondBrFacts
<1>8. (\A a \in {t, e} : g.pre[a] # <<>>) /\ \A a \in BlockIds \ {t, e} : g.pre[a] = f.pre[a]
  <2>1. PICK p \in [BlockIds -> Seq(BlockIds)] :
           /\ p[t] = Append(f.pre[t], in) /\ \A a \in BlockIds \ {t} : p[a] = f.pre[a]
           /\ g.pre[e] = Append(p[e], in) /\ \A a \in BlockIds \ {e} : g.pre[a] = p[a]
    BY <1>7 DEF Chooses
  <2>2. f.pre[t] \in Seq(BlockIds) /\ p[e] \in Seq(BlockIds)
    BY <1>6 DEF FnType
  <2>3. Append(f.pre[t], in) # <<>> /\ Append(p[e], in) # <<>>
    BY <1>6, <2>2, Appended
  <2>4. g.pre[e] # <<>> /\ g.pre[t] # <<>>
    BY <1>6, <2>1, <2>3
  <2> QED BY <1>6, <2>1, <2>4
<1>10. Grown(f, g, in, {t, e})
  BY <1>2, <1>8 DEF Grown, Edges
<1> QED BY <1>1, <1>5, <1>10

\* Y and Q are what is left of Z and O without block t.
Remains(f, in, t, Z, O, Y, Q) ==
  /\ Y \subseteq Z /\ Q \subseteq O
  /\ Y \subseteq (f.blocks \ {t}) \X (f.blocks \ {t}) /\ Q \subseteq (f.blocks \ {t}) \X (f.blocks \ {t})
  /\ \A h, b \in f.blocks : <<h, b>> \in Q => <<h, in>> \in Q

Shrunk(f, t, g) ==
  g.blocks = f.blocks \ {t} /\ g.n = f.n /\ g.pre = f.pre /\ g.code = f.code

\* A block that is taken out again because nothing branches to it.
LEMMA EraseSound ==
  ASSUME NEW f, NEW in, NEW P, NEW Z, NEW O, Sound(f, in, P, Z, O),
         NEW t \in P, t # Ret, f.pre[t] = <<>>,
         NEW Y, NEW Q, Remains(f, in, t, Z, O, Y, Q)
  PROVE  Sound(EraseBlock(f, t), in, P \ {t}, Y, Q) /\ Shrunk(f, t, EraseBlock(f, t))
<1>0. /\ Y \subseteq Z /\ Q \subseteq O
      /\ Y \subseteq (f.blocks \ {t}) \X (f.blocks \ {t}) /\ Q \subseteq (f.blocks \ {t}) \X (f.blocks \ {t})
      /\ \A h, b \in f.blocks : <<h, b>> \in Q => <<h, in>> \in Q
  BY DEF Remains
<1>1. PICK g : g = EraseBlock(f, t)
  OBVIOUS
<1>2. /\ t \in f.blocks \ {Entry, in} /\ t \in BlockIds /\ f.code[t] = <<>> /\ f.succ[t] = <<>>
      /\ ToSet(f.succ[t]) = {} /\ Graph(f) /\ f \in FnType /\ f.blocks \subseteq BlockIds
      /\ \A a \in f.blocks : ToSet(f.succ[a]) \subseteq f.blocks \ {Entry}
  BY PendingFacts, SoundGraph, GraphFacts DEF Graph
<1>3. /\ g \in FnType /\ g.n = f.n /\ g.blocks = f.blocks \ {t}
      /\ g.pre = f.pre /\ g.succ = f.succ /\ g.code = f.code
  BY <1>1, <1>2, EraseFacts
<1>4. \A a \in BlockIds : t \notin ToSet(f.succ[a])
  <2>1. ToSet(<<>>) = {}
    BY DEF ToSet
  <2> QED BY <1>2, <2>1, EdgeBack DEF Sound
<1>5. \A b \in BlockIds : Terminated(g, b) <=> Terminated(f, b)
  BY <1>3 DEF Terminated
<1>6. Created(g)
  BY <1>2, <1>3 DEF Sound, Created
<1>7. CodeSound(g)
  BY <1>3, <1>5 DEF Sound, CodeSound, SuccessorsMatch
<1>8. TargetsSound(g) /\ Symmetric(g)
  BY <1>3, <1>4 DEF Sound, TargetsSound, Symmetric
<1>9. Working(g, in, P \ {t})
  BY <1>2, <1>3, <1>5 DEF Sound, Working
<1>10. Graph(g)
  BY <1>3, <1>6, <1>8, <1>9 DEF Graph, Working
<1>11. Forward(g, P \ {t})
  <2> DEFINE K == ReachIn(f.blocks, Succ(f), Entry)
             L == ReachIn(g.blocks, Succ(g), Entry)
  <2>1. L \in SUBSET f.blocks /\ Entry \in L /\ \A a \in L : ToSet(f.succ[a]) \subseteq L
    BY <1>3, <1>10, ReachShut
  <2>2. K \subseteq L
    BY <1>2, <2>1, ReachShut
  <2> QED BY <1>3, <2>2 DEF Sound, Forward
<1>12. ASSUME NEW b \in f.blocks \ {t}, NEW E, LeadsTo(f, b, E) PROVE LeadsTo(g, b, E \ {t})
  <2> SUFFICES ASSUME NEW X \in SUBSET g.blocks, E \ {t} \subseteq X,
                      \A a \in g.blocks : ToSet(g.succ[a]) \cap X # {} => a \in X
               PROVE  b \in X
    BY DEF LeadsTo
  <2>1. X \cup {t} \in SUBSET f.blocks /\ E \subseteq X \cup {t}
    BY <1>2, <1>3
  <2>2. \A a \in f.blocks : ToSet(f.succ[a]) \cap (X \cup {t}) # {} => a \in X \cup {t}
    BY <1>2, <1>3, <1>4
  <2>3. b \in X \cup {t}
    BY <1>12, <2>1, <2>2 DEF LeadsTo
  <2> QED BY <2>3
<1>13. Backward(g, in, P \ {t})
  <2>1. Exits(g, in, P \ {t}) = Exits(f, in, P) \ {t}
    <3>1. in # t /\ in \in BlockIds
      BY <1>2, <1>9 DEF Working, Graph, Sound
    <3>2. CASE Terminated(f, in)
      <4>1. Terminated(g, in)
        BY <1>5, <3>1, <3>2
      <4> QED BY <3>2, <4>1 DEF Exits
    <3>3. CASE ~Terminated(f, in)
      <4>1. ~Terminated(g, in)
        BY <1>5, <3>1, <3>3
      <4> QED BY <3>1, <3>3, <4>1 DEF Exits
    <3> QED BY <3>2, <3>3
  <2> QED BY <1>3, <1>12, <2>1 DEF Sound, Backward
<1>14. Repeats(g, Y)
  <2> SUFFICES ASSUME NEW h \in g.blocks, NEW b \in g.blocks, <<h, b>> \in Y PROVE LeadsTo(g, h, {b})
    BY <1>0, <1>3 DEF Repeats
  <2>1. LeadsTo(f, h, {b})
    BY <1>0, <1>3 DEF Sound, Repeats
  <2>2. {b} \ {t} = {b} /\ h \in f.blocks \ {t}
    BY <1>3
  <2> QED BY <1>12, <2>1, <2>2
<1>15. ASSUME NEW h, NEW b \in f.blocks \ {t}, Dom(f, h, b) PROVE Dom(g, h, b)
  <2>1. CASE h = b
    BY <2>1 DEF Dom, Dominates
  <2>2. CASE h # b
    <3>1. PICK X \in SUBSET f.blocks : Shut(f, h, X) /\ b \notin X
      BY <1>2, <1>15, <2>2, DomShut
    <3>2. Shut(g, h, X \ {t})
      BY <1>2, <1>3, <1>4, <3>1 DEF Shut
    <3>3. X \ {t} \in SUBSET g.blocks /\ b \notin X \ {t}
      BY <1>3, <3>1
    <3> QED BY <1>10, <3>2, <3>3, DomShut
  <2> QED BY <2>1, <2>2
<1>16. Entered(g, in, Q)
  BY <1>0, <1>3, <1>15 DEF Sound, Entered
<1>17. NoSelfLoop(g)
  BY <1>3 DEF Sound, NoSelfLoop
<1>18. Structured(g)
  <2> SUFFICES ASSUME NEW X \in (SUBSET g.blocks) \ {{}}
               PROVE  \E a \in X : \A c \in ToSet(g.succ[a]) \cap X : Dom(g, c, a)
    BY DEF Structured
  <2>1. PICK a \in X : \A c \in ToSet(f.succ[a]) \cap X : Dom(f, c, a)
    BY <1>3 DEF Sound, Structured
  <2> QED BY <1>3, <1>15, <2>1
<1>19. Sound(g, in, P \ {t}, Y, Q)
  BY <1>3, <1>6, <1>7, <1>8, <1>9, <1>11, <1>13, <1>14, <1>16, <1>17, <1>18 DEF Sound
<1> QED BY <1>1, <1>3, <1>19 DEF Shrunk

\* The return at the end of the function.
LEMMA RetSound ==
  ASSUME NEW f, NEW P, NEW Z, NEW O, Sound(f, Ret, P, Z, O), ~Terminated(f, Ret)
  PROVE  /\ Sound(Put(f, Ret, <<"ret">>), Ret, P, Z, O)
         /\ Terminated(Put(f, Ret, <<"ret">>), Ret)
         /\ Last(Put(f, Ret, <<"ret">>).code[Ret]) = <<"ret">>
         /\ Put(f, Ret, <<"ret">>).n = f.n
<1>1. f \in FnType /\ Ret \in BlockIds /\ CodeSound(f) /\ f.succ[Ret] = <<>>
  BY OpenFacts, SoundGraph DEF Sound
<1>2. PICK i : i = <<"ret">>
  OBVIOUS
<1>3. i \in Instructions /\ IsTerminator(i) /\ i # <<"alloca">>
  <2>1. i[1] = "ret" /\ <<"alloca">>[1] = "alloca"
    BY <1>2
  <2>2. i # <<"alloca">>
    BY <2>1
  <2> QED BY <1>2, <2>2 DEF Instructions, IsTerminator
<1>4. PICK g : g = Put(f, Ret, i)
  OBVIOUS
<1>5. /\ g \in FnType /\ g.blocks = f.blocks /\ g.n = f.n /\ g.pre = f.pre /\ g.succ = f.succ
      /\ g.code[Ret] = Append(f.code[Ret], i)
      /\ \A a \in BlockIds \ {Ret} : g.code[a] = f.code[a]
  BY <1>1, <1>3, <1>4, PutFacts
<1>6. g.code[Ret] # <<>> /\ Last(g.code[Ret]) = i
  <2>1. f.code[Ret] \in Seq(Instructions)
    BY <1>1 DEF FnType
  <2> QED BY <1>3, <1>5, <2>1, Appended
<1>7. Terminated(g, Ret) /\ \A a \in BlockIds \ {Ret} : Terminated(g, a) <=> Terminated(f, a)
  BY <1>3, <1>5, <1>6 DEF Terminated
<1>8. CodeSound(g)
  <2>1. SuccessorsMatch(g, Ret)
    BY <1>1, <1>2, <1>5, <1>6 DEF SuccessorsMatch
  <2>2. \A a \in BlockIds \ {Ret} : g.code[a] = f.code[a] /\ g.succ[a] = f.succ[a]
    BY <1>5
  <2> QED BY <1>1, <1>3, <1>5, <2>1, <2>2, ClosingCode
<1>9. Created(g)
  BY <1>5 DEF Sound, Created, Working
<1>10. TargetsSound(g) /\ Symmetric(g) /\ NoSelfLoop(g)
  BY <1>5 DEF Sound, TargetsSound, Symmetric, NoSelfLoop
<1>11. Working(g, Ret, P)
  <2>1. f.blocks \subseteq BlockIds
    BY <1>1 DEF FnType
  <2> QED BY <1>5, <1>7, <2>1 DEF Sound, Working
<1>12. Succ(g) = Succ(f)
  BY <1>5 DEF Succ
<1>13. Forward(g, P) /\ Entered(g, Ret, O) /\ Structured(g)
  BY <1>5, <1>12 DEF Sound, Forward, Entered, Structured, Dom
<1>14. \A b, E : LeadsTo(g, b, E) <=> LeadsTo(f, b, E)
  BY <1>5 DEF LeadsTo
<1>15. Exits(g, Ret, P) = Exits(f, Ret, P)
  BY DEF Exits
<1>16. Backward(g, Ret, P) /\ Repeats(g, Z)
  BY <1>5, <1>14, <1>15 DEF Sound, Backward, Repeats
<1>17. Sound(g, Ret, P, Z, O)
  BY <1>5, <1>8, <1>9, <1>10, <1>11, <1>13, <1>16 DEF Sound
<1> QED BY <1>2, <1>4, <1>5, <1>6, <1>7, <1>17

\* The two blocks that every function starts with.
LEMMA StartSound ==
  ASSUME MaxBlocks \in Nat, MaxBlocks >= 2
  PROVE  LET f == NewBlocks(EmptyFn, 2) IN
         /\ Sound(f, Entry, {Ret}, {}, {}) /\ ~Terminated(f, Entry)
         /\ f.blocks = {Entry, Ret} /\ f.n = 2
<1>0. PICK e : e = EmptyFn
  OBVIOUS
<1>1. /\ e \in FnType /\ e.n = 0 /\ e.blocks = {}
      /\ \A b \in BlockIds : e.pre[b] = <<>> /\ e.succ[b] = <<>> /\ e.code[b] = <<>>
  BY <1>0 DEF EmptyFn, FnType
<1>2. PICK f : f = NewBlocks(e, 2)
  OBVIOUS
<1>3. /\ f \in FnType /\ f.n = 2 /\ f.blocks = {Entry, Ret}
      /\ f.pre = e.pre /\ f.succ = e.succ /\ f.code = e.code
  <2>1. /\ f \in FnType /\ f.n = e.n + 2 /\ f.blocks = e.blocks \cup (e.n + 1)..(e.n + 2)
        /\ f.pre = e.pre /\ f.succ = e.succ /\ f.code = e.code
    BY <1>1, <1>2, NewFacts
  <2>2. (0 + 1)..(0 + 2) = {Entry, Ret}
    BY DEF Entry, Ret
  <2> QED BY <1>1, <2>1, <2>2
<1>4. Entry \in BlockIds /\ Ret \in BlockIds /\ Entry # Ret /\ f.blocks \subseteq 1..2
  BY <1>3 DEF Entry, Ret, BlockIds
<1>5. \A b \in BlockIds : /\ f.pre[b] = <<>> /\ f.succ[b] = <<>> /\ f.code[b] = <<>>
                          /\ ToSet(f.succ[b]) = {} /\ ~Terminated(f, b)
  BY <1>1, <1>3 DEF ToSet, Terminated
<1>6. Created(f)
  BY <1>3, <1>4, <1>5 DEF Created
<1>7. CodeSound(f)
  <2> SUFFICES ASSUME NEW b \in BlockIds
               PROVE  /\ \A k \in 1..(Len(f.code[b]) - 1) : ~IsTerminator(f.code[b][k])
                      /\ SuccessorsMatch(f, b)
                      /\ \A k \in DOMAIN f.code[b] : /\ f.code[b][k] = <<"alloca">> => b = Entry
                                                     /\ f.code[b][k] = <<"ret">> => b = Ret
    BY DEF CodeSound
  <2>1. SuccessorsMatch(f, b)
    BY <1>5 DEF SuccessorsMatch
  <2>2. Len(f.code[b]) = 0 /\ DOMAIN f.code[b] = {}
    BY <1>5
  <2> QED BY <2>1, <2>2
<1>8. TargetsSound(f) /\ NoSelfLoop(f)
  BY <1>3, <1>4, <1>5 DEF TargetsSound, NoSelfLoop
<1>9. Symmetric(f)
  <2>1. <<>> \in Seq(BlockIds) /\ ToSet(<<>>) = {}
    BY DEF ToSet
  <2>2. \A a \in BlockIds : Occurrences(<<>>, a) = 0
    BY <2>1, OccurrencesNat
  <2> QED BY <1>5, <2>2 DEF Symmetric
<1>10. Working(f, Entry, {Ret})
  BY <1>3, <1>4, <1>5 DEF Working
<1>11. Graph(f)
  BY <1>3, <1>6, <1>8 DEF Graph
<1>12. Forward(f, {Ret})
  BY <1>3, <1>11, ReachShut DEF Forward
<1>13. Backward(f, Entry, {Ret})
  BY <1>3, <1>4, <1>5 DEF Backward, LeadsTo, Exits
<1>14. Repeats(f, {}) /\ Entered(f, Entry, {})
  BY DEF Repeats, Entered
<1>15. Structured(f)
  <2> SUFFICES ASSUME NEW X \in (SUBSET f.blocks) \ {{}}
               PROVE  \E a \in X : \A c \in ToSet(f.succ[a]) \cap X : Dom(f, c, a)
    BY DEF Structured
  <2>1. PICK a \in X : TRUE
    OBVIOUS
  <2>2. a \in BlockIds
    BY <1>3, <1>4, <2>1
  <2>3. ToSet(f.succ[a]) = {}
    BY <1>5, <2>2
  <2> QED BY <2>1, <2>3
<1>16. Sound(f, Entry, {Ret}, {}, {})
  BY <1>3, <1>6, <1>7, <1>8, <1>9, <1>10, <1>12, <1>13, <1>14, <1>15 DEF Sound
<1> QED BY <1>0, <1>2, <1>3, <1>4, <1>5, <1>16

\* What Sound says of a finished function.
LEMMA FinishedFacts ==
  ASSUME NEW f, Sound(f, Ret, {}, {}, {}), Terminated(f, Ret), Last(f.code[Ret]) = <<"ret">>
  PROVE  /\ \A b \in f.blocks : Terminated(f, b)
         /\ Pred(f)[Entry] = {}
         /\ ReachIn(f.blocks, Succ(f), Entry) = f.blocks
         /\ ReachIn(f.blocks, Pred(f), Ret) = f.blocks
         /\ \A b \in f.blocks : Last(f.code[b]) = <<"ret">> <=> b = Ret
<1>1. /\ Graph(f) /\ f \in FnType /\ IsFiniteSet(f.blocks) /\ f.blocks \subseteq BlockIds
      /\ Entry \in f.blocks /\ Ret \in f.blocks
      /\ \A a \in f.blocks : Succ(f)[a] = ToSet(f.succ[a]) /\ ToSet(f.succ[a]) \subseteq f.blocks \ {Entry}
  BY SoundGraph, GraphFacts DEF Graph, Sound, Working
<1>2. \A b \in f.blocks : Terminated(f, b)
  BY DEF Sound, Working
<1>3. Pred(f)[Entry] = {}
  <2>1. \A a \in BlockIds : Entry \notin ToSet(f.succ[a])
    BY DEF Sound, TargetsSound
  <2>2. ToSet(f.pre[Entry]) \subseteq BlockIds
    <3>1. f.pre[Entry] \in Seq(BlockIds)
      BY <1>1 DEF FnType
    <3> QED BY <3>1 DEF ToSet
  <2>3. ToSet(f.pre[Entry]) = {}
    BY <1>1, <2>1, <2>2, EdgeBack DEF Sound
  <2> QED BY <1>1, <2>3 DEF Pred
<1>4. ReachIn(f.blocks, Succ(f), Entry) = f.blocks
  BY <1>1, ReachShut DEF Sound, Forward
<1>5. ReachIn(f.blocks, Pred(f), Ret) = f.blocks
  <2> DEFINE L == ReachIn(f.blocks, Pred(f), Ret)
  <2>1. L \subseteq f.blocks /\ Ret \in L /\ Closed(f.blocks, Pred(f), L)
    BY <1>1, ReachClosed
  <2>2. \A a \in f.blocks : ToSet(f.succ[a]) \cap L # {} => a \in L
    <3> SUFFICES ASSUME NEW a \in f.blocks, NEW c \in ToSet(f.succ[a]) \cap L PROVE a \in L
      OBVIOUS
    <3>1. a \in ToSet(f.pre[c])
      BY <1>1, <2>1, EdgeBack DEF Sound
    <3>2. Pred(f)[c] = ToSet(f.pre[c])
      BY <2>1 DEF Pred
    <3> QED BY <2>1, <3>1, <3>2 DEF Closed
  <2> HIDE DEF L
  <2>3. Exits(f, Ret, {}) = {Ret}
    BY DEF Exits
  <2>4. \A b \in f.blocks : LeadsTo(f, b, {Ret})
    BY <2>3 DEF Sound, Backward
  <2>5. \A b \in f.blocks : b \in L
    BY <2>1, <2>2, <2>4 DEF LeadsTo
  <2> QED BY <2>1, <2>5 DEF L
<1>6. ASSUME NEW b \in f.blocks PROVE Last(f.code[b]) = <<"ret">> <=> b = Ret
  <2>1. f.code[b] \in Seq(Instructions) /\ f.code[b] # <<>>
    BY <1>1, <1>2 DEF FnType, Terminated
  <2>2. ASSUME Last(f.code[b]) = <<"ret">> PROVE b = Ret
    <3>1. Len(f.code[b]) \in DOMAIN f.code[b]
      BY <2>1
    <3> QED BY <1>1, <2>2, <3>1 DEF Last, Sound, CodeSound
  <2>3. ASSUME b = Ret PROVE Last(f.code[b]) = <<"ret">>
    BY <2>3
  <2> QED BY <2>2, <2>3
<1> QED BY <1>2, <1>3, <1>4, <1>5, <1>6

LEMMA StructuredReducible ==
  ASSUME NEW f, Graph(f), Structured(f)
  PROVE  Reducible(f.blocks, Succ(f), Entry)
<1> DEFINE N == f.blocks
           S == Succ(f)
           tree == [a \in N |-> DominatedBy(N, S, Entry, a)]
           F == [b \in N |-> {c \in S[b] : b \notin tree[c]}]
<1>1. IsFiniteSet(N) /\ \A a \in N : S[a] = ToSet(f.succ[a]) /\ S[a] \subseteq N
  BY GraphFacts
<1>2. ASSUME NEW b \in N, NEW c \in S[b] PROVE c \in F[b] <=> ~Dom(f, c, b)
  <2>1. c \in N
    BY <1>1
  <2>2. c \in F[b] <=> b \notin tree[c]
    OBVIOUS
  <2>3. tree[c] = {c} \cup (N \ ReachIn(N \ {c}, S, Entry))
    BY <2>1 DEF DominatedBy
  <2> HIDE DEF F, S, tree
  <2>4. Dom(f, c, b) <=> c = b \/ b \notin ReachIn(N \ {c}, S, Entry)
    BY DEF Dom, Dominates, S
  <2> QED BY <2>2, <2>3, <2>4
<1>3. \A b \in N : F[b] \subseteq S[b]
  OBVIOUS
<1> SUFFICES ASSUME NEW b \in N, NEW c \in F[b], b \in ReachIn(N, F, c) PROVE FALSE
  BY DEF Reducible
<1> DEFINE K == ReachIn(N, F, c)
           X == {x \in K : b \in ReachIn(N, F, x)}
<1> HIDE DEF F, S, tree
<1>4. c \in N
  BY <1>1, <1>3
<1>5. K \subseteq N /\ c \in K /\ Closed(N, F, K) /\ b \in K
  BY <1>1, <1>4, ReachClosed
<1> HIDE DEF K
<1>6. b \in X /\ c \in X
  <2>1. b \in ReachIn(N, F, b)
    BY <1>1, ReachClosed
  <2> QED BY <1>5, <2>1 DEF K
<1>7. PICK a \in X : \A d \in ToSet(f.succ[a]) \cap X : Dom(f, d, a)
  BY <1>5, <1>6 DEF Structured
<1>8. a \in N
  BY <1>5
<1>9. \A d \in F[a] : d \notin X
  BY <1>1, <1>2, <1>3, <1>7, <1>8
<1>10. a # b
  BY <1>6, <1>9
<1>11. PICK d \in F[a] \cap N : b \in ReachIn(N, F, d)
  <2>1. b \in ReachIn(N, F, a)
    OBVIOUS
  <2> QED BY <1>1, <1>8, <1>10, <2>1, ReachFirst
<1>12. d \in X
  BY <1>5, <1>11 DEF Closed
<1> QED BY <1>9, <1>11, <1>12

-----------------------------------------------------------------------------
(* The stack, from its top: call A on the calls c.                         *)

On(A, c) == <<A>> \o c

\* The heads of the open loops, and what they dominate besides the insert block.
Heads(c) == {Frame(c, p).whileBB : p \in Loops(c)}

Rest(c) == UNION {{Frame(c, p).whileBB} \X Inside(c, p) : p \in Loops(c)}

Extends(d, A, c) ==
  /\ Depths(d) = Depths(c) \cup {Len(c) + 1} /\ Frame(d, Len(c) + 1) = A
  /\ \A p \in Depths(c) : Frame(d, p) = Frame(c, p) /\ Frame(c, p) \in FrameType

LEMMA OnFacts ==
  ASSUME NEW A \in FrameType, NEW c \in Seq(FrameType)
  PROVE  /\ On(A, c) \in Seq(FrameType) /\ On(A, c) # <<>>
         /\ Head(On(A, c)) = A /\ Tail(On(A, c)) = c
         /\ Len(c) \in Nat /\ Len(On(A, c)) = Len(c) + 1
         /\ Len(c) + 1 \notin Depths(c) /\ Extends(On(A, c), A, c)
<1> DEFINE d == On(A, c)
<1>1. /\ d \in Seq(FrameType) /\ Len(d) = Len(c) + 1 /\ Len(c) \in Nat /\ d[1] = A
      /\ \A k \in 2..(Len(c) + 1) : d[k] = c[k - 1]
  BY DEF On
<1>2. d # <<>>
  <2>1. Len(d) # 0 /\ Len(<<>>) = 0
    BY <1>1
  <2> QED BY <2>1
<1>3. Head(d) = A /\ Tail(d) = c
  BY DEF On
<1>4. Depths(d) = Depths(c) \cup {Len(c) + 1} /\ Len(c) + 1 \notin Depths(c)
  BY <1>1 DEF Depths
<1>5. ASSUME NEW p \in Depths(c) PROVE Frame(d, p) = Frame(c, p) /\ Frame(c, p) \in FrameType
  <2>1. p \in 1..Len(c)
    BY <1>5 DEF Depths
  <2>2. Len(d) + 1 - p \in 2..(Len(c) + 1) /\ (Len(d) + 1 - p) - 1 = Len(c) + 1 - p
    BY <1>1, <2>1
  <2>3. Len(c) + 1 - p \in 1..Len(c)
    BY <1>1, <2>1
  <2> HIDE DEF d
  <2> QED BY <1>1, <2>2, <2>3 DEF Frame
<1>6. Frame(d, Len(c) + 1) = A
  <2>1. Len(d) + 1 - (Len(c) + 1) = 1
    BY <1>1
  <2> HIDE DEF d
  <2> QED BY <1>1, <2>1 DEF Frame
<1>7. Extends(d, A, c)
  BY <1>4, <1>5, <1>6 DEF Extends
<1> QED BY <1>1, <1>2, <1>3, <1>4, <1>7

LEMMA Unstack ==
  ASSUME NEW c \in Seq(FrameType), c # <<>>
  PROVE  c = On(Head(c), Tail(c)) /\ Head(c) \in FrameType /\ Tail(c) \in Seq(FrameType)
BY DEF On

LEMMA OnTwo ==
  ASSUME NEW A \in FrameType, NEW B \in FrameType, NEW c \in Seq(FrameType)
  PROVE  <<A, B>> \o c = On(A, On(B, c))
<1> DEFINE T == FrameType
<1> HIDE DEF T
<1>1. A \in T /\ B \in T /\ c \in Seq(T)
  BY DEF T
<1>3. <<A>> \in Seq(T) /\ <<B>> \in Seq(T)
  BY <1>1
<1>4. <<A>> \o <<B>> = <<A, B>>
  <2>1. PICK s : s = <<A>> \o <<B>>
    OBVIOUS
  <2>2. s \in Seq(T) /\ Len(s) = 2 /\ s[1] = A /\ s[2] = B
    BY <1>1, <2>1
  <2>3. PICK t : t = <<A, B>>
    OBVIOUS
  <2>4. t \in Seq(T) /\ Len(t) = 2 /\ t[1] = A /\ t[2] = B
    BY <1>1, <2>3
  <2>5. \A i \in 1..2 : i = 1 \/ i = 2
    OBVIOUS
  <2>6. \A i \in 1..Len(s) : s[i] = t[i]
    BY <2>2, <2>4, <2>5
  <2>7. s = t
    BY <2>2, <2>4, <2>6, SeqEqual
  <2> QED BY <2>1, <2>3, <2>7
<1>2. (<<A>> \o <<B>>) \o c = <<A>> \o (<<B>> \o c)
  BY <1>1, <1>3, ConcatAssociative
<1> QED BY <1>2, <1>4 DEF On

\* The blocks that a call names.
LEMMA FrameFields ==
  ASSUME NEW A \in FrameType
  PROVE  /\ A.visit \in {"FuncDef", "FuncDefExit", "Block", "Items", "Stmt", "Cond", "LOrRhs", "LAndRhs",
                         "IfCond", "IfThen", "IfElse", "WhileCond", "WhileBody"}
         /\ A.visit = "LOrRhs" => A.falseBB \in BlockIds
         /\ A.visit = "LAndRhs" => A.trueBB \in BlockIds
         /\ IsIf(A) => /\ A.trueBB \in BlockIds /\ A.falseBB \in BlockIds /\ A.nextBB \in BlockIds
                       /\ A.has_else \in BOOLEAN /\ A.block \in BOOLEAN
         /\ IsWhile(A) => /\ A.whileBB \in BlockIds /\ A.trueBB \in BlockIds /\ A.nextBB \in BlockIds
                          /\ A.block \in BOOLEAN
         /\ A.visit = "Items" => A.need_exit_scope \in BOOLEAN /\ A.first \in BOOLEAN
BY DEF FrameType, IsIf, IsWhile

Plain(A) == A.visit \in {"Block", "Items", "Stmt", "Cond"}

LEMMA OwnedIs ==
  ASSUME NEW A \in FrameType, {Entry, Ret} \subseteq BlockIds
  PROVE  /\ Owned(A) \subseteq BlockIds /\ Pending(A) \subseteq Owned(A) /\ Begun(A) \subseteq Owned(A)
         /\ Owned(A) = Pending(A) \cup Begun(A)
         /\ Plain(A) => Pending(A) = {} /\ Owned(A) = {}
         /\ A.visit = "FuncDefExit" => Pending(A) = {Ret} /\ Owned(A) = {Entry, Ret}
         /\ A.visit = "LOrRhs" => Pending(A) = {A.falseBB} /\ Owned(A) = {A.falseBB}
         /\ A.visit = "LAndRhs" => Pending(A) = {A.trueBB} /\ Owned(A) = {A.trueBB}
         /\ A.visit = "IfCond" => Pending(A) = {A.trueBB, A.falseBB, A.nextBB} /\ Owned(A) = Pending(A)
         /\ A.visit = "IfThen" => /\ Pending(A) = {A.falseBB, A.nextBB}
                                  /\ Owned(A) = {A.trueBB, A.falseBB, A.nextBB}
         /\ A.visit = "IfElse" => Pending(A) = {A.nextBB} /\ Owned(A) = {A.trueBB, A.nextBB}
         /\ A.visit = "WhileCond" => /\ Pending(A) = {A.trueBB, A.nextBB}
                                     /\ Owned(A) = {A.whileBB, A.trueBB, A.nextBB}
         /\ A.visit = "WhileBody" => Pending(A) = {A.nextBB} /\ Owned(A) = {A.whileBB, A.nextBB}
<1>1. Owned(A) = Pending(A) \cup Begun(A) /\ Pending(A) \subseteq BlockIds /\ Begun(A) \subseteq BlockIds
  BY DEF Owned, Pending, Begun
<1>2. Plain(A) => Pending(A) = {} /\ Begun(A) = {}
  BY DEF Plain, Pending, Begun, IsWhile
<1>3. A.visit = "FuncDefExit" => Pending(A) = {Ret} /\ Begun(A) = {Entry}
  BY DEF Pending, Begun, IsWhile
<1>4. A.visit = "LOrRhs" => Pending(A) = {A.falseBB} /\ Begun(A) = {}
  BY FrameFields DEF Pending, Begun, IsWhile
<1>5. A.visit = "LAndRhs" => Pending(A) = {A.trueBB} /\ Begun(A) = {}
  BY FrameFields DEF Pending, Begun, IsWhile
<1>6. A.visit = "IfCond" => Pending(A) = {A.trueBB, A.falseBB, A.nextBB} /\ Begun(A) = {}
  BY FrameFields DEF Pending, Begun, IsWhile, IsIf
<1>7. A.visit = "IfThen" => Pending(A) = {A.falseBB, A.nextBB} /\ Begun(A) = {A.trueBB}
  BY FrameFields DEF Pending, Begun, IsWhile, IsIf
<1>8. A.visit = "IfElse" => Pending(A) = {A.nextBB} /\ Begun(A) = {A.trueBB}
  BY FrameFields DEF Pending, Begun, IsWhile, IsIf
<1>9. A.visit = "WhileCond" => Pending(A) = {A.trueBB, A.nextBB} /\ Begun(A) = {A.whileBB}
  BY FrameFields DEF Pending, Begun, IsWhile
<1>10. A.visit = "WhileBody" => Pending(A) = {A.nextBB} /\ Begun(A) = {A.whileBB}
  BY FrameFields DEF Pending, Begun, IsWhile
<1>11. \A a, b, d : /\ {a, b} \cup {d} = {d, a, b} /\ {a} \cup {b} = {b, a} /\ {a} \cup {} = {a}
                    /\ {a, b, d} \cup {} = {a, b, d}
  OBVIOUS
<1> QED BY <1>1, <1>2, <1>3, <1>4, <1>5, <1>6, <1>7, <1>8, <1>9, <1>10, <1>11

\* The sets of depths, of blocks and of pairs, with one call more.
LEMMA DepthsOn ==
  ASSUME NEW A \in FrameType, NEW c \in Seq(FrameType)
  PROVE  /\ Loops(On(A, c)) = Loops(c) \cup (IF IsWhile(A) THEN {Len(c) + 1} ELSE {})
         /\ Conds(On(A, c)) = Conds(c) \cup (IF HasCond(A) THEN {Len(c) + 1} ELSE {})
         /\ Ors(On(A, c)) = Ors(c) \cup (IF Pushed(A) THEN {Len(c) + 1} ELSE {})
         /\ Scopeds(On(A, c)) = Scopeds(c) \cup (IF Scoped(A) THEN {Len(c) + 1} ELSE {})
         /\ Loops(c) \subseteq Depths(c) /\ Conds(c) \subseteq Depths(c)
         /\ Ors(c) \subseteq Depths(c) /\ Scopeds(c) \subseteq Depths(c)
<1>1. PICK d : d = On(A, c)
  OBVIOUS
<1>2. PICK n : n = Len(c) + 1
  OBVIOUS
<1>3. /\ Depths(d) = Depths(c) \cup {n} /\ Frame(d, n) = A
      /\ \A p \in Depths(c) : Frame(d, p) = Frame(c, p)
  <2>1. Extends(d, A, c)
    BY <1>1, OnFacts
  <2> QED BY <1>2, <2>1 DEF Extends
<1>4. Loops(d) = Loops(c) \cup (IF IsWhile(A) THEN {n} ELSE {})
  BY <1>3 DEF Loops
<1>5. Conds(d) = Conds(c) \cup (IF HasCond(A) THEN {n} ELSE {})
  BY <1>3 DEF Conds
<1>6. Ors(d) = Ors(c) \cup (IF Pushed(A) THEN {n} ELSE {})
  BY <1>3 DEF Ors
<1>7. Scopeds(d) = Scopeds(c) \cup (IF Scoped(A) THEN {n} ELSE {})
  BY <1>3 DEF Scopeds
<1>8. /\ Loops(c) \subseteq Depths(c) /\ Conds(c) \subseteq Depths(c)
      /\ Ors(c) \subseteq Depths(c) /\ Scopeds(c) \subseteq Depths(c)
  BY DEF Loops, Conds, Ors, Scopeds
<1> QED BY <1>1, <1>2, <1>4, <1>5, <1>6, <1>7, <1>8

LEMMA BlocksOn ==
  ASSUME NEW A \in FrameType, NEW c \in Seq(FrameType)
  PROVE  /\ AllPending(On(A, c)) = AllPending(c) \cup Pending(A)
         /\ AllOwned(On(A, c)) = AllOwned(c) \cup Owned(A)
         /\ Heads(On(A, c)) = Heads(c) \cup (IF IsWhile(A) THEN {A.whileBB} ELSE {})
<1>1. PICK d : d = On(A, c)
  OBVIOUS
<1>2. PICK n : n = Len(c) + 1
  OBVIOUS
<1>3. /\ Depths(d) = Depths(c) \cup {n} /\ Frame(d, n) = A
      /\ \A p \in Depths(c) : Frame(d, p) = Frame(c, p)
      /\ Loops(d) = Loops(c) \cup (IF IsWhile(A) THEN {n} ELSE {}) /\ Loops(c) \subseteq Depths(c)
  <2>1. Extends(d, A, c)
    BY <1>1, OnFacts
  <2>2. /\ Loops(On(A, c)) = Loops(c) \cup (IF IsWhile(A) THEN {Len(c) + 1} ELSE {})
        /\ Loops(c) \subseteq Depths(c)
    BY DepthsOn
  <2> QED BY <1>1, <1>2, <2>1, <2>2 DEF Extends
<1>4. AllPending(d) = AllPending(c) \cup Pending(A)
  BY <1>3 DEF AllPending
<1>5. AllOwned(d) = AllOwned(c) \cup Owned(A)
  BY <1>3 DEF AllOwned
<1>6. Heads(d) = Heads(c) \cup (IF IsWhile(A) THEN {A.whileBB} ELSE {})
  BY <1>3 DEF Heads
<1> QED BY <1>1, <1>4, <1>5, <1>6

LEMMA RestOn ==
  ASSUME NEW A \in FrameType, NEW c \in Seq(FrameType)
  PROVE  Rest(On(A, c)) = Rest(c) \cup (Heads(c) \X Owned(A))
                            \cup (IF IsWhile(A) THEN {A.whileBB} \X (Pending(A) \ {A.nextBB}) ELSE {})
<1>1. PICK d : d = On(A, c)
  OBVIOUS
<1>2. PICK n : n = Len(c) + 1
  OBVIOUS
<1>3. /\ Depths(d) = Depths(c) \cup {n} /\ Frame(d, n) = A /\ Len(d) = n /\ Len(c) \in Nat
      /\ \A p \in Depths(c) : Frame(d, p) = Frame(c, p)
      /\ Loops(d) = Loops(c) \cup (IF IsWhile(A) THEN {n} ELSE {}) /\ Loops(c) \subseteq Depths(c)
  <2>1. Extends(d, A, c) /\ Len(d) = n /\ Len(c) \in Nat
    BY <1>1, <1>2, OnFacts
  <2>2. /\ Loops(On(A, c)) = Loops(c) \cup (IF IsWhile(A) THEN {Len(c) + 1} ELSE {})
        /\ Loops(c) \subseteq Depths(c)
    BY DepthsOn
  <2> QED BY <1>1, <1>2, <2>1, <2>2 DEF Extends
<1>4. ASSUME NEW p \in Loops(c) PROVE Inside(d, p) = Inside(c, p) \cup Owned(A)
  <2>1. p \in 1..Len(c) /\ Depths(c) = 1..Len(c)
    BY <1>3 DEF Depths
  <2>2. (p + 1)..n = ((p + 1)..Len(c)) \cup {n}
    BY <1>2, <1>3, <2>1
  <2>3. \A q \in (p + 1)..Len(c) : q \in Depths(c)
    BY <1>3, <2>1
  <2>4. UNION {Owned(Frame(d, q)) : q \in (p + 1)..n}
          = (UNION {Owned(Frame(c, q)) : q \in (p + 1)..Len(c)}) \cup Owned(A)
    <3> DEFINE I == (p + 1)..Len(c)
    <3>1. (p + 1)..n = I \cup {n} /\ \A q \in I : Frame(d, q) = Frame(c, q)
      BY <1>3, <2>2, <2>3
    <3> HIDE DEF I
    <3>2. UNION {Owned(Frame(d, q)) : q \in I \cup {n}}
            = (UNION {Owned(Frame(c, q)) : q \in I}) \cup Owned(A)
      BY <1>3, <3>1
    <3> QED BY <3>1, <3>2 DEF I
  <2>5. Frame(d, p) = Frame(c, p)
    BY <1>3, <2>1
  <2> QED BY <1>3, <2>4, <2>5 DEF Inside
<1>5. Inside(d, n) = Pending(A) \ {A.nextBB}
  <2>1. (n + 1)..n = {}
    BY <1>2, <1>3
  <2>2. UNION {Owned(Frame(d, q)) : q \in (n + 1)..n} = {}
    BY <2>1
  <2> QED BY <1>3, <2>2 DEF Inside
<1> DEFINE G(L) == UNION {{Frame(d, p).whileBB} \X Inside(d, p) : p \in L}
<1>6. G(Loops(c)) = Rest(c) \cup (Heads(c) \X Owned(A))
  <2>1. \A p \in Loops(c) : Frame(d, p).whileBB = Frame(c, p).whileBB /\ Inside(d, p) = Inside(c, p) \cup Owned(A)
    BY <1>3, <1>4
  <2>2. G(Loops(c)) = UNION {{Frame(c, p).whileBB} \X (Inside(c, p) \cup Owned(A)) : p \in Loops(c)}
    BY <2>1
  <2> QED BY <2>2 DEF Rest, Heads
<1>7. Rest(d) = G(Loops(d))
  BY DEF Rest
<1>8. CASE IsWhile(A)
  <2>1. G(Loops(d)) = G(Loops(c)) \cup ({A.whileBB} \X (Pending(A) \ {A.nextBB}))
    BY <1>3, <1>5, <1>8
  <2> QED BY <1>1, <1>6, <1>7, <1>8, <2>1
<1>9. CASE ~IsWhile(A)
  <2>1. Loops(d) = Loops(c)
    BY <1>3, <1>9
  <2>2. G(Loops(d)) = G(Loops(c))
    BY <2>1
  <2> QED BY <1>1, <1>6, <1>7, <1>9, <2>2
<1> QED BY <1>8, <1>9

LEMMA DominatedIs ==
  ASSUME NEW c, NEW in
  PROVE  Dominated(c, in) = (Heads(c) \X {in}) \cup Rest(c)
BY DEF Dominated, Heads, Rest

LEMMA ReturnsOn ==
  ASSUME NEW A \in FrameType, NEW c \in Seq(FrameType), NEW in
  PROVE  Returns(On(A, c), in)
           = Returns(c, in) \cup (IF IsWhile(A) THEN {<<A.whileBB, LeadTo(A, in)>>} ELSE {})
<1>1. PICK d : d = On(A, c)
  OBVIOUS
<1>2. PICK n : n = Len(c) + 1
  OBVIOUS
<1>3. /\ Frame(d, n) = A
      /\ \A p \in Depths(c) : Frame(d, p) = Frame(c, p)
      /\ Loops(d) = Loops(c) \cup (IF IsWhile(A) THEN {n} ELSE {}) /\ Loops(c) \subseteq Depths(c)
  <2>1. Extends(d, A, c)
    BY <1>1, OnFacts
  <2>2. /\ Loops(On(A, c)) = Loops(c) \cup (IF IsWhile(A) THEN {Len(c) + 1} ELSE {})
        /\ Loops(c) \subseteq Depths(c)
    BY DepthsOn
  <2> QED BY <1>1, <1>2, <2>1, <2>2 DEF Extends
<1> DEFINE G(L) == {<<Frame(d, p).whileBB, LeadTo(Frame(d, p), in)>> : p \in L}
<1>4. G(Loops(c)) = Returns(c, in)
  BY <1>3 DEF Returns
<1>5. Returns(d, in) = G(Loops(d))
  BY DEF Returns
<1>6. CASE IsWhile(A)
  <2>1. G(Loops(d)) = G(Loops(c)) \cup {<<A.whileBB, LeadTo(A, in)>>}
    BY <1>3, <1>6
  <2> QED BY <1>1, <1>4, <1>5, <1>6, <2>1
<1>7. CASE ~IsWhile(A)
  <2>1. Loops(d) = Loops(c)
    BY <1>3, <1>7
  <2> QED BY <1>1, <1>4, <1>5, <1>7, <2>1
<1> QED BY <1>6, <1>7

\* Outside of conditions it does not matter where the insert block is.
LEMMA ReturnsStay ==
  ASSUME NEW c, Conds(c) = {}, NEW a, NEW b
  PROVE  Returns(c, a) = Returns(c, b)
<1>1. \A p \in Loops(c) : Frame(c, p).visit # "WhileCond"
  BY DEF Conds, Loops, HasCond
<1> QED BY <1>1 DEF Returns, LeadTo

LEMMA ReturnsMove ==
  ASSUME NEW c, NEW in, NEW t, NEW h, NEW b, <<h, b>> \in Returns(c, t)
  PROVE  <<h, b>> \in Returns(c, in) \/ (<<h, in>> \in Returns(c, in) /\ b = t)
BY DEF Returns, LeadTo

LEMMA HoldingOn ==
  ASSUME NEW A \in FrameType, NEW c \in Seq(FrameType), NEW f
  PROVE  Holding(On(A, c), f) <=>
           /\ Holding(c, f) /\ Owned(A) \subseteq f.blocks /\ Distinct(A)
           /\ Owned(A) \cap AllOwned(c) = {}
<1>1. PICK d : d = On(A, c)
  OBVIOUS
<1>2. PICK n : n = Len(c) + 1
  OBVIOUS
<1>3. /\ Depths(d) = Depths(c) \cup {n} /\ n \notin Depths(c) /\ Frame(d, n) = A
      /\ \A p \in Depths(c) : Frame(d, p) = Frame(c, p)
  <2>1. Extends(d, A, c) /\ n \notin Depths(c)
    BY <1>1, <1>2, OnFacts
  <2> QED BY <1>2, <2>1 DEF Extends
<1>4. ASSUME Holding(d, f) PROVE Holding(c, f)
  BY <1>3, <1>4 DEF Holding
<1>5. ASSUME Holding(d, f) PROVE Owned(A) \subseteq f.blocks /\ Distinct(A)
  BY <1>3, <1>5 DEF Holding
<1>6. ASSUME Holding(d, f) PROVE Owned(A) \cap AllOwned(c) = {}
  <2>1. \A q \in Depths(c) : Owned(A) \cap Owned(Frame(c, q)) = {}
    BY <1>3, <1>6 DEF Holding
  <2> QED BY <2>1 DEF AllOwned
<1>7. ASSUME Holding(c, f), Owned(A) \subseteq f.blocks, Distinct(A), Owned(A) \cap AllOwned(c) = {}
      PROVE  Holding(d, f)
  <2>1. \A q \in Depths(c) : Owned(A) \cap Owned(Frame(c, q)) = {}
    BY <1>7 DEF AllOwned
  <2> SUFFICES ASSUME NEW p \in Depths(d)
               PROVE  /\ Owned(Frame(d, p)) \subseteq f.blocks
                      /\ Distinct(Frame(d, p))
                      /\ \A q \in Depths(d) : p # q => Owned(Frame(d, p)) \cap Owned(Frame(d, q)) = {}
    BY DEF Holding
  <2>2. CASE p = n
    BY <1>3, <1>7, <2>1, <2>2
  <2>3. CASE p \in Depths(c)
    <3>1. /\ Owned(Frame(c, p)) \subseteq f.blocks /\ Distinct(Frame(c, p))
          /\ \A q \in Depths(c) : p # q => Owned(Frame(c, p)) \cap Owned(Frame(c, q)) = {}
      BY <1>7, <2>3 DEF Holding
    <3>2. Owned(Frame(c, p)) \cap Owned(A) = {}
      BY <2>1, <2>3
    <3> QED BY <1>3, <2>3, <3>1, <3>2
  <2> QED BY <1>3, <2>2, <2>3
<1> QED BY <1>1, <1>4, <1>5, <1>6, <1>7

LEMMA BranchedOn ==
  ASSUME NEW A \in FrameType, NEW c \in Seq(FrameType), NEW f, NEW in
  PROVE  Branched(On(A, c), f, in) <=> Branched(c, f, in) /\ BranchedFor(A, f, in)
<1>1. PICK d : d = On(A, c)
  OBVIOUS
<1>2. Extends(d, A, c)
  BY <1>1, OnFacts
<1> QED BY <1>1, <1>2 DEF Extends, Branched

LEMMA ShapeOn ==
  ASSUME NEW A \in FrameType, NEW c \in Seq(FrameType)
  PROVE  Shape(On(A, c)) <=>
           /\ Shape(c)
           /\ A.visit = "FuncDefExit" <=> c = <<>>
           /\ A.visit # "FuncDef"
           /\ c # <<>> /\ ~InCond(A) => Resumes(Head(c))
           /\ InCond(A) <=> Conds(c) # {}
<1>1. PICK d : d = On(A, c)
  OBVIOUS
<1>2. PICK n : n = Len(c) + 1
  OBVIOUS
<1>3. /\ Depths(d) = Depths(c) \cup {n} /\ n \notin Depths(c) /\ Frame(d, n) = A /\ Len(c) \in Nat
      /\ \A p \in Depths(c) : Frame(d, p) = Frame(c, p)
  <2>1. Extends(d, A, c) /\ n \notin Depths(c) /\ Len(c) \in Nat
    BY <1>1, <1>2, OnFacts
  <2> QED BY <1>2, <2>1 DEF Extends
<1>4. Depths(c) = 1..Len(c)
  BY DEF Depths
<1>5. Conds(d) = Conds(c) \cup (IF HasCond(A) THEN {n} ELSE {}) /\ Conds(c) \subseteq Depths(c)
  <2>1. /\ Conds(On(A, c)) = Conds(c) \cup (IF HasCond(A) THEN {Len(c) + 1} ELSE {})
        /\ Conds(c) \subseteq Depths(c)
    BY DepthsOn
  <2> QED BY <1>1, <1>2, <2>1
<1> DEFINE At1(e, p) ==
      /\ Frame(e, p).visit = "FuncDefExit" <=> p = 1
      /\ Frame(e, p).visit # "FuncDef"
      /\ p > 1 /\ ~InCond(Frame(e, p)) => Resumes(Frame(e, p - 1))
      /\ InCond(Frame(e, p)) <=> \E q \in Conds(e) : q < p
<1>6. Shape(d) <=> (\A p \in Depths(c) : At1(d, p)) /\ At1(d, n)
  BY <1>3 DEF Shape
<1>7. Shape(c) <=> \A p \in Depths(c) : At1(c, p)
  BY DEF Shape
<1>8. ASSUME NEW p \in Depths(c) PROVE At1(d, p) <=> At1(c, p)
  <2>1. Frame(d, p) = Frame(c, p) /\ p \in Nat /\ p < n /\ n \in Nat
    BY <1>2, <1>3, <1>4
  <2>2. p > 1 => Frame(d, p - 1) = Frame(c, p - 1)
    BY <1>3, <1>4
  <2>3. (\E q \in Conds(d) : q < p) <=> (\E q \in Conds(c) : q < p)
    BY <1>5, <2>1
  <2> QED BY <2>1, <2>2, <2>3
<1>9. At1(d, n) <=> /\ A.visit = "FuncDefExit" <=> c = <<>>
                    /\ A.visit # "FuncDef"
                    /\ c # <<>> /\ ~InCond(A) => Resumes(Head(c))
                    /\ InCond(A) <=> Conds(c) # {}
  <2>1. n = 1 <=> c = <<>>
    BY <1>2
  <2>2. n > 1 <=> c # <<>>
    BY <1>2, <1>3, <2>1
  <2>3. c # <<>> => Frame(d, n - 1) = Head(c)
    <3> SUFFICES ASSUME c # <<>> PROVE Frame(d, n - 1) = Head(c)
      OBVIOUS
    <3>1. n - 1 = Len(c) /\ n - 1 \in Depths(c)
      BY <1>2, <1>3, <1>4, <2>2
    <3>2. Frame(d, n - 1) = Frame(c, Len(c))
      BY <1>3, <3>1
    <3>3. Len(c) + 1 - Len(c) = 1
      BY <1>3
    <3> QED BY <3>2, <3>3 DEF Frame
  <2>4. (\E q \in Conds(d) : q < n) <=> Conds(c) # {}
    <3>1. \A q \in Conds(c) : q < n
      BY <1>2, <1>4, <1>5
    <3>2. ~(n < n)
      BY <1>2, <1>3
    <3> QED BY <1>5, <3>1, <3>2
  <2> QED BY <1>3, <2>1, <2>2, <2>3, <2>4
<1> HIDE DEF At1
<1> QED BY <1>1, <1>6, <1>7, <1>8, <1>9

-----------------------------------------------------------------------------
(* The stacks of targets, from the top.                                    *)

LEMMA CountFacts ==
  ASSUME NEW n \in Nat, NEW T \in SUBSET (1..n)
  PROVE  /\ Count(T, n) \in Nat /\ Count(T, n + 1) = Count(T, n)
         /\ Count(T \cup {n + 1}, n + 1) = Count(T, n) + 1
         /\ Count(T, n) = 0 <=> T = {}
<1>1. IsFiniteSet(T)
  <2>1. IsFiniteSet(1..n)
    BY FS_Interval
  <2> QED BY <2>1, FS_Subset
<1>2. T \cap 1..n = T /\ T \cap 1..(n + 1) = T /\ (T \cup {n + 1}) \cap 1..(n + 1) = T \cup {n + 1}
  <2>1. \A x \in T : x \in 1..n /\ x \in 1..(n + 1)
    OBVIOUS
  <2>2. n + 1 \in 1..(n + 1)
    OBVIOUS
  <2> QED BY <2>1, <2>2, Zenon
<1>3. n + 1 \notin T
  OBVIOUS
<1>4. Cardinality(T) \in Nat /\ (Cardinality(T) = 0 <=> T = {})
  BY <1>1, FS_CardinalityType, FS_EmptySet
<1>5. Cardinality(T \cup {n + 1}) = Cardinality(T) + 1
  BY <1>1, <1>3, FS_AddElement
<1> QED BY <1>2, <1>4, <1>5 DEF Count

LEMMA CountBelow ==
  ASSUME NEW n \in Nat, NEW T \in SUBSET (1..n), NEW p \in 1..n
  PROVE  /\ Count(T \cup {n + 1}, p) = Count(T, p)
         /\ p \in T => Count(T, p) \in 1..Count(T, n)
         /\ (\A q \in T : q <= p) => Count(T, p) = Count(T, n)
<1>1. IsFiniteSet(T)
  <2>1. IsFiniteSet(1..n)
    BY FS_Interval
  <2> QED BY <2>1, FS_Subset
<1>2. (T \cup {n + 1}) \cap 1..p = T \cap 1..p /\ T \cap 1..n = T /\ T \cap 1..p \subseteq T
  <2>1. n + 1 \notin 1..p
    OBVIOUS
  <2>2. \A x \in T : x \in 1..n
    OBVIOUS
  <2> QED BY <2>1, <2>2, Zenon
<1>3. IsFiniteSet(T \cap 1..p)
  BY <1>1, <1>2, FS_Subset
<1>4. Cardinality(T \cap 1..p) <= Cardinality(T)
  BY <1>1, <1>2, FS_Subset
<1>5. /\ Cardinality(T) \in Nat /\ Cardinality(T \cap 1..p) \in Nat
      /\ (Cardinality(T \cap 1..p) = 0 <=> T \cap 1..p = {})
  BY <1>1, <1>3, FS_CardinalityType, FS_EmptySet
<1>6. p \in T => p \in T \cap 1..p
  OBVIOUS
<1>7. p \in T => Cardinality(T \cap 1..p) \in 1..Cardinality(T)
  BY <1>4, <1>5, <1>6
<1>8. ASSUME \A q \in T : q <= p PROVE T \cap 1..p = T
  <2>1. \A q \in T : q \in 1..p
    BY <1>8
  <2> QED BY <2>1, Zenon
<1> QED BY <1>2, <1>7, <1>8 DEF Count

LEMMA ScopeOn ==
  ASSUME NEW A \in FrameType, NEW c \in Seq(FrameType), NEW sc \in Nat
  PROVE  /\ Scoped(A) => (ScopeMatches(On(A, c), sc) <=> ScopeMatches(c, sc - 1))
         /\ ~Scoped(A) => (ScopeMatches(On(A, c), sc) <=> ScopeMatches(c, sc))
         /\ ScopeMatches(c, sc) => sc > 0
         /\ Scoped(A) /\ ScopeMatches(On(A, c), sc) => sc - 1 > 0
<1>1. PICK n : n = Len(c)
  OBVIOUS
<1>2. PICK T : T = Scopeds(c)
  OBVIOUS
<1>3. n \in Nat /\ T \in SUBSET (1..n) /\ Len(On(A, c)) = n + 1
  <2>1. Len(c) \in Nat /\ Len(On(A, c)) = Len(c) + 1 /\ Scopeds(c) \subseteq Depths(c)
    BY OnFacts, DepthsOn
  <2> QED BY <1>1, <1>2, <2>1 DEF Depths
<1>4. Scopeds(On(A, c)) = T \cup (IF Scoped(A) THEN {n + 1} ELSE {})
  BY <1>1, <1>2, DepthsOn
<1>5. Count(T, n) \in Nat /\ Count(T, n + 1) = Count(T, n) /\ Count(T \cup {n + 1}, n + 1) = Count(T, n) + 1
  BY <1>3, CountFacts
<1>6. \A s \in Int : ScopeMatches(c, s) <=> s = 1 + Count(T, n)
  BY <1>1, <1>2 DEF ScopeMatches
<1>7. ScopeMatches(On(A, c), sc) <=> sc = 1 + Count(Scopeds(On(A, c)), n + 1)
  BY <1>3 DEF ScopeMatches
<1>8. CASE Scoped(A)
  <2>1. ScopeMatches(On(A, c), sc) <=> sc = 2 + Count(T, n)
    BY <1>4, <1>5, <1>7, <1>8
  <2> QED BY <1>5, <1>6, <1>8, <2>1
<1>9. CASE ~Scoped(A)
  <2>1. T \cup {} = T
    OBVIOUS
  <2>2. ScopeMatches(On(A, c), sc) <=> sc = 1 + Count(T, n)
    BY <1>4, <1>5, <1>7, <1>9, <2>1
  <2> QED BY <1>5, <1>6, <1>9, <2>2
<1> QED BY <1>8, <1>9

LEMMA LoopsPlain ==
  ASSUME NEW A \in FrameType, NEW c \in Seq(FrameType), NEW ws, ~IsWhile(A)
  PROVE  LoopsMatch(On(A, c), ws) <=> LoopsMatch(c, ws)
<1>1. PICK n : n = Len(c)
  OBVIOUS
<1>2. PICK T : T = Loops(c)
  OBVIOUS
<1>3. PICK d : d = On(A, c)
  OBVIOUS
<1>4. n \in Nat /\ T \in SUBSET (1..n) /\ T \subseteq Depths(c) /\ Len(d) = n + 1 /\ Extends(d, A, c)
  <2>1. Len(c) \in Nat /\ Len(On(A, c)) = Len(c) + 1 /\ Loops(c) \subseteq Depths(c)
    BY OnFacts, DepthsOn
  <2> QED BY <1>1, <1>2, <1>3, <2>1, OnFacts DEF Depths
<1>5. Loops(d) = T
  <2>1. Loops(On(A, c)) = Loops(c) \cup (IF IsWhile(A) THEN {Len(c) + 1} ELSE {})
    BY DepthsOn
  <2> QED BY <1>2, <1>3, <2>1
<1>6. Count(T, n + 1) = Count(T, n)
  BY <1>4, CountFacts
<1>7. \A p \in T : Frame(d, p) = Frame(c, p)
  BY <1>4 DEF Extends
<1> QED BY <1>1, <1>2, <1>3, <1>4, <1>5, <1>6, <1>7 DEF LoopsMatch

LEMMA LoopsPush ==
  ASSUME NEW A \in FrameType, NEW c \in Seq(FrameType), NEW ws \in Seq(Branch), IsWhile(A),
         Targets(A) \in Branch, LoopsMatch(c, ws)
  PROVE  LoopsMatch(On(A, c), Append(ws, Targets(A)))
<1>1. PICK n : n = Len(c)
  OBVIOUS
<1>2. PICK T : T = Loops(c)
  OBVIOUS
<1>3. PICK d : d = On(A, c)
  OBVIOUS
<1>4. /\ n \in Nat /\ T \in SUBSET (1..n) /\ T \subseteq Depths(c) /\ Len(d) = n + 1 /\ Frame(d, n + 1) = A
      /\ \A p \in T : Frame(d, p) = Frame(c, p)
  <2>1. Len(c) \in Nat /\ Len(On(A, c)) = Len(c) + 1 /\ Loops(c) \subseteq Depths(c)
    BY OnFacts, DepthsOn
  <2>2. Extends(d, A, c)
    BY <1>3, OnFacts
  <2> QED BY <1>1, <1>2, <1>3, <2>1, <2>2 DEF Depths, Extends
<1>5. Loops(d) = T \cup {n + 1}
  <2>1. Loops(On(A, c)) = Loops(c) \cup (IF IsWhile(A) THEN {Len(c) + 1} ELSE {})
    BY DepthsOn
  <2> QED BY <1>1, <1>2, <1>3, <2>1
<1>6. PICK t \in Branch : t = Targets(A)
  OBVIOUS
<1>7. PICK us : us = Append(ws, t)
  OBVIOUS
<1>8. Len(us) = Len(ws) + 1 /\ us[Len(ws) + 1] = t /\ \A i \in 1..Len(ws) : us[i] = ws[i]
  BY <1>7
<1>9. /\ Count(T, n) = Len(ws) /\ Count(T \cup {n + 1}, n + 1) = Len(ws) + 1
      /\ \A p \in T : ws[Count(T, p)] = Targets(Frame(c, p))
  BY <1>1, <1>2, <1>4, CountFacts DEF LoopsMatch
<1>10. ASSUME NEW p \in T PROVE Count(T \cup {n + 1}, p) = Count(T, p) /\ Count(T, p) \in 1..Len(ws)
  BY <1>4, <1>9, CountBelow
<1>11. ASSUME NEW p \in T \cup {n + 1} PROVE us[Count(T \cup {n + 1}, p)] = Targets(Frame(d, p))
  <2>1. CASE p = n + 1
    BY <1>4, <1>6, <1>8, <1>9, <2>1
  <2>2. CASE p \in T
    BY <1>4, <1>8, <1>9, <1>10, <2>2
  <2> QED BY <2>1, <2>2
<1> QED BY <1>3, <1>4, <1>5, <1>6, <1>7, <1>8, <1>9, <1>11 DEF LoopsMatch

LEMMA LoopsPop ==
  ASSUME NEW A \in FrameType, NEW c \in Seq(FrameType), NEW ws \in Seq(Branch), IsWhile(A),
         LoopsMatch(On(A, c), ws)
  PROVE  /\ ws # <<>> /\ Front(ws) \in Seq(Branch) /\ Last(ws) = Targets(A)
         /\ LoopsMatch(c, Front(ws))
<1>1. PICK n : n = Len(c)
  OBVIOUS
<1>2. PICK T : T = Loops(c)
  OBVIOUS
<1>3. PICK d : d = On(A, c)
  OBVIOUS
<1>4. /\ n \in Nat /\ T \in SUBSET (1..n) /\ T \subseteq Depths(c) /\ Len(d) = n + 1 /\ Frame(d, n + 1) = A
      /\ \A p \in T : Frame(d, p) = Frame(c, p)
  <2>1. Len(c) \in Nat /\ Len(On(A, c)) = Len(c) + 1 /\ Loops(c) \subseteq Depths(c)
    BY OnFacts, DepthsOn
  <2>2. Extends(d, A, c)
    BY <1>3, OnFacts
  <2> QED BY <1>1, <1>2, <1>3, <2>1, <2>2 DEF Depths, Extends
<1>5. Loops(d) = T \cup {n + 1}
  <2>1. Loops(On(A, c)) = Loops(c) \cup (IF IsWhile(A) THEN {Len(c) + 1} ELSE {})
    BY DepthsOn
  <2> QED BY <1>1, <1>2, <1>3, <2>1
<1>6. PICK k : k = Count(T, n)
  OBVIOUS
<1>7. k \in Nat /\ Count(T \cup {n + 1}, n + 1) = k + 1
  BY <1>4, <1>6, CountFacts
<1>8. /\ Len(ws) = k + 1
      /\ \A p \in T \cup {n + 1} : ws[Count(T \cup {n + 1}, p)] = Targets(Frame(d, p))
  BY <1>3, <1>4, <1>5, <1>7 DEF LoopsMatch
<1>9. ws # <<>>
  <2>1. Len(ws) # 0 /\ Len(<<>>) = 0
    BY <1>7, <1>8
  <2> QED BY <2>1
<1>10. PICK us : us = Front(ws)
  OBVIOUS
<1>11. us \in Seq(Branch) /\ Len(us) = k /\ (\A i \in 1..k : us[i] = ws[i]) /\ Last(ws) = ws[k + 1]
  <2>1. /\ Front(ws) \in Seq(Branch) /\ Len(Front(ws)) = Len(ws) - 1
        /\ \A i \in 1..(Len(ws) - 1) : Front(ws)[i] = ws[i]
    BY <1>9, Shortened
  <2>2. Len(ws) - 1 = k
    BY <1>7, <1>8
  <2> QED BY <1>8, <1>10, <2>1, <2>2 DEF Last
<1>12. Last(ws) = Targets(A)
  BY <1>4, <1>7, <1>8, <1>11
<1>13. ASSUME NEW p \in T PROVE us[Count(T, p)] = Targets(Frame(c, p))
  <2>1. Count(T \cup {n + 1}, p) = Count(T, p) /\ Count(T, p) \in 1..k
    BY <1>4, <1>6, CountBelow
  <2> QED BY <1>4, <1>8, <1>11, <2>1
<1>14. LoopsMatch(c, us)
  BY <1>1, <1>2, <1>6, <1>11, <1>13 DEF LoopsMatch
<1> QED BY <1>9, <1>10, <1>11, <1>12, <1>14

LEMMA OrsPlain ==
  ASSUME NEW A \in FrameType, NEW c \in Seq(FrameType), NEW os, ~Pushed(A)
  PROVE  OrsMatch(On(A, c), os) <=> OrsMatch(c, os)
<1>1. PICK n : n = Len(c)
  OBVIOUS
<1>2. PICK T : T = Ors(c)
  OBVIOUS
<1>3. PICK d : d = On(A, c)
  OBVIOUS
<1>4. /\ n \in Nat /\ T \in SUBSET (1..n) /\ T \subseteq Depths(c) /\ Conds(c) \subseteq Depths(c)
      /\ Len(d) = n + 1 /\ Extends(d, A, c)
  <2>1. /\ Len(c) \in Nat /\ Len(On(A, c)) = Len(c) + 1
        /\ Ors(c) \subseteq Depths(c) /\ Conds(c) \subseteq Depths(c)
    BY OnFacts, DepthsOn
  <2> QED BY <1>1, <1>2, <1>3, <2>1, OnFacts DEF Depths
<1>5. Ors(d) = T /\ Conds(d) = Conds(c)
  <2>1. /\ Ors(On(A, c)) = Ors(c) \cup (IF Pushed(A) THEN {Len(c) + 1} ELSE {})
        /\ Conds(On(A, c)) = Conds(c) \cup (IF HasCond(A) THEN {Len(c) + 1} ELSE {})
    BY DepthsOn
  <2>2. ~HasCond(A)
    BY DEF Pushed
  <2> QED BY <1>2, <1>3, <2>1, <2>2
<1>6. Count(T, n + 1) = Count(T, n)
  BY <1>4, CountFacts
<1>7. /\ \A p \in T : Frame(d, p) = Frame(c, p)
      /\ \A p \in Conds(c) : Frame(d, p) = Frame(c, p)
  BY <1>4 DEF Extends
<1> QED BY <1>1, <1>2, <1>3, <1>4, <1>5, <1>6, <1>7 DEF OrsMatch

LEMMA OrsPush ==
  ASSUME NEW A \in FrameType, NEW c \in Seq(FrameType), NEW os \in Seq(Branch), Pushed(A),
         OrsMatch(c, os), NEW t \in Branch, t.falseBB = FalseOf(A),
         \A p \in Conds(c) : t.trueBB = Frame(c, p).trueBB,
         HasCond(A) => t.trueBB = A.trueBB /\ os = <<>>
  PROVE  OrsMatch(On(A, c), Append(os, t))
<1>1. PICK n : n = Len(c)
  OBVIOUS
<1>2. PICK T : T = Ors(c)
  OBVIOUS
<1>3. PICK d : d = On(A, c)
  OBVIOUS
<1>4. /\ n \in Nat /\ T \in SUBSET (1..n) /\ T \subseteq Depths(c) /\ Len(d) = n + 1 /\ Frame(d, n + 1) = A
      /\ \A p \in T : Frame(d, p) = Frame(c, p)
      /\ \A p \in Conds(c) : Frame(d, p) = Frame(c, p)
  <2>1. /\ Len(c) \in Nat /\ Len(On(A, c)) = Len(c) + 1
        /\ Ors(c) \subseteq Depths(c) /\ Conds(c) \subseteq Depths(c)
    BY OnFacts, DepthsOn
  <2>2. Extends(d, A, c)
    BY <1>3, OnFacts
  <2> QED BY <1>1, <1>2, <1>3, <2>1, <2>2 DEF Depths, Extends
<1>5. Ors(d) = T \cup {n + 1} /\ Conds(d) = Conds(c) \cup (IF HasCond(A) THEN {n + 1} ELSE {})
  <2>1. /\ Ors(On(A, c)) = Ors(c) \cup (IF Pushed(A) THEN {Len(c) + 1} ELSE {})
        /\ Conds(On(A, c)) = Conds(c) \cup (IF HasCond(A) THEN {Len(c) + 1} ELSE {})
    BY DepthsOn
  <2> QED BY <1>1, <1>2, <1>3, <2>1
<1>7. PICK us : us = Append(os, t)
  OBVIOUS
<1>8. /\ Len(us) = Len(os) + 1 /\ us[Len(os) + 1] = t /\ \A i \in 1..Len(os) : us[i] = os[i]
      /\ DOMAIN us = 1..(Len(os) + 1) /\ Len(os) \in Nat /\ DOMAIN os = 1..Len(os)
  BY <1>7
<1>9. /\ Count(T, n) = Len(os) /\ Count(T \cup {n + 1}, n + 1) = Len(os) + 1
      /\ \A p \in T : os[Count(T, p)].falseBB = FalseOf(Frame(c, p))
  BY <1>1, <1>2, <1>4, CountFacts DEF OrsMatch
<1>10. ASSUME NEW p \in T PROVE Count(T \cup {n + 1}, p) = Count(T, p) /\ Count(T, p) \in 1..Len(os)
  BY <1>4, <1>9, CountBelow
<1>11. ASSUME NEW p \in T \cup {n + 1} PROVE us[Count(T \cup {n + 1}, p)].falseBB = FalseOf(Frame(d, p))
  <2>1. CASE p = n + 1
    BY <1>4, <1>8, <1>9, <2>1
  <2>2. CASE p \in T
    BY <1>4, <1>8, <1>9, <1>10, <2>2
  <2> QED BY <2>1, <2>2
<1>12. ASSUME NEW i \in DOMAIN us, NEW p \in Conds(d) PROVE us[i].trueBB = Frame(d, p).trueBB
  <2>1. CASE i = Len(os) + 1
    <3>1. CASE p \in Conds(c)
      BY <1>4, <1>8, <2>1, <3>1
    <3>2. CASE p \notin Conds(c)
      <4>1. HasCond(A) /\ p = n + 1
        BY <1>5, <3>2
      <4> QED BY <1>4, <1>8, <2>1, <4>1
    <3> QED BY <3>1, <3>2
  <2>2. CASE i # Len(os) + 1
    <3>1. i \in DOMAIN os
      BY <1>8, <2>2
    <3>2. ~HasCond(A)
      <4>1. Len(os) # 0
        BY <1>8, <3>1
      <4>2. Len(<<>>) = 0
        OBVIOUS
      <4> QED BY <4>1, <4>2
    <3>3. p \in Conds(c)
      BY <1>5, <3>2
    <3>4. os[i].trueBB = Frame(c, p).trueBB
      BY <3>1, <3>3 DEF OrsMatch
    <3> QED BY <1>4, <1>8, <3>1, <3>3, <3>4
  <2> QED BY <2>1, <2>2
<1> QED BY <1>3, <1>4, <1>5, <1>7, <1>8, <1>9, <1>11, <1>12 DEF OrsMatch

LEMMA OrsPop ==
  ASSUME NEW A \in FrameType, NEW c \in Seq(FrameType), NEW os \in Seq(Branch), Pushed(A),
         OrsMatch(On(A, c), os)
  PROVE  os # <<>> /\ Front(os) \in Seq(Branch) /\ OrsMatch(c, Front(os))
<1>1. PICK n : n = Len(c)
  OBVIOUS
<1>2. PICK T : T = Ors(c)
  OBVIOUS
<1>3. PICK d : d = On(A, c)
  OBVIOUS
<1>4. /\ n \in Nat /\ T \in SUBSET (1..n) /\ T \subseteq Depths(c) /\ Len(d) = n + 1 /\ Frame(d, n + 1) = A
      /\ \A p \in T : Frame(d, p) = Frame(c, p)
      /\ \A p \in Conds(c) : Frame(d, p) = Frame(c, p)
  <2>1. /\ Len(c) \in Nat /\ Len(On(A, c)) = Len(c) + 1
        /\ Ors(c) \subseteq Depths(c) /\ Conds(c) \subseteq Depths(c)
    BY OnFacts, DepthsOn
  <2>2. Extends(d, A, c)
    BY <1>3, OnFacts
  <2> QED BY <1>1, <1>2, <1>3, <2>1, <2>2 DEF Depths, Extends
<1>5. Ors(d) = T \cup {n + 1} /\ Conds(c) \subseteq Conds(d)
  <2>1. /\ Ors(On(A, c)) = Ors(c) \cup (IF Pushed(A) THEN {Len(c) + 1} ELSE {})
        /\ Conds(On(A, c)) = Conds(c) \cup (IF HasCond(A) THEN {Len(c) + 1} ELSE {})
    BY DepthsOn
  <2> QED BY <1>1, <1>2, <1>3, <2>1
<1>6. PICK k : k = Count(T, n)
  OBVIOUS
<1>7. k \in Nat /\ Count(T \cup {n + 1}, n + 1) = k + 1
  BY <1>4, <1>6, CountFacts
<1>8. /\ Len(os) = k + 1
      /\ \A p \in T \cup {n + 1} : os[Count(T \cup {n + 1}, p)].falseBB = FalseOf(Frame(d, p))
      /\ \A i \in DOMAIN os : \A p \in Conds(d) : os[i].trueBB = Frame(d, p).trueBB
  BY <1>3, <1>4, <1>5, <1>7 DEF OrsMatch
<1>9. os # <<>>
  <2>1. Len(os) # 0 /\ Len(<<>>) = 0
    BY <1>7, <1>8
  <2> QED BY <2>1
<1>10. PICK us : us = Front(os)
  OBVIOUS
<1>11. us \in Seq(Branch) /\ Len(us) = k /\ \A i \in 1..k : us[i] = os[i]
  <2>1. /\ Front(os) \in Seq(Branch) /\ Len(Front(os)) = Len(os) - 1
        /\ \A i \in 1..(Len(os) - 1) : Front(os)[i] = os[i]
    BY <1>9, Shortened
  <2>2. Len(os) - 1 = k
    BY <1>7, <1>8
  <2> QED BY <1>8, <1>10, <2>1, <2>2
<1>13. ASSUME NEW p \in T PROVE us[Count(T, p)].falseBB = FalseOf(Frame(c, p))
  <2>1. Count(T \cup {n + 1}, p) = Count(T, p) /\ Count(T, p) \in 1..k
    BY <1>4, <1>6, CountBelow
  <2> QED BY <1>4, <1>8, <1>11, <2>1
<1>14. ASSUME NEW i \in DOMAIN us, NEW p \in Conds(c) PROVE us[i].trueBB = Frame(c, p).trueBB
  <2>1. i \in 1..k /\ i \in DOMAIN os
    BY <1>7, <1>8, <1>11
  <2> QED BY <1>4, <1>5, <1>8, <1>11, <2>1
<1>15. OrsMatch(c, us)
  BY <1>1, <1>2, <1>6, <1>11, <1>13, <1>14 DEF OrsMatch
<1> QED BY <1>9, <1>10, <1>11, <1>15

\* Replacing a call on top by its continuation.
LEMMA LoopsSwap ==
  ASSUME NEW A \in FrameType, NEW B \in FrameType, NEW c \in Seq(FrameType), NEW ws \in Seq(Branch),
         IsWhile(A), IsWhile(B), Targets(A) = Targets(B), LoopsMatch(On(A, c), ws)
  PROVE  LoopsMatch(On(B, c), ws)
<1>1. /\ ws # <<>> /\ Front(ws) \in Seq(Branch) /\ Last(ws) = Targets(B)
      /\ LoopsMatch(c, Front(ws))
  BY LoopsPop
<1>2. Last(ws) \in Branch /\ Append(Front(ws), Last(ws)) = ws
  BY <1>1, Shortened
<1>3. LoopsMatch(On(B, c), Append(Front(ws), Targets(B)))
  BY <1>1, <1>2, LoopsPush
<1> QED BY <1>1, <1>2, <1>3

-----------------------------------------------------------------------------
(* The graph that belongs to a stack.                                      *)

\* The false blocks that an if without else creates and takes out again.
Dead(c) ==
  {Frame(c, p).falseBB : p \in {q \in Depths(c) : /\ Frame(c, q).visit \in {"IfCond", "IfThen"}
                                                  /\ ~Frame(c, q).has_else}}

LEMMA StackFacts ==
  ASSUME NEW c \in Seq(FrameType), {Entry, Ret} \subseteq BlockIds
  PROVE  /\ AllPending(c) \subseteq AllOwned(c) /\ Heads(c) \subseteq AllOwned(c)
         /\ Dead(c) \subseteq AllPending(c)
         /\ Rest(c) \subseteq Heads(c) \X AllOwned(c)
         /\ Conds(c) = {} => \A in : Returns(c, in) \subseteq Heads(c) \X AllPending(c)
         /\ \A p \in Depths(c) : Frame(c, p) \in FrameType
<1>3. \A p \in Depths(c) : Frame(c, p) \in FrameType
  <2> SUFFICES ASSUME NEW p \in Depths(c) PROVE Frame(c, p) \in FrameType
    OBVIOUS
  <2>1. Len(c) + 1 - p \in 1..Len(c)
    BY DEF Depths
  <2> QED BY <2>1 DEF Frame
<1>4. AllPending(c) \subseteq AllOwned(c)
  BY DEF AllPending, AllOwned, Owned
<1>6. Heads(c) \subseteq AllOwned(c)
  <2> SUFFICES ASSUME NEW p \in Loops(c) PROVE Frame(c, p).whileBB \in AllOwned(c)
    BY DEF Heads
  <2>1. p \in Depths(c) /\ IsWhile(Frame(c, p)) /\ Frame(c, p) \in FrameType
    BY <1>3 DEF Loops
  <2>2. Frame(c, p).whileBB \in Owned(Frame(c, p))
    BY <2>1, OwnedIs DEF IsWhile
  <2> QED BY <2>1, <2>2 DEF AllOwned
<1>7. Dead(c) \subseteq AllPending(c)
  <2> SUFFICES ASSUME NEW p \in Depths(c), Frame(c, p).visit \in {"IfCond", "IfThen"}
               PROVE  Frame(c, p).falseBB \in AllPending(c)
    BY DEF Dead
  <2>1. Frame(c, p).falseBB \in Pending(Frame(c, p))
    BY <1>3, OwnedIs
  <2> QED BY <2>1 DEF AllPending
<1>8. Rest(c) \subseteq Heads(c) \X AllOwned(c)
  <2>1. \A p \in Loops(c) : Inside(c, p) \subseteq AllOwned(c)
    <3> SUFFICES ASSUME NEW p \in Loops(c) PROVE Inside(c, p) \subseteq AllOwned(c)
      OBVIOUS
    <3>1. p \in Depths(c)
      BY DEF Loops
    <3>2. \A q \in (p + 1)..Len(c) : q \in Depths(c)
      BY <3>1 DEF Depths
    <3> QED BY <1>4, <3>1, <3>2 DEF Inside, AllOwned, AllPending
  <2> QED BY <2>1 DEF Rest, Heads
<1>9. ASSUME Conds(c) = {}, NEW in PROVE Returns(c, in) \subseteq Heads(c) \X AllPending(c)
  <2> SUFFICES ASSUME NEW p \in Loops(c)
               PROVE  Frame(c, p).whileBB \in Heads(c) /\ LeadTo(Frame(c, p), in) \in AllPending(c)
    BY DEF Returns
  <2>1. p \in Depths(c) /\ Frame(c, p).visit = "WhileBody"
    BY <1>9 DEF Loops, Conds, HasCond, IsWhile
  <2>2. Frame(c, p).nextBB \in Pending(Frame(c, p))
    BY <1>3, <2>1, OwnedIs
  <2> QED BY <2>1, <2>2 DEF Heads, LeadTo, AllPending
<1> QED BY <1>3, <1>4, <1>6, <1>7, <1>8, <1>9

LEMMA FitsFacts ==
  ASSUME NEW c \in Seq(FrameType), NEW f, NEW in, Fits(c, f, in)
  PROVE  /\ Graph(f) /\ f \in FnType /\ f.blocks \subseteq BlockIds
         /\ {Entry, Ret} \subseteq BlockIds /\ {Entry, Ret, in} \subseteq f.blocks
         /\ AllPending(c) \subseteq AllOwned(c) /\ AllOwned(c) \subseteq f.blocks
         /\ Heads(c) \subseteq AllOwned(c) /\ Dead(c) \subseteq AllPending(c)
         /\ Entry \notin AllPending(c) /\ in \notin AllPending(c)
<1>1. Graph(f) /\ f \in FnType /\ f.blocks \subseteq BlockIds /\ {Entry, Ret, in} \subseteq f.blocks
  BY SoundGraph, GraphFacts DEF Fits, Sound, Working
<1>2. {Entry, Ret} \subseteq BlockIds
  BY <1>1
<1>3. AllOwned(c) \subseteq f.blocks
  BY DEF Fits, Holding, AllOwned
<1>4. Entry \notin AllPending(c) /\ in \notin AllPending(c)
  BY DEF Fits, Sound, Working
<1> QED BY <1>1, <1>2, <1>3, <1>4, StackFacts

LEMMA BranchedKept ==
  ASSUME NEW c \in Seq(FrameType), NEW f, NEW g, NEW in, NEW to, Branched(c, f, in),
         {Entry, Ret} \subseteq BlockIds,
         \A b \in Dead(c) : g.pre[b] = f.pre[b],
         \A b \in AllPending(c) : f.pre[b] # <<>> => g.pre[b] # <<>>,
         to = in \/ to \notin Heads(c)
  PROVE  Branched(c, g, to)
<1> SUFFICES ASSUME NEW p \in Depths(c) PROVE BranchedFor(Frame(c, p), g, to)
  BY DEF Branched
<1>2. PICK A : A = Frame(c, p)
  OBVIOUS
<1>3. A \in FrameType
  <2>1. Len(c) + 1 - p \in 1..Len(c)
    BY DEF Depths
  <2> QED BY <1>2, <2>1 DEF Frame
<1>4. BranchedFor(A, f, in)
  BY <1>2 DEF Branched
<1>5. Pending(A) \subseteq AllPending(c)
  BY <1>2 DEF AllPending
<1>6. A.visit \in {"IfCond", "IfThen"} /\ ~A.has_else => A.falseBB \in Dead(c)
  BY <1>2 DEF Dead
<1>7. A.visit = "IfThen" => A.falseBB \in AllPending(c)
  BY <1>3, <1>5, OwnedIs
<1>8. A.visit = "WhileBody" => A.nextBB \in AllPending(c) /\ A.whileBB \in Heads(c)
  BY <1>2, <1>3, <1>5, OwnedIs DEF Heads, Loops, IsWhile
<1>9. BranchedFor(A, g, to)
  BY <1>4, <1>6, <1>7, <1>8 DEF BranchedFor
<1> QED BY <1>2, <1>9

LEMMA HoldingKept ==
  ASSUME NEW c, NEW f, NEW g, Holding(c, f), AllOwned(c) \subseteq g.blocks
  PROVE  Holding(c, g)
BY DEF Holding, AllOwned

\* The set of a call that does not own anything is no part of the graph.
LEMMA PlainFits ==
  ASSUME NEW A \in FrameType, Plain(A), NEW c \in Seq(FrameType), NEW f, NEW in,
         {Entry, Ret} \subseteq BlockIds
  PROVE  /\ Fits(On(A, c), f, in) <=> Fits(c, f, in)
         /\ Loops(On(A, c)) = Loops(c) /\ Conds(On(A, c)) = Conds(c)
<1>1. Pending(A) = {} /\ Owned(A) = {} /\ ~IsWhile(A) /\ ~HasCond(A) /\ ~IsIf(A)
  BY OwnedIs DEF Plain, IsWhile, HasCond, IsIf
<1>2. AllPending(On(A, c)) = AllPending(c)
  <2>1. AllPending(On(A, c)) = AllPending(c) \cup Pending(A)
    BY BlocksOn
  <2> QED BY <1>1, <2>1
<1>3. Returns(On(A, c), in) = Returns(c, in)
  <2>1. Returns(On(A, c), in)
          = Returns(c, in) \cup (IF IsWhile(A) THEN {<<A.whileBB, LeadTo(A, in)>>} ELSE {})
    BY ReturnsOn
  <2> QED BY <1>1, <2>1
<1>4. Heads(On(A, c)) = Heads(c)
  BY <1>1, BlocksOn
<1>5. Rest(On(A, c)) = Rest(c)
  <2>1. Rest(On(A, c)) = Rest(c) \cup (Heads(c) \X {}) \cup {}
    BY <1>1, RestOn
  <2> QED BY <2>1
<1>6. Dominated(On(A, c), in) = Dominated(c, in)
  BY <1>4, <1>5, DominatedIs
<1>7. Distinct(A) /\ BranchedFor(A, f, in)
  BY <1>1 DEF Distinct, BranchedFor, Plain
<1>8. Holding(On(A, c), f) <=> Holding(c, f)
  BY <1>1, <1>7, HoldingOn
<1>9. Branched(On(A, c), f, in) <=> Branched(c, f, in)
  BY <1>7, BranchedOn
<1>10. Loops(On(A, c)) = Loops(c) /\ Conds(On(A, c)) = Conds(c)
  BY <1>1, DepthsOn
<1> QED BY <1>2, <1>3, <1>6, <1>8, <1>9, <1>10 DEF Fits

\* Only the code in front of a terminator changes.
LEMMA CodeFits ==
  ASSUME NEW c \in Seq(FrameType), NEW f, NEW g, NEW in, Fits(c, f, in),
         Sound(g, in, AllPending(c), Returns(c, in), Dominated(c, in)),
         g.pre = f.pre, g.blocks = f.blocks
  PROVE  Fits(c, g, in)
<1>1. Branched(c, g, in)
  BY FitsFacts, BranchedKept DEF Fits
<1>2. Holding(c, g)
  BY DEF Fits, Holding
<1> QED BY <1>1, <1>2 DEF Fits

\* The call at the bottom holds the entry and the ret block.
LEMMA BottomFacts ==
  ASSUME NEW c \in Seq(FrameType), NEW f, NEW in, Fits(c, f, in), Shape(c), c # <<>>
  PROVE  /\ {Entry, Ret} \subseteq AllOwned(c) /\ Ret \in AllPending(c)
         /\ Entry \notin Heads(c) /\ Ret \notin Dead(c)
         /\ \A p \in Depths(c) : Frame(c, p).visit # "FuncDefExit" =>
              Entry \notin Owned(Frame(c, p)) /\ Ret \notin Owned(Frame(c, p))
<1>1. {Entry, Ret} \subseteq BlockIds
  BY FitsFacts
<1>2. 1 \in Depths(c)
  <2>1. Len(c) \in Nat /\ Len(c) # 0
    OBVIOUS
  <2> QED BY <2>1 DEF Depths
<1>3. \A p \in Depths(c) : Frame(c, p) \in FrameType
  <2> SUFFICES ASSUME NEW p \in Depths(c) PROVE Frame(c, p) \in FrameType
    OBVIOUS
  <2>1. Len(c) + 1 - p \in 1..Len(c)
    BY DEF Depths
  <2> QED BY <2>1 DEF Frame
<1>4. Frame(c, 1).visit = "FuncDefExit"
  BY <1>2 DEF Shape
<1>5. Pending(Frame(c, 1)) = {Ret} /\ Owned(Frame(c, 1)) = {Entry, Ret}
  BY <1>1, <1>2, <1>3, <1>4, OwnedIs
<1>6. {Entry, Ret} \subseteq AllOwned(c) /\ Ret \in AllPending(c)
  BY <1>2, <1>5 DEF AllOwned, AllPending
<1>7. ASSUME NEW p \in Depths(c), Frame(c, p).visit # "FuncDefExit"
      PROVE  Entry \notin Owned(Frame(c, p)) /\ Ret \notin Owned(Frame(c, p))
  <2>1. p # 1
    BY <1>4, <1>7
  <2> QED BY <1>2, <1>5, <2>1 DEF Fits, Holding
<1>8. Entry \notin Heads(c)
  <2> SUFFICES ASSUME NEW p \in Loops(c) PROVE Frame(c, p).whileBB # Entry
    BY DEF Heads
  <2>1. p \in Depths(c) /\ IsWhile(Frame(c, p))
    BY DEF Loops
  <2>2. Frame(c, p).visit # "FuncDefExit" /\ Frame(c, p).whileBB \in Owned(Frame(c, p))
    BY <1>1, <1>3, <2>1, OwnedIs DEF IsWhile
  <2> QED BY <1>7, <2>1, <2>2
<1>9. Ret \notin Dead(c)
  <2> SUFFICES ASSUME NEW p \in Depths(c), Frame(c, p).visit \in {"IfCond", "IfThen"}
               PROVE  Frame(c, p).falseBB # Ret
    BY DEF Dead
  <2>1. Frame(c, p).falseBB \in Owned(Frame(c, p))
    BY <1>1, <1>3, OwnedIs
  <2> QED BY <1>7, <2>1
<1> QED BY <1>6, <1>7, <1>8, <1>9

\* A jump to a pending block, or from the body of a loop to its head.
LEMMA BrFits ==
  ASSUME NEW c \in Seq(FrameType), NEW f, NEW in, Fits(c, f, in), Shape(c), c # <<>>,
         ~Terminated(f, in), NEW t,
         \/ t \in AllPending(c) \ Dead(c)
         \/ \E p \in Depths(c) : Frame(c, p).visit = "WhileBody" /\ t = Frame(c, p).whileBB
  PROVE  LET g == CreateBr(f, in, t) IN
         Fits(c, g, in) /\ Jumped(f, in, t, g)
<1>1. /\ f.blocks \subseteq BlockIds /\ AllPending(c) \subseteq AllOwned(c) /\ AllOwned(c) \subseteq f.blocks
      /\ Heads(c) \subseteq AllOwned(c) /\ Dead(c) \subseteq AllPending(c) /\ {Entry, Ret} \subseteq BlockIds
      /\ Entry \notin AllPending(c) /\ in \notin AllPending(c) /\ Entry \notin Heads(c)
  BY FitsFacts, BottomFacts
<1>2. PICK g : g = CreateBr(f, in, t)
  OBVIOUS
<1>3. /\ t \in f.blocks \ {Entry, in} /\ t \in (AllPending(c) \cup Heads(c)) \ Dead(c)
      /\ t \in AllPending(c) \/ (<<t, in>> \in Dominated(c, in) /\ \E e \in AllPending(c) : <<t, e>> \in Returns(c, in))
  <2>1. CASE t \in AllPending(c) \ Dead(c)
    BY <1>1, <2>1
  <2>2. CASE \E p \in Depths(c) : Frame(c, p).visit = "WhileBody" /\ t = Frame(c, p).whileBB
    <3>1. PICK p \in Depths(c) : Frame(c, p).visit = "WhileBody" /\ t = Frame(c, p).whileBB
      BY <2>2
    <3>2. PICK A : A = Frame(c, p)
      OBVIOUS
    <3>3. A \in FrameType
      <4>1. Len(c) + 1 - p \in 1..Len(c)
        BY DEF Depths
      <4> QED BY <3>2, <4>1 DEF Frame
    <3>4. p \in Loops(c)
      BY <3>1 DEF Loops, IsWhile
    <3>5. t \in Heads(c) /\ <<t, A.nextBB>> \in Returns(c, in)
      BY <3>1, <3>2, <3>4 DEF Heads, Returns, LeadTo
    <3>6. <<t, in>> \in Dominated(c, in)
      BY <3>5, DominatedIs
    <3>7. A.nextBB \in AllPending(c)
      <4>1. A.nextBB \in Pending(A)
        BY <1>1, <3>1, <3>2, <3>3, OwnedIs
      <4> QED BY <3>2, <4>1 DEF AllPending
    <3>8. t # in
      BY <3>1 DEF Fits, Branched, BranchedFor
    <3>9. t \notin Dead(c)
      <4> SUFFICES ASSUME NEW q \in Depths(c), Frame(c, q).visit \in {"IfCond", "IfThen"},
                          t = Frame(c, q).falseBB
                   PROVE  FALSE
        BY DEF Dead
      <4>1. Frame(c, q) \in FrameType
        <5>1. Len(c) + 1 - q \in 1..Len(c)
          BY DEF Depths
        <5> QED BY <5>1 DEF Frame
      <4>2. t \in Owned(Frame(c, q))
        BY <1>1, <4>1, OwnedIs
      <4>3. t \in Owned(Frame(c, p))
        BY <1>1, <3>1, <3>2, <3>3, OwnedIs
      <4>4. p # q
        BY <3>1
      <4> QED BY <4>2, <4>3, <4>4 DEF Fits, Holding
    <3> QED BY <1>1, <3>5, <3>6, <3>7, <3>8, <3>9
  <2> QED BY <2>1, <2>2
<1>4. Sound(g, in, AllPending(c), Returns(c, in), Dominated(c, in)) /\ Jumped(f, in, t, g)
  <2>1. PICK P : P = AllPending(c)
    OBVIOUS
  <2>2. PICK Z : Z = Returns(c, in)
    OBVIOUS
  <2>3. PICK O : O = Dominated(c, in)
    OBVIOUS
  <2>4. Sound(f, in, P, Z, O)
    BY <2>1, <2>2, <2>3 DEF Fits
  <2>5. MayJump(f, in, P, Z, O, t)
    BY <1>3, <2>1, <2>2, <2>3 DEF MayJump
  <2>6. Sound(CreateBr(f, in, t), in, P, Z, O) /\ Jumped(f, in, t, CreateBr(f, in, t))
    BY <2>4, <2>5, BrSound
  <2> QED BY <1>2, <2>1, <2>2, <2>3, <2>6
<1>5. Branched(c, g, in)
  <2>1. \A b \in Dead(c) : g.pre[b] = f.pre[b]
    BY <1>1, <1>3, <1>4 DEF Grown, Jumped
  <2>2. \A b \in AllPending(c) : f.pre[b] # <<>> => g.pre[b] # <<>>
    BY <1>1, <1>4 DEF Grown, Jumped
  <2> QED BY <1>1, <2>1, <2>2, BranchedKept DEF Fits
<1>6. Holding(c, g)
  BY <1>4 DEF Fits, Holding, Grown, Jumped
<1> QED BY <1>2, <1>4, <1>5, <1>6 DEF Fits

\* What Fits says of the call on top and of the others.
LEMMA TopFacts ==
  ASSUME NEW A \in FrameType, NEW c \in Seq(FrameType), NEW f, NEW in, Fits(On(A, c), f, in)
  PROVE  /\ f.blocks \subseteq BlockIds /\ {Entry, Ret} \subseteq BlockIds /\ {Entry, Ret, in} \subseteq f.blocks
         /\ Sound(f, in, AllPending(c) \cup Pending(A), Returns(On(A, c), in), Dominated(On(A, c), in))
         /\ Holding(c, f) /\ Branched(c, f, in) /\ BranchedFor(A, f, in) /\ Distinct(A)
         /\ AllOwned(c) \subseteq f.blocks /\ Owned(A) \subseteq f.blocks /\ Owned(A) \cap AllOwned(c) = {}
         /\ Entry \notin AllPending(c) /\ in \notin AllPending(c)
         /\ Entry \notin Pending(A) /\ in \notin Pending(A)
<1>1. PICK d \in Seq(FrameType) : d = On(A, c)
  BY OnFacts
<1>2. Fits(d, f, in)
  BY <1>1
<1>3. /\ f.blocks \subseteq BlockIds /\ {Entry, Ret} \subseteq BlockIds /\ {Entry, Ret, in} \subseteq f.blocks
      /\ Entry \notin AllPending(d) /\ in \notin AllPending(d)
  BY <1>2, FitsFacts
<1>4. AllPending(d) = AllPending(c) \cup Pending(A)
  <2>1. AllPending(On(A, c)) = AllPending(c) \cup Pending(A)
    BY BlocksOn
  <2> QED BY <1>1, <2>1
<1>5. Holding(c, f) /\ Owned(A) \subseteq f.blocks /\ Distinct(A) /\ Owned(A) \cap AllOwned(c) = {}
  BY HoldingOn DEF Fits
<1>6. Branched(c, f, in) /\ BranchedFor(A, f, in)
  BY BranchedOn DEF Fits
<1>7. AllOwned(c) \subseteq f.blocks
  BY <1>5 DEF Holding, AllOwned
<1>8. Sound(f, in, AllPending(d), Returns(d, in), Dominated(d, in))
  BY <1>2 DEF Fits
<1> QED BY <1>1, <1>3, <1>4, <1>5, <1>6, <1>7, <1>8

\* The same, read from right to left.
LEMMA FitsOn ==
  ASSUME NEW A \in FrameType, NEW c \in Seq(FrameType), NEW f, NEW in, NEW P,
         P = AllPending(c) \cup Pending(A),
         Sound(f, in, P, Returns(On(A, c), in), Dominated(On(A, c), in)),
         Holding(c, f), Branched(c, f, in), BranchedFor(A, f, in), Distinct(A),
         Owned(A) \subseteq f.blocks, Owned(A) \cap AllOwned(c) = {}
  PROVE  Fits(On(A, c), f, in)
<1>1. AllPending(On(A, c)) = P
  <2>1. AllPending(On(A, c)) = AllPending(c) \cup Pending(A)
    BY BlocksOn
  <2> QED BY <2>1
<1>2. Holding(On(A, c), f)
  BY HoldingOn
<1>3. Branched(On(A, c), f, in)
  BY BranchedOn
<1> QED BY <1>1, <1>2, <1>3 DEF Fits

\* Going on in a block that the call on top holds.
LEMMA Passage ==
  ASSUME NEW f, NEW in, NEW P, NEW Z, NEW c, Sound(f, in, P, Z, Dominated(c, in)),
         NEW d, NEW to, Returns(d, to) \subseteq Z,
         Heads(d) \X {to} \subseteq Rest(c), Rest(d) \subseteq Rest(c), Rest(d) \subseteq Heads(d) \X AllOwned(d)
  PROVE  Follows(f, Z, Dominated(c, in), to, Returns(d, to), Dominated(d, to))
<1>1. PICK O : O = Dominated(c, in)
  OBVIOUS
<1>2. PICK Y : Y = Returns(d, to)
  OBVIOUS
<1>3. PICK Q : Q = Dominated(d, to)
  OBVIOUS
<1>4. Z \subseteq f.blocks \X f.blocks /\ O \subseteq f.blocks \X f.blocks
  BY <1>1 DEF Sound, Repeats, Entered
<1>5. Rest(c) \subseteq O
  BY <1>1, DominatedIs
<1>6. Q = (Heads(d) \X {to}) \cup Rest(d)
  BY <1>3, DominatedIs
<1>7. Q \subseteq O
  BY <1>5, <1>6
<1>8. \A h, b : <<h, b>> \in Q => <<h, to>> \in Q
  BY <1>6
<1> QED BY <1>1, <1>2, <1>3, <1>4, <1>7, <1>8 DEF Follows

\* A call that creates its blocks and goes on where it is.
LEMMA PushFits ==
  ASSUME NEW A \in FrameType, NEW c \in Seq(FrameType), NEW f, NEW in, Fits(c, f, in),
         A.visit \in {"IfCond", "LOrRhs", "LAndRhs"}, Distinct(A),
         NEW k \in Nat, MaxBlocks \in Nat, f.n + k <= MaxBlocks,
         Owned(A) = (f.n + 1)..(f.n + k)
  PROVE  Fits(On(A, c), NewBlocks(f, k), in) /\ Enlarged(f, k, in, NewBlocks(f, k))
<1>1. PICK g : g = NewBlocks(f, k)
  OBVIOUS
<1>2. PICK B : B = (f.n + 1)..(f.n + k)
  OBVIOUS
<1>3. PICK Z : Z = Returns(c, in)
  OBVIOUS
<1>4. PICK O : O = Dominated(c, in)
  OBVIOUS
<1>5. PICK P : P = AllPending(c) \cup B
  OBVIOUS
<1>6. Sound(g, in, P, Z, O) /\ Enlarged(f, k, in, g)
  <2>1. Sound(f, in, AllPending(c), Z, O)
    BY <1>3, <1>4 DEF Fits
  <2> QED BY <1>1, <1>2, <1>5, <2>1, NewSound
<1>7. /\ f.blocks \subseteq BlockIds /\ {Entry, Ret} \subseteq BlockIds /\ {Entry, Ret, in} \subseteq f.blocks
      /\ AllPending(c) \subseteq AllOwned(c) /\ AllOwned(c) \subseteq f.blocks
      /\ Heads(c) \subseteq AllOwned(c) /\ Dead(c) \subseteq AllPending(c)
      /\ Rest(c) \subseteq Heads(c) \X AllOwned(c)
  BY FitsFacts, StackFacts
<1>8. Pending(A) = B /\ Owned(A) = B /\ ~IsWhile(A)
  BY <1>2, <1>7, OwnedIs DEF IsWhile
<1>9. /\ g.blocks = f.blocks \cup B /\ B \cap f.blocks = {} /\ g.pre = f.pre
      /\ \A b \in B : b # Entry /\ g.pre[b] = <<>>
  BY <1>2, <1>6 DEF Enlarged
<1>10. PICK Y : Y = Returns(On(A, c), in)
  OBVIOUS
<1>11. PICK Q : Q = Dominated(On(A, c), in)
  OBVIOUS
<1>12. Y = Z
  <2>1. Y = Returns(c, in) \cup (IF IsWhile(A) THEN {<<A.whileBB, LeadTo(A, in)>>} ELSE {})
    BY <1>10, ReturnsOn
  <2> QED BY <1>3, <1>8, <2>1
<1>13. Q = (Heads(c) \X {in}) \cup Rest(c) \cup (Heads(c) \X B)
  <2>1. Heads(On(A, c)) = Heads(c) \cup (IF IsWhile(A) THEN {A.whileBB} ELSE {})
    BY BlocksOn
  <2>2. Rest(On(A, c)) = Rest(c) \cup (Heads(c) \X Owned(A))
                            \cup (IF IsWhile(A) THEN {A.whileBB} \X (Pending(A) \ {A.nextBB}) ELSE {})
    BY RestOn
  <2>3. Heads(On(A, c)) = Heads(c) /\ Rest(On(A, c)) = Rest(c) \cup (Heads(c) \X B)
    BY <1>8, <2>1, <2>2
  <2>4. Q = (Heads(On(A, c)) \X {in}) \cup Rest(On(A, c))
    BY <1>11, DominatedIs
  <2> QED BY <2>3, <2>4
<1>14. Follows(g, Z, O, in, Y, Q)
  <2>1. O = (Heads(c) \X {in}) \cup Rest(c)
    BY <1>4, DominatedIs
  <2>2. Z \subseteq g.blocks \X g.blocks
    BY <1>6 DEF Sound, Repeats
  <2>3. Q \subseteq g.blocks \X g.blocks
    BY <1>7, <1>9, <1>13
  <2>4. ASSUME NEW h, NEW b, <<h, b>> \in Q PROVE <<h, in>> \in Q /\ (<<h, b>> \in O \/ b \in B)
    BY <1>7, <1>13, <2>1, <2>4
  <2> QED BY <1>9, <1>12, <2>2, <2>3, <2>4 DEF Follows
<1>15. Sound(g, in, P, Y, Q)
  BY <1>6, <1>14, AdjustSound
<1>16. Holding(c, g)
  BY <1>7, <1>9, HoldingKept DEF Fits
<1>17. Branched(c, g, in)
  BY <1>7, <1>9, BranchedKept DEF Fits
<1>18. BranchedFor(A, g, in)
  <2>1. A.visit = "IfCond" => A.falseBB \in B
    BY <1>7, <1>8, OwnedIs
  <2> QED BY <1>9, <2>1 DEF BranchedFor
<1>19. Owned(A) \subseteq g.blocks /\ Owned(A) \cap AllOwned(c) = {}
  BY <1>7, <1>8, <1>9
<1>20. Sound(g, in, P, Returns(On(A, c), in), Dominated(On(A, c), in)) /\ P = AllPending(c) \cup Pending(A)
  BY <1>5, <1>8, <1>10, <1>11, <1>15
<1>21. Fits(On(A, c), g, in)
  BY <1>16, <1>17, <1>18, <1>19, <1>20, FitsOn
<1> QED BY <1>1, <1>6, <1>21

\* From a finished block to one that the call on top has in store.
LEMMA MoveFits ==
  ASSUME NEW c, NEW d \in Seq(FrameType), NEW f, NEW in, NEW P, NEW Z,
         Sound(f, in, P, Z, Dominated(c, in)), Terminated(f, in), {Entry, Ret} \subseteq BlockIds,
         NEW t \in P, f.pre[t] # <<>>, AllPending(d) = P \ {t}, Returns(d, t) \subseteq Z,
         Heads(d) \X {t} \subseteq Rest(c), Rest(d) \subseteq Rest(c)
  PROVE  Sound(f, t, AllPending(d), Returns(d, t), Dominated(d, t)) /\ ~Terminated(f, t)
<1>1. PICK O : O = Dominated(c, in)
  OBVIOUS
<1>2. PICK Y : Y = Returns(d, t)
  OBVIOUS
<1>3. PICK Q : Q = Dominated(d, t)
  OBVIOUS
<1>4. Rest(d) \subseteq Heads(d) \X AllOwned(d)
  BY StackFacts
<1>5. Follows(f, Z, O, t, Y, Q)
  BY <1>1, <1>2, <1>3, <1>4, Passage
<1>6. Sound(f, in, P, Z, O)
  BY <1>1
<1>7. Sound(f, t, P \ {t}, Y, Q)
  BY <1>5, <1>6, MoveSound
<1>8. ~Terminated(f, t)
  BY <1>6, PendingFacts
<1> QED BY <1>2, <1>3, <1>7, <1>8

\* The call on top returns, in the block that is left to it.
LEMMA PopFits ==
  ASSUME NEW A \in FrameType, NEW c \in Seq(FrameType), NEW f, NEW in, NEW Z,
         Sound(f, in, AllPending(c) \cup Pending(A), Z, Dominated(On(A, c), in)), Terminated(f, in),
         NEW t, Pending(A) = {t}, f.pre[t] # <<>>, Returns(c, t) \subseteq Z,
         Holding(c, f), Branched(c, f, in), Owned(A) \cap AllOwned(c) = {}, {Entry, Ret} \subseteq BlockIds
  PROVE  Fits(c, f, t) /\ ~Terminated(f, t)
<1>1. /\ AllPending(c) \subseteq AllOwned(c) /\ Heads(c) \subseteq AllOwned(c) /\ Dead(c) \subseteq AllPending(c)
      /\ t \in Owned(A)
  BY StackFacts, OwnedIs
<1>2. Rest(On(A, c)) = Rest(c) \cup (Heads(c) \X Owned(A))
                         \cup (IF IsWhile(A) THEN {A.whileBB} \X (Pending(A) \ {A.nextBB}) ELSE {})
  BY RestOn
<1>3. Heads(c) \X {t} \subseteq Rest(On(A, c)) /\ Rest(c) \subseteq Rest(On(A, c))
  BY <1>1, <1>2
<1>4. PICK P : P = AllPending(c) \cup Pending(A)
  OBVIOUS
<1>5. t \in P /\ AllPending(c) = P \ {t}
  BY <1>1, <1>4
<1>6. PICK d : d = On(A, c)
  OBVIOUS
<1>7. Sound(f, t, AllPending(c), Returns(c, t), Dominated(c, t)) /\ ~Terminated(f, t)
  BY <1>3, <1>4, <1>5, <1>6, MoveFits
<1>8. Branched(c, f, t)
  BY <1>1, BranchedKept
<1> QED BY <1>7, <1>8 DEF Fits

\* The call on top goes on as B.
LEMMA TurnFits ==
  ASSUME NEW A \in FrameType, NEW B \in FrameType, NEW c \in Seq(FrameType), NEW f, NEW in, NEW Z,
         Sound(f, in, AllPending(c) \cup Pending(A), Z, Dominated(On(A, c), in)), Terminated(f, in),
         NEW t \in Pending(A), f.pre[t] # <<>>, Returns(On(B, c), t) \subseteq Z,
         Pending(B) = Pending(A) \ {t}, Owned(B) \subseteq Owned(A), Owned(A) \subseteq f.blocks,
         IsWhile(A) <=> IsWhile(B),
         IsWhile(B) => B.whileBB = A.whileBB /\ B.nextBB = A.nextBB /\ t # A.nextBB,
         BranchedFor(B, f, t), Distinct(B),
         Holding(c, f), Branched(c, f, in), Owned(A) \cap AllOwned(c) = {}, {Entry, Ret} \subseteq BlockIds
  PROVE  Fits(On(B, c), f, t) /\ ~Terminated(f, t)
<1>1. /\ AllPending(c) \subseteq AllOwned(c) /\ Heads(c) \subseteq AllOwned(c) /\ Dead(c) \subseteq AllPending(c)
      /\ t \in Owned(A)
  BY StackFacts, OwnedIs
<1>2. Rest(On(A, c)) = Rest(c) \cup (Heads(c) \X Owned(A))
                         \cup (IF IsWhile(A) THEN {A.whileBB} \X (Pending(A) \ {A.nextBB}) ELSE {})
  BY RestOn
<1>3. Rest(On(B, c)) = Rest(c) \cup (Heads(c) \X Owned(B))
                         \cup (IF IsWhile(B) THEN {B.whileBB} \X (Pending(B) \ {B.nextBB}) ELSE {})
  BY RestOn
<1>4. Heads(On(B, c)) = Heads(c) \cup (IF IsWhile(B) THEN {B.whileBB} ELSE {})
  BY BlocksOn
<1>5. Rest(On(B, c)) \subseteq Rest(On(A, c))
  <2>1. CASE IsWhile(B)
    BY <1>2, <1>3, <2>1
  <2>2. CASE ~IsWhile(B)
    BY <1>2, <1>3, <2>2
  <2> QED BY <2>1, <2>2
<1>6. Heads(On(B, c)) \X {t} \subseteq Rest(On(A, c))
  <2>1. CASE IsWhile(B)
    BY <1>1, <1>2, <1>4, <2>1
  <2>2. CASE ~IsWhile(B)
    BY <1>1, <1>2, <1>4, <2>2
  <2> QED BY <2>1, <2>2
<1>7. PICK P : P = AllPending(c) \cup Pending(A)
  OBVIOUS
<1>8. PICK e \in Seq(FrameType) : e = On(B, c)
  BY OnFacts
<1>9. t \in P /\ AllPending(e) = P \ {t}
  <2>1. AllPending(On(B, c)) = AllPending(c) \cup Pending(B)
    BY BlocksOn
  <2> QED BY <1>1, <1>7, <1>8, <2>1
<1>10. PICK d : d = On(A, c)
  OBVIOUS
<1>11. Sound(f, t, AllPending(e), Returns(e, t), Dominated(e, t)) /\ ~Terminated(f, t)
  BY <1>5, <1>6, <1>7, <1>8, <1>9, <1>10, MoveFits
<1>12. Branched(c, f, t)
  BY <1>1, BranchedKept
<1>13. Branched(e, f, t)
  BY <1>8, <1>12, BranchedOn
<1>14. Holding(e, f)
  <2>1. Owned(B) \subseteq f.blocks /\ Owned(B) \cap AllOwned(c) = {}
    OBVIOUS
  <2> QED BY <1>8, <2>1, HoldingOn
<1> QED BY <1>8, <1>11, <1>13, <1>14 DEF Fits

\* The branch behind the left operand of || or &&: x is the block of the right
\* operand, y where the condition goes on otherwise.
\* The true and the false target of a branch on one side of a condition.
Sides(t, e, x, y) == (t = x /\ e = y) \/ (t = y /\ e = x)

LEMMA LogicFits ==
  ASSUME NEW A \in FrameType, NEW c \in Seq(FrameType), NEW f, NEW in, Fits(On(A, c), f, in),
         ~Terminated(f, in), A.visit \in {"LOrRhs", "LAndRhs"},
         NEW x, Pending(A) = {x}, NEW y \in AllPending(c) \ Dead(c),
         NEW t, NEW e, Sides(t, e, x, y)
  PROVE  LET g == CreateCondBr(f, in, t, e) IN
         Fits(c, g, x) /\ ~Terminated(g, x) /\ g.n = f.n
<1>1. PICK g : g = CreateCondBr(f, in, t, e)
  OBVIOUS
<1>2. /\ f.blocks \subseteq BlockIds /\ {Entry, Ret} \subseteq BlockIds
      /\ Sound(f, in, AllPending(c) \cup Pending(A), Returns(On(A, c), in), Dominated(On(A, c), in))
      /\ Holding(c, f) /\ Branched(c, f, in)
      /\ AllOwned(c) \subseteq f.blocks /\ Owned(A) \subseteq f.blocks /\ Owned(A) \cap AllOwned(c) = {}
  BY TopFacts
<1>3. /\ AllPending(c) \subseteq AllOwned(c) /\ Heads(c) \subseteq AllOwned(c) /\ Dead(c) \subseteq AllPending(c)
      /\ x \in Owned(A)
  BY <1>2, StackFacts, OwnedIs
<1>4. PICK P : P = AllPending(c) \cup Pending(A)
  OBVIOUS
<1>5. PICK Z : Z = Returns(c, in)
  OBVIOUS
<1>6. PICK Y : Y = Returns(c, x)
  OBVIOUS
<1>7. PICK O : O = Dominated(On(A, c), in)
  OBVIOUS
<1>8. Returns(On(A, c), in) = Z
  <2>1. Returns(On(A, c), in)
          = Returns(c, in) \cup (IF IsWhile(A) THEN {<<A.whileBB, LeadTo(A, in)>>} ELSE {})
    BY ReturnsOn
  <2>2. ~IsWhile(A)
    BY DEF IsWhile
  <2> QED BY <1>5, <2>1, <2>2
<1>9. Sound(f, in, P, Z, O)
  BY <1>2, <1>4, <1>7, <1>8
<1>10. Leads(f, in, Z, Y, {t, e})
  <2>1. Z \subseteq f.blocks \X f.blocks /\ x \in f.blocks
    BY <1>2, <1>3, <1>9 DEF Sound, Repeats
  <2>2. Y \subseteq f.blocks \X f.blocks
    <3> SUFFICES ASSUME NEW p \in Loops(c)
                 PROVE  Frame(c, p).whileBB \in f.blocks /\ LeadTo(Frame(c, p), x) \in f.blocks
      BY <1>6 DEF Returns
    <3>1. Frame(c, p).whileBB \in f.blocks
      BY <1>2, <1>3 DEF Heads
    <3>2. CASE Frame(c, p).visit = "WhileCond"
      BY <2>1, <3>1, <3>2 DEF LeadTo
    <3>3. CASE Frame(c, p).visit # "WhileCond"
      <4>1. <<Frame(c, p).whileBB, Frame(c, p).nextBB>> \in Z
        BY <1>5, <3>3 DEF Returns, LeadTo
      <4> QED BY <2>1, <3>1, <3>3, <4>1 DEF LeadTo
    <3> QED BY <3>1, <3>2, <3>3
  <2>3. \A h, b : <<h, b>> \in Y => <<h, b>> \in Z \/ (<<h, in>> \in Z /\ b = x)
    BY <1>5, <1>6, ReturnsMove
  <2> QED BY <2>2, <2>3 DEF Leads, Sides
<1>11. Sound(g, in, P, Y, O) /\ Grown(f, g, in, {t, e})
  <2>1. t \in P /\ e \in P
    BY <1>4 DEF Sides
  <2> QED BY <1>1, <1>9, <1>10, <2>1, CondBrSound
<1>12. /\ g.blocks = f.blocks /\ g.n = f.n /\ Terminated(g, in) /\ g.pre[x] # <<>> /\ g.pre[y] # <<>>
       /\ \A a \in BlockIds \ {x, y} : g.pre[a] = f.pre[a]
  BY <1>11 DEF Grown, Sides
<1>13. Holding(c, g)
  BY <1>2, <1>12, HoldingKept
<1>14. Branched(c, g, in)
  <2>1. \A b \in Dead(c) : g.pre[b] = f.pre[b]
    BY <1>2, <1>3, <1>12
  <2>2. \A b \in AllPending(c) : f.pre[b] # <<>> => g.pre[b] # <<>>
    BY <1>2, <1>3, <1>12
  <2> QED BY <1>2, <2>1, <2>2, BranchedKept
<1>15. Fits(c, g, x) /\ ~Terminated(g, x)
  BY <1>2, <1>4, <1>6, <1>7, <1>11, <1>12, <1>13, <1>14, PopFits
<1> QED BY <1>1, <1>12, <1>15

\* What the branch at the end of a condition gives.
LEMMA ChooseFits ==
  ASSUME NEW A \in FrameType, NEW c \in Seq(FrameType), NEW f, NEW in, Fits(On(A, c), f, in),
         ~Terminated(f, in), NEW t \in Pending(A), NEW e \in Pending(A),
         NEW Y, Leads(f, in, Returns(On(A, c), in), Y, {t, e})
  PROVE  LET g == CreateCondBr(f, in, t, e) IN
         /\ Sound(g, in, AllPending(c) \cup Pending(A), Y, Dominated(On(A, c), in))
         /\ Grown(f, g, in, {t, e}) /\ Holding(c, g) /\ Branched(c, g, in)
<1>1. PICK g : g = CreateCondBr(f, in, t, e)
  OBVIOUS
<1>2. /\ f.blocks \subseteq BlockIds /\ {Entry, Ret} \subseteq BlockIds
      /\ Sound(f, in, AllPending(c) \cup Pending(A), Returns(On(A, c), in), Dominated(On(A, c), in))
      /\ Holding(c, f) /\ Branched(c, f, in)
      /\ AllOwned(c) \subseteq f.blocks /\ Owned(A) \subseteq f.blocks /\ Owned(A) \cap AllOwned(c) = {}
  BY TopFacts
<1>3. /\ AllPending(c) \subseteq AllOwned(c) /\ Dead(c) \subseteq AllPending(c)
      /\ t \in Owned(A) /\ e \in Owned(A)
  BY <1>2, StackFacts, OwnedIs
<1>4. PICK P : P = AllPending(c) \cup Pending(A)
  OBVIOUS
<1>5. PICK Z : Z = Returns(On(A, c), in)
  OBVIOUS
<1>7. PICK O : O = Dominated(On(A, c), in)
  OBVIOUS
<1>9. Sound(f, in, P, Z, O)
  BY <1>2, <1>4, <1>5, <1>7
<1>11. Sound(g, in, P, Y, O) /\ Grown(f, g, in, {t, e})
  <2>1. t \in P /\ e \in P
    BY <1>4
  <2>2. Leads(f, in, Z, Y, {t, e})
    BY <1>5
  <2> QED BY <1>1, <1>9, <2>1, <2>2, CondBrSound
<1>12. g.blocks = f.blocks /\ \A a \in AllOwned(c) : g.pre[a] = f.pre[a]
  <2>1. \A a \in AllOwned(c) : a \in BlockIds \ {t, e}
    BY <1>2, <1>3
  <2> QED BY <1>11, <2>1 DEF Grown
<1>13. Holding(c, g)
  BY <1>2, <1>12, HoldingKept
<1>14. Branched(c, g, in)
  <2>1. \A b \in Dead(c) : g.pre[b] = f.pre[b]
    BY <1>3, <1>12
  <2>2. \A b \in AllPending(c) : f.pre[b] # <<>> => g.pre[b] # <<>>
    BY <1>3, <1>12
  <2> QED BY <1>2, <2>1, <2>2, BranchedKept
<1> QED BY <1>1, <1>4, <1>7, <1>11, <1>13, <1>14

\* The calls of an if, or of a while, before and behind its condition or branch.
SameIf(A, B) ==
  /\ B.has_else = A.has_else
  /\ B.trueBB = A.trueBB /\ B.falseBB = A.falseBB /\ B.nextBB = A.nextBB

SameWhile(A, B) == B.whileBB = A.whileBB /\ B.trueBB = A.trueBB /\ B.nextBB = A.nextBB

LEMMA IfCondFits ==
  ASSUME NEW A \in FrameType, NEW B \in FrameType, NEW c \in Seq(FrameType), NEW f, NEW in,
         Fits(On(A, c), f, in), ~Terminated(f, in), Conds(c) = {},
         A.visit = "IfCond", B.visit = "IfThen", SameIf(A, B),
         NEW e, e = IF A.has_else THEN A.falseBB ELSE A.nextBB
  PROVE  LET g == CreateCondBr(f, in, A.trueBB, e) IN
         Fits(On(B, c), g, A.trueBB) /\ ~Terminated(g, A.trueBB) /\ g.n = f.n
<1>1. PICK t : t = A.trueBB
  OBVIOUS
<1>2. PICK g : g = CreateCondBr(f, in, t, e)
  OBVIOUS
<1>3. /\ f.blocks \subseteq BlockIds /\ {Entry, Ret} \subseteq BlockIds
      /\ Sound(f, in, AllPending(c) \cup Pending(A), Returns(On(A, c), in), Dominated(On(A, c), in))
      /\ BranchedFor(A, f, in) /\ Distinct(A)
      /\ Owned(A) \subseteq f.blocks /\ Owned(A) \cap AllOwned(c) = {}
  BY TopFacts
<1>4. /\ Pending(A) = {t, A.falseBB, A.nextBB} /\ Owned(A) = Pending(A)
      /\ Pending(B) = {A.falseBB, A.nextBB} /\ Owned(B) = Owned(A)
      /\ ~IsWhile(A) /\ ~IsWhile(B)
      /\ t # A.falseBB /\ t # A.nextBB /\ A.falseBB # A.nextBB
  BY <1>1, <1>3, OwnedIs DEF SameIf, IsWhile, Distinct, IsIf
<1>5. PICK Z : Z = Returns(On(A, c), in)
  OBVIOUS
<1>6. Returns(On(B, c), t) = Z
  <2>1. Returns(On(A, c), in)
          = Returns(c, in) \cup (IF IsWhile(A) THEN {<<A.whileBB, LeadTo(A, in)>>} ELSE {})
    BY ReturnsOn
  <2>2. Returns(On(B, c), t)
          = Returns(c, t) \cup (IF IsWhile(B) THEN {<<B.whileBB, LeadTo(B, t)>>} ELSE {})
    BY ReturnsOn
  <2>3. Returns(c, t) = Returns(c, in)
    BY ReturnsStay
  <2> QED BY <1>4, <1>5, <2>1, <2>2, <2>3
<1>7. Leads(f, in, Z, Z, {t, e})
  BY <1>3, <1>5 DEF Leads, Sound, Repeats
<1>8. /\ Sound(g, in, AllPending(c) \cup Pending(A), Z, Dominated(On(A, c), in))
      /\ Grown(f, g, in, {t, e}) /\ Holding(c, g) /\ Branched(c, g, in)
  <2>1. t \in Pending(A) /\ e \in Pending(A)
    BY <1>4
  <2> QED BY <1>2, <1>5, <1>7, <2>1, ChooseFits
<1>9. /\ g.blocks = f.blocks /\ g.n = f.n /\ Terminated(g, in) /\ g.pre[t] # <<>> /\ g.pre[e] # <<>>
      /\ \A a \in BlockIds \ {t, e} : g.pre[a] = f.pre[a]
  BY <1>8 DEF Grown
<1>10. BranchedFor(B, g, t)
  <2>1. CASE A.has_else
    BY <1>9, <2>1 DEF BranchedFor, SameIf
  <2>2. CASE ~A.has_else
    <3>1. f.pre[A.falseBB] = <<>>
      BY <1>3, <2>2 DEF BranchedFor
    <3>2. A.falseBB \in BlockIds \ {t, e}
      BY <1>3, <1>4, <2>2
    <3> QED BY <1>9, <2>2, <3>1, <3>2 DEF BranchedFor, SameIf
  <2> QED BY <2>1, <2>2
<1>11. Distinct(B)
  BY <1>3 DEF Distinct, SameIf, IsIf, IsWhile
<1>12. Pending(B) = Pending(A) \ {t} /\ t \in Pending(A) /\ Owned(B) \subseteq Owned(A)
  BY <1>4
<1>13. Fits(On(B, c), g, t) /\ ~Terminated(g, t)
  BY <1>3, <1>4, <1>6, <1>8, <1>9, <1>10, <1>11, <1>12, TurnFits
<1> QED BY <1>1, <1>2, <1>9, <1>13

LEMMA WhileCondFits ==
  ASSUME NEW A \in FrameType, NEW B \in FrameType, NEW c \in Seq(FrameType), NEW f, NEW in,
         Fits(On(A, c), f, in), ~Terminated(f, in), Conds(c) = {},
         A.visit = "WhileCond", B.visit = "WhileBody", SameWhile(A, B)
  PROVE  LET g == CreateCondBr(f, in, A.trueBB, A.nextBB) IN
         Fits(On(B, c), g, A.trueBB) /\ ~Terminated(g, A.trueBB) /\ g.n = f.n
<1>1. PICK t : t = A.trueBB
  OBVIOUS
<1>0. PICK e : e = A.nextBB
  OBVIOUS
<1>2. PICK g : g = CreateCondBr(f, in, t, e)
  OBVIOUS
<1>3. /\ f.blocks \subseteq BlockIds /\ {Entry, Ret} \subseteq BlockIds
      /\ Sound(f, in, AllPending(c) \cup Pending(A), Returns(On(A, c), in), Dominated(On(A, c), in))
      /\ Distinct(A) /\ Owned(A) \subseteq f.blocks /\ Owned(A) \cap AllOwned(c) = {}
  BY TopFacts
<1>4. /\ Pending(A) = {t, e} /\ Owned(A) = {A.whileBB, t, e}
      /\ Pending(B) = {e} /\ Owned(B) = {A.whileBB, e}
      /\ IsWhile(A) /\ IsWhile(B)
      /\ t # e /\ t # A.whileBB /\ e # A.whileBB
  BY <1>0, <1>1, <1>3, OwnedIs DEF SameWhile, IsWhile, Distinct
<1>5. PICK Z : Z = Returns(On(A, c), in)
  OBVIOUS
<1>6. PICK Y : Y = Returns(On(B, c), t)
  OBVIOUS
<1>61. Z = Returns(c, in) \cup {<<A.whileBB, in>>} /\ Y = Returns(c, in) \cup {<<A.whileBB, e>>}
  <2>1. Returns(On(A, c), in)
          = Returns(c, in) \cup (IF IsWhile(A) THEN {<<A.whileBB, LeadTo(A, in)>>} ELSE {})
    BY ReturnsOn
  <2>2. Returns(On(B, c), t)
          = Returns(c, t) \cup (IF IsWhile(B) THEN {<<B.whileBB, LeadTo(B, t)>>} ELSE {})
    BY ReturnsOn
  <2>3. Returns(c, t) = Returns(c, in)
    BY ReturnsStay
  <2>4. LeadTo(A, in) = in /\ LeadTo(B, t) = e /\ B.whileBB = A.whileBB
    BY <1>0 DEF LeadTo, SameWhile
  <2> QED BY <1>4, <1>5, <1>6, <2>1, <2>2, <2>3, <2>4
<1>7. Leads(f, in, Z, Y, {t, e})
  <2>1. Z \subseteq f.blocks \X f.blocks
    BY <1>3, <1>5 DEF Sound, Repeats
  <2>2. A.whileBB \in f.blocks /\ e \in f.blocks
    BY <1>3, <1>4
  <2>3. Y \subseteq f.blocks \X f.blocks
    BY <1>61, <2>1, <2>2
  <2>4. \A h, b : <<h, b>> \in Y => <<h, b>> \in Z \/ (<<h, in>> \in Z /\ b = e)
    BY <1>61
  <2> QED BY <2>3, <2>4 DEF Leads
<1>8. /\ Sound(g, in, AllPending(c) \cup Pending(A), Y, Dominated(On(A, c), in))
      /\ Grown(f, g, in, {t, e}) /\ Holding(c, g) /\ Branched(c, g, in)
  <2>1. t \in Pending(A) /\ e \in Pending(A)
    BY <1>4
  <2> QED BY <1>2, <1>5, <1>7, <2>1, ChooseFits
<1>9. g.blocks = f.blocks /\ g.n = f.n /\ Terminated(g, in) /\ g.pre[t] # <<>> /\ g.pre[e] # <<>>
  BY <1>8 DEF Grown
<1>10. BranchedFor(B, g, t)
  BY <1>0, <1>4, <1>9 DEF BranchedFor, SameWhile
<1>11. Distinct(B)
  BY <1>3 DEF Distinct, SameWhile, IsIf, IsWhile
<1>12. Pending(B) = Pending(A) \ {t} /\ t \in Pending(A) /\ Owned(B) \subseteq Owned(A)
  BY <1>4
<1>13. B.whileBB = A.whileBB /\ B.nextBB = A.nextBB /\ t # A.nextBB
  BY <1>0, <1>4 DEF SameWhile
<1>14. Fits(On(B, c), g, t) /\ ~Terminated(g, t)
  BY <1>3, <1>4, <1>6, <1>8, <1>9, <1>10, <1>11, <1>12, <1>13, TurnFits
<1> QED BY <1>0, <1>1, <1>2, <1>9, <1>14

\* From the true to the false branch of an if.
LEMMA IfElseFits ==
  ASSUME NEW A \in FrameType, NEW B \in FrameType, NEW c \in Seq(FrameType), NEW f, NEW in,
         Fits(On(A, c), f, in), Terminated(f, in), Conds(c) = {},
         A.visit = "IfThen", A.has_else, B.visit = "IfElse", SameIf(A, B)
  PROVE  Fits(On(B, c), f, A.falseBB) /\ ~Terminated(f, A.falseBB)
<1>1. PICK t : t = A.falseBB
  OBVIOUS
<1>3. /\ {Entry, Ret} \subseteq BlockIds
      /\ Sound(f, in, AllPending(c) \cup Pending(A), Returns(On(A, c), in), Dominated(On(A, c), in))
      /\ Holding(c, f) /\ Branched(c, f, in) /\ BranchedFor(A, f, in) /\ Distinct(A)
      /\ Owned(A) \subseteq f.blocks /\ Owned(A) \cap AllOwned(c) = {}
  BY TopFacts
<1>4. /\ Pending(A) = {t, A.nextBB} /\ Owned(A) = {A.trueBB, t, A.nextBB}
      /\ Pending(B) = {A.nextBB} /\ Owned(B) = {A.trueBB, A.nextBB}
      /\ ~IsWhile(A) /\ ~IsWhile(B) /\ t # A.nextBB
  BY <1>1, <1>3, OwnedIs DEF SameIf, IsWhile, Distinct, IsIf
<1>5. PICK Z : Z = Returns(On(A, c), in)
  OBVIOUS
<1>6. Returns(On(B, c), t) = Z
  <2>1. Returns(On(A, c), in)
          = Returns(c, in) \cup (IF IsWhile(A) THEN {<<A.whileBB, LeadTo(A, in)>>} ELSE {})
    BY ReturnsOn
  <2>2. Returns(On(B, c), t)
          = Returns(c, t) \cup (IF IsWhile(B) THEN {<<B.whileBB, LeadTo(B, t)>>} ELSE {})
    BY ReturnsOn
  <2>3. Returns(c, t) = Returns(c, in)
    BY ReturnsStay
  <2> QED BY <1>4, <1>5, <2>1, <2>2, <2>3
<1>7. f.pre[t] # <<>>
  BY <1>1, <1>3 DEF BranchedFor
<1>8. BranchedFor(B, f, t) /\ Distinct(B)
  BY <1>3 DEF BranchedFor, Distinct, SameIf, IsIf, IsWhile
<1>9. Pending(B) = Pending(A) \ {t} /\ t \in Pending(A) /\ Owned(B) \subseteq Owned(A)
  BY <1>4
<1>10. Fits(On(B, c), f, t) /\ ~Terminated(f, t)
  BY <1>3, <1>4, <1>5, <1>6, <1>7, <1>8, <1>9, TurnFits
<1> QED BY <1>1, <1>10

\* The end of an if, or of a loop, when something branches to the block behind.
LEMMA JoinFits ==
  ASSUME NEW A \in FrameType, NEW c \in Seq(FrameType), NEW f, NEW in,
         Fits(On(A, c), f, in), Terminated(f, in), Conds(c) = {},
         A.visit \in {"IfElse", "WhileBody"}, f.pre[A.nextBB] # <<>>
  PROVE  Fits(c, f, A.nextBB) /\ ~Terminated(f, A.nextBB)
<1>1. PICK t : t = A.nextBB
  OBVIOUS
<1>3. /\ {Entry, Ret} \subseteq BlockIds
      /\ Sound(f, in, AllPending(c) \cup Pending(A), Returns(On(A, c), in), Dominated(On(A, c), in))
      /\ Holding(c, f) /\ Branched(c, f, in) /\ Owned(A) \cap AllOwned(c) = {}
  BY TopFacts
<1>4. Pending(A) = {t}
  BY <1>1, <1>3, OwnedIs
<1>5. PICK Z : Z = Returns(On(A, c), in)
  OBVIOUS
<1>6. Returns(c, t) \subseteq Z
  <2>1. Returns(On(A, c), in)
          = Returns(c, in) \cup (IF IsWhile(A) THEN {<<A.whileBB, LeadTo(A, in)>>} ELSE {})
    BY ReturnsOn
  <2>3. Returns(c, t) = Returns(c, in)
    BY ReturnsStay
  <2> QED BY <1>5, <2>1, <2>3
<1>7. Fits(c, f, t) /\ ~Terminated(f, t)
  BY <1>1, <1>3, <1>4, <1>5, <1>6, PopFits
<1> QED BY <1>1, <1>7

\* An if without else drops its false block, and goes on like one at the end of
\* its else.
LEMMA NoElseFits ==
  ASSUME NEW A \in FrameType, NEW B \in FrameType, NEW c \in Seq(FrameType), NEW f, NEW in,
         Fits(On(A, c), f, in), Ret \notin Owned(A), Conds(c) = {},
         A.visit = "IfThen", ~A.has_else, B.visit = "IfElse", SameIf(A, B)
  PROVE  /\ Fits(On(B, c), EraseBlock(f, A.falseBB), in)
         /\ Shrunk(f, A.falseBB, EraseBlock(f, A.falseBB))
<1>1. PICK t : t = A.falseBB
  OBVIOUS
<1>2. PICK g : g = EraseBlock(f, t)
  OBVIOUS
<1>3. /\ f.blocks \subseteq BlockIds /\ {Entry, Ret} \subseteq BlockIds /\ in \in f.blocks
      /\ Sound(f, in, AllPending(c) \cup Pending(A), Returns(On(A, c), in), Dominated(On(A, c), in))
      /\ Holding(c, f) /\ Branched(c, f, in) /\ BranchedFor(A, f, in) /\ Distinct(A)
      /\ AllOwned(c) \subseteq f.blocks /\ Owned(A) \subseteq f.blocks /\ Owned(A) \cap AllOwned(c) = {}
      /\ in \notin Pending(A)
  BY TopFacts
<1>4. /\ Pending(A) = {t, A.nextBB} /\ Owned(A) = {A.trueBB, t, A.nextBB}
      /\ Pending(B) = {A.nextBB} /\ Owned(B) = {A.trueBB, A.nextBB}
      /\ ~IsWhile(A) /\ ~IsWhile(B) /\ t # A.nextBB /\ t # A.trueBB
  BY <1>1, <1>3, OwnedIs DEF SameIf, IsWhile, Distinct, IsIf
<1>5. /\ AllPending(c) \subseteq AllOwned(c) /\ Heads(c) \subseteq AllOwned(c)
      /\ Rest(c) \subseteq Heads(c) \X AllOwned(c)
      /\ Returns(c, in) \subseteq Heads(c) \X AllPending(c)
  BY <1>3, StackFacts
<1>6. PICK Z : Z = Returns(On(A, c), in)
  OBVIOUS
<1>7. PICK O : O = Dominated(On(A, c), in)
  OBVIOUS
<1>8. PICK Q : Q = Dominated(On(B, c), in)
  OBVIOUS
<1>9. Z = Returns(c, in) /\ Returns(On(B, c), in) = Z
  <2>1. Returns(On(A, c), in)
          = Returns(c, in) \cup (IF IsWhile(A) THEN {<<A.whileBB, LeadTo(A, in)>>} ELSE {})
    BY ReturnsOn
  <2>2. Returns(On(B, c), in)
          = Returns(c, in) \cup (IF IsWhile(B) THEN {<<B.whileBB, LeadTo(B, in)>>} ELSE {})
    BY ReturnsOn
  <2> QED BY <1>4, <1>6, <2>1, <2>2
<1>10. O = (Heads(c) \X {in}) \cup Rest(c) \cup (Heads(c) \X Owned(A))
  <2>1. Heads(On(A, c)) = Heads(c) \cup (IF IsWhile(A) THEN {A.whileBB} ELSE {})
    BY BlocksOn
  <2>2. Rest(On(A, c)) = Rest(c) \cup (Heads(c) \X Owned(A))
                            \cup (IF IsWhile(A) THEN {A.whileBB} \X (Pending(A) \ {A.nextBB}) ELSE {})
    BY RestOn
  <2>3. Heads(On(A, c)) = Heads(c) /\ Rest(On(A, c)) = Rest(c) \cup (Heads(c) \X Owned(A))
    BY <1>4, <2>1, <2>2
  <2>4. O = (Heads(On(A, c)) \X {in}) \cup Rest(On(A, c))
    BY <1>7, DominatedIs
  <2> QED BY <2>3, <2>4
<1>11. Q = (Heads(c) \X {in}) \cup Rest(c) \cup (Heads(c) \X Owned(B))
  <2>1. Heads(On(B, c)) = Heads(c) \cup (IF IsWhile(B) THEN {B.whileBB} ELSE {})
    BY BlocksOn
  <2>2. Rest(On(B, c)) = Rest(c) \cup (Heads(c) \X Owned(B))
                            \cup (IF IsWhile(B) THEN {B.whileBB} \X (Pending(B) \ {B.nextBB}) ELSE {})
    BY RestOn
  <2>3. Heads(On(B, c)) = Heads(c) /\ Rest(On(B, c)) = Rest(c) \cup (Heads(c) \X Owned(B))
    BY <1>4, <2>1, <2>2
  <2>4. Q = (Heads(On(B, c)) \X {in}) \cup Rest(On(B, c))
    BY <1>8, DominatedIs
  <2> QED BY <2>3, <2>4
<1>12. Remains(f, in, t, Z, O, Z, Q)
  <2>1. t \notin AllOwned(c) /\ in # t /\ t \notin Owned(B) /\ Owned(B) \subseteq Owned(A)
    BY <1>3, <1>4
  <2>2. Q \subseteq O
    BY <1>10, <1>11, <2>1
  <2>3. Z \subseteq (f.blocks \ {t}) \X (f.blocks \ {t})
    BY <1>3, <1>5, <1>9, <2>1
  <2>4. Q \subseteq (f.blocks \ {t}) \X (f.blocks \ {t})
    BY <1>3, <1>5, <1>11, <2>1
  <2>5. \A h, b : <<h, b>> \in Q => <<h, in>> \in Q
    BY <1>5, <1>11
  <2> QED BY <2>2, <2>3, <2>4, <2>5 DEF Remains
<1>13. PICK P : P = AllPending(c) \cup Pending(A)
  OBVIOUS
<1>14. Sound(g, in, P \ {t}, Z, Q) /\ Shrunk(f, t, g)
  <2>1. t # Ret /\ f.pre[t] = <<>> /\ t \in P
    BY <1>1, <1>3, <1>4, <1>13 DEF BranchedFor
  <2>2. Sound(f, in, P, Z, O)
    BY <1>3, <1>6, <1>7, <1>13
  <2> QED BY <1>2, <1>12, <2>1, <2>2, EraseSound
<1>15. g.blocks = f.blocks \ {t} /\ g.pre = f.pre
  BY <1>14 DEF Shrunk
<1>16. P \ {t} = AllPending(c) \cup Pending(B)
  BY <1>3, <1>4, <1>5, <1>13
<1>17. Holding(c, g)
  <2>1. AllOwned(c) \subseteq g.blocks
    BY <1>3, <1>4, <1>15
  <2> QED BY <1>3, <2>1, HoldingKept
<1>18. Branched(c, g, in)
  BY <1>3, <1>15, BranchedKept
<1>19. BranchedFor(B, g, in) /\ Distinct(B)
  BY <1>3 DEF BranchedFor, Distinct, SameIf, IsIf, IsWhile
<1>20. Owned(B) \subseteq g.blocks /\ Owned(B) \cap AllOwned(c) = {}
  BY <1>3, <1>4, <1>15
<1>21. Fits(On(B, c), g, in)
  <2>1. Sound(g, in, P \ {t}, Returns(On(B, c), in), Dominated(On(B, c), in))
    BY <1>8, <1>9, <1>14
  <2> QED BY <1>16, <1>17, <1>18, <1>19, <1>20, <2>1, FitsOn
<1> QED BY <1>1, <1>2, <1>14, <1>21

\* The end of an if both of whose branches have left it: back to the true block.
LEMMA DropFits ==
  ASSUME NEW A \in FrameType, NEW c \in Seq(FrameType), NEW f, NEW in,
         Fits(On(A, c), f, in), Ret \notin Owned(A), Terminated(f, in), Conds(c) = {},
         A.visit = "IfElse", f.pre[A.nextBB] = <<>>
  PROVE  LET g == EraseBlock(f, A.nextBB) IN
         /\ Fits(c, g, A.trueBB) /\ Terminated(g, A.trueBB) /\ Shrunk(f, A.nextBB, g)
<1>1. PICK t : t = A.nextBB
  OBVIOUS
<1>2. PICK g : g = EraseBlock(f, t)
  OBVIOUS
<1>20. PICK to : to = A.trueBB
  OBVIOUS
<1>3. /\ f.blocks \subseteq BlockIds /\ {Entry, Ret} \subseteq BlockIds /\ in \in f.blocks
      /\ Sound(f, in, AllPending(c) \cup Pending(A), Returns(On(A, c), in), Dominated(On(A, c), in))
      /\ Holding(c, f) /\ Branched(c, f, in) /\ Distinct(A)
      /\ AllOwned(c) \subseteq f.blocks /\ Owned(A) \subseteq f.blocks /\ Owned(A) \cap AllOwned(c) = {}
      /\ in \notin Pending(A)
  BY TopFacts
<1>4. /\ Pending(A) = {t} /\ Owned(A) = {to, t} /\ ~IsWhile(A) /\ t # to
  BY <1>1, <1>20, <1>3, OwnedIs DEF IsWhile, Distinct, IsIf
<1>5. /\ AllPending(c) \subseteq AllOwned(c) /\ Heads(c) \subseteq AllOwned(c)
      /\ Rest(c) \subseteq Heads(c) \X AllOwned(c)
      /\ Returns(c, in) \subseteq Heads(c) \X AllPending(c)
  BY <1>3, StackFacts
<1>6. PICK Z : Z = Returns(On(A, c), in)
  OBVIOUS
<1>7. PICK O : O = Dominated(On(A, c), in)
  OBVIOUS
<1>8. PICK Q : Q = (Heads(c) \X {in}) \cup Rest(c) \cup (Heads(c) \X {to})
  OBVIOUS
<1>9. Z = Returns(c, in)
  <2>1. Returns(On(A, c), in)
          = Returns(c, in) \cup (IF IsWhile(A) THEN {<<A.whileBB, LeadTo(A, in)>>} ELSE {})
    BY ReturnsOn
  <2> QED BY <1>4, <1>6, <2>1
<1>10. O = (Heads(c) \X {in}) \cup Rest(c) \cup (Heads(c) \X Owned(A))
  <2>1. Heads(On(A, c)) = Heads(c) \cup (IF IsWhile(A) THEN {A.whileBB} ELSE {})
    BY BlocksOn
  <2>2. Rest(On(A, c)) = Rest(c) \cup (Heads(c) \X Owned(A))
                            \cup (IF IsWhile(A) THEN {A.whileBB} \X (Pending(A) \ {A.nextBB}) ELSE {})
    BY RestOn
  <2>3. Heads(On(A, c)) = Heads(c) /\ Rest(On(A, c)) = Rest(c) \cup (Heads(c) \X Owned(A))
    BY <1>4, <2>1, <2>2
  <2>4. O = (Heads(On(A, c)) \X {in}) \cup Rest(On(A, c))
    BY <1>7, DominatedIs
  <2> QED BY <2>3, <2>4
<1>12. Remains(f, in, t, Z, O, Z, Q)
  <2>1. t \notin AllOwned(c) /\ in # t /\ to # t /\ to \in Owned(A) /\ to \in f.blocks
    BY <1>3, <1>4
  <2>2. Q \subseteq O
    BY <1>8, <1>10, <2>1
  <2>3. Z \subseteq (f.blocks \ {t}) \X (f.blocks \ {t})
    BY <1>3, <1>5, <1>9, <2>1
  <2>4. Q \subseteq (f.blocks \ {t}) \X (f.blocks \ {t})
    BY <1>3, <1>5, <1>8, <2>1
  <2>5. \A h, b : <<h, b>> \in Q => <<h, in>> \in Q
    BY <1>5, <1>8
  <2> QED BY <2>2, <2>3, <2>4, <2>5 DEF Remains
<1>13. PICK P : P = AllPending(c) \cup Pending(A)
  OBVIOUS
<1>14. Sound(g, in, P \ {t}, Z, Q) /\ Shrunk(f, t, g)
  <2>1. t # Ret /\ f.pre[t] = <<>> /\ t \in P
    BY <1>1, <1>4, <1>13
  <2>2. Sound(f, in, P, Z, O)
    BY <1>3, <1>6, <1>7, <1>13
  <2> QED BY <1>2, <1>12, <2>1, <2>2, EraseSound
<1>15. g.blocks = f.blocks \ {t} /\ g.pre = f.pre /\ g.code = f.code
  BY <1>14 DEF Shrunk
<1>16. P \ {t} = AllPending(c)
  BY <1>3, <1>4, <1>5, <1>13
<1>17. PICK R : R = Dominated(c, to)
  OBVIOUS
<1>18. R = (Heads(c) \X {to}) \cup Rest(c)
  BY <1>17, DominatedIs
<1>19. Follows(g, Z, Q, to, Z, R)
  <2>1. Z \subseteq g.blocks \X g.blocks /\ Q \subseteq g.blocks \X g.blocks
    BY <1>14 DEF Sound, Repeats, Entered
  <2>2. R \subseteq Q
    BY <1>8, <1>18
  <2>3. \A h, b : <<h, b>> \in R => <<h, to>> \in R
    BY <1>5, <1>18
  <2> QED BY <2>1, <2>2, <2>3 DEF Follows
<1>21. Sound(g, to, P \ {t}, Z, R) /\ Terminated(g, to)
  <2>1. Terminated(g, in)
    BY <1>15 DEF Terminated
  <2>2. to \in g.blocks \ (P \ {t})
    BY <1>3, <1>4, <1>5, <1>15, <1>16
  <2> QED BY <1>14, <1>19, <2>1, <2>2, ReturnSound
<1>22. Returns(c, to) = Z
  BY <1>9, ReturnsStay
<1>23. Holding(c, g)
  <2>1. AllOwned(c) \subseteq g.blocks
    BY <1>3, <1>4, <1>15
  <2> QED BY <1>3, <2>1, HoldingKept
<1>24. Branched(c, g, to)
  <2>1. to \notin Heads(c)
    BY <1>3, <1>4, <1>5
  <2> QED BY <1>3, <1>15, <2>1, BranchedKept
<1>25. Fits(c, g, to)
  BY <1>16, <1>17, <1>21, <1>22, <1>23, <1>24 DEF Fits
<1> QED BY <1>1, <1>2, <1>20, <1>14, <1>21, <1>25

\* A loop begins: three new blocks, and on in the one of its condition.
LEMMA WhileFits ==
  ASSUME NEW A \in FrameType, NEW c \in Seq(FrameType), NEW f, NEW in, Fits(c, f, in),
         ~Terminated(f, in), Conds(c) = {},
         MaxBlocks \in Nat, f.n + 3 <= MaxBlocks, A.visit = "WhileCond",
         A.whileBB = f.n + 1, A.trueBB = f.n + 2, A.nextBB = f.n + 3
  PROVE  LET g == CreateBr(NewBlocks(f, 3), in, A.whileBB) IN
         Fits(On(A, c), g, A.whileBB) /\ ~Terminated(g, A.whileBB) /\ g.n = f.n + 3
<1>1. PICK g : g = NewBlocks(f, 3)
  OBVIOUS
<1>2. PICK w : w = A.whileBB
  OBVIOUS
<1>3. PICK h : h = CreateBr(g, in, w)
  OBVIOUS
<1>4. PICK B : B = (f.n + 1)..(f.n + 3)
  OBVIOUS
<1>5. PICK Z : Z = Returns(c, in)
  OBVIOUS
<1>6. PICK O : O = Dominated(c, in)
  OBVIOUS
<1>7. PICK P : P = AllPending(c) \cup B
  OBVIOUS
<1>8. Sound(g, in, P, Z, O) /\ Enlarged(f, 3, in, g)
  <2>1. Sound(f, in, AllPending(c), Z, O)
    BY <1>5, <1>6 DEF Fits
  <2> QED BY <1>1, <1>4, <1>7, <2>1, NewSound
<1>9. /\ f.blocks \subseteq BlockIds /\ {Entry, Ret} \subseteq BlockIds /\ {Entry, Ret, in} \subseteq f.blocks
      /\ AllPending(c) \subseteq AllOwned(c) /\ AllOwned(c) \subseteq f.blocks
      /\ Heads(c) \subseteq AllOwned(c) /\ Dead(c) \subseteq AllPending(c)
      /\ Rest(c) \subseteq Heads(c) \X AllOwned(c)
  BY FitsFacts, StackFacts
<1>10. /\ Owned(A) = {w, A.trueBB, A.nextBB} /\ Pending(A) = {A.trueBB, A.nextBB} /\ IsWhile(A)
       /\ w # A.trueBB /\ w # A.nextBB /\ A.trueBB # A.nextBB /\ B = Owned(A)
  <2>1. f.n \in Nat
    BY <1>8, FitsFacts DEF FnType
  <2>2. w # A.trueBB /\ w # A.nextBB /\ A.trueBB # A.nextBB /\ B = {w, A.trueBB, A.nextBB}
    BY <1>2, <1>4, <2>1
  <2> QED BY <1>2, <1>9, <2>2, OwnedIs DEF IsWhile
<1>11. /\ g.n = f.n + 3 /\ g.blocks = f.blocks \cup B /\ B \cap f.blocks = {} /\ g.pre = f.pre
       /\ ~Terminated(g, in) /\ \A b \in B : b \in BlockIds /\ b # Entry /\ g.pre[b] = <<>>
  <2>1. /\ g.n = f.n + 3 /\ g.blocks = f.blocks \cup (f.n + 1)..(f.n + 3)
        /\ (f.n + 1)..(f.n + 3) \cap f.blocks = {} /\ g.pre = f.pre /\ Terminated(g, in) = Terminated(f, in)
        /\ \A b \in (f.n + 1)..(f.n + 3) : b \in BlockIds /\ b # Entry /\ g.pre[b] = <<>>
    BY <1>8 DEF Enlarged
  <2> QED BY <1>4, <2>1
<1>12. PICK O1 : O1 = (Heads(c) \X {in}) \cup Rest(c) \cup (Heads(c) \X B)
  OBVIOUS
<1>13. Sound(g, in, P, Z, O1)
  <2>1. O = (Heads(c) \X {in}) \cup Rest(c)
    BY <1>6, DominatedIs
  <2>2. Z \subseteq g.blocks \X g.blocks
    BY <1>8 DEF Sound, Repeats
  <2>3. O1 \subseteq g.blocks \X g.blocks
    BY <1>9, <1>11, <1>12
  <2>4. ASSUME NEW x, NEW b, <<x, b>> \in O1 PROVE <<x, in>> \in O1 /\ (<<x, b>> \in O \/ b \in B)
    BY <1>9, <1>12, <2>1, <2>4
  <2>5. Follows(g, Z, O, in, Z, O1)
    BY <1>11, <2>2, <2>3, <2>4 DEF Follows
  <2> QED BY <1>8, <2>5, AdjustSound
<1>14. Sound(h, in, P, Z, O1) /\ Jumped(g, in, w, h)
  <2>1. w \in P /\ w \in g.blocks /\ w # Entry /\ w # in
    BY <1>7, <1>9, <1>10, <1>11
  <2>2. MayJump(g, in, P, Z, O1, w)
    BY <2>1 DEF MayJump
  <2> QED BY <1>3, <1>11, <1>13, <2>2, BrSound
<1>15. /\ h.blocks = g.blocks /\ h.n = g.n /\ Terminated(h, in)
       /\ h.pre[w] # <<>> /\ \A b \in BlockIds \ {w} : h.pre[b] = g.pre[b]
  BY <1>14 DEF Jumped, Grown
<1>16. PICK Y : Y = Returns(On(A, c), w)
  OBVIOUS
<1>17. PICK Q : Q = Dominated(On(A, c), w)
  OBVIOUS
<1>18. Y = Z \cup {<<w, w>>}
  <2>1. Y = Returns(c, w) \cup (IF IsWhile(A) THEN {<<A.whileBB, LeadTo(A, w)>>} ELSE {})
    BY <1>16, ReturnsOn
  <2>2. LeadTo(A, w) = w
    BY DEF LeadTo
  <2>3. Returns(c, w) = Z
    BY <1>5, ReturnsStay
  <2> QED BY <1>2, <1>10, <2>1, <2>2, <2>3
<1>19. Q = ((Heads(c) \cup {w}) \X {w}) \cup Rest(c) \cup (Heads(c) \X B) \cup ({w} \X {A.trueBB})
  <2>1. Heads(On(A, c)) = Heads(c) \cup (IF IsWhile(A) THEN {A.whileBB} ELSE {})
    BY BlocksOn
  <2>2. Rest(On(A, c)) = Rest(c) \cup (Heads(c) \X Owned(A))
                            \cup (IF IsWhile(A) THEN {A.whileBB} \X (Pending(A) \ {A.nextBB}) ELSE {})
    BY RestOn
  <2>3. Pending(A) \ {A.nextBB} = {A.trueBB}
    BY <1>10
  <2>4. Heads(On(A, c)) = Heads(c) \cup {w}
    BY <1>2, <1>10, <2>1
  <2>5. Rest(On(A, c)) = Rest(c) \cup (Heads(c) \X B) \cup ({w} \X {A.trueBB})
    BY <1>2, <1>10, <2>2, <2>3
  <2>6. Q = (Heads(On(A, c)) \X {w}) \cup Rest(On(A, c))
    BY <1>17, DominatedIs
  <2> QED BY <2>4, <2>5, <2>6
<1>20. Follows(h, Z, O1, w, Y, Q)
  <2>1. Z \subseteq h.blocks \X h.blocks
    BY <1>14 DEF Sound, Repeats
  <2>2. w \in B /\ A.trueBB \in B /\ w \in h.blocks /\ A.trueBB \in h.blocks
    BY <1>10, <1>11, <1>15
  <2>3. Y \subseteq h.blocks \X h.blocks
    BY <1>18, <2>1, <2>2
  <2>4. Q \subseteq h.blocks \X h.blocks
    BY <1>9, <1>11, <1>15, <1>19, <2>2
  <2>5. A.trueBB # Entry /\ h.pre[A.trueBB] = <<>>
    BY <1>10, <1>11, <1>15, <2>2
  <2>6. ASSUME NEW x, NEW b, <<x, b>> \in Q
        PROVE  <<x, w>> \in Q /\ (<<x, b>> \in O1 \/ x = b \/ b = A.trueBB)
    <3>1. x \in Heads(c) \cup {w}
      BY <1>9, <1>19, <2>6
    <3>2. <<x, w>> \in Q
      BY <1>19, <3>1
    <3> QED BY <1>12, <1>19, <2>2, <2>6, <3>2
  <2>7. \A x, b : <<x, b>> \in Y => <<x, b>> \in Z \/ x = b
    BY <1>18
  <2> QED BY <2>3, <2>4, <2>5, <2>6, <2>7 DEF Follows
<1>21. ~Terminated(h, w) /\ Sound(h, w, P \ {w}, Y, Q)
  <2>1. w \in P
    BY <1>7, <1>10
  <2>2. ~Terminated(h, w)
    BY <1>14, <2>1, PendingFacts
  <2> QED BY <1>14, <1>15, <1>20, <2>1, <2>2, MoveSound
<1>22. P \ {w} = AllPending(c) \cup Pending(A)
  BY <1>7, <1>9, <1>10, <1>11
<1>23. Holding(c, h)
  <2>1. AllOwned(c) \subseteq h.blocks
    BY <1>9, <1>11, <1>15
  <2> QED BY <2>1, HoldingKept DEF Fits
<1>24. Branched(c, h, w)
  <2>1. w \notin f.blocks
    BY <1>10, <1>11
  <2>2. w \notin Heads(c) /\ \A b \in AllPending(c) : b \in BlockIds \ {w}
    BY <1>9, <2>1
  <2>3. \A b \in AllPending(c) : h.pre[b] = f.pre[b]
    BY <1>11, <1>15, <2>2
  <2> QED BY <1>9, <2>2, <2>3, BranchedKept DEF Fits
<1>25. BranchedFor(A, h, w) /\ Distinct(A)
  BY <1>2, <1>10 DEF BranchedFor, Distinct, IsIf
<1>26. Owned(A) \subseteq h.blocks /\ Owned(A) \cap AllOwned(c) = {}
  BY <1>9, <1>10, <1>11, <1>15
<1>27. Fits(On(A, c), h, w)
  <2>1. Sound(h, w, P \ {w}, Returns(On(A, c), w), Dominated(On(A, c), w))
    BY <1>16, <1>17, <1>21
  <2> QED BY <1>22, <1>23, <1>24, <1>25, <1>26, <2>1, FitsOn
<1> QED BY <1>1, <1>2, <1>3, <1>11, <1>15, <1>21, <1>27

-----------------------------------------------------------------------------
(* The agreement of the shared variables with the stack and the graph.     *)

LEMMA ListOn ==
  ASSUME NEW A \in FrameType, NEW c \in Seq(FrameType), NEW f, NEW in, NEW list
  PROVE  /\ Conds(c) = {} => ~Emptied(c)
         /\ ListMatches(On(A, c), f, in, list) <=>
              /\ IF Emptied(c) \/ A.visit = "WhileCond"
                 THEN list = <<>> ELSE \E b \in 1..f.n : list = <<b>>
              /\ ~InCond(A) /\ ~HasCond(A) /\ ~Terminated(f, in) => list = <<in>>
<1>1. /\ On(A, c) # <<>> /\ Head(On(A, c)) = A
      /\ Extends(On(A, c), A, c)
  BY OnFacts
<1>2. Emptied(On(A, c)) <=> Emptied(c) \/ A.visit = "WhileCond"
  BY <1>1 DEF Emptied, Extends
<1>3. Conds(c) = {} => ~Emptied(c)
  BY DEF Emptied, Conds, HasCond
<1>4. ListMatches(On(A, c), f, in, list) <=>
        /\ IF Emptied(On(A, c)) THEN list = <<>> ELSE \E b \in 1..f.n : list = <<b>>
        /\ ~InCond(A) /\ ~HasCond(A) /\ ~Terminated(f, in) => list = <<in>>
  BY <1>1 DEF ListMatches
<1> QED BY <1>2, <1>3, <1>4

\* What is known when a call is on top.
LEMMA Unfold ==
  ASSUME NEW A \in FrameType, NEW c \in Seq(FrameType), NEW f, NEW in, NEW list, NEW ws, NEW os, NEW sc,
         Agrees(On(A, c), f, in, list, ws, os, sc)
  PROVE  /\ Fits(On(A, c), f, in) /\ Shape(On(A, c)) /\ Shape(c)
         /\ A.visit = "FuncDefExit" <=> c = <<>>
         /\ A.visit # "FuncDef"
         /\ c # <<>> /\ ~InCond(A) => Resumes(Head(c))
         /\ InCond(A) <=> Conds(c) # {}
         /\ Terminated(f, in) => Resumes(A) /\ (Loops(On(A, c)) = {} => f.pre[Ret] # <<>>)
         /\ ScopeMatches(On(A, c), sc) /\ LoopsMatch(On(A, c), ws) /\ OrsMatch(On(A, c), os)
         /\ ws \in Seq(Branch) /\ os \in Seq(Branch) /\ sc \in Nat
         /\ ListMatches(On(A, c), f, in, list)
<1>1. /\ Fits(On(A, c), f, in) /\ Shape(On(A, c)) /\ Open(On(A, c), f, in)
      /\ ScopeMatches(On(A, c), sc) /\ LoopsMatch(On(A, c), ws) /\ OrsMatch(On(A, c), os)
      /\ ws \in Seq(Branch) /\ os \in Seq(Branch) /\ sc \in Nat /\ ListMatches(On(A, c), f, in, list)
  BY DEF Agrees, Builds, Matches
<1>2. On(A, c) # <<>> /\ Head(On(A, c)) = A
  BY OnFacts
<1>3. Terminated(f, in) => Resumes(A) /\ (Loops(On(A, c)) = {} => f.pre[Ret] # <<>>)
  BY <1>1, <1>2 DEF Open
<1>4. /\ Shape(c)
      /\ A.visit = "FuncDefExit" <=> c = <<>>
      /\ A.visit # "FuncDef"
      /\ c # <<>> /\ ~InCond(A) => Resumes(Head(c))
      /\ InCond(A) <=> Conds(c) # {}
  BY <1>1, ShapeOn
<1> QED BY <1>1, <1>3, <1>4

\* The list for a statement to come in block in.
Lists(list, f, in) == \E b \in 1..f.n : list = <<b>> /\ (~Terminated(f, in) => b = in)

\* A terminated insert block outside of loops comes from a return.
Returned(c, f, in) == Terminated(f, in) /\ Loops(c) = {} => f.pre[Ret] # <<>>

\* A statement, or the call on top of one, is done.
LEMMA Leave ==
  ASSUME NEW A \in FrameType, NEW c \in Seq(FrameType), NEW f, NEW in, NEW list,
         NEW ws \in Seq(Branch), NEW os \in Seq(Branch), NEW sc \in Nat,
         Shape(On(A, c)), ~InCond(A), A.visit # "FuncDefExit",
         Fits(c, f, in), Returned(c, f, in), Lists(list, f, in), Matches(c, sc, ws, os)
  PROVE  Agrees(c, f, in, list, ws, os, sc) /\ c # <<>>
<1>1. Shape(c) /\ c # <<>> /\ Resumes(Head(c)) /\ Conds(c) = {}
  BY ShapeOn
<1>2. ListMatches(c, f, in, list)
  <2>1. ~Emptied(c)
    BY <1>1 DEF Emptied, Conds, HasCond
  <2> QED BY <1>1, <2>1 DEF ListMatches, Lists
<1>3. Open(c, f, in)
  BY <1>1 DEF Open, Returned
<1> QED BY <1>1, <1>2, <1>3 DEF Agrees, Builds

\* Call B goes on behind the statement or block that X begins.
LEMMA Begin ==
  ASSUME NEW A \in FrameType, NEW B \in FrameType, NEW X \in FrameType, NEW c \in Seq(FrameType),
         NEW f, NEW in, NEW list, NEW ws \in Seq(Branch), NEW os \in Seq(Branch), NEW sc \in Nat,
         Shape(On(A, c)), ~InCond(A), A.visit # "FuncDefExit",
         Resumes(B), ~InCond(B), ~HasCond(B), B.visit # "FuncDefExit",
         X.visit \in {"Block", "Stmt"},
         Fits(On(B, c), f, in), ~Terminated(f, in), list = <<in>>, Matches(On(B, c), sc, ws, os)
  PROVE  Agrees(On(X, On(B, c)), f, in, list, ws, os, sc)
<1>1. Shape(c) /\ c # <<>> /\ Resumes(Head(c)) /\ Conds(c) = {} /\ A.visit # "FuncDef"
  BY ShapeOn
<1>2. PICK d : d = On(B, c)
  OBVIOUS
<1>3. d \in Seq(FrameType) /\ d # <<>> /\ Head(d) = B
  BY <1>2, OnFacts
<1>4. Shape(d)
  <2>1. B.visit # "FuncDef"
    BY DEF Resumes
  <2> QED BY <1>1, <1>2, <2>1, ShapeOn
<1>5. Conds(d) = {}
  <2>1. Conds(d) = Conds(c) \cup (IF HasCond(B) THEN {Len(c) + 1} ELSE {})
    BY <1>2, DepthsOn
  <2> QED BY <1>1, <2>1
<1>6. ~InCond(X) /\ ~HasCond(X) /\ ~IsWhile(X) /\ ~Pushed(X) /\ ~Scoped(X) /\ Plain(X)
  BY DEF InCond, HasCond, IsWhile, Pushed, Scoped, Plain
<1>7. Shape(On(X, d))
  BY <1>3, <1>4, <1>5, <1>6, ShapeOn
<1>8. Fits(On(X, d), f, in)
  <2>1. {Entry, Ret} \subseteq BlockIds
    BY <1>2, <1>3, FitsFacts
  <2> QED BY <1>2, <1>3, <1>6, <2>1, PlainFits
<1>9. Matches(On(X, d), sc, ws, os)
  <2>1. ScopeMatches(d, sc) /\ LoopsMatch(d, ws) /\ OrsMatch(d, os)
    BY <1>2 DEF Matches
  <2>2. ScopeMatches(On(X, d), sc)
    BY <1>3, <1>6, <2>1, ScopeOn
  <2>3. LoopsMatch(On(X, d), ws)
    BY <1>3, <1>6, <2>1, LoopsPlain
  <2>4. OrsMatch(On(X, d), os)
    BY <1>3, <1>6, <2>1, OrsPlain
  <2> QED BY <2>2, <2>3, <2>4 DEF Matches
<1>10. ListMatches(On(X, d), f, in, list)
  <2>1. in \in 1..f.n
    BY <1>2, <1>3, FitsFacts DEF Graph, Created
  <2>2. ~Emptied(d) /\ X.visit # "WhileCond"
    BY <1>3, <1>5, ListOn
  <2> QED BY <1>3, <2>1, <2>2, ListOn
<1>11. On(X, d) \in Seq(FrameType) /\ Open(On(X, d), f, in)
  BY <1>3, OnFacts DEF Open
<1> QED BY <1>2, <1>7, <1>8, <1>9, <1>10, <1>11 DEF Agrees, Builds

\* In a condition there is a block to go on in, and no statement to come.
LEMMA InCondition ==
  ASSUME NEW c \in Seq(FrameType), NEW f, NEW in, NEW list,
         NEW ws \in Seq(Branch), NEW os \in Seq(Branch), NEW sc \in Nat,
         Shape(c), Conds(c) # {}, Fits(c, f, in), ~Terminated(f, in), Matches(c, sc, ws, os),
         IF Emptied(c) THEN list = <<>> ELSE \E b \in 1..f.n : list = <<b>>
  PROVE  Agrees(c, f, in, list, ws, os, sc) /\ c # <<>>
<1>1. PICK q \in Conds(c) : TRUE
  OBVIOUS
<1>2. Len(c) \in Nat /\ q \in 1..Len(c) /\ Depths(c) = 1..Len(c)
  BY DEF Conds, Depths
<1>3. c # <<>>
  <2>1. Len(c) # 0 /\ Len(<<>>) = 0
    BY <1>2
  <2> QED BY <2>1
<1>4. InCond(Head(c)) \/ HasCond(Head(c))
  <2>1. Frame(c, Len(c)) = Head(c)
    <3>1. Len(c) + 1 - Len(c) = 1
      BY <1>2
    <3>2. Head(c) = c[1]
      BY <1>3
    <3> QED BY <3>1, <3>2 DEF Frame
  <2>2. CASE q = Len(c)
    BY <1>1, <2>1, <2>2 DEF Conds
  <2>3. CASE q # Len(c)
    <3>1. q < Len(c) /\ Len(c) \in Depths(c)
      BY <1>2, <2>3
    <3> QED BY <1>1, <2>1, <3>1 DEF Shape
  <2> QED BY <2>2, <2>3
<1>5. ListMatches(c, f, in, list)
  BY <1>3, <1>4 DEF ListMatches
<1>6. Open(c, f, in)
  BY DEF Open
<1> QED BY <1>3, <1>5, <1>6 DEF Agrees, Builds

-----------------------------------------------------------------------------
(* Blocks and the statements that stay in one block.                       *)

LEMMA SameMatches ==
  ASSUME NEW A \in FrameType, NEW c \in Seq(FrameType), NEW sc \in Nat, NEW ws, NEW os,
         ~IsWhile(A), ~Pushed(A), ~Scoped(A)
  PROVE  Matches(On(A, c), sc, ws, os) <=> Matches(c, sc, ws, os)
<1>1. ScopeMatches(On(A, c), sc) <=> ScopeMatches(c, sc)
  BY ScopeOn
<1>2. LoopsMatch(On(A, c), ws) <=> LoopsMatch(c, ws)
  BY LoopsPlain
<1>3. OrsMatch(On(A, c), os) <=> OrsMatch(c, os)
  BY OrsPlain
<1> QED BY <1>1, <1>2, <1>3 DEF Matches

\* Code put into an open block.
LEMMA OpFits ==
  ASSUME NEW c \in Seq(FrameType), NEW f, NEW in, Fits(c, f, in), ~Terminated(f, in)
  PROVE  LET g == PutOp(f, in) IN
         Fits(c, g, in) /\ ~Terminated(g, in) /\ g.n = f.n /\ g.pre = f.pre
<1>1. PICK P, Z, O : P = AllPending(c) /\ Z = Returns(c, in) /\ O = Dominated(c, in)
  OBVIOUS
<1>2. PICK g : g = PutOp(f, in)
  OBVIOUS
<1>3. Sound(f, in, P, Z, O)
  BY <1>1 DEF Fits
<1>4. Sound(g, in, P, Z, O) /\ ~Terminated(g, in) /\ g.pre = f.pre /\ g.n = f.n /\ g.blocks = f.blocks
  BY <1>2, <1>3, OpSound
<1>5. Fits(c, g, in)
  BY <1>1, <1>4, CodeFits
<1> QED BY <1>2, <1>4, <1>5

LEMMA LocalFits ==
  ASSUME NEW c \in Seq(FrameType), NEW f, NEW in, Fits(c, f, in), ~Terminated(f, in)
  PROVE  LET g == CreateLocal(f, in, in) IN
         Fits(c, g, in) /\ ~Terminated(g, in) /\ g.n = f.n /\ g.pre = f.pre
<1>1. PICK P, Z, O : P = AllPending(c) /\ Z = Returns(c, in) /\ O = Dominated(c, in)
  OBVIOUS
<1>2. PICK g : g = CreateLocal(f, in, in)
  OBVIOUS
<1>3. Sound(f, in, P, Z, O)
  BY <1>1 DEF Fits
<1>4. Sound(g, in, P, Z, O) /\ ~Terminated(g, in) /\ g.pre = f.pre /\ g.n = f.n /\ g.blocks = f.blocks
  BY <1>2, <1>3, LocalSound
<1>5. Fits(c, g, in)
  BY <1>1, <1>4, CodeFits
<1> QED BY <1>2, <1>4, <1>5

LEMMA TestFits ==
  ASSUME NEW c \in Seq(FrameType), NEW f, NEW in, Fits(c, f, in), ~Terminated(f, in), NEW n \in Nat
  PROVE  LET g == Put(f, in, <<"test", n>>) IN
         Fits(c, g, in) /\ ~Terminated(g, in) /\ g.n = f.n
<1>1. PICK P, Z, O : P = AllPending(c) /\ Z = Returns(c, in) /\ O = Dominated(c, in)
  OBVIOUS
<1>2. PICK g : g = Put(f, in, <<"test", n>>)
  OBVIOUS
<1>3. Sound(f, in, P, Z, O)
  BY <1>1 DEF Fits
<1>4. Sound(g, in, P, Z, O) /\ ~Terminated(g, in) /\ g.pre = f.pre /\ g.n = f.n /\ g.blocks = f.blocks
  BY <1>2, <1>3, TestSound
<1>5. Fits(c, g, in)
  BY <1>1, <1>4, CodeFits
<1> QED BY <1>2, <1>4, <1>5

\* A statement is visited in an open block, the last current one.
LEMMA StatementFacts ==
  ASSUME NEW A \in FrameType, NEW c \in Seq(FrameType), NEW f, NEW in, NEW list, NEW ws, NEW os, NEW sc,
         Agrees(On(A, c), f, in, list, ws, os, sc), A.visit \in {"Block", "Stmt"}
  PROVE  /\ Fits(c, f, in) /\ ~Terminated(f, in) /\ list = <<in>> /\ in \in 1..f.n
         /\ Shape(On(A, c)) /\ Shape(c) /\ c # <<>> /\ Conds(c) = {}
         /\ ws \in Seq(Branch) /\ os \in Seq(Branch) /\ sc \in Nat /\ Matches(c, sc, ws, os)
<1>1. /\ Fits(On(A, c), f, in) /\ Shape(On(A, c)) /\ Shape(c)
      /\ A.visit = "FuncDefExit" <=> c = <<>>
      /\ InCond(A) <=> Conds(c) # {}
      /\ Terminated(f, in) => Resumes(A)
      /\ ScopeMatches(On(A, c), sc) /\ LoopsMatch(On(A, c), ws) /\ OrsMatch(On(A, c), os)
      /\ ws \in Seq(Branch) /\ os \in Seq(Branch) /\ sc \in Nat
      /\ ListMatches(On(A, c), f, in, list)
  BY Unfold
<1>2. /\ ~InCond(A) /\ ~HasCond(A) /\ ~IsWhile(A) /\ ~Pushed(A) /\ ~Scoped(A) /\ ~Resumes(A) /\ Plain(A)
      /\ A.visit # "FuncDefExit"
  BY DEF InCond, HasCond, IsWhile, Pushed, Scoped, Resumes, Plain
<1>3. ~Terminated(f, in) /\ c # <<>> /\ Conds(c) = {}
  BY <1>1, <1>2
<1>4. list = <<in>>
  BY <1>1, <1>2, <1>3, ListOn
<1>5. On(A, c) \in Seq(FrameType)
  BY OnFacts
<1>6. in \in 1..f.n /\ {Entry, Ret} \subseteq BlockIds
  BY <1>1, <1>5, FitsFacts DEF Graph, Created
<1>7. Fits(c, f, in)
  BY <1>1, <1>2, <1>6, PlainFits
<1>8. Matches(c, sc, ws, os)
  <2>1. Matches(On(A, c), sc, ws, os)
    BY <1>1 DEF Matches
  <2> QED BY <1>1, <1>2, <2>1, SameMatches
<1> QED BY <1>1, <1>3, <1>4, <1>6, <1>7, <1>8

\* The end of one that leaves graph g.
LEMMA StatementEnds ==
  ASSUME NEW A \in FrameType, NEW c \in Seq(FrameType), NEW f, NEW in, NEW list, NEW ws, NEW os, NEW sc,
         Agrees(On(A, c), f, in, list, ws, os, sc), A.visit = "Stmt",
         NEW g, Fits(c, g, in), Returned(c, g, in), g.n = f.n
  PROVE  Agrees(c, g, in, list, ws, os, sc) /\ c # <<>>
<1>1. /\ list = <<in>> /\ in \in 1..f.n /\ Shape(On(A, c))
      /\ ws \in Seq(Branch) /\ os \in Seq(Branch) /\ sc \in Nat /\ Matches(c, sc, ws, os)
  BY StatementFacts
<1>2. Lists(list, g, in)
  BY <1>1 DEF Lists
<1>3. ~InCond(A) /\ A.visit # "FuncDefExit"
  BY DEF InCond
<1> QED BY <1>1, <1>2, <1>3, Leave

\* Where return, break and continue may lead.
JumpsOut(c, t) ==
  \/ t = Ret
  \/ \E p \in Depths(c) : Frame(c, p).visit = "WhileBody" /\ t \in {Frame(c, p).whileBB, Frame(c, p).nextBB}

\* A jump out of the statements: the block is terminated.
LEMMA JumpEnds ==
  ASSUME NEW A \in FrameType, NEW c \in Seq(FrameType), NEW f, NEW in, NEW list, NEW ws, NEW os, NEW sc,
         Agrees(On(A, c), f, in, list, ws, os, sc), A.visit = "Stmt",
         NEW g, g \in {f, PutOp(f, in)}, NEW t,
         JumpsOut(c, t)
  PROVE  LET h == CreateBr(g, in, t) IN
         Agrees(c, h, in, list, ws, os, sc) /\ c # <<>> /\ h.n = f.n /\ h.succ[in] = <<t>>
<1>1. PICK h : h = CreateBr(g, in, t)
  OBVIOUS
<1>2. Fits(c, f, in) /\ ~Terminated(f, in) /\ Shape(c) /\ c # <<>>
  BY StatementFacts
<1>3. Fits(c, g, in) /\ ~Terminated(g, in) /\ g.n = f.n
  BY <1>2, OpFits
<1>4. /\ Ret \in AllPending(c) /\ Ret \notin Dead(c)
      /\ {Entry, Ret} \subseteq BlockIds /\ \A p \in Depths(c) : Frame(c, p) \in FrameType
  BY <1>2, BottomFacts, FitsFacts, StackFacts
<1>5. t \in AllPending(c) \ Dead(c) \/ \E p \in Depths(c) : Frame(c, p).visit = "WhileBody" /\ t = Frame(c, p).whileBB
  <2>1. SUFFICES ASSUME NEW p \in Depths(c), Frame(c, p).visit = "WhileBody", t = Frame(c, p).nextBB
                 PROVE  t \in AllPending(c) \ Dead(c)
    BY <1>4 DEF JumpsOut
  <2>2. t \in Pending(Frame(c, p)) /\ t \in Owned(Frame(c, p))
    BY <1>4, <2>1, OwnedIs
  <2>3. ASSUME NEW q \in Depths(c), Frame(c, q).visit \in {"IfCond", "IfThen"}, t = Frame(c, q).falseBB PROVE FALSE
    <3>1. t \in Owned(Frame(c, q))
      BY <1>4, <2>3, OwnedIs
    <3>2. p # q
      BY <2>1, <2>3
    <3> QED BY <1>2, <2>2, <3>1, <3>2 DEF Fits, Holding
  <2> QED BY <2>2, <2>3 DEF AllPending, Dead
<1>6. Fits(c, h, in) /\ Jumped(g, in, t, h)
  BY <1>1, <1>2, <1>3, <1>5, BrFits
<1>7. h.n = f.n /\ h.succ[in] = <<t>> /\ h.pre[t] # <<>>
  BY <1>3, <1>6 DEF Jumped, Grown
<1>8. Returned(c, h, in)
  <2>1. CASE t = Ret
    BY <1>7, <2>1 DEF Returned
  <2>2. CASE \E p \in Depths(c) : Frame(c, p).visit = "WhileBody"
    <3>1. Loops(c) # {}
      BY <2>2 DEF Loops, IsWhile
    <3> QED BY <3>1 DEF Returned
  <2> QED BY <2>1, <2>2 DEF JumpsOut
<1>9. Agrees(c, h, in, list, ws, os, sc) /\ c # <<>>
  BY <1>6, <1>7, <1>8, StatementEnds
<1> QED BY <1>1, <1>7, <1>9

\* A block is begun: only the scope can change.
LEMMA BlockBegins ==
  ASSUME NEW A \in FrameType, NEW B \in FrameType, NEW c \in Seq(FrameType),
         NEW f, NEW in, NEW list, NEW ws, NEW os, NEW sc,
         Agrees(On(A, c), f, in, list, ws, os, sc), A.visit = "Block", B.visit = "Items", B.first
  PROVE  Agrees(On(B, c), f, in, list, ws, os, IF B.need_exit_scope THEN sc + 1 ELSE sc)
<1>1. PICK d : d = On(B, c)
  OBVIOUS
<1>2. PICK s : s = IF B.need_exit_scope THEN sc + 1 ELSE sc
  OBVIOUS
<1>3. /\ Fits(c, f, in) /\ ~Terminated(f, in) /\ list = <<in>> /\ in \in 1..f.n
      /\ Shape(On(A, c)) /\ Shape(c) /\ c # <<>> /\ Conds(c) = {}
      /\ ws \in Seq(Branch) /\ os \in Seq(Branch) /\ sc \in Nat /\ Matches(c, sc, ws, os)
  BY StatementFacts
<1>4. /\ ~InCond(A) /\ ~InCond(B) /\ ~HasCond(B) /\ ~IsWhile(B) /\ ~Pushed(B) /\ Plain(B)
      /\ Scoped(B) <=> B.need_exit_scope
  BY DEF InCond, HasCond, IsWhile, Pushed, Scoped, Plain
<1>5. Shape(d)
  <2>1. Resumes(Head(c))
    BY <1>3, <1>4, ShapeOn
  <2> QED BY <1>1, <1>3, <1>4, <2>1, ShapeOn
<1>6. Fits(d, f, in)
  <2>1. {Entry, Ret} \subseteq BlockIds
    BY <1>3, FitsFacts
  <2> QED BY <1>1, <1>3, <1>4, <2>1, PlainFits
<1>7. Matches(d, s, ws, os)
  <2>1. ScopeMatches(c, sc) /\ LoopsMatch(c, ws) /\ OrsMatch(c, os)
    BY <1>3 DEF Matches
  <2>2. ScopeMatches(d, s)
    <3>1. CASE B.need_exit_scope
      <4>1. sc + 1 \in Nat /\ (sc + 1) - 1 = sc
        BY <1>3
      <4> QED BY <1>1, <1>2, <1>4, <2>1, <3>1, <4>1, ScopeOn
    <3>2. CASE ~B.need_exit_scope
      BY <1>1, <1>2, <1>3, <1>4, <2>1, <3>2, ScopeOn
    <3> QED BY <3>1, <3>2
  <2>3. LoopsMatch(d, ws)
    BY <1>1, <1>4, <2>1, LoopsPlain
  <2>4. OrsMatch(d, os)
    BY <1>1, <1>4, <2>1, OrsPlain
  <2> QED BY <2>2, <2>3, <2>4 DEF Matches
<1>8. ListMatches(d, f, in, list)
  BY <1>1, <1>3, ListOn
<1>9. d \in Seq(FrameType) /\ Open(d, f, in) /\ s \in Nat
  BY <1>1, <1>2, <1>3, OnFacts DEF Open
<1>10. Agrees(d, f, in, list, ws, os, s)
  BY <1>3, <1>5, <1>6, <1>7, <1>8, <1>9 DEF Agrees, Builds
<1> QED BY <1>1, <1>2, <1>10

\* What is known when the loop over the items of a block goes on.
LEMMA ItemsFacts ==
  ASSUME NEW A \in FrameType, NEW c \in Seq(FrameType), NEW f, NEW in, NEW list, NEW ws, NEW os, NEW sc,
         Agrees(On(A, c), f, in, list, ws, os, sc), A.visit = "Items"
  PROVE  /\ Fits(c, f, in) /\ Shape(On(A, c)) /\ Shape(c) /\ c # <<>> /\ Conds(c) = {}
         /\ Terminated(f, in) => ~A.first /\ (Loops(c) = {} => f.pre[Ret] # <<>>)
         /\ Lists(list, f, in) /\ (~Terminated(f, in) => list = <<in>>)
         /\ ws \in Seq(Branch) /\ os \in Seq(Branch) /\ sc \in Nat
         /\ ScopeMatches(On(A, c), sc) /\ LoopsMatch(c, ws) /\ OrsMatch(c, os)
         /\ {Entry, Ret} \subseteq BlockIds
<1>1. /\ Fits(On(A, c), f, in) /\ Shape(On(A, c)) /\ Shape(c)
      /\ A.visit = "FuncDefExit" <=> c = <<>>
      /\ InCond(A) <=> Conds(c) # {}
      /\ Terminated(f, in) => Resumes(A) /\ (Loops(On(A, c)) = {} => f.pre[Ret] # <<>>)
      /\ ScopeMatches(On(A, c), sc) /\ LoopsMatch(On(A, c), ws) /\ OrsMatch(On(A, c), os)
      /\ ws \in Seq(Branch) /\ os \in Seq(Branch) /\ sc \in Nat
      /\ ListMatches(On(A, c), f, in, list)
  BY Unfold
<1>2. ~InCond(A) /\ ~HasCond(A) /\ ~IsWhile(A) /\ ~Pushed(A) /\ Plain(A) /\ (Resumes(A) <=> ~A.first)
  BY DEF InCond, HasCond, IsWhile, Pushed, Resumes, Plain
<1>3. On(A, c) \in Seq(FrameType)
  BY OnFacts
<1>4. {Entry, Ret} \subseteq BlockIds
  BY <1>1, <1>3, FitsFacts
<1>5. Fits(c, f, in) /\ Loops(On(A, c)) = Loops(c)
  BY <1>1, <1>2, <1>4, PlainFits
<1>6. LoopsMatch(c, ws) /\ OrsMatch(c, os)
  BY <1>1, <1>2, LoopsPlain, OrsPlain
<1>7. ~Emptied(c)
  BY <1>1, <1>2, ListOn
<1>8. (\E b \in 1..f.n : list = <<b>>) /\ (~Terminated(f, in) => list = <<in>>)
  BY <1>1, <1>2, <1>7, ListOn
<1>9. Lists(list, f, in)
  <2>1. PICK b \in 1..f.n : list = <<b>>
    BY <1>8
  <2>2. <<b>> = <<in>> => b = in
    OBVIOUS
  <2> QED BY <1>8, <2>1, <2>2 DEF Lists
<1> QED BY <1>1, <1>2, <1>4, <1>5, <1>6, <1>8, <1>9

LEMMA ItemBegins ==
  ASSUME NEW A \in FrameType, NEW B \in FrameType, NEW X \in FrameType, NEW c \in Seq(FrameType),
         NEW f, NEW in, NEW list, NEW ws, NEW os, NEW sc,
         Agrees(On(A, c), f, in, list, ws, os, sc), A.visit = "Items", A.first \/ ~Terminated(f, in),
         B.visit = "Items", B.need_exit_scope = A.need_exit_scope, ~B.first, X.visit = "Stmt"
  PROVE  Agrees(On(X, On(B, c)), f, in, list, ws, os, sc)
<1>1. /\ Fits(c, f, in) /\ Shape(On(A, c)) /\ Shape(c) /\ ~Terminated(f, in) /\ list = <<in>>
      /\ ws \in Seq(Branch) /\ os \in Seq(Branch) /\ sc \in Nat
      /\ ScopeMatches(On(A, c), sc) /\ LoopsMatch(c, ws) /\ OrsMatch(c, os)
      /\ {Entry, Ret} \subseteq BlockIds
  BY ItemsFacts
<1>2. /\ ~InCond(A) /\ A.visit # "FuncDefExit" /\ B.visit # "FuncDefExit" /\ Resumes(B)
      /\ ~InCond(B) /\ ~HasCond(B) /\ ~IsWhile(B) /\ ~Pushed(B) /\ Plain(B)
  BY DEF InCond, HasCond, IsWhile, Pushed, Resumes, Plain
<1>3. Fits(On(B, c), f, in)
  BY <1>1, <1>2, PlainFits
<1>4. Matches(On(B, c), sc, ws, os)
  <2>1. Scoped(A) <=> Scoped(B)
    BY DEF Scoped
  <2>2. ScopeMatches(On(B, c), sc)
    BY <1>1, <2>1, ScopeOn
  <2>3. LoopsMatch(On(B, c), ws) /\ OrsMatch(On(B, c), os)
    BY <1>1, <1>2, LoopsPlain, OrsPlain
  <2> QED BY <2>2, <2>3 DEF Matches
<1> QED BY <1>1, <1>2, <1>3, <1>4, Begin

LEMMA BlockEnds ==
  ASSUME NEW A \in FrameType, NEW c \in Seq(FrameType), NEW f, NEW in, NEW list, NEW ws, NEW os, NEW sc,
         Agrees(On(A, c), f, in, list, ws, os, sc), A.visit = "Items"
  PROVE  /\ Agrees(c, f, in, list, ws, os, IF A.need_exit_scope THEN sc - 1 ELSE sc)
         /\ c # <<>>
<1>1. PICK s : s = IF A.need_exit_scope THEN sc - 1 ELSE sc
  OBVIOUS
<1>2. /\ Fits(c, f, in) /\ Shape(On(A, c))
      /\ Terminated(f, in) => (Loops(c) = {} => f.pre[Ret] # <<>>)
      /\ Lists(list, f, in)
      /\ ws \in Seq(Branch) /\ os \in Seq(Branch) /\ sc \in Nat
      /\ ScopeMatches(On(A, c), sc) /\ LoopsMatch(c, ws) /\ OrsMatch(c, os)
  BY ItemsFacts
<1>3. ~InCond(A) /\ A.visit # "FuncDefExit" /\ (Scoped(A) <=> A.need_exit_scope)
  BY DEF InCond, Scoped
<1>4. ScopeMatches(c, s) /\ s \in Nat
  <2>1. CASE A.need_exit_scope
    <3>1. ScopeMatches(c, sc - 1) /\ sc - 1 > 0
      BY <1>2, <1>3, <2>1, ScopeOn
    <3> QED BY <1>1, <1>2, <2>1, <3>1
  <2>2. CASE ~A.need_exit_scope
    BY <1>1, <1>2, <1>3, <2>2, ScopeOn
  <2> QED BY <2>1, <2>2
<1>5. Returned(c, f, in)
  BY <1>2 DEF Returned
<1>6. Matches(c, s, ws, os)
  BY <1>2, <1>4 DEF Matches
<1>7. Agrees(c, f, in, list, ws, os, s) /\ c # <<>>
  BY <1>2, <1>3, <1>4, <1>5, <1>6, Leave
<1> QED BY <1>1, <1>7

-----------------------------------------------------------------------------
(* Conditions.                                                             *)

\* The current blocks while a condition is visited.
Current(c, f, list) == IF Emptied(c) THEN list = <<>> ELSE \E b \in 1..f.n : list = <<b>>

\* A condition is begun on the calls e.
LEMMA CondBegins ==
  ASSUME NEW X \in FrameType, NEW e \in Seq(FrameType), NEW f, NEW in, NEW list,
         NEW ws \in Seq(Branch), NEW os \in Seq(Branch), NEW sc \in Nat, X.visit = "Cond",
         Shape(e), Conds(e) # {}, Fits(e, f, in), ~Terminated(f, in), Matches(e, sc, ws, os),
         Current(e, f, list)
  PROVE  Agrees(On(X, e), f, in, list, ws, os, sc) /\ On(X, e) # <<>>
<1>1. PICK d : d = On(X, e)
  OBVIOUS
<1>2. InCond(X) /\ ~HasCond(X) /\ ~IsWhile(X) /\ ~Pushed(X) /\ ~Scoped(X) /\ Plain(X)
  BY DEF InCond, HasCond, IsWhile, Pushed, Scoped, Plain
<1>3. e # <<>>
  <2>1. PICK q \in Conds(e) : TRUE
    OBVIOUS
  <2>2. Len(e) \in Nat /\ q \in 1..Len(e)
    BY DEF Conds, Depths
  <2>3. Len(e) # 0 /\ Len(<<>>) = 0
    BY <2>2
  <2> QED BY <2>3
<1>4. Shape(d)
  BY <1>1, <1>2, <1>3, ShapeOn
<1>5. Fits(d, f, in) /\ Conds(d) = Conds(e)
  <2>1. {Entry, Ret} \subseteq BlockIds
    BY FitsFacts
  <2> QED BY <1>1, <1>2, <2>1, PlainFits
<1>6. Matches(d, sc, ws, os)
  BY <1>1, <1>2, SameMatches
<1>7. Current(d, f, list)
  <2>1. Extends(d, X, e)
    BY <1>1, OnFacts
  <2>2. Emptied(d) <=> Emptied(e)
    BY <2>1 DEF Emptied, Extends
  <2> QED BY <2>2 DEF Current
<1>8. d \in Seq(FrameType)
  BY <1>1, OnFacts
<1>9. IF Emptied(d) THEN list = <<>> ELSE \E b \in 1..f.n : list = <<b>>
  BY <1>7 DEF Current
<1>10. Conds(d) # {}
  BY <1>5
<1>11. Agrees(d, f, in, list, ws, os, sc) /\ d # <<>>
  BY <1>4, <1>5, <1>6, <1>8, <1>9, <1>10, InCondition
<1> QED BY <1>1, <1>11

\* What is known while a condition is visited.
LEMMA ConditionFacts ==
  ASSUME NEW A \in FrameType, NEW c \in Seq(FrameType), NEW f, NEW in, NEW list, NEW ws, NEW os, NEW sc,
         Agrees(On(A, c), f, in, list, ws, os, sc), InCond(A)
  PROVE  /\ Fits(On(A, c), f, in) /\ ~Terminated(f, in) /\ Current(c, f, list)
         /\ Shape(c) /\ Conds(c) # {} /\ {Entry, Ret} \subseteq BlockIds
         /\ ws \in Seq(Branch) /\ os \in Seq(Branch) /\ sc \in Nat
         /\ ScopeMatches(c, sc) /\ LoopsMatch(c, ws) /\ OrsMatch(On(A, c), os)
<1>1. /\ Fits(On(A, c), f, in) /\ Shape(c)
      /\ InCond(A) <=> Conds(c) # {}
      /\ Terminated(f, in) => Resumes(A)
      /\ ScopeMatches(On(A, c), sc) /\ LoopsMatch(On(A, c), ws) /\ OrsMatch(On(A, c), os)
      /\ ws \in Seq(Branch) /\ os \in Seq(Branch) /\ sc \in Nat
      /\ ListMatches(On(A, c), f, in, list)
  BY Unfold
<1>2. ~IsWhile(A) /\ ~Scoped(A) /\ ~Resumes(A) /\ A.visit # "WhileCond"
  BY DEF InCond, IsWhile, Scoped, Resumes
<1>3. ScopeMatches(c, sc) /\ LoopsMatch(c, ws)
  BY <1>1, <1>2, ScopeOn, LoopsPlain
<1>4. IF Emptied(c) \/ A.visit = "WhileCond" THEN list = <<>> ELSE \E b \in 1..f.n : list = <<b>>
  BY <1>1, ListOn
<1>5. Current(c, f, list)
  BY <1>2, <1>4 DEF Current
<1>6. {Entry, Ret} \subseteq BlockIds
  BY <1>1, TopFacts
<1> QED BY <1>1, <1>2, <1>3, <1>5, <1>6

\* The targets on top of the stack belong to calls that hold them.
LEMMA OrsTop ==
  ASSUME NEW c \in Seq(FrameType), NEW os \in Seq(Branch), OrsMatch(c, os), Conds(c) # {},
         NEW f, Holding(c, f), {Entry, Ret} \subseteq BlockIds
  PROVE  /\ os # <<>> /\ Last(os) \in Branch
         /\ \A p \in Conds(c) : Last(os).trueBB = Frame(c, p).trueBB
         /\ Last(os).trueBB \in AllPending(c) \ Dead(c)
         /\ Last(os).falseBB \in AllPending(c) \ Dead(c)
<1>1. PICK q \in Conds(c) : TRUE
  OBVIOUS
<1>2. {Entry, Ret} \subseteq BlockIds /\ \A p \in Depths(c) : Frame(c, p) \in FrameType
  BY StackFacts
<1>3. Conds(c) \subseteq Ors(c) /\ Ors(c) \subseteq 1..Len(c) /\ Len(c) \in Nat /\ Depths(c) = 1..Len(c)
  BY DEF Conds, Ors, Pushed, Depths
<1>4. os # <<>> /\ Len(os) \in DOMAIN os /\ Last(os) = os[Len(os)] /\ Last(os) \in Branch
  <2>1. Count(Ors(c), Len(c)) \in Nat /\ Count(Ors(c), Len(c)) # 0
    BY <1>1, <1>3, CountFacts
  <2>2. Len(os) # 0 /\ Len(<<>>) = 0
    BY <2>1 DEF OrsMatch
  <2>3. os # <<>>
    BY <2>2
  <2> QED BY <2>3, Shortened DEF Last
<1>5. \A p \in Conds(c) : Last(os).trueBB = Frame(c, p).trueBB
  BY <1>4 DEF OrsMatch
<1>6. PICK p \in Ors(c) : Last(os).falseBB = FalseOf(Frame(c, p))
  <2>1. IsFiniteSet(Ors(c)) /\ Ors(c) # {} /\ Ors(c) \in SUBSET Nat
    <3>1. IsFiniteSet(1..Len(c)) /\ 1..Len(c) \subseteq Nat
      BY <1>3, FS_Interval
    <3> QED BY <1>1, <1>3, <3>1, FS_Subset
  <2>2. PICK p \in Ors(c) : \A k \in Ors(c) : k <= p
    BY <2>1, MaxMember
  <2>3. Count(Ors(c), p) = Count(Ors(c), Len(c))
    BY <1>3, <2>2, CountBelow
  <2> QED BY <1>4, <2>3 DEF OrsMatch
\* A block of one call is not the dead block of another.
<1>7. ASSUME NEW r \in Depths(c), NEW b \in Pending(Frame(c, r)),
             Frame(c, r).visit \in {"IfCond", "IfThen"} /\ ~Frame(c, r).has_else => b # Frame(c, r).falseBB
      PROVE  b \in AllPending(c) \ Dead(c)
  <2>1. ASSUME NEW k \in Depths(c), Frame(c, k).visit \in {"IfCond", "IfThen"}, ~Frame(c, k).has_else,
               b = Frame(c, k).falseBB
        PROVE  FALSE
    <3>1. b \in Owned(Frame(c, k)) /\ b \in Owned(Frame(c, r))
      BY <1>2, <1>7, <2>1, OwnedIs
    <3>2. r # k
      BY <1>7, <2>1
    <3> QED BY <3>1, <3>2 DEF Holding
  <2> QED BY <1>7, <2>1 DEF AllPending, Dead
<1>8. Last(os).trueBB \in AllPending(c) \ Dead(c)
  <2>1. q \in Depths(c) /\ Frame(c, q).visit \in {"IfCond", "WhileCond"} /\ Distinct(Frame(c, q))
    BY <1>1 DEF Conds, HasCond, Holding
  <2>2. Frame(c, q).trueBB \in Pending(Frame(c, q))
    BY <1>2, <2>1, OwnedIs
  <2>3. Frame(c, q).visit = "IfCond" => Frame(c, q).trueBB # Frame(c, q).falseBB
    BY <2>1 DEF Distinct, IsIf
  <2> QED BY <1>1, <1>5, <1>7, <2>1, <2>2, <2>3
<1>9. Last(os).falseBB \in AllPending(c) \ Dead(c)
  <2>1. PICK F : F = Frame(c, p)
    OBVIOUS
  <2>2. p \in Depths(c) /\ F.visit \in {"IfCond", "WhileCond", "LOrRhs"} /\ Distinct(F) /\ F \in FrameType
    BY <1>2, <2>1 DEF Ors, Pushed, HasCond, Holding
  <2>3. FalseOf(F) \in Pending(F)
    BY <1>2, <2>2, OwnedIs DEF FalseOf
  <2>4. F.visit \in {"IfCond", "IfThen"} /\ ~F.has_else => FalseOf(F) # F.falseBB
    BY <2>2 DEF FalseOf, Distinct, IsIf
  <2> QED BY <1>6, <1>7, <2>1, <2>2, <2>3, <2>4
<1> QED BY <1>4, <1>5, <1>8, <1>9

\* Call R holds block n for the right side of a connective, and o is the stack
\* of targets for the left one.
Provides(R, n, os, o) ==
  \/ R.visit = "LAndRhs" /\ R.trueBB = n /\ o = os
  \/ /\ R.visit = "LOrRhs" /\ R.falseBB = n
     /\ o = Append(os, [trueBB |-> Last(os).trueBB, falseBB |-> n])

\* A connective is begun: one new block, which the call R behind its left side
\* holds, and for || an entry t on the stack of targets.
LEMMA ConnectiveBegins ==
  ASSUME NEW A \in FrameType, NEW R \in FrameType, NEW X \in FrameType, NEW c \in Seq(FrameType),
         NEW f, NEW in, NEW list, NEW ws, NEW os, NEW sc,
         Agrees(On(A, c), f, in, list, ws, os, sc), A.visit = "Cond", X.visit = "Cond",
         MaxBlocks \in Nat, f.n + 1 <= MaxBlocks,
         NEW o, Provides(R, f.n + 1, os, o)
  PROVE  LET g == NewBlocks(f, 1) IN
         Agrees(On(X, On(R, c)), g, in, list, ws, o, sc) /\ g.n = f.n + 1 /\ On(X, On(R, c)) # <<>>
<1>0. /\ R.visit \in {"LOrRhs", "LAndRhs"}
      /\ R.visit = "LAndRhs" => R.trueBB = f.n + 1 /\ o = os
      /\ R.visit = "LOrRhs" => /\ R.falseBB = f.n + 1
                               /\ o = Append(os, [trueBB |-> Last(os).trueBB, falseBB |-> f.n + 1])
  BY DEF Provides
<1>1. PICK g : g = NewBlocks(f, 1)
  OBVIOUS
<1>2. PICK e : e = On(R, c)
  OBVIOUS
<1>3. InCond(A) /\ ~IsWhile(A) /\ ~Pushed(A) /\ ~Scoped(A) /\ Plain(A)
  BY DEF InCond, IsWhile, Pushed, HasCond, Scoped, Plain
<1>4. InCond(R) /\ ~HasCond(R) /\ ~IsWhile(R) /\ ~IsIf(R) /\ ~Scoped(R) /\ Distinct(R)
  BY <1>0 DEF InCond, IsWhile, IsIf, HasCond, Scoped, Distinct
<1>5. /\ Fits(On(A, c), f, in) /\ ~Terminated(f, in) /\ Current(c, f, list)
      /\ Shape(c) /\ Conds(c) # {} /\ {Entry, Ret} \subseteq BlockIds
      /\ ws \in Seq(Branch) /\ os \in Seq(Branch) /\ sc \in Nat
      /\ ScopeMatches(c, sc) /\ LoopsMatch(c, ws) /\ OrsMatch(On(A, c), os)
  BY <1>3, ConditionFacts
<1>6. Fits(c, f, in)
  BY <1>3, <1>5, PlainFits
<1>7. f.n \in Nat /\ in \in f.blocks
  BY <1>6, FitsFacts DEF FnType
<1>8. Fits(e, g, in) /\ Enlarged(f, 1, in, g)
  <2>1. \A x : x \in (f.n + 1)..(f.n + 1) <=> x = f.n + 1
    BY <1>7
  <2>2. Owned(R) = (f.n + 1)..(f.n + 1)
    <3>1. Owned(R) = {f.n + 1}
      BY <1>0, <1>5, OwnedIs
    <3> QED BY <2>1, <3>1
  <2> QED BY <1>0, <1>1, <1>2, <1>4, <1>6, <2>2, PushFits
<1>9. g.n = f.n + 1 /\ ~Terminated(g, in) /\ f.n + 1 \in BlockIds
  <2>1. f.n + 1 \in (f.n + 1)..(f.n + 1)
    BY <1>7
  <2> QED BY <1>5, <1>8, <2>1 DEF Enlarged
<1>10. e \in Seq(FrameType) /\ Extends(e, R, c)
  BY <1>2, OnFacts
<1>11. Shape(e) /\ Conds(e) = Conds(c)
  <2>1. c # <<>>
    <3>1. PICK q \in Conds(c) : TRUE
      BY <1>5
    <3>2. Len(c) \in Nat /\ q \in 1..Len(c)
      BY <3>1 DEF Conds, Depths
    <3>3. Len(c) # 0 /\ Len(<<>>) = 0
      BY <3>2
    <3> QED BY <3>3
  <2>2. Shape(e)
    BY <1>0, <1>2, <1>4, <1>5, <2>1, ShapeOn
  <2>3. Conds(e) = Conds(c) \cup (IF HasCond(R) THEN {Len(c) + 1} ELSE {})
    BY <1>2, DepthsOn
  <2> QED BY <1>4, <2>2, <2>3
<1>12. OrsMatch(c, os)
  BY <1>3, <1>5, OrsPlain
<1>13. o \in Seq(Branch) /\ OrsMatch(e, o)
  <2>1. CASE R.visit = "LAndRhs"
    <3>1. ~Pushed(R)
      BY <2>1 DEF Pushed, HasCond
    <3> QED BY <1>0, <1>2, <1>5, <1>12, <2>1, <3>1, OrsPlain
  <2>2. CASE R.visit = "LOrRhs"
    <3>1. PICK t : t = [trueBB |-> Last(os).trueBB, falseBB |-> f.n + 1]
      OBVIOUS
    <3>2. /\ os # <<>> /\ Last(os) \in Branch
          /\ \A p \in Conds(c) : Last(os).trueBB = Frame(c, p).trueBB
      BY <1>5, <1>6, <1>12, OrsTop DEF Fits
    <3>3. t \in Branch /\ t.trueBB = Last(os).trueBB /\ t.falseBB = f.n + 1
      BY <1>9, <3>1, <3>2 DEF Branch
    <3>4. t.falseBB = FalseOf(R) /\ Pushed(R)
      BY <1>0, <2>2, <3>3 DEF FalseOf, Pushed
    <3>5. \A p \in Conds(c) : t.trueBB = Frame(c, p).trueBB
      BY <3>2, <3>3
    <3>6. OrsMatch(e, Append(os, t))
      BY <1>2, <1>4, <1>5, <1>12, <3>3, <3>4, <3>5, OrsPush
    <3>7. o = Append(os, t)
      BY <1>0, <2>2, <3>1
    <3>8. Append(os, t) \in Seq(Branch)
      BY <1>5, <3>3
    <3> QED BY <3>6, <3>7, <3>8
  <2> QED BY <1>0, <2>1, <2>2
<1>14. Matches(e, sc, ws, o)
  <2>1. ScopeMatches(e, sc)
    BY <1>2, <1>4, <1>5, ScopeOn
  <2>2. LoopsMatch(e, ws)
    BY <1>2, <1>4, <1>5, LoopsPlain
  <2> QED BY <1>13, <2>1, <2>2 DEF Matches
<1>15. Current(e, g, list)
  <2>1. Emptied(e) <=> Emptied(c)
    BY <1>0, <1>10 DEF Emptied, Extends
  <2>2. \A b \in 1..f.n : b \in 1..g.n
    BY <1>7, <1>9
  <2> QED BY <1>5, <2>1, <2>2 DEF Current
<1>16. Agrees(On(X, e), g, in, list, ws, o, sc) /\ On(X, e) # <<>>
  BY <1>5, <1>8, <1>9, <1>10, <1>11, <1>13, <1>14, <1>15, CondBegins
<1> QED BY <1>1, <1>2, <1>9, <1>16

\* Its right side is begun, behind the branch on the left side: for || to the
\* true target of the whole condition, for && to the current false target.
LEMMA RightBegins ==
  ASSUME NEW A \in FrameType, NEW X \in FrameType, NEW c \in Seq(FrameType),
         NEW f, NEW in, NEW list, NEW ws, NEW os, NEW sc,
         Agrees(On(A, c), f, in, list, ws, os, sc), X.visit = "Cond",
         A.visit \in {"LOrRhs", "LAndRhs"}, NEW o, NEW t, NEW e, NEW x,
         A.visit = "LAndRhs" => o = os /\ x = A.trueBB /\ t = x /\ e = Last(o).falseBB,
         A.visit = "LOrRhs" => o = Front(os) /\ x = A.falseBB /\ t = Last(o).trueBB /\ e = x
  PROVE  LET g == CreateCondBr(f, in, t, e) IN
         Agrees(On(X, c), g, x, list, ws, o, sc) /\ g.n = f.n /\ On(X, c) # <<>>
<1>1. PICK g : g = CreateCondBr(f, in, t, e)
  OBVIOUS
<1>2. InCond(A)
  BY DEF InCond
<1>3. /\ Fits(On(A, c), f, in) /\ ~Terminated(f, in) /\ Current(c, f, list)
      /\ Shape(c) /\ Conds(c) # {} /\ {Entry, Ret} \subseteq BlockIds
      /\ ws \in Seq(Branch) /\ os \in Seq(Branch) /\ sc \in Nat
      /\ ScopeMatches(c, sc) /\ LoopsMatch(c, ws) /\ OrsMatch(On(A, c), os)
  BY <1>2, ConditionFacts
<1>4. o \in Seq(Branch) /\ OrsMatch(c, o)
  <2>1. CASE A.visit = "LAndRhs"
    <3>1. ~Pushed(A)
      BY <2>1 DEF Pushed, HasCond
    <3> QED BY <1>3, <2>1, <3>1, OrsPlain
  <2>2. CASE A.visit = "LOrRhs"
    <3>1. Pushed(A)
      BY <2>2 DEF Pushed
    <3>2. Front(os) \in Seq(Branch) /\ OrsMatch(c, Front(os))
      BY <1>3, <3>1, OrsPop
    <3> QED BY <2>2, <3>2
  <2> QED BY <2>1, <2>2
<1>5. Last(o).trueBB \in AllPending(c) \ Dead(c) /\ Last(o).falseBB \in AllPending(c) \ Dead(c)
  <2>1. Holding(c, f)
    BY <1>3, TopFacts
  <2> QED BY <1>3, <1>4, <2>1, OrsTop
<1>6. Pending(A) = {x}
  BY <1>3, OwnedIs
<1>7. Fits(c, g, x) /\ ~Terminated(g, x) /\ g.n = f.n
  <2>1. PICK y \in AllPending(c) \ Dead(c) : Sides(t, e, x, y)
    <3>1. CASE A.visit = "LAndRhs"
      BY <1>5, <3>1 DEF Sides
    <3>2. CASE A.visit = "LOrRhs"
      BY <1>5, <3>2 DEF Sides
    <3> QED BY <3>1, <3>2
  <2>2. /\ Fits(c, CreateCondBr(f, in, t, e), x) /\ ~Terminated(CreateCondBr(f, in, t, e), x)
        /\ CreateCondBr(f, in, t, e).n = f.n
    BY <1>3, <1>6, <2>1, LogicFits
  <2> QED BY <1>1, <2>2
<1>8. Matches(c, sc, ws, o) /\ Current(c, g, list)
  BY <1>3, <1>4, <1>7 DEF Matches, Current
<1>9. Agrees(On(X, c), g, x, list, ws, o, sc) /\ On(X, c) # <<>>
  BY <1>3, <1>4, <1>7, <1>8, CondBegins
<1> QED BY <1>1, <1>7, <1>9

\* A comparison puts a test into the block.
LEMMA LeafEnds ==
  ASSUME NEW A \in FrameType, NEW c \in Seq(FrameType), NEW f, NEW in, NEW list, NEW ws, NEW os, NEW sc,
         Agrees(On(A, c), f, in, list, ws, os, sc), A.visit = "Cond", NEW n \in Nat
  PROVE  LET g == Put(f, in, <<"test", n>>) IN
         Agrees(c, g, in, list, ws, os, sc) /\ g.n = f.n /\ c # <<>>
<1>1. PICK g : g = Put(f, in, <<"test", n>>)
  OBVIOUS
<1>2. InCond(A) /\ ~Pushed(A) /\ Plain(A)
  BY DEF InCond, Pushed, HasCond, Plain
<1>3. /\ Fits(On(A, c), f, in) /\ ~Terminated(f, in) /\ Current(c, f, list)
      /\ Shape(c) /\ Conds(c) # {} /\ {Entry, Ret} \subseteq BlockIds
      /\ ws \in Seq(Branch) /\ os \in Seq(Branch) /\ sc \in Nat
      /\ ScopeMatches(c, sc) /\ LoopsMatch(c, ws) /\ OrsMatch(On(A, c), os)
  BY <1>2, ConditionFacts
<1>4. Fits(c, f, in) /\ OrsMatch(c, os)
  BY <1>2, <1>3, PlainFits, OrsPlain
<1>5. Fits(c, g, in) /\ ~Terminated(g, in) /\ g.n = f.n
  BY <1>1, <1>3, <1>4, TestFits
<1>6. IF Emptied(c) THEN list = <<>> ELSE \E b \in 1..g.n : list = <<b>>
  BY <1>3, <1>5 DEF Current
<1>7. Matches(c, sc, ws, os)
  BY <1>3, <1>4 DEF Matches
<1>8. Agrees(c, g, in, list, ws, os, sc) /\ c # <<>>
  BY <1>3, <1>5, <1>6, <1>7, InCondition
<1> QED BY <1>1, <1>5, <1>8

-----------------------------------------------------------------------------
(* If and while.                                                           *)

LEMMA OneFacts ==
  ASSUME NEW x
  PROVE  /\ Front(<<x>>) = <<>> /\ Last(<<x>>) = x
         /\ Append(<<>>, x) = <<x>> /\ <<x>> \in Seq({x})
<1>1. PICK s : s = <<>>
  OBVIOUS
<1>2. PICK t : t = Append(s, x)
  OBVIOUS
<1>3. s \in Seq({x})
  BY <1>1
<1>4. Last(t) = x /\ Front(t) = s /\ t \in Seq({x})
  BY <1>2, <1>3, Appended
<1>5. t = <<x>>
  BY <1>1, <1>2
<1> QED BY <1>1, <1>2, <1>4, <1>5

\* WhileStmt takes its block from the list while its condition is visited.
Kept(B, list, l) == l = IF B.visit = "WhileCond" THEN <<>> ELSE list

\* A statement with a condition is begun: call B has the blocks, and t is the
\* entry on the stack of targets.
LEMMA StatementWithCond ==
  ASSUME NEW A \in FrameType, NEW B \in FrameType, NEW X \in FrameType, NEW c \in Seq(FrameType),
         NEW f, NEW in, NEW list, NEW ws, NEW os, NEW sc,
         Agrees(On(A, c), f, in, list, ws, os, sc), A.visit = "Stmt",
         HasCond(B), X.visit = "Cond",
         NEW g, NEW to, Fits(On(B, c), g, to), ~Terminated(g, to), g.n >= f.n,
         NEW w \in Seq(Branch), LoopsMatch(On(B, c), w),
         NEW t \in Branch, t.trueBB = B.trueBB, t.falseBB = FalseOf(B),
         NEW l, Kept(B, list, l)
  PROVE  Agrees(On(X, On(B, c)), g, to, l, w, Append(os, t), sc) /\ On(X, On(B, c)) # <<>>
<1>1. PICK e : e = On(B, c)
  OBVIOUS
<1>2. /\ Fits(c, f, in) /\ list = <<in>> /\ in \in 1..f.n
      /\ Shape(On(A, c)) /\ Shape(c) /\ c # <<>> /\ Conds(c) = {}
      /\ os \in Seq(Branch) /\ sc \in Nat /\ Matches(c, sc, ws, os)
  BY StatementFacts
<1>3. /\ ~InCond(A) /\ ~InCond(B) /\ ~Scoped(B) /\ Pushed(B)
      /\ B.visit \in {"IfCond", "WhileCond"}
  BY DEF InCond, Scoped, Pushed, HasCond
<1>4. e \in Seq(FrameType) /\ Extends(e, B, c)
  BY <1>1, OnFacts
<1>5. Shape(e)
  <2>1. Resumes(Head(c))
    BY <1>2, <1>3, ShapeOn
  <2> QED BY <1>1, <1>2, <1>3, <2>1, ShapeOn
<1>6. Conds(e) # {}
  <2>1. Conds(e) = Conds(c) \cup (IF HasCond(B) THEN {Len(c) + 1} ELSE {})
    BY <1>1, DepthsOn
  <2> QED BY <2>1
<1>7. os = <<>>
  <2>1. Ors(c) = {}
    <3> SUFFICES ASSUME NEW p \in Ors(c) PROVE FALSE
      OBVIOUS
    <3>1. p \in Depths(c) /\ Pushed(Frame(c, p))
      BY DEF Ors
    <3>2. ~HasCond(Frame(c, p))
      BY <1>2, <3>1 DEF Conds
    <3>3. InCond(Frame(c, p))
      BY <3>1, <3>2 DEF Pushed, InCond
    <3> QED BY <1>2, <3>1, <3>3 DEF Shape
  <2>2. Len(os) = Count(Ors(c), Len(c))
    BY <1>2 DEF Matches, OrsMatch
  <2>3. Len(c) \in Nat /\ Ors(c) \in SUBSET (1..Len(c))
    BY <2>1
  <2>4. Len(os) = 0
    BY <2>1, <2>2, <2>3, CountFacts
  <2> QED BY <1>2, <2>4
<1>8. Append(os, t) \in Seq(Branch)
  BY <1>2
<1>9. OrsMatch(e, Append(os, t))
  <2>1. OrsMatch(c, os)
    BY <1>2 DEF Matches
  <2> QED BY <1>1, <1>2, <1>3, <1>7, <2>1, OrsPush
<1>10. ScopeMatches(e, sc)
  BY <1>1, <1>2, <1>3, ScopeOn DEF Matches
<1>11. Matches(e, sc, w, Append(os, t))
  BY <1>1, <1>9, <1>10 DEF Matches
<1>12. Current(e, g, l)
  <2>1. ~Emptied(c)
    BY <1>2 DEF Emptied, Conds, HasCond
  <2>2. Emptied(e) <=> B.visit = "WhileCond"
    BY <1>4, <2>1 DEF Emptied, Extends
  <2>3. in \in 1..g.n
    <3>1. f.n \in Nat /\ g.n \in Nat
      BY <1>1, <1>2, <1>4, FitsFacts DEF FnType
    <3> QED BY <1>2, <3>1
  <2> QED BY <1>2, <2>2, <2>3 DEF Current, Kept
<1>13. Agrees(On(X, e), g, to, l, w, Append(os, t), sc) /\ On(X, e) # <<>>
  BY <1>1, <1>2, <1>4, <1>5, <1>6, <1>8, <1>11, <1>12, CondBegins
<1> QED BY <1>1, <1>13

\* IfStmt.
LEMMA IfBegins ==
  ASSUME NEW A \in FrameType, NEW B \in FrameType, NEW X \in FrameType, NEW c \in Seq(FrameType),
         NEW f, NEW in, NEW list, NEW ws, NEW os, NEW sc,
         Agrees(On(A, c), f, in, list, ws, os, sc), A.visit = "Stmt",
         MaxBlocks \in Nat, f.n + 3 <= MaxBlocks, X.visit = "Cond",
         B.visit = "IfCond", B.trueBB = f.n + 1, B.falseBB = f.n + 2, B.nextBB = f.n + 3,
         NEW t, t = [trueBB |-> f.n + 1, falseBB |-> IF B.has_else THEN f.n + 2 ELSE f.n + 3]
  PROVE  LET g == NewBlocks(f, 3) IN
         Agrees(On(X, On(B, c)), g, in, list, ws, Append(os, t), sc) /\ g.n = f.n + 3
         /\ On(X, On(B, c)) # <<>>
<1>1. PICK g : g = NewBlocks(f, 3)
  OBVIOUS
<1>2. /\ Fits(c, f, in) /\ ~Terminated(f, in)
      /\ ws \in Seq(Branch) /\ Matches(c, sc, ws, os)
  BY StatementFacts
<1>3. f.n \in Nat /\ {Entry, Ret} \subseteq BlockIds
  BY <1>2, FitsFacts DEF FnType
<1>4. Fits(On(B, c), g, in) /\ Enlarged(f, 3, in, g)
  <2>1. Distinct(B)
    BY <1>3 DEF Distinct, IsIf, IsWhile
  <2>2. Owned(B) = (f.n + 1)..(f.n + 3)
    <3>1. Owned(B) = {f.n + 1, f.n + 2, f.n + 3}
      BY <1>3, OwnedIs
    <3>2. \A x : x \in (f.n + 1)..(f.n + 3) <=> x \in {f.n + 1, f.n + 2, f.n + 3}
      BY <1>3
    <3> QED BY <3>1, <3>2
  <2> QED BY <1>1, <1>2, <2>1, <2>2, PushFits
<1>5. g.n = f.n + 3 /\ ~Terminated(g, in) /\ g.n >= f.n
  BY <1>2, <1>3, <1>4 DEF Enlarged
<1>6. HasCond(B) /\ ~IsWhile(B)
  BY DEF HasCond, IsWhile
<1>7. LoopsMatch(On(B, c), ws)
  BY <1>2, <1>6, LoopsPlain DEF Matches
<1>8. t \in Branch /\ t.trueBB = B.trueBB /\ t.falseBB = FalseOf(B)
  <2>1. /\ B.trueBB \in BlockIds /\ B.falseBB \in BlockIds /\ B.nextBB \in BlockIds
        /\ B.has_else \in BOOLEAN
    BY FrameFields DEF IsIf
  <2>2. t.trueBB = f.n + 1 /\ t.falseBB = IF B.has_else THEN f.n + 2 ELSE f.n + 3
    OBVIOUS
  <2>3. FalseOf(B) = IF B.has_else THEN f.n + 2 ELSE f.n + 3
    BY DEF FalseOf
  <2>4. (IF B.has_else THEN f.n + 2 ELSE f.n + 3) \in BlockIds
    BY <2>1
  <2> QED BY <2>1, <2>2, <2>3, <2>4 DEF Branch
<1>10. Kept(B, list, list)
  BY DEF Kept
<1>9. Agrees(On(X, On(B, c)), g, in, list, ws, Append(os, t), sc) /\ On(X, On(B, c)) # <<>>
  BY <1>10, <1>2, <1>4, <1>5, <1>6, <1>7, <1>8, StatementWithCond
<1> QED BY <1>1, <1>5, <1>9

\* WhileStmt.
LEMMA WhileBegins ==
  ASSUME NEW A \in FrameType, NEW B \in FrameType, NEW X \in FrameType, NEW c \in Seq(FrameType),
         NEW f, NEW in, NEW list, NEW ws, NEW os, NEW sc,
         Agrees(On(A, c), f, in, list, ws, os, sc), A.visit = "Stmt",
         MaxBlocks \in Nat, f.n + 3 <= MaxBlocks, X.visit = "Cond",
         B.visit = "WhileCond", B.whileBB = f.n + 1, B.trueBB = f.n + 2, B.nextBB = f.n + 3,
         NEW t \in Branch, t.trueBB = B.trueBB, t.falseBB = FalseOf(B),
         NEW u \in Branch, u = Targets(B)
  PROVE  LET g == BrUnlessTerminated(NewBlocks(f, 3), in, f.n + 1) IN
         /\ Agrees(On(X, On(B, c)), g, f.n + 1, Front(list), Append(ws, u), Append(os, t), sc)
         /\ g.n = f.n + 3 /\ On(X, On(B, c)) # <<>>
<1>1. PICK w : w = f.n + 1
  OBVIOUS
<1>2. PICK g : g = CreateBr(NewBlocks(f, 3), in, w)
  OBVIOUS
<1>3. /\ Fits(c, f, in) /\ ~Terminated(f, in) /\ list = <<in>> /\ Conds(c) = {}
      /\ ws \in Seq(Branch) /\ Matches(c, sc, ws, os)
  BY StatementFacts
<1>4. f.n \in Nat /\ {Entry, Ret} \subseteq BlockIds
  BY <1>3, FitsFacts DEF FnType
<1>5. BrUnlessTerminated(NewBlocks(f, 3), in, w) = g
  <2>1. Terminated(NewBlocks(f, 3), in) = Terminated(f, in)
    BY DEF NewBlocks, Terminated
  <2> QED BY <1>2, <1>3, <2>1 DEF BrUnlessTerminated
<1>6. Fits(On(B, c), g, w) /\ ~Terminated(g, w) /\ g.n = f.n + 3
  BY <1>1, <1>2, <1>3, WhileFits
<1>7. g.n >= f.n
  BY <1>4, <1>6
<1>8. HasCond(B) /\ IsWhile(B)
  BY DEF HasCond, IsWhile
<1>11. LoopsMatch(On(B, c), Append(ws, u)) /\ Append(ws, u) \in Seq(Branch)
  <2>1. LoopsMatch(c, ws)
    BY <1>3 DEF Matches
  <2> QED BY <1>3, <1>8, <2>1, LoopsPush
<1>13. Front(list) = <<>>
  BY <1>3, OneFacts
<1>14. PICK l : l = Front(list) /\ Kept(B, list, l)
  BY <1>13 DEF Kept
<1>16. PICK v : v = Append(ws, u)
  OBVIOUS
<1>15. /\ Agrees(On(X, On(B, c)), g, w, l, v, Append(os, t), sc)
       /\ On(X, On(B, c)) # <<>>
  <2>1. v \in Seq(Branch) /\ LoopsMatch(On(B, c), v)
    BY <1>11, <1>16
  <2>2. Kept(B, list, l)
    BY <1>14
  <2>3. Fits(On(B, c), g, w) /\ ~Terminated(g, w) /\ HasCond(B)
    BY <1>6, <1>8
  <2> QED BY <1>7, <2>1, <2>2, <2>3, StatementWithCond
<1> QED BY <1>1, <1>5, <1>6, <1>14, <1>15, <1>16

\* The scope that a body is visited in.
Depth(B, sc) == IF B.block THEN sc ELSE sc + 1

\* The condition is done: a branch on it, and on in the true block.
LEMMA IfCondEnds ==
  ASSUME NEW A \in FrameType, NEW B \in FrameType, NEW X \in FrameType, NEW c \in Seq(FrameType),
         NEW f, NEW in, NEW list, NEW ws, NEW os, NEW sc,
         Agrees(On(A, c), f, in, list, ws, os, sc), A.visit = "IfCond", B.visit = "IfThen", SameIf(A, B),
         X.visit \in {"Block", "Stmt"}, NEW e, e = IF A.has_else THEN A.falseBB ELSE A.nextBB
  PROVE  LET g == CreateCondBr(f, in, A.trueBB, e) IN
         /\ Agrees(On(X, On(B, c)), g, A.trueBB, Append(Front(list), A.trueBB), ws, Front(os), Depth(B, sc))
         /\ g.n = f.n
<1>1. PICK g : g = CreateCondBr(f, in, A.trueBB, e)
  OBVIOUS
<1>2. PICK l : l = Append(Front(list), A.trueBB)
  OBVIOUS
<1>3. PICK o : o = Front(os)
  OBVIOUS
<1>4. PICK s : s = Depth(B, sc)
  OBVIOUS
<1>5. PICK t : t = A.trueBB
  OBVIOUS
<1>6. /\ Fits(On(A, c), f, in) /\ Shape(On(A, c))
      /\ InCond(A) <=> Conds(c) # {}
      /\ Terminated(f, in) => Resumes(A)
      /\ ScopeMatches(On(A, c), sc) /\ LoopsMatch(On(A, c), ws) /\ OrsMatch(On(A, c), os)
      /\ ws \in Seq(Branch) /\ os \in Seq(Branch) /\ sc \in Nat
      /\ ListMatches(On(A, c), f, in, list)
  BY Unfold
<1>7. /\ ~InCond(A) /\ ~IsWhile(A) /\ ~Scoped(A) /\ ~Resumes(A) /\ Pushed(A) /\ A.visit # "FuncDefExit"
      /\ ~InCond(B) /\ ~HasCond(B) /\ ~IsWhile(B) /\ ~Pushed(B) /\ Resumes(B) /\ B.visit # "FuncDefExit"
      /\ Scoped(B) <=> ~B.block
  BY DEF InCond, IsWhile, Scoped, Resumes, Pushed, HasCond
<1>8. ~Terminated(f, in) /\ Conds(c) = {}
  BY <1>6, <1>7
<1>9. Fits(On(B, c), g, t) /\ ~Terminated(g, t) /\ g.n = f.n
  BY <1>1, <1>5, <1>6, <1>8, IfCondFits
<1>10. l = <<t>>
  <2>1. PICK b \in 1..f.n : list = <<b>>
    BY <1>6, <1>8, ListOn
  <2> QED BY <1>2, <1>5, <2>1, OneFacts
<1>11. o \in Seq(Branch) /\ OrsMatch(On(B, c), o)
  BY <1>3, <1>6, <1>7, OrsPop, OrsPlain
<1>12. LoopsMatch(On(B, c), ws)
  BY <1>6, <1>7, LoopsPlain
<1>13. s \in Nat /\ ScopeMatches(On(B, c), s)
  <2>1. ScopeMatches(c, sc)
    BY <1>6, <1>7, ScopeOn
  <2>2. CASE B.block
    BY <1>4, <1>6, <1>7, <2>1, <2>2, ScopeOn DEF Depth
  <2>3. CASE ~B.block
    <3>1. s = sc + 1 /\ s \in Nat /\ s - 1 = sc
      BY <1>4, <1>6, <2>3 DEF Depth
    <3> QED BY <1>7, <2>1, <2>3, <3>1, ScopeOn
  <2> QED BY <2>2, <2>3
<1>14. Matches(On(B, c), s, ws, o)
  BY <1>11, <1>12, <1>13 DEF Matches
<1>15. Agrees(On(X, On(B, c)), g, t, l, ws, o, s)
  BY <1>6, <1>7, <1>9, <1>10, <1>11, <1>13, <1>14, Begin
<1> QED BY <1>1, <1>2, <1>3, <1>4, <1>5, <1>9, <1>15

LEMMA WhileCondEnds ==
  ASSUME NEW A \in FrameType, NEW B \in FrameType, NEW X \in FrameType, NEW c \in Seq(FrameType),
         NEW f, NEW in, NEW list, NEW ws, NEW os, NEW sc,
         Agrees(On(A, c), f, in, list, ws, os, sc), A.visit = "WhileCond", B.visit = "WhileBody",
         SameWhile(A, B), X.visit \in {"Block", "Stmt"}
  PROVE  LET g == CreateCondBr(f, in, A.trueBB, A.nextBB) IN
         /\ Agrees(On(X, On(B, c)), g, A.trueBB, Append(list, A.trueBB), ws, Front(os), Depth(B, sc))
         /\ g.n = f.n
<1>1. PICK g : g = CreateCondBr(f, in, A.trueBB, A.nextBB)
  OBVIOUS
<1>2. PICK l : l = Append(list, A.trueBB)
  OBVIOUS
<1>3. PICK o : o = Front(os)
  OBVIOUS
<1>4. PICK s : s = Depth(B, sc)
  OBVIOUS
<1>5. PICK t : t = A.trueBB
  OBVIOUS
<1>6. /\ Fits(On(A, c), f, in) /\ Shape(On(A, c))
      /\ InCond(A) <=> Conds(c) # {}
      /\ Terminated(f, in) => Resumes(A)
      /\ ScopeMatches(On(A, c), sc) /\ LoopsMatch(On(A, c), ws) /\ OrsMatch(On(A, c), os)
      /\ ws \in Seq(Branch) /\ os \in Seq(Branch) /\ sc \in Nat
      /\ ListMatches(On(A, c), f, in, list)
  BY Unfold
<1>7. /\ ~InCond(A) /\ IsWhile(A) /\ ~Scoped(A) /\ ~Resumes(A) /\ Pushed(A) /\ A.visit # "FuncDefExit"
      /\ ~InCond(B) /\ ~HasCond(B) /\ IsWhile(B) /\ ~Pushed(B) /\ Resumes(B) /\ B.visit # "FuncDefExit"
      /\ Scoped(B) <=> ~B.block
  BY DEF InCond, IsWhile, Scoped, Resumes, Pushed, HasCond
<1>8. ~Terminated(f, in) /\ Conds(c) = {}
  BY <1>6, <1>7
<1>9. Fits(On(B, c), g, t) /\ ~Terminated(g, t) /\ g.n = f.n
  BY <1>1, <1>5, <1>6, <1>8, WhileCondFits
<1>10. l = <<t>>
  <2>1. list = <<>>
    BY <1>6, ListOn
  <2> QED BY <1>2, <1>5, <2>1, OneFacts
<1>11. o \in Seq(Branch) /\ OrsMatch(On(B, c), o)
  BY <1>3, <1>6, <1>7, OrsPop, OrsPlain
<1>12. LoopsMatch(On(B, c), ws)
  <2>1. Targets(A) = Targets(B)
    BY DEF Targets, SameWhile
  <2> QED BY <1>6, <1>7, <2>1, LoopsSwap
<1>13. s \in Nat /\ ScopeMatches(On(B, c), s)
  <2>1. ScopeMatches(c, sc)
    BY <1>6, <1>7, ScopeOn
  <2>2. CASE B.block
    BY <1>4, <1>6, <1>7, <2>1, <2>2, ScopeOn DEF Depth
  <2>3. CASE ~B.block
    <3>1. s = sc + 1 /\ s \in Nat /\ s - 1 = sc
      BY <1>4, <1>6, <2>3 DEF Depth
    <3> QED BY <1>7, <2>1, <2>3, <3>1, ScopeOn
  <2> QED BY <2>2, <2>3
<1>14. Matches(On(B, c), s, ws, o)
  BY <1>11, <1>12, <1>13 DEF Matches
<1>15. Agrees(On(X, On(B, c)), g, t, l, ws, o, s)
  BY <1>6, <1>7, <1>9, <1>10, <1>11, <1>13, <1>14, Begin
<1> QED BY <1>1, <1>2, <1>3, <1>4, <1>5, <1>9, <1>15

\* The block that the end of a body goes to.
After(A) == IF A.visit = "WhileBody" THEN A.whileBB ELSE A.nextBB

\* The end of a body: a branch unless the body has left already.
LEMMA CloseFits ==
  ASSUME NEW A \in FrameType, NEW c \in Seq(FrameType), NEW f, NEW in,
         Fits(On(A, c), f, in), Shape(On(A, c)), A.visit \in {"IfThen", "IfElse", "WhileBody"}
  PROVE  LET h == BrUnlessTerminated(f, in, After(A)) IN
         /\ Fits(On(A, c), h, in) /\ Terminated(h, in) /\ h.n = f.n
         /\ Terminated(f, in) => h = f
         /\ ~Terminated(f, in) => h.pre[After(A)] # <<>>
<1>1. PICK t : t = After(A)
  OBVIOUS
<1>2. PICK h : h = BrUnlessTerminated(f, in, t)
  OBVIOUS
<1>3. PICK d : d = On(A, c)
  OBVIOUS
<1>4. /\ d \in Seq(FrameType) /\ d # <<>> /\ Extends(d, A, c) /\ Len(c) + 1 \notin Depths(c)
  BY <1>3, OnFacts
<1>5. Terminated(f, in) => h = f
  BY <1>2 DEF BrUnlessTerminated
<1>6. ASSUME ~Terminated(f, in)
      PROVE  Fits(d, h, in) /\ Jumped(f, in, t, h)
  <2>1. h = CreateBr(f, in, t)
    BY <1>2, <1>6 DEF BrUnlessTerminated
  <2>2. {Entry, Ret} \subseteq BlockIds /\ Holding(d, f) /\ \A q \in Depths(d) : Frame(d, q) \in FrameType
    BY <1>3, <1>4, FitsFacts, StackFacts DEF Fits
  <2>3. PICK p \in Depths(d) : Frame(d, p) = A
    BY <1>4 DEF Extends
  <2>4. CASE A.visit = "WhileBody"
    <3>1. t = A.whileBB
      BY <1>1, <2>4 DEF After
    <3>2. Frame(d, p).visit = "WhileBody" /\ t = Frame(d, p).whileBB
      BY <2>3, <2>4, <3>1
    <3>3. \E q \in Depths(d) : Frame(d, q).visit = "WhileBody" /\ t = Frame(d, q).whileBB
      BY <3>2
    <3> QED BY <1>3, <1>4, <1>6, <2>1, <3>3, BrFits
  <2>5. CASE A.visit # "WhileBody"
    <3>1. t = A.nextBB /\ t \in Pending(A) /\ t \in Owned(A) /\ (IsIf(A) => A.falseBB # A.nextBB)
      <4>1. t = A.nextBB /\ Distinct(A)
        BY <1>1, <2>2, <2>3, <2>5 DEF After, Holding
      <4> QED BY <2>2, <4>1, OwnedIs DEF Distinct
    <3>2. t \in AllPending(d)
      BY <2>3, <3>1 DEF AllPending
    <3>3. ASSUME NEW q \in Depths(d), Frame(d, q).visit \in {"IfCond", "IfThen"}, t = Frame(d, q).falseBB
          PROVE  FALSE
      <4>1. t \in Owned(Frame(d, q))
        BY <2>2, <3>3, OwnedIs
      <4>2. p # q
        BY <2>3, <3>1, <3>3 DEF IsIf
      <4> QED BY <2>2, <2>3, <3>1, <4>1, <4>2 DEF Holding
    <3>4. t \in AllPending(d) \ Dead(d)
      BY <3>2, <3>3 DEF Dead
    <3> QED BY <1>3, <1>4, <1>6, <2>1, <3>4, BrFits
  <2> QED BY <2>4, <2>5
<1>7. Fits(d, h, in) /\ Terminated(h, in) /\ h.n = f.n /\ (~Terminated(f, in) => h.pre[t] # <<>>)
  <2>1. CASE Terminated(f, in)
    BY <1>3, <1>5, <2>1
  <2>2. CASE ~Terminated(f, in)
    BY <1>6, <2>2 DEF Jumped, Grown
  <2> QED BY <2>1, <2>2
<1> QED BY <1>1, <1>2, <1>3, <1>5, <1>7

\* The scope around a body.
Around(A, sc) == IF A.block THEN sc ELSE sc - 1

\* What is known at the end of a body.
LEMMA BodyFacts ==
  ASSUME NEW A \in FrameType, NEW c \in Seq(FrameType), NEW f, NEW in, NEW list, NEW ws, NEW os, NEW sc,
         Agrees(On(A, c), f, in, list, ws, os, sc), A.visit \in {"IfThen", "IfElse", "WhileBody"}
  PROVE  /\ Fits(On(A, c), f, in) /\ Shape(On(A, c)) /\ Conds(c) = {} /\ c # <<>>
         /\ Ret \notin Owned(A) /\ {Entry, Ret} \subseteq BlockIds
         /\ Terminated(f, in) /\ Loops(On(A, c)) = {} => f.pre[Ret] # <<>>
         /\ Front(list) = <<>>
         /\ Around(A, sc) \in Nat /\ ScopeMatches(c, Around(A, sc))
         /\ ws \in Seq(Branch) /\ os \in Seq(Branch)
         /\ LoopsMatch(On(A, c), ws) /\ OrsMatch(c, os)
<1>1. /\ Fits(On(A, c), f, in) /\ Shape(On(A, c))
      /\ A.visit = "FuncDefExit" <=> c = <<>>
      /\ InCond(A) <=> Conds(c) # {}
      /\ Terminated(f, in) => (Loops(On(A, c)) = {} => f.pre[Ret] # <<>>)
      /\ ScopeMatches(On(A, c), sc) /\ LoopsMatch(On(A, c), ws) /\ OrsMatch(On(A, c), os)
      /\ ws \in Seq(Branch) /\ os \in Seq(Branch) /\ sc \in Nat
      /\ ListMatches(On(A, c), f, in, list)
  BY Unfold
<1>2. ~InCond(A) /\ ~Pushed(A) /\ A.visit # "FuncDefExit" /\ A.visit # "WhileCond" /\ (Scoped(A) <=> ~A.block)
  BY DEF InCond, Pushed, HasCond, Scoped
<1>3. Conds(c) = {} /\ c # <<>>
  BY <1>1, <1>2
<1>4. Ret \notin Owned(A) /\ {Entry, Ret} \subseteq BlockIds
  <2>1. On(A, c) \in Seq(FrameType) /\ On(A, c) # <<>> /\ Extends(On(A, c), A, c)
    BY OnFacts
  <2>2. PICK p \in Depths(On(A, c)) : Frame(On(A, c), p) = A
    BY <2>1 DEF Extends
  <2>3. \A q \in Depths(On(A, c)) : Frame(On(A, c), q).visit # "FuncDefExit" =>
               Entry \notin Owned(Frame(On(A, c), q)) /\ Ret \notin Owned(Frame(On(A, c), q))
    BY <1>1, <2>1, BottomFacts
  <2>4. {Entry, Ret} \subseteq BlockIds
    BY <1>1, TopFacts
  <2> QED BY <1>2, <2>2, <2>3, <2>4
<1>5. Front(list) = <<>>
  <2>1. PICK b \in 1..f.n : list = <<b>>
    BY <1>1, <1>2, <1>3, ListOn
  <2> QED BY <2>1, OneFacts
<1>6. Around(A, sc) \in Nat /\ ScopeMatches(c, Around(A, sc))
  <2>1. CASE A.block
    BY <1>1, <1>2, <2>1, ScopeOn DEF Around
  <2>2. CASE ~A.block
    <3>1. ScopeMatches(c, sc - 1) /\ sc - 1 > 0
      BY <1>1, <1>2, <2>2, ScopeOn
    <3> QED BY <1>1, <2>2, <3>1 DEF Around
  <2> QED BY <2>1, <2>2
<1>7. OrsMatch(c, os)
  BY <1>1, <1>2, OrsPlain
<1> QED BY <1>1, <1>3, <1>4, <1>5, <1>6, <1>7

\* From the end of the first body on to the else.
LEMMA ElseBegins ==
  ASSUME NEW A \in FrameType, NEW B \in FrameType, NEW X \in FrameType, NEW c \in Seq(FrameType),
         NEW f, NEW in, NEW list, NEW ws, NEW os, NEW sc,
         Agrees(On(A, c), f, in, list, ws, os, sc), A.visit = "IfThen", A.has_else,
         B.visit = "IfElse", SameIf(A, B), X.visit \in {"Block", "Stmt"}
  PROVE  LET h == BrUnlessTerminated(f, in, A.nextBB) IN
         /\ Agrees(On(X, On(B, c)), h, A.falseBB, Append(Front(list), A.falseBB), ws, os,
                   Depth(B, Around(A, sc)))
         /\ h.n = f.n
<1>1. PICK h : h = BrUnlessTerminated(f, in, A.nextBB)
  OBVIOUS
<1>2. PICK l : l = Append(Front(list), A.falseBB)
  OBVIOUS
<1>3. PICK r : r = Around(A, sc)
  OBVIOUS
<1>4. PICK s : s = Depth(B, r)
  OBVIOUS
<1>5. PICK t : t = A.falseBB
  OBVIOUS
<1>6. /\ Fits(On(A, c), f, in) /\ Shape(On(A, c)) /\ Conds(c) = {}
      /\ Front(list) = <<>>
      /\ Around(A, sc) \in Nat /\ ScopeMatches(c, Around(A, sc))
      /\ ws \in Seq(Branch) /\ os \in Seq(Branch)
      /\ LoopsMatch(On(A, c), ws) /\ OrsMatch(c, os)
  BY BodyFacts
<1>7. /\ ~InCond(A) /\ ~IsWhile(A) /\ A.visit # "FuncDefExit"
      /\ ~InCond(B) /\ ~HasCond(B) /\ ~IsWhile(B) /\ ~Pushed(B) /\ Resumes(B) /\ B.visit # "FuncDefExit"
      /\ Scoped(B) <=> ~B.block
  BY DEF InCond, IsWhile, Scoped, Resumes, Pushed, HasCond
<1>8. Fits(On(A, c), h, in) /\ Terminated(h, in) /\ h.n = f.n
  <2>1. After(A) = A.nextBB
    BY DEF After
  <2>2. LET k == BrUnlessTerminated(f, in, After(A)) IN
        Fits(On(A, c), k, in) /\ Terminated(k, in) /\ k.n = f.n
    BY <1>6, CloseFits
  <2> QED BY <1>1, <2>1, <2>2
<1>9. Fits(On(B, c), h, t) /\ ~Terminated(h, t)
  BY <1>5, <1>6, <1>8, IfElseFits
<1>10. l = <<t>>
  BY <1>2, <1>5, <1>6, OneFacts
<1>11. s \in Nat /\ ScopeMatches(On(B, c), s)
  <2>2. CASE B.block
    BY <1>3, <1>4, <1>6, <1>7, <2>2, ScopeOn DEF Depth
  <2>3. CASE ~B.block
    <3>1. s = r + 1 /\ s \in Nat /\ s - 1 = r
      BY <1>3, <1>4, <1>6, <2>3 DEF Depth
    <3> QED BY <1>3, <1>6, <1>7, <2>3, <3>1, ScopeOn
  <2> QED BY <2>2, <2>3
<1>12. Matches(On(B, c), s, ws, os)
  <2>1. LoopsMatch(On(B, c), ws)
    BY <1>6, <1>7, LoopsPlain
  <2>2. OrsMatch(On(B, c), os)
    BY <1>6, <1>7, OrsPlain
  <2> QED BY <1>11, <2>1, <2>2 DEF Matches
<1>13. Agrees(On(X, On(B, c)), h, t, l, ws, os, s)
  BY <1>6, <1>7, <1>9, <1>10, <1>11, <1>12, Begin
<1> QED BY <1>1, <1>2, <1>3, <1>4, <1>5, <1>8, <1>13

\* The end of both forms, in the graph h with a finished insert block.
LEMMA JoinEnds ==
  ASSUME NEW B \in FrameType, NEW c \in Seq(FrameType), NEW h, NEW in,
         NEW ws \in Seq(Branch), NEW os \in Seq(Branch), NEW sc \in Nat,
         Fits(On(B, c), h, in), Terminated(h, in), Conds(c) = {}, Shape(On(B, c)),
         B.visit = "IfElse", Ret \notin Owned(B), Matches(c, sc, ws, os),
         h.pre[B.nextBB] = <<>> => Returned(c, h, in)
  PROVE  /\ c # <<>>
         /\ h.pre[B.nextBB] # <<>> => Agrees(c, h, B.nextBB, <<B.nextBB>>, ws, os, sc)
         /\ h.pre[B.nextBB] = <<>> =>
              LET g == EraseBlock(h, B.nextBB) IN
              Agrees(c, g, B.trueBB, <<B.nextBB>>, ws, os, sc) /\ g.n = h.n
<1>1. PICK t : t = B.nextBB
  OBVIOUS
<1>2. PICK g : g = EraseBlock(h, t)
  OBVIOUS
<1>3. PICK l : l = <<t>>
  OBVIOUS
<1>4. ~InCond(B) /\ B.visit # "FuncDefExit"
  BY DEF InCond
<1>5. c # <<>>
  BY <1>4, ShapeOn
<1>6. t \in 1..h.n
  <2>1. Owned(B) \subseteq h.blocks /\ {Entry, Ret} \subseteq BlockIds
    BY TopFacts
  <2>2. t \in h.blocks
    BY <1>1, <2>1, OwnedIs
  <2>3. On(B, c) \in Seq(FrameType)
    BY OnFacts
  <2> QED BY <2>2, <2>3, FitsFacts DEF Graph, Created
<1>7. ASSUME h.pre[t] # <<>> PROVE Agrees(c, h, t, l, ws, os, sc)
  <2>1. Fits(c, h, t) /\ ~Terminated(h, t)
    BY <1>1, <1>7, JoinFits
  <2>2. Returned(c, h, t) /\ Lists(l, h, t)
    BY <1>3, <1>6, <2>1 DEF Returned, Lists
  <2> QED BY <1>4, <2>1, <2>2, Leave
<1>8. ASSUME h.pre[t] = <<>> PROVE Agrees(c, g, B.trueBB, l, ws, os, sc) /\ g.n = h.n
  <2>1. PICK u : u = B.trueBB
    OBVIOUS
  <2>2. Fits(c, g, u) /\ Terminated(g, u) /\ Shrunk(h, t, g)
    BY <1>1, <1>2, <1>8, <2>1, DropFits
  <2>3. g.n = h.n /\ g.pre = h.pre
    BY <2>2 DEF Shrunk
  <2>4. Returned(c, g, u) /\ Lists(l, g, u)
    BY <1>1, <1>3, <1>6, <1>8, <2>2, <2>3 DEF Returned, Lists
  <2>5. Agrees(c, g, u, l, ws, os, sc)
    BY <1>4, <2>2, <2>4, Leave
  <2> QED BY <2>1, <2>3, <2>5
<1> QED BY <1>1, <1>2, <1>3, <1>5, <1>7, <1>8

\* The graph at the end of an if, before its last block is looked at.
Closing(A, f, in) ==
  LET h == BrUnlessTerminated(f, in, A.nextBB)
  IN  IF A.visit = "IfThen" THEN EraseBlock(h, A.falseBB) ELSE h

LEMMA IfEnds ==
  ASSUME NEW A \in FrameType, NEW c \in Seq(FrameType),
         NEW f, NEW in, NEW list, NEW ws, NEW os, NEW sc,
         Agrees(On(A, c), f, in, list, ws, os, sc),
         A.visit = "IfElse" \/ (A.visit = "IfThen" /\ ~A.has_else)
  PROVE  LET h == Closing(A, f, in)
             g == EraseBlock(h, A.nextBB)
             l == Append(Front(list), A.nextBB)
         IN  /\ c # <<>> /\ h.n = f.n
             /\ h.pre[A.nextBB] # <<>> => Agrees(c, h, A.nextBB, l, ws, os, Around(A, sc))
             /\ h.pre[A.nextBB] = <<>> => Agrees(c, g, A.trueBB, l, ws, os, Around(A, sc)) /\ g.n = f.n
<1>1. PICK k : k = BrUnlessTerminated(f, in, A.nextBB)
  OBVIOUS
<1>2. PICK h : h = Closing(A, f, in)
  OBVIOUS
<1>3. PICK s : s = Around(A, sc)
  OBVIOUS
<1>4. PICK B : B = [A EXCEPT !.visit = "IfElse"]
  OBVIOUS
<1>5. B \in FrameType /\ B.visit = "IfElse" /\ SameIf(A, B)
  <2>1. A \in [visit : {"IfCond", "IfThen", "IfElse"}, has_else : BOOLEAN, block : BOOLEAN,
               trueBB : BlockIds, falseBB : BlockIds, nextBB : BlockIds]
    BY DEF FrameType
  <2>2. /\ B \in [visit : {"IfCond", "IfThen", "IfElse"}, has_else : BOOLEAN, block : BOOLEAN,
                  trueBB : BlockIds, falseBB : BlockIds, nextBB : BlockIds]
        /\ B.visit = "IfElse" /\ SameIf(A, B)
    BY <1>4, <2>1 DEF SameIf
  <2> QED BY <2>2 DEF FrameType
<1>6. /\ Fits(On(A, c), f, in) /\ Shape(On(A, c)) /\ Conds(c) = {} /\ c # <<>>
      /\ Ret \notin Owned(A) /\ {Entry, Ret} \subseteq BlockIds
      /\ Terminated(f, in) /\ Loops(On(A, c)) = {} => f.pre[Ret] # <<>>
      /\ Front(list) = <<>>
      /\ s \in Nat /\ ScopeMatches(c, s)
      /\ ws \in Seq(Branch) /\ os \in Seq(Branch)
      /\ LoopsMatch(On(A, c), ws) /\ OrsMatch(c, os)
  BY <1>3, BodyFacts
<1>7. /\ Fits(On(A, c), k, in) /\ Terminated(k, in) /\ k.n = f.n
      /\ Terminated(f, in) => k = f
      /\ ~Terminated(f, in) => k.pre[A.nextBB] # <<>>
  <2>1. After(A) = A.nextBB
    BY DEF After
  <2>2. LET m == BrUnlessTerminated(f, in, After(A)) IN
        /\ Fits(On(A, c), m, in) /\ Terminated(m, in) /\ m.n = f.n
        /\ Terminated(f, in) => m = f
        /\ ~Terminated(f, in) => m.pre[After(A)] # <<>>
    BY <1>6, CloseFits
  <2> QED BY <1>1, <2>1, <2>2
<1>8. Fits(On(B, c), h, in) /\ Terminated(h, in) /\ h.n = f.n /\ h.pre = k.pre
  <2>1. CASE A.visit = "IfElse"
    <3>1. h = k
      BY <1>1, <1>2, <2>1 DEF Closing
    <3>2. A \in [visit : {"IfElse"}, has_else : BOOLEAN, block : BOOLEAN,
                 trueBB : BlockIds, falseBB : BlockIds, nextBB : BlockIds]
      BY <2>1 DEF FrameType
    <3>3. B = A
      BY <1>4, <3>2
    <3> QED BY <1>7, <3>1, <3>3
  <2>2. CASE A.visit = "IfThen"
    <3>1. h = EraseBlock(k, A.falseBB)
      BY <1>1, <1>2, <2>2 DEF Closing
    <3>2. /\ Fits(On(B, c), EraseBlock(k, A.falseBB), in)
          /\ Shrunk(k, A.falseBB, EraseBlock(k, A.falseBB))
      BY <1>5, <1>6, <1>7, <2>2, NoElseFits
    <3>3. h.n = k.n /\ h.pre = k.pre /\ h.code = k.code
      BY <3>1, <3>2 DEF Shrunk
    <3>4. Terminated(h, in)
      BY <1>7, <3>3 DEF Terminated
    <3> QED BY <1>7, <3>1, <3>2, <3>3, <3>4
  <2> QED BY <2>1, <2>2
<1>9. Shape(On(B, c)) /\ Ret \notin Owned(B)
  <2>1. ~InCond(A) /\ ~InCond(B) /\ A.visit # "FuncDefExit"
    BY <1>5 DEF InCond
  <2>2. Shape(On(B, c))
    BY <1>5, <1>6, <2>1, ShapeOn
  <2>3. Owned(B) \subseteq Owned(A)
    BY <1>5, <1>6, OwnedIs DEF SameIf
  <2> QED BY <1>6, <2>2, <2>3
<1>10. h.pre[B.nextBB] = <<>> => Returned(c, h, in)
  <2>1. SUFFICES ASSUME h.pre[B.nextBB] = <<>>, Loops(c) = {} PROVE h.pre[Ret] # <<>>
    BY DEF Returned
  <2>2. Terminated(f, in) /\ h.pre = f.pre
    BY <1>5, <1>7, <1>8, <2>1 DEF SameIf
  <2>3. Loops(On(A, c)) = {}
    <3>1. Loops(On(A, c)) = Loops(c) \cup (IF IsWhile(A) THEN {Len(c) + 1} ELSE {})
      BY DepthsOn
    <3>2. ~IsWhile(A)
      BY DEF IsWhile
    <3> QED BY <2>1, <3>1, <3>2
  <2> QED BY <1>6, <2>2, <2>3
<1>11. Matches(c, s, ws, os)
  <2>1. ~IsWhile(A)
    BY DEF IsWhile
  <2>2. LoopsMatch(c, ws)
    BY <1>6, <2>1, LoopsPlain
  <2> QED BY <1>6, <2>2 DEF Matches
<1>12. /\ c # <<>>
       /\ h.pre[B.nextBB] # <<>> => Agrees(c, h, B.nextBB, <<B.nextBB>>, ws, os, s)
       /\ h.pre[B.nextBB] = <<>> =>
            /\ Agrees(c, EraseBlock(h, B.nextBB), B.trueBB, <<B.nextBB>>, ws, os, s)
            /\ EraseBlock(h, B.nextBB).n = h.n
  BY <1>5, <1>6, <1>8, <1>9, <1>10, <1>11, JoinEnds
<1>13. Append(Front(list), A.nextBB) = <<B.nextBB>>
  BY <1>5, <1>6, OneFacts DEF SameIf
<1>14. B.nextBB = A.nextBB /\ B.trueBB = A.trueBB
  BY <1>5 DEF SameIf
<1> QED BY <1>2, <1>3, <1>8, <1>12, <1>13, <1>14

\* The end of a loop.
LEMMA WhileEnds ==
  ASSUME NEW A \in FrameType, NEW c \in Seq(FrameType),
         NEW f, NEW in, NEW list, NEW ws, NEW os, NEW sc,
         Agrees(On(A, c), f, in, list, ws, os, sc), A.visit = "WhileBody"
  PROVE  LET h == BrUnlessTerminated(f, in, A.whileBB) IN
         /\ Agrees(c, h, A.nextBB, Append(Front(list), A.nextBB), Front(ws), os, Around(A, sc))
         /\ h.n = f.n /\ c # <<>>
<1>1. PICK h : h = BrUnlessTerminated(f, in, A.whileBB)
  OBVIOUS
<1>2. PICK l : l = Append(Front(list), A.nextBB)
  OBVIOUS
<1>3. PICK s : s = Around(A, sc)
  OBVIOUS
<1>4. PICK t : t = A.nextBB
  OBVIOUS
<1>5. PICK w : w = Front(ws)
  OBVIOUS
<1>6. /\ Fits(On(A, c), f, in) /\ Shape(On(A, c)) /\ Conds(c) = {} /\ c # <<>>
      /\ {Entry, Ret} \subseteq BlockIds /\ Front(list) = <<>>
      /\ s \in Nat /\ ScopeMatches(c, s)
      /\ ws \in Seq(Branch) /\ os \in Seq(Branch)
      /\ LoopsMatch(On(A, c), ws) /\ OrsMatch(c, os)
  BY <1>3, BodyFacts
<1>7. Fits(On(A, c), h, in) /\ Terminated(h, in) /\ h.n = f.n
  <2>1. After(A) = A.whileBB
    BY DEF After
  <2>2. LET m == BrUnlessTerminated(f, in, After(A)) IN
        Fits(On(A, c), m, in) /\ Terminated(m, in) /\ m.n = f.n
    BY <1>6, CloseFits
  <2> QED BY <1>1, <2>1, <2>2
<1>8. h.pre[t] # <<>>
  <2>1. BranchedFor(A, h, in)
    BY <1>7, TopFacts
  <2> QED BY <1>4, <2>1 DEF BranchedFor
<1>9. Fits(c, h, t) /\ ~Terminated(h, t)
  BY <1>4, <1>6, <1>7, <1>8, JoinFits
<1>10. t \in 1..h.n
  BY <1>9, FitsFacts DEF Graph, Created
<1>11. Returned(c, h, t) /\ Lists(l, h, t)
  <2>1. l = <<t>>
    BY <1>2, <1>4, <1>6, OneFacts
  <2> QED BY <1>9, <1>10, <2>1 DEF Returned, Lists
<1>12. w \in Seq(Branch) /\ LoopsMatch(c, w)
  <2>1. IsWhile(A)
    BY DEF IsWhile
  <2> QED BY <1>5, <1>6, <2>1, LoopsPop
<1>13. Matches(c, s, w, os)
  BY <1>6, <1>12 DEF Matches
<1>14. ~InCond(A) /\ A.visit # "FuncDefExit"
  BY DEF InCond
<1>15. Agrees(c, h, t, l, w, os, s)
  BY <1>6, <1>9, <1>11, <1>12, <1>13, <1>14, Leave
<1> QED BY <1>1, <1>2, <1>3, <1>4, <1>5, <1>6, <1>7, <1>15

-----------------------------------------------------------------------------
(* The function definition: its first blocks, and its ret block at last.   *)

\* No call is left.
LEMMA NoCalls ==
  ASSUME NEW c, c = <<>>
  PROVE  /\ c \in Seq(FrameType)
         /\ AllPending(c) = {} /\ AllOwned(c) = {} /\ Heads(c) = {} /\ Rest(c) = {}
         /\ Loops(c) = {} /\ Conds(c) = {} /\ ~Emptied(c)
         /\ \A in : Returns(c, in) = {} /\ Dominated(c, in) = {}
         /\ Shape(c)
         /\ \A f : Holding(c, f) /\ \A in : Branched(c, f, in)
         /\ \A sc : ScopeMatches(c, sc) <=> sc = 1
         /\ \A ws \in Seq(Branch) : LoopsMatch(c, ws) <=> ws = <<>>
         /\ \A os \in Seq(Branch) : OrsMatch(c, os) <=> os = <<>>
<1>1. c \in Seq(FrameType)
  OBVIOUS
<1>2. Len(c) = 0 /\ Depths(c) = {}
  <2>1. Len(c) = 0
    BY <1>1
  <2> QED BY <2>1 DEF Depths
<1>3. Loops(c) = {} /\ Conds(c) = {} /\ Ors(c) = {} /\ Scopeds(c) = {}
  BY <1>2 DEF Loops, Conds, Ors, Scopeds
<1>4. /\ AllPending(c) = {} /\ AllOwned(c) = {} /\ Heads(c) = {} /\ Rest(c) = {}
      /\ ~Emptied(c) /\ Shape(c)
      /\ \A in : Returns(c, in) = {} /\ Dominated(c, in) = {}
      /\ \A f : Holding(c, f) /\ \A in : Branched(c, f, in)
  BY <1>2, <1>3 DEF AllPending, AllOwned, Heads, Rest, Emptied, Shape, Returns, Dominated, Holding, Branched
<1>5. \A T : T = {} => Count(T, Len(c)) = 0
  BY FS_EmptySet DEF Count
<1>6. \A sc : ScopeMatches(c, sc) <=> sc = 1
  BY <1>3, <1>5 DEF ScopeMatches
<1>7. ASSUME NEW s \in Seq(Branch) PROVE Len(s) = 0 <=> s = <<>>
  OBVIOUS
<1>8. \A ws \in Seq(Branch) : LoopsMatch(c, ws) <=> ws = <<>>
  BY <1>3, <1>5, <1>7 DEF LoopsMatch
<1>9. \A os \in Seq(Branch) : OrsMatch(c, os) <=> os = <<>>
  BY <1>3, <1>5, <1>7 DEF OrsMatch
<1> QED BY <1>1, <1>3, <1>4, <1>6, <1>8, <1>9

LEMMA FunctionBegins ==
  ASSUME MaxBlocks \in Nat, MaxBlocks >= 2,
         NEW B \in FrameType, B.visit = "Block", NEW F \in FrameType, F.visit = "FuncDefExit",
         NEW f, f \in {NewBlocks(EmptyFn, 2), Put(NewBlocks(EmptyFn, 2), Entry, <<"alloca">>)}
  PROVE  Agrees(On(B, On(F, <<>>)), f, Entry, <<Entry>>, <<>>, <<>>, 2) /\ f.n = 2
<1>1. PICK s : s = NewBlocks(EmptyFn, 2)
  OBVIOUS
<1>2. Sound(s, Entry, {Ret}, {}, {}) /\ ~Terminated(s, Entry) /\ s.blocks = {Entry, Ret} /\ s.n = 2
  BY <1>1, StartSound
<1>3. Sound(f, Entry, {Ret}, {}, {}) /\ ~Terminated(f, Entry) /\ f.blocks = {Entry, Ret} /\ f.n = 2
  <2>1. CASE f = s
    BY <1>2, <2>1
  <2>2. CASE f # s
    <3>1. PICK i : i = <<"alloca">>
      OBVIOUS
    <3>2. i \in Instructions /\ ~IsTerminator(i)
      BY <3>1 DEF Instructions, IsTerminator
    <3>3. f = Put(s, Entry, i)
      BY <1>1, <2>2, <3>1
    <3> QED BY <1>2, <3>2, <3>3, PlainSound
  <2> QED BY <2>1, <2>2
<1>4. PICK z : z = <<>>
  OBVIOUS
<1>5. /\ z \in Seq(FrameType)
      /\ AllPending(z) = {} /\ AllOwned(z) = {} /\ Heads(z) = {} /\ Rest(z) = {}
      /\ Loops(z) = {} /\ Conds(z) = {} /\ ~Emptied(z)
      /\ Returns(z, Entry) = {} /\ Shape(z) /\ Holding(z, f) /\ Branched(z, f, Entry)
      /\ ScopeMatches(z, 1) /\ LoopsMatch(z, <<>>) /\ OrsMatch(z, <<>>)
  <2>1. <<>> \in Seq(Branch)
    OBVIOUS
  <2>2. /\ z \in Seq(FrameType)
        /\ AllPending(z) = {} /\ AllOwned(z) = {} /\ Heads(z) = {} /\ Rest(z) = {}
        /\ Loops(z) = {} /\ Conds(z) = {} /\ ~Emptied(z)
        /\ \A in : Returns(z, in) = {} /\ Dominated(z, in) = {}
        /\ Shape(z)
        /\ \A h : Holding(z, h) /\ \A in : Branched(z, h, in)
        /\ \A sc : ScopeMatches(z, sc) <=> sc = 1
        /\ \A ws \in Seq(Branch) : LoopsMatch(z, ws) <=> ws = <<>>
        /\ \A os \in Seq(Branch) : OrsMatch(z, os) <=> os = <<>>
    BY <1>4, NoCalls
  <2> QED BY <2>1, <2>2
<1>6. {Entry, Ret} \subseteq BlockIds
  BY DEF BlockIds, Entry, Ret
<1>7. Pending(F) = {Ret} /\ Owned(F) = {Entry, Ret}
  BY <1>6, OwnedIs
<1>8. /\ ~InCond(F) /\ ~HasCond(F) /\ ~IsWhile(F) /\ ~IsIf(F) /\ ~Pushed(F) /\ Scoped(F) /\ Resumes(F)
      /\ ~InCond(B) /\ ~HasCond(B) /\ ~IsWhile(B) /\ ~Pushed(B) /\ ~Scoped(B) /\ Plain(B)
      /\ BranchedFor(F, f, Entry) /\ Distinct(F)
  BY DEF InCond, HasCond, IsWhile, IsIf, Pushed, Scoped, Resumes, Plain, BranchedFor, Distinct
<1>9. PICK d : d = On(F, z)
  OBVIOUS
<1>10. d \in Seq(FrameType) /\ d # <<>> /\ Head(d) = F
  BY <1>5, <1>9, OnFacts
<1>11. Returns(d, Entry) = {} /\ Dominated(d, Entry) = {}
  <2>1. Returns(d, Entry) = {}
    BY <1>5, <1>8, <1>9, ReturnsOn
  <2>2. Heads(d) = {}
    BY <1>5, <1>8, <1>9, BlocksOn
  <2>3. Rest(d) = {}
    BY <1>5, <1>8, <1>9, RestOn
  <2>4. Dominated(d, Entry) = {}
    BY <2>2, <2>3, DominatedIs
  <2> QED BY <2>1, <2>4
<1>12. Fits(d, f, Entry)
  <2>1. PICK P : P = {Ret}
    OBVIOUS
  <2>2. P = AllPending(z) \cup Pending(F)
    BY <1>5, <1>7, <2>1
  <2>3. Sound(f, Entry, P, Returns(d, Entry), Dominated(d, Entry))
    BY <1>3, <1>11, <2>1
  <2>4. Owned(F) \subseteq f.blocks /\ Owned(F) \cap AllOwned(z) = {}
    BY <1>3, <1>5, <1>7
  <2> QED BY <1>5, <1>8, <1>9, <2>2, <2>3, <2>4, FitsOn
<1>13. Shape(d) /\ Conds(d) = {}
  <2>1. Shape(d)
    BY <1>4, <1>5, <1>8, <1>9, ShapeOn
  <2>2. Conds(d) = {}
    BY <1>5, <1>8, <1>9, DepthsOn
  <2> QED BY <2>1, <2>2
<1>14. Shape(On(B, d))
  BY <1>8, <1>10, <1>13, ShapeOn
<1>15. Fits(On(B, d), f, Entry)
  BY <1>6, <1>8, <1>10, <1>12, PlainFits
<1>16. Matches(On(B, d), 2, <<>>, <<>>)
  <2>1. ScopeMatches(d, 2)
    <3>1. 2 \in Nat /\ 2 - 1 = 1
      OBVIOUS
    <3> QED BY <1>5, <1>8, <1>9, <3>1, ScopeOn
  <2>2. LoopsMatch(d, <<>>) /\ OrsMatch(d, <<>>)
    BY <1>5, <1>8, <1>9, LoopsPlain, OrsPlain
  <2>3. Matches(d, 2, <<>>, <<>>)
    BY <2>1, <2>2 DEF Matches
  <2> QED BY <1>8, <1>10, <2>3, SameMatches
<1>17. ListMatches(On(B, d), f, Entry, <<Entry>>)
  <2>1. Entry \in 1..f.n
    BY <1>3 DEF Entry
  <2>2. ~Emptied(d)
    BY <1>10, <1>13, ListOn
  <2> QED BY <1>10, <2>1, <2>2, ListOn
<1>18. On(B, d) \in Seq(FrameType) /\ Open(On(B, d), f, Entry)
  BY <1>3, <1>10, OnFacts DEF Open
<1>19. <<>> \in Seq(Branch) /\ 2 \in Nat
  OBVIOUS
<1>20. Agrees(On(B, d), f, Entry, <<Entry>>, <<>>, <<>>, 2)
  BY <1>14, <1>15, <1>16, <1>17, <1>18, <1>19 DEF Agrees, Builds
<1> QED BY <1>3, <1>4, <1>9, <1>20

\* Where the implicit return goes, if there is one to be made.
Stored(f, in, s) == s = f \/ (~Terminated(f, in) /\ s = PutOp(f, in))

\* Behind the body the ret block is begun: whatever the body did, something
\* branches to it.
LEMMA FunctionEnds ==
  ASSUME NEW A \in FrameType, A.visit = "FuncDefExit", NEW c \in Seq(FrameType),
         NEW f, NEW in, NEW list, NEW ws, NEW os, NEW sc,
         Agrees(On(A, c), f, in, list, ws, os, sc),
         NEW s, Stored(f, in, s), NEW b, b = BrUnlessTerminated(s, in, Ret),
         NEW l, l \in {b, PutOp(b, Ret)}
  PROVE  LET g == Put(l, Ret, <<"ret">>) IN
         /\ c = <<>> /\ Agrees(c, g, Ret, Front(list), ws, os, sc - 1)
         /\ g.n = f.n /\ Terminated(g, Ret) /\ Last(g.code[Ret]) = <<"ret">>
<1>1. PICK d \in Seq(FrameType) : d = On(A, c) /\ d # <<>>
  BY OnFacts
<1>2. /\ Fits(d, f, in) /\ Shape(d) /\ c = <<>>
      /\ Terminated(f, in) => (Loops(d) = {} => f.pre[Ret] # <<>>)
      /\ ScopeMatches(d, sc) /\ LoopsMatch(d, ws) /\ OrsMatch(d, os)
      /\ ws \in Seq(Branch) /\ os \in Seq(Branch) /\ sc \in Nat /\ ListMatches(d, f, in, list)
  BY <1>1, Unfold
<1>3. /\ AllPending(c) = {} /\ AllOwned(c) = {} /\ Loops(c) = {} /\ Conds(c) = {} /\ ~Emptied(c)
      /\ \A to : Returns(c, to) = {} /\ Dominated(c, to) = {}
      /\ Shape(c) /\ \A h : Holding(c, h) /\ \A to : Branched(c, h, to)
      /\ \A n : ScopeMatches(c, n) <=> n = 1
      /\ LoopsMatch(c, ws) <=> ws = <<>>
      /\ OrsMatch(c, os) <=> os = <<>>
  BY <1>2, NoCalls
<1>4. /\ ~InCond(A) /\ ~HasCond(A) /\ ~IsWhile(A) /\ ~Pushed(A) /\ Scoped(A) /\ A.visit # "WhileCond"
  BY DEF InCond, HasCond, IsWhile, Pushed, Scoped
<1>5. {Entry, Ret} \subseteq BlockIds /\ Ret \in AllPending(d) \ Dead(d)
  BY <1>1, <1>2, FitsFacts, BottomFacts
<1>6. Pending(A) = {Ret} /\ Owned(A) = {Entry, Ret}
  BY <1>5, OwnedIs
<1>7. Loops(d) = {}
  BY <1>1, <1>3, <1>4, DepthsOn
<1>8. Fits(d, s, in) /\ s.n = f.n /\ (Terminated(s, in) => s.pre[Ret] # <<>>)
  <2>1. CASE s = f
    BY <1>2, <1>7, <2>1
  <2>2. CASE ~Terminated(f, in) /\ s = PutOp(f, in)
    BY <1>2, <2>2, OpFits
  <2> QED BY <2>1, <2>2 DEF Stored
<1>9. Fits(d, b, in) /\ b.n = f.n /\ Terminated(b, in) /\ b.pre[Ret] # <<>>
  <2>1. CASE Terminated(s, in)
    BY <1>8, <2>1 DEF BrUnlessTerminated
  <2>2. CASE ~Terminated(s, in)
    <3>1. b = CreateBr(s, in, Ret)
      BY <2>2 DEF BrUnlessTerminated
    <3>2. Fits(d, b, in) /\ Jumped(s, in, Ret, b)
      BY <1>1, <1>2, <1>5, <1>8, <2>2, <3>1, BrFits
    <3> QED BY <1>8, <3>2 DEF Jumped, Grown
  <2> QED BY <2>1, <2>2
<1>10. Fits(c, b, Ret) /\ ~Terminated(b, Ret)
  <2>1. PICK Z : Z = Returns(d, in)
    OBVIOUS
  <2>2. PICK t : t = Ret
    OBVIOUS
  <2>3. Sound(b, in, AllPending(c) \cup Pending(A), Z, Dominated(On(A, c), in))
    <3>1. Sound(b, in, AllPending(d), Z, Dominated(d, in))
      BY <1>9, <2>1 DEF Fits
    <3>2. AllPending(On(A, c)) = AllPending(c) \cup Pending(A)
      BY BlocksOn
    <3> QED BY <1>1, <3>1, <3>2
  <2>4. Pending(A) = {t} /\ b.pre[t] # <<>> /\ Returns(c, t) \subseteq Z /\ Owned(A) \cap AllOwned(c) = {}
    BY <1>3, <1>6, <1>9, <2>2
  <2>5. Fits(c, b, t) /\ ~Terminated(b, t)
    BY <1>3, <1>5, <1>9, <2>3, <2>4, PopFits
  <2> QED BY <2>2, <2>5
<1>11. Fits(c, l, Ret) /\ ~Terminated(l, Ret) /\ l.n = f.n
  <2>1. CASE l = b
    BY <1>9, <1>10, <2>1
  <2>2. CASE l # b
    <3>1. l = PutOp(b, Ret)
      BY <2>2
    <3> QED BY <1>9, <1>10, <3>1, OpFits
  <2> QED BY <2>1, <2>2
<1>12. PICK g : g = Put(l, Ret, <<"ret">>)
  OBVIOUS
<1>13. /\ Sound(g, Ret, AllPending(c), Returns(c, Ret), Dominated(c, Ret))
       /\ Terminated(g, Ret) /\ Last(g.code[Ret]) = <<"ret">> /\ g.n = f.n
  <2>1. Sound(l, Ret, AllPending(c), Returns(c, Ret), Dominated(c, Ret))
    BY <1>11 DEF Fits
  <2> QED BY <1>11, <1>12, <2>1, RetSound
<1>14. Fits(c, g, Ret)
  BY <1>3, <1>13 DEF Fits
<1>15. Matches(c, sc - 1, ws, os) /\ sc - 1 \in Nat
  <2>1. ScopeMatches(c, sc - 1) /\ sc - 1 > 0
    BY <1>1, <1>2, <1>4, ScopeOn
  <2>2. LoopsMatch(c, ws) /\ OrsMatch(c, os)
    BY <1>1, <1>2, <1>4, LoopsPlain, OrsPlain
  <2> QED BY <1>2, <2>1, <2>2 DEF Matches
<1>16. ListMatches(c, g, Ret, Front(list))
  <2>0. /\ IF Emptied(c) \/ A.visit = "WhileCond" THEN list = <<>> ELSE \E a \in 1..f.n : list = <<a>>
        /\ ~InCond(A) /\ ~HasCond(A) /\ ~Terminated(f, in) => list = <<in>>
    <3>1. ListMatches(On(A, c), f, in, list)
      BY <1>1, <1>2
    <3> QED BY <3>1, ListOn
  <2>1. \E a \in 1..f.n : list = <<a>>
    BY <1>3, <1>4, <2>0
  <2>2. PICK a \in 1..f.n : list = <<a>>
    BY <2>1
  <2>3. Front(<<a>>) = <<>>
    BY DEF Front
  <2> QED BY <1>2, <2>2, <2>3 DEF ListMatches
<1>17. Agrees(c, g, Ret, Front(list), ws, os, sc - 1)
  BY <1>2, <1>3, <1>14, <1>15, <1>16 DEF Agrees, Builds, Open
<1> QED BY <1>2, <1>12, <1>13, <1>17

-----------------------------------------------------------------------------
(* break and continue.                                                     *)

InnermostOf(d) ==
  d[CHOOSE k \in DOMAIN d : /\ d[k].visit = "WhileBody"
                            /\ \A j \in 1..(k - 1) : d[j].visit # "WhileBody"]

\* The branch targets on top of While_Stack are those of the innermost loop.
LEMMA Innermost ==
  ASSUME NEW d \in Seq(FrameType), Conds(d) = {}, Loops(d) # {}, NEW ws \in Seq(Branch), LoopsMatch(d, ws),
         NEW W, W = InnermostOf(d)
  PROVE  \E p \in Loops(d) :
           /\ W = Frame(d, p) /\ W.visit = "WhileBody" /\ W \in FrameType
           /\ Last(ws) = Targets(W)
<1>1. Len(d) \in Nat /\ DOMAIN d = 1..Len(d) /\ Depths(d) = 1..Len(d) /\ Loops(d) \subseteq Depths(d)
  BY DEF Depths, Loops
<1>2. PICK T : T = Loops(d)
  OBVIOUS
<1>3. PICK n \in Nat : n = Len(d)
  BY <1>1
<1>4. T \in SUBSET (1..n) /\ T # {} /\ IsFiniteSet(T) /\ T \in SUBSET Nat
  <2>1. T \in SUBSET (1..n)
    BY <1>1, <1>2, <1>3
  <2>2. IsFiniteSet(1..n)
    BY <1>3, FS_Interval
  <2>3. IsFiniteSet(T)
    BY <2>1, <2>2, FS_Subset
  <2> QED BY <1>2, <2>1, <2>3
<1>5. PICK p \in T : \A q \in T : q <= p
  BY <1>4, MaxMember
<1>6. \A q \in Depths(d) : Frame(d, q) \in FrameType
  <2> SUFFICES ASSUME NEW q \in Depths(d) PROVE Frame(d, q) \in FrameType
    OBVIOUS
  <2>1. Len(d) + 1 - q \in 1..Len(d)
    BY <1>1
  <2> QED BY <2>1 DEF Frame
<1>7. ASSUME NEW q \in Depths(d) PROVE q \in T <=> Frame(d, q).visit = "WhileBody"
  <2>1. ~HasCond(Frame(d, q))
    BY DEF Conds
  <2> QED BY <1>2, <2>1 DEF Loops, IsWhile, HasCond
<1>8. PICK k \in 1..n : k = n + 1 - p
  BY <1>4, <1>5
<1>9. d[k].visit = "WhileBody" /\ d[k] = Frame(d, p)
  BY <1>1, <1>3, <1>4, <1>5, <1>7, <1>8 DEF Frame
<1>10. ASSUME NEW j \in 1..(k - 1) PROVE d[j].visit # "WhileBody"
  <2>1. PICK q \in 1..n : q = n + 1 - j /\ q > p /\ n + 1 - q = j
    BY <1>4, <1>5, <1>8, <1>10
  <2>2. q \notin T
    BY <1>4, <1>5, <2>1
  <2>3. Frame(d, q) = d[j]
    BY <1>3, <2>1 DEF Frame
  <2> QED BY <1>1, <1>3, <1>7, <2>2, <2>3
<1>11. ASSUME NEW i \in DOMAIN d, d[i].visit = "WhileBody", \A j \in 1..(i - 1) : d[j].visit # "WhileBody"
       PROVE  i = k
  <2>1. i \in 1..n
    BY <1>1, <1>3
  <2>2. ~(i < k)
    <3> SUFFICES ASSUME i < k PROVE FALSE
      OBVIOUS
    <3>1. i \in 1..(k - 1)
      BY <2>1
    <3> QED BY <1>10, <1>11, <3>1
  <2>3. ~(k < i)
    <3> SUFFICES ASSUME k < i PROVE FALSE
      OBVIOUS
    <3>1. k \in 1..(i - 1)
      BY <2>1
    <3> QED BY <1>9, <1>11, <3>1
  <2> QED BY <2>1, <2>2, <2>3
<1>12. W = Frame(d, p)
  <2>1. k \in DOMAIN d
    BY <1>1, <1>3
  <2>2. k = CHOOSE i \in DOMAIN d : /\ d[i].visit = "WhileBody"
                                    /\ \A j \in 1..(i - 1) : d[j].visit # "WhileBody"
    BY <1>9, <1>10, <1>11, <2>1
  <2> QED BY <1>9, <2>2 DEF InnermostOf
<1>13. ws[Len(ws)] = Targets(Frame(d, p))
  <2>1. Count(T, p) = Count(T, n)
    BY <1>4, <1>5, CountBelow
  <2> QED BY <1>2, <1>3, <1>5, <2>1 DEF LoopsMatch
<1>14. Frame(d, p) \in FrameType /\ Frame(d, p).visit = "WhileBody" /\ p \in Loops(d)
  BY <1>1, <1>2, <1>5, <1>6, <1>9
<1>15. Last(ws) = ws[Len(ws)]
  BY DEF Last
<1> QED BY <1>12, <1>13, <1>14, <1>15

\* break and continue jump to the end and to the head of the innermost loop.
LEMMA LoopJumps ==
  ASSUME NEW A \in FrameType, NEW c \in Seq(FrameType), NEW f, NEW in, NEW list, NEW ws, NEW os, NEW sc,
         Agrees(On(A, c), f, in, list, ws, os, sc), A.visit = "Stmt",
         NEW d, d = On(A, c), \E k \in DOMAIN d : d[k].visit = "WhileBody",
         NEW W, W = InnermostOf(d),
         NEW t, t \in {W.whileBB, W.nextBB}
  PROVE  LET h == CreateBr(f, in, t) IN
         /\ Last(ws).trueBB = W.whileBB /\ Last(ws).falseBB = W.nextBB
         /\ Agrees(c, h, in, list, ws, os, sc) /\ c # <<>> /\ h.n = f.n /\ h.succ[in] = <<t>>
<1>1. Conds(c) = {} /\ ws \in Seq(Branch) /\ LoopsMatch(c, ws)
  BY StatementFacts DEF Matches
<1>2. ~IsWhile(A) /\ ~HasCond(A)
  BY DEF IsWhile, HasCond
<1>3. d \in Seq(FrameType) /\ Extends(d, A, c)
  BY OnFacts
<1>4. Loops(d) = Loops(c) /\ Conds(d) = {} /\ Loops(c) \subseteq Depths(c)
  BY <1>1, <1>2, DepthsOn
<1>5. LoopsMatch(d, ws)
  BY <1>1, <1>2, LoopsPlain
<1>6. Loops(d) # {}
  <2>1. PICK k \in 1..Len(d) : d[k].visit = "WhileBody"
    BY <1>3
  <2>2. Len(d) + 1 - k \in 1..Len(d) /\ Len(d) + 1 - (Len(d) + 1 - k) = k
    BY <1>3
  <2>3. Len(d) + 1 - k \in Loops(d)
    BY <2>1, <2>2 DEF Loops, Depths, Frame, IsWhile
  <2> QED BY <2>3
<1>7. PICK p \in Loops(d) : /\ W = Frame(d, p) /\ W.visit = "WhileBody" /\ W \in FrameType
                            /\ Last(ws) = Targets(W)
  BY <1>1, <1>3, <1>4, <1>5, <1>6, Innermost
<1>8. p \in Depths(c) /\ Frame(c, p) = W
  BY <1>3, <1>4, <1>7 DEF Extends
<1>9. LET h == CreateBr(f, in, t) IN
      Agrees(c, h, in, list, ws, os, sc) /\ c # <<>> /\ h.n = f.n /\ h.succ[in] = <<t>>
  <2>1. JumpsOut(c, t)
    BY <1>7, <1>8 DEF JumpsOut
  <2>2. PICK g : g = f
    OBVIOUS
  <2>3. g \in {f, PutOp(f, in)}
    BY <2>2
  <2>4. LET h == CreateBr(g, in, t) IN
        Agrees(c, h, in, list, ws, os, sc) /\ c # <<>> /\ h.n = f.n /\ h.succ[in] = <<t>>
    BY <2>1, <2>3, JumpEnds
  <2> QED BY <2>2, <2>4
<1>10. Last(ws).trueBB = W.whileBB /\ Last(ws).falseBB = W.nextBB
  BY <1>7 DEF Targets
<1> QED BY <1>9, <1>10

-----------------------------------------------------------------------------
(* The steps.                                                              *)

\* The blocks that the bounds leave are enough for a statement or a connective.
LEMMA Room ==
  ASSUME NEW n \in Nat, NEW st, NEW cn, Within(n, st, cn)
  PROVE  /\ st \in Nat /\ cn \in Nat /\ MaxBlocks \in Nat /\ n <= MaxBlocks
         /\ st > 0 => n + 3 <= MaxBlocks /\ Within(n, st - 1, cn) /\ Within(n + 3, st - 1, cn)
         /\ cn > 0 => n + 1 <= MaxBlocks /\ Within(n + 1, st, cn - 1)
<1>1. st \in Nat /\ cn \in Nat
  BY DEF Within
<1>2. PICK b \in Bounds : st <= b[1] /\ cn <= b[2] /\ n + 3 * st + cn <= 2 + 3 * b[1] + b[2]
  BY DEF Within
<1>3. b[1] \in Nat /\ b[2] \in Nat
  BY BoundsNat
<1>4. MaxBlocks \in Nat /\ 2 + 3 * b[1] + b[2] <= MaxBlocks
  BY <1>2, BlocksNat
<1>5. ASSUME st > 0
      PROVE  /\ n + 3 <= MaxBlocks /\ st - 1 \in Nat
             /\ st - 1 <= b[1] /\ n + 3 * (st - 1) + cn <= 2 + 3 * b[1] + b[2]
             /\ (n + 3) + 3 * (st - 1) + cn <= 2 + 3 * b[1] + b[2]
  BY <1>1, <1>2, <1>3, <1>4, <1>5
<1>6. ASSUME cn > 0
      PROVE  /\ n + 1 <= MaxBlocks /\ cn - 1 \in Nat
             /\ cn - 1 <= b[2] /\ (n + 1) + 3 * st + (cn - 1) <= 2 + 3 * b[1] + b[2]
  BY <1>1, <1>2, <1>3, <1>4, <1>6
<1>7. n <= MaxBlocks
  BY <1>1, <1>2, <1>3, <1>4
<1> QED BY <1>1, <1>2, <1>4, <1>5, <1>6, <1>7 DEF Within

\* What is known before a step of a call other than the first.
LEMMA Opened ==
  ASSUME Inv, calls # <<>>, Top.visit # "FuncDef"
  PROVE  /\ Top \in FrameType /\ Below \in Seq(FrameType) /\ calls = On(Top, Below)
         /\ Agrees(On(Top, Below), fn, insert, cur_basic_block_list, while_stack, or_stack, scope)
         /\ fn.n \in Nat /\ Within(fn.n, stmts, conns)
         /\ void \in BOOLEAN /\ pre_enter_scope \in BOOLEAN /\ cond \in CondType
         /\ pre_enter_scope => Top.visit = "Block"
<1>1. Running /\ Within(fn.n, stmts, conns)
  <2>1. Starting => Top.visit = "FuncDef"
    BY DEF Starting, Top
  <2> QED BY <2>1 DEF Inv
<1>2. Agrees(calls, fn, insert, cur_basic_block_list, while_stack, or_stack, scope) /\ calls \in Seq(FrameType)
  BY <1>1 DEF Running, Agrees
<1>3. calls = On(Top, Below) /\ Top \in FrameType /\ Below \in Seq(FrameType)
  BY <1>2, Unstack DEF Top, Below
<1>4. fn.n \in Nat
  <2>1. Fits(calls, fn, insert)
    BY <1>2 DEF Agrees, Builds
  <2>2. fn \in FnType
    BY <1>2, <2>1, FitsFacts
  <2> QED BY <2>2 DEF FnType
<1>5. pre_enter_scope => Top.visit = "Block"
  <2> SUFFICES ASSUME pre_enter_scope PROVE Top.visit = "Block"
    OBVIOUS
  <2>1. calls = <<[visit |-> "Block"], [visit |-> "FuncDefExit"]>>
    BY <1>1 DEF Running
  <2>2. Top = [visit |-> "Block"]
    BY <2>1 DEF Top
  <2> QED BY <2>2
<1>6. void \in BOOLEAN /\ pre_enter_scope \in BOOLEAN /\ cond \in CondType
  BY DEF Inv
<1>7. Agrees(On(Top, Below), fn, insert, cur_basic_block_list, while_stack, or_stack, scope)
  BY <1>2, <1>3
<1> QED BY <1>1, <1>3, <1>4, <1>5, <1>6, <1>7

\* What has to be shown behind it.
LEMMA Resumed ==
  ASSUME void' \in BOOLEAN, ~pre_enter_scope', pre_enter_scope' \in BOOLEAN, cond' \in CondType,
         Agrees(calls', fn', insert', cur_basic_block_list', while_stack', or_stack', scope'),
         calls' # <<>>, Within(fn'.n, stmts', conns')
  PROVE  Inv'
<1>1. Running'
  BY DEF Running
<1> QED BY <1>1 DEF Inv

LEMMA FuncDefEnterStep ==
  ASSUME Inv, FuncDefEnter PROVE Inv'
<1>1. calls # <<>> /\ Top.visit = "FuncDef"
  BY DEF FuncDefEnter, At
<1>2. Starting /\ Within(2, stmts, conns)
  <2> SUFFICES ASSUME Running PROVE FALSE
    BY DEF Inv
  <2>1. Agrees(calls, fn, insert, cur_basic_block_list, while_stack, or_stack, scope) /\ calls \in Seq(FrameType)
    BY DEF Running, Agrees
  <2>2. calls = On(Top, Below) /\ Top \in FrameType /\ Below \in Seq(FrameType)
    BY <1>1, <2>1, Unstack DEF Top, Below
  <2>3. Agrees(On(Top, Below), fn, insert, cur_basic_block_list, while_stack, or_stack, scope)
    BY <2>1, <2>2
  <2>4. Top.visit # "FuncDef"
    BY <2>2, <2>3, Unfold
  <2> QED BY <1>1, <2>4
<1>3. MaxBlocks \in Nat /\ MaxBlocks >= 2
  <2>1. MaxBlocks \in Nat /\ 2 <= MaxBlocks
    BY <1>2, Room
  <2> QED BY <2>1
<1>4. PICK B : B = [visit |-> "Block"]
  OBVIOUS
<1>5. PICK F : F = [visit |-> "FuncDefExit"]
  OBVIOUS
<1>6. B \in FrameType /\ B.visit = "Block" /\ F \in FrameType /\ F.visit = "FuncDefExit"
  BY <1>4, <1>5 DEF FrameType
<1>7. PICK g : g = fn'
  OBVIOUS
<1>8. g \in {NewBlocks(EmptyFn, 2), Put(NewBlocks(EmptyFn, 2), Entry, <<"alloca">>)}
  BY <1>7 DEF FuncDefEnter
<1>9. PICK z : z = <<>>
  OBVIOUS
<1>10. Agrees(On(B, On(F, z)), g, Entry, <<Entry>>, <<>>, <<>>, 2) /\ g.n = 2
  <2>1. Agrees(On(B, On(F, <<>>)), g, Entry, <<Entry>>, <<>>, <<>>, 2) /\ g.n = 2
    BY <1>3, <1>6, <1>8, FunctionBegins
  <2> QED BY <1>9, <2>1
<1>11. calls' = <<B, F>> \o z /\ z \in Seq(FrameType)
  <2>1. Below = z
    BY <1>2, <1>9 DEF Starting, Below
  <2> QED BY <1>4, <1>5, <1>9, <2>1 DEF FuncDefEnter
<1>12. calls' = On(B, On(F, z))
  BY <1>6, <1>11, OnTwo
<1>13. calls' = <<B, F>>
  BY <1>9, <1>11
<1>14. /\ insert' = Entry /\ cur_basic_block_list' = <<Entry>> /\ while_stack' = <<>> /\ or_stack' = <<>>
       /\ scope' = 2 /\ pre_enter_scope' = TRUE
       /\ void' = void /\ stmts' = stmts /\ conns' = conns /\ cond' = cond
  BY <1>2 DEF FuncDefEnter, Starting
<1>15. Running'
  <2>1. Agrees(calls', fn', insert', cur_basic_block_list', while_stack', or_stack', scope')
    BY <1>7, <1>10, <1>12, <1>14
  <2>2. calls' # <<>>
    BY <1>13
  <2> QED BY <1>4, <1>5, <1>13, <2>1, <2>2 DEF Running
<1>16. Within(fn'.n, stmts', conns')
  BY <1>2, <1>7, <1>10, <1>14
<1>17. void \in BOOLEAN /\ cond \in CondType
  BY DEF Inv
<1> QED BY <1>14, <1>15, <1>16, <1>17 DEF Inv

LEMMA FuncDefExitStep ==
  ASSUME Inv, FuncDefExit PROVE Inv'
<1>1. calls # <<>> /\ Top.visit = "FuncDefExit"
  BY DEF FuncDefExit, At
<1>2. /\ Top \in FrameType /\ Below \in Seq(FrameType)
      /\ Agrees(On(Top, Below), fn, insert, cur_basic_block_list, while_stack, or_stack, scope)
      /\ Within(fn.n, stmts, conns)
      /\ void \in BOOLEAN /\ pre_enter_scope \in BOOLEAN /\ cond \in CondType
      /\ ~pre_enter_scope
  BY <1>1, Opened
<1>3. PICK s : s = IF void \/ Terminated(fn, insert) THEN fn ELSE PutOp(fn, insert)
  OBVIOUS
<1>4. PICK b : b = BrUnlessTerminated(s, insert, Ret)
  OBVIOUS
<1>5. PICK l : l = IF void THEN b ELSE PutOp(b, Ret)
  OBVIOUS
<1>6. Stored(fn, insert, s) /\ l \in {b, PutOp(b, Ret)}
  BY <1>2, <1>3, <1>5 DEF Stored
<1>7. PICK g : g = Put(l, Ret, <<"ret">>)
  OBVIOUS
<1>8. /\ Below = <<>> /\ Agrees(Below, g, Ret, Front(cur_basic_block_list), while_stack, or_stack, scope - 1)
      /\ g.n = fn.n /\ Terminated(g, Ret) /\ Last(g.code[Ret]) = <<"ret">>
  <2>1. LET h == Put(l, Ret, <<"ret">>) IN
        /\ Below = <<>> /\ Agrees(Below, h, Ret, Front(cur_basic_block_list), while_stack, or_stack, scope - 1)
        /\ h.n = fn.n /\ Terminated(h, Ret) /\ Last(h.code[Ret]) = <<"ret">>
    BY <1>1, <1>2, <1>4, <1>6, FunctionEnds
  <2> QED BY <1>7, <2>1
<1>9. /\ fn' = g /\ insert' = Ret /\ scope' = scope - 1 /\ cur_basic_block_list' = Front(cur_basic_block_list)
      /\ calls' = Below
      /\ while_stack' = while_stack /\ or_stack' = or_stack /\ pre_enter_scope' = pre_enter_scope
      /\ void' = void /\ stmts' = stmts /\ conns' = conns /\ cond' = cond
  BY <1>3, <1>4, <1>5, <1>7 DEF FuncDefExit
<1>10. Running'
  BY <1>2, <1>8, <1>9 DEF Running
<1> QED BY <1>2, <1>8, <1>9, <1>10 DEF Inv

LEMMA BlockEnterStep ==
  ASSUME Inv, BlockEnter PROVE Inv'
<1>1. calls # <<>> /\ Top.visit = "Block"
  BY DEF BlockEnter, At
<1>2. /\ Top \in FrameType /\ Below \in Seq(FrameType)
      /\ Agrees(On(Top, Below), fn, insert, cur_basic_block_list, while_stack, or_stack, scope)
      /\ Within(fn.n, stmts, conns) /\ fn.n \in Nat
      /\ void \in BOOLEAN /\ pre_enter_scope \in BOOLEAN /\ cond \in CondType
  BY <1>1, Opened
<1>3. PICK p \in BOOLEAN : p = ~pre_enter_scope
  BY <1>2
<1>4. PICK B : B = [visit |-> "Items", need_exit_scope |-> p, first |-> TRUE]
  OBVIOUS
<1>5. B \in FrameType /\ B.visit = "Items" /\ B.first /\ B.need_exit_scope = p
  BY <1>4 DEF FrameType
<1>6. PICK s : s = IF B.need_exit_scope THEN scope + 1 ELSE scope
  OBVIOUS
<1>7. Agrees(On(B, Below), fn, insert, cur_basic_block_list, while_stack, or_stack, s)
  BY <1>1, <1>2, <1>5, <1>6, BlockBegins
<1>8. On(B, Below) # <<>>
  BY <1>2, <1>5, OnFacts
<1>9. scope' = s /\ calls' = On(B, Below)
  BY <1>3, <1>4, <1>5, <1>6 DEF BlockEnter, On
<1>10. /\ fn' = fn /\ insert' = insert /\ cur_basic_block_list' = cur_basic_block_list
       /\ while_stack' = while_stack /\ or_stack' = or_stack /\ pre_enter_scope' = FALSE
       /\ void' = void /\ stmts' = stmts /\ conns' = conns /\ cond' = cond
  BY DEF BlockEnter
<1> QED BY <1>2, <1>7, <1>8, <1>9, <1>10, Resumed

LEMMA BlockItemStep ==
  ASSUME Inv, BlockItem PROVE Inv'
<1>1. calls # <<>> /\ Top.visit = "Items"
  BY DEF BlockItem, At
<1>2. /\ Top \in FrameType /\ Below \in Seq(FrameType)
      /\ Agrees(On(Top, Below), fn, insert, cur_basic_block_list, while_stack, or_stack, scope)
      /\ Within(fn.n, stmts, conns) /\ fn.n \in Nat
      /\ void \in BOOLEAN /\ pre_enter_scope \in BOOLEAN /\ cond \in CondType
      /\ ~pre_enter_scope
  BY <1>1, Opened
<1>3. PICK X : X = [visit |-> "Stmt", item |-> TRUE]
  OBVIOUS
<1>4. PICK B : B = [Top EXCEPT !.first = FALSE]
  OBVIOUS
<1>5. X \in FrameType /\ X.visit = "Stmt"
  BY <1>3 DEF FrameType
<1>6. B \in FrameType /\ B.visit = "Items" /\ ~B.first /\ B.need_exit_scope = Top.need_exit_scope
  <2>1. Top \in [visit : {"Items"}, need_exit_scope : BOOLEAN, first : BOOLEAN]
    BY <1>1, <1>2 DEF FrameType
  <2>2. B \in [visit : {"Items"}, need_exit_scope : BOOLEAN, first : BOOLEAN]
    BY <1>4, <2>1
  <2> QED BY <1>4, <2>1, <2>2 DEF FrameType
<1>7. Top.first \/ ~Terminated(fn, insert)
  BY DEF BlockItem, LoopBreaks
<1>8. Agrees(On(X, On(B, Below)), fn, insert, cur_basic_block_list, while_stack, or_stack, scope)
  BY <1>1, <1>2, <1>5, <1>6, <1>7, ItemBegins
<1>9. On(B, Below) \in Seq(FrameType)
  BY <1>2, <1>6, OnFacts
<1>10. On(X, On(B, Below)) # <<>>
  BY <1>5, <1>9, OnFacts
<1>11. calls' = On(X, On(B, Below))
  <2>1. calls' = <<X, B>> \o Below
    BY <1>3, <1>4 DEF BlockItem
  <2>2. <<X, B>> \o Below = On(X, On(B, Below))
    BY <1>2, <1>5, <1>6, OnTwo
  <2> QED BY <2>1, <2>2
<1>12. /\ fn' = fn /\ insert' = insert /\ cur_basic_block_list' = cur_basic_block_list
       /\ while_stack' = while_stack /\ or_stack' = or_stack /\ pre_enter_scope' = pre_enter_scope
       /\ scope' = scope /\ void' = void /\ stmts' = stmts /\ conns' = conns /\ cond' = cond
  BY DEF BlockItem
<1> QED BY <1>2, <1>8, <1>10, <1>11, <1>12, Resumed

LEMMA BlockExitStep ==
  ASSUME Inv, BlockExit PROVE Inv'
<1>1. calls # <<>> /\ Top.visit = "Items"
  BY DEF BlockExit, At
<1>2. /\ Top \in FrameType /\ Below \in Seq(FrameType)
      /\ Agrees(On(Top, Below), fn, insert, cur_basic_block_list, while_stack, or_stack, scope)
      /\ Within(fn.n, stmts, conns) /\ fn.n \in Nat
      /\ void \in BOOLEAN /\ pre_enter_scope \in BOOLEAN /\ cond \in CondType
      /\ ~pre_enter_scope
  BY <1>1, Opened
<1>3. PICK s : s = IF Top.need_exit_scope THEN scope - 1 ELSE scope
  OBVIOUS
<1>4. Agrees(Below, fn, insert, cur_basic_block_list, while_stack, or_stack, s) /\ Below # <<>>
  BY <1>1, <1>2, <1>3, BlockEnds
<1>5. /\ scope' = s /\ calls' = Below
      /\ fn' = fn /\ insert' = insert /\ cur_basic_block_list' = cur_basic_block_list
      /\ while_stack' = while_stack /\ or_stack' = or_stack /\ pre_enter_scope' = pre_enter_scope
      /\ void' = void /\ stmts' = stmts /\ conns' = conns /\ cond' = cond
  BY <1>3 DEF BlockExit
<1> QED BY <1>2, <1>4, <1>5, Resumed

\* A statement leaves as many statements to come, or one less.
LEMMA StatementStep ==
  ASSUME Inv, At("Stmt"), Straight, stmts' = stmts \/ CountStmt, fn'.n = fn.n, calls' # <<>>,
         Agrees(calls', fn', insert, cur_basic_block_list, while_stack, or_stack, scope)
  PROVE  Inv'
<1>1. calls # <<>> /\ Top.visit = "Stmt"
  BY DEF At
<1>2. /\ Top \in FrameType /\ Below \in Seq(FrameType)
      /\ Agrees(On(Top, Below), fn, insert, cur_basic_block_list, while_stack, or_stack, scope)
      /\ Within(fn.n, stmts, conns) /\ fn.n \in Nat
      /\ void \in BOOLEAN /\ pre_enter_scope \in BOOLEAN /\ cond \in CondType
      /\ ~pre_enter_scope
  BY <1>1, Opened
<1>3. /\ insert' = insert /\ cur_basic_block_list' = cur_basic_block_list
      /\ while_stack' = while_stack /\ or_stack' = or_stack /\ pre_enter_scope' = pre_enter_scope
      /\ scope' = scope /\ void' = void /\ conns' = conns /\ cond' = cond
  BY DEF Straight
<1>4. Within(fn'.n, stmts', conns')
  <2>1. CASE stmts' = stmts
    BY <1>2, <1>3, <2>1
  <2>2. CASE CountStmt
    <3>1. stmts > 0 /\ stmts' = stmts - 1
      BY <2>2 DEF CountStmt
    <3>2. Within(fn.n, stmts - 1, conns)
      BY <1>2, <3>1, Room
    <3> QED BY <1>3, <3>1, <3>2
  <2> QED BY <2>1, <2>2
<1> QED BY <1>2, <1>3, <1>4, Resumed

LEMMA StraightStep ==
  ASSUME Inv, At("Stmt"), Straight, calls' = Below, stmts' = stmts \/ CountStmt,
         Fits(Below, fn', insert), Returned(Below, fn', insert), fn'.n = fn.n
  PROVE  Inv'
<1>1. calls # <<>> /\ Top.visit = "Stmt"
  BY DEF At
<1>2. /\ Top \in FrameType /\ Below \in Seq(FrameType)
      /\ Agrees(On(Top, Below), fn, insert, cur_basic_block_list, while_stack, or_stack, scope)
      /\ Within(fn.n, stmts, conns) /\ fn.n \in Nat
      /\ void \in BOOLEAN /\ pre_enter_scope \in BOOLEAN /\ cond \in CondType
      /\ ~pre_enter_scope
  BY <1>1, Opened
<1>3. PICK g : g = fn'
  OBVIOUS
<1>4. Fits(Below, g, insert) /\ Returned(Below, g, insert) /\ g.n = fn.n
  BY <1>3
<1>5. Agrees(Below, g, insert, cur_basic_block_list, while_stack, or_stack, scope) /\ Below # <<>>
  BY <1>1, <1>2, <1>4, StatementEnds
<1> QED BY <1>3, <1>5, StatementStep

\* What a statement finds.
LEMMA AtStatement ==
  ASSUME Inv, At("Stmt")
  PROVE  /\ Fits(Below, fn, insert) /\ ~Terminated(fn, insert)
         /\ cur_basic_block_list = <<insert>> /\ insert \in 1..fn.n
<1>1. calls # <<>> /\ Top.visit = "Stmt"
  BY DEF At
<1>2. /\ Top \in FrameType /\ Below \in Seq(FrameType)
      /\ Agrees(On(Top, Below), fn, insert, cur_basic_block_list, while_stack, or_stack, scope)
      /\ Within(fn.n, stmts, conns) /\ fn.n \in Nat
      /\ void \in BOOLEAN /\ pre_enter_scope \in BOOLEAN /\ cond \in CondType
      /\ ~pre_enter_scope
  BY <1>1, Opened
<1> QED BY <1>1, <1>2, StatementFacts

LEMMA EmptyStmtStep ==
  ASSUME Inv, EmptyStmt PROVE Inv'
<1>1. At("Stmt") /\ Straight /\ calls' = Below /\ fn' = fn
  BY DEF EmptyStmt
<1>2. stmts' = stmts \/ CountStmt
  BY DEF EmptyStmt
<1>3. Fits(Below, fn, insert) /\ ~Terminated(fn, insert)
  BY <1>1, AtStatement
<1>4. Returned(Below, fn, insert)
  BY <1>3 DEF Returned
<1> QED BY <1>1, <1>2, <1>3, <1>4, StraightStep

LEMMA SimpleStmtStep ==
  ASSUME Inv, SimpleStmt PROVE Inv'
<1>1. At("Stmt") /\ Straight /\ calls' = Below /\ CountStmt
  BY DEF SimpleStmt
<1>2. PICK g : g = PutOp(fn, insert)
  OBVIOUS
<1>3. Fits(Below, fn, insert) /\ ~Terminated(fn, insert) /\ Below \in Seq(FrameType)
  BY <1>1, AtStatement, Opened DEF At
<1>4. Fits(Below, g, insert) /\ ~Terminated(g, insert) /\ g.n = fn.n
  BY <1>2, <1>3, OpFits
<1>5. Returned(Below, g, insert)
  BY <1>4 DEF Returned
<1>6. fn' = g
  BY <1>2 DEF SimpleStmt
<1> QED BY <1>1, <1>4, <1>5, <1>6, StraightStep

LEMMA VarDefStep ==
  ASSUME Inv, VarDef PROVE Inv'
<1>1. At("Stmt") /\ Straight /\ calls' = Below /\ CountStmt
  BY DEF VarDef
<1>2. PICK f : f = CreateLocal(fn, insert, insert)
  OBVIOUS
<1>3. PICK g : g = fn'
  OBVIOUS
<1>4. Fits(Below, fn, insert) /\ ~Terminated(fn, insert) /\ Below \in Seq(FrameType)
  BY <1>1, AtStatement, Opened DEF At
<1>5. Fits(Below, f, insert) /\ ~Terminated(f, insert) /\ f.n = fn.n
  BY <1>2, <1>4, LocalFits
<1>6. g \in {f, PutOp(f, insert)}
  <2>1. cur_basic_block_list = <<insert>>
    BY <1>1, AtStatement
  <2>2. Last(cur_basic_block_list) = insert
    BY <2>1 DEF Last
  <2>3. f = CreateLocal(fn, insert, Last(cur_basic_block_list))
    BY <1>2, <2>2
  <2> QED BY <1>3, <2>3 DEF VarDef
<1>7. Fits(Below, g, insert) /\ ~Terminated(g, insert) /\ g.n = fn.n
  <2>1. CASE g = f
    BY <1>5, <2>1
  <2>2. CASE g = PutOp(f, insert)
    BY <1>4, <1>5, <2>2, OpFits
  <2> QED BY <1>6, <2>1, <2>2
<1>8. Returned(Below, g, insert)
  BY <1>7 DEF Returned
<1> QED BY <1>1, <1>3, <1>7, <1>8, StraightStep

LEMMA ReturnStmtStep ==
  ASSUME Inv, ReturnStmt PROVE Inv'
<1>1. At("Stmt") /\ Straight /\ calls' = Below /\ CountStmt
  BY DEF ReturnStmt
<1>2. calls # <<>> /\ Top.visit = "Stmt"
  BY <1>1 DEF At
<1>3. /\ Top \in FrameType /\ Below \in Seq(FrameType)
      /\ Agrees(On(Top, Below), fn, insert, cur_basic_block_list, while_stack, or_stack, scope)
  BY <1>2, Opened
<1>4. PICK g \in {fn, PutOp(fn, insert)} : fn' = CreateBr(g, insert, Ret)
  BY DEF ReturnStmt
<1>5. PICK t : t = Ret
  OBVIOUS
<1>6. JumpsOut(Below, t)
  BY <1>5 DEF JumpsOut
<1>7. PICK h : h = CreateBr(g, insert, t)
  OBVIOUS
<1>8. /\ Agrees(Below, h, insert, cur_basic_block_list, while_stack, or_stack, scope) /\ Below # <<>>
      /\ h.n = fn.n
  <2>1. LET k == CreateBr(g, insert, t) IN
        Agrees(Below, k, insert, cur_basic_block_list, while_stack, or_stack, scope) /\ Below # <<>>
        /\ k.n = fn.n /\ k.succ[insert] = <<t>>
    BY <1>2, <1>3, <1>6, JumpEnds
  <2> QED BY <1>7, <2>1
<1>9. fn' = h
  BY <1>4, <1>5, <1>7
<1> QED BY <1>1, <1>8, <1>9, StatementStep

LEMMA BreakStmtStep ==
  ASSUME Inv, BreakStmt
  PROVE  Inv' /\ fn'.succ[insert] = <<InnermostLoop.nextBB>>
<1>1. At("Stmt") /\ Straight /\ calls' = Below /\ CountStmt /\ InLoop
  BY DEF BreakStmt
<1>2. calls # <<>> /\ Top.visit = "Stmt"
  BY <1>1 DEF At
<1>3. /\ Top \in FrameType /\ Below \in Seq(FrameType) /\ calls = On(Top, Below)
      /\ Agrees(On(Top, Below), fn, insert, cur_basic_block_list, while_stack, or_stack, scope)
  BY <1>2, Opened
<1>4. PICK d : d = calls
  OBVIOUS
<1>5. PICK W : W = InnermostOf(d)
  OBVIOUS
<1>6. W = InnermostLoop
  BY <1>4, <1>5 DEF InnermostLoop, InnermostOf
<1>7. \E k \in DOMAIN d : d[k].visit = "WhileBody"
  BY <1>1, <1>4 DEF InLoop
<1>8. PICK t : t = W.nextBB
  OBVIOUS
<1>9. PICK h : h = CreateBr(fn, insert, t)
  OBVIOUS
<1>10. /\ Last(while_stack).trueBB = W.whileBB /\ Last(while_stack).falseBB = W.nextBB
       /\ Agrees(Below, h, insert, cur_basic_block_list, while_stack, or_stack, scope) /\ Below # <<>>
       /\ h.n = fn.n /\ h.succ[insert] = <<t>>
  <2>1. d = On(Top, Below) /\ t \in {W.whileBB, W.nextBB}
    BY <1>3, <1>4, <1>8
  <2>2. LET g == CreateBr(fn, insert, t) IN
        /\ Last(while_stack).trueBB = W.whileBB /\ Last(while_stack).falseBB = W.nextBB
        /\ Agrees(Below, g, insert, cur_basic_block_list, while_stack, or_stack, scope) /\ Below # <<>>
        /\ g.n = fn.n /\ g.succ[insert] = <<t>>
    BY <1>2, <1>3, <1>5, <1>7, <2>1, LoopJumps
  <2> QED BY <1>9, <2>2
<1>11. fn' = h
  BY <1>8, <1>9, <1>10 DEF BreakStmt
<1>12. Inv'
  BY <1>1, <1>10, <1>11, StatementStep
<1> QED BY <1>6, <1>8, <1>10, <1>11, <1>12

LEMMA ContinueStmtStep ==
  ASSUME Inv, ContinueStmt
  PROVE  Inv' /\ fn'.succ[insert] = <<InnermostLoop.whileBB>>
<1>1. At("Stmt") /\ Straight /\ calls' = Below /\ CountStmt /\ InLoop
  BY DEF ContinueStmt
<1>2. calls # <<>> /\ Top.visit = "Stmt"
  BY <1>1 DEF At
<1>3. /\ Top \in FrameType /\ Below \in Seq(FrameType) /\ calls = On(Top, Below)
      /\ Agrees(On(Top, Below), fn, insert, cur_basic_block_list, while_stack, or_stack, scope)
  BY <1>2, Opened
<1>4. PICK d : d = calls
  OBVIOUS
<1>5. PICK W : W = InnermostOf(d)
  OBVIOUS
<1>6. W = InnermostLoop
  BY <1>4, <1>5 DEF InnermostLoop, InnermostOf
<1>7. \E k \in DOMAIN d : d[k].visit = "WhileBody"
  BY <1>1, <1>4 DEF InLoop
<1>8. PICK t : t = W.whileBB
  OBVIOUS
<1>9. PICK h : h = CreateBr(fn, insert, t)
  OBVIOUS
<1>10. /\ Last(while_stack).trueBB = W.whileBB /\ Last(while_stack).falseBB = W.nextBB
       /\ Agrees(Below, h, insert, cur_basic_block_list, while_stack, or_stack, scope) /\ Below # <<>>
       /\ h.n = fn.n /\ h.succ[insert] = <<t>>
  <2>1. d = On(Top, Below) /\ t \in {W.whileBB, W.nextBB}
    BY <1>3, <1>4, <1>8
  <2>2. LET g == CreateBr(fn, insert, t) IN
        /\ Last(while_stack).trueBB = W.whileBB /\ Last(while_stack).falseBB = W.nextBB
        /\ Agrees(Below, g, insert, cur_basic_block_list, while_stack, or_stack, scope) /\ Below # <<>>
        /\ g.n = fn.n /\ g.succ[insert] = <<t>>
    BY <1>2, <1>3, <1>5, <1>7, <2>1, LoopJumps
  <2> QED BY <1>9, <2>2
<1>11. fn' = h
  BY <1>8, <1>9, <1>10 DEF ContinueStmt
<1>12. Inv'
  BY <1>1, <1>10, <1>11, StatementStep
<1> QED BY <1>6, <1>8, <1>10, <1>11, <1>12

\* A statement or a block in the place of a statement.
LEMMA Exchange ==
  ASSUME NEW A \in FrameType, NEW B \in FrameType, NEW c \in Seq(FrameType),
         NEW f, NEW in, NEW list, NEW ws, NEW os, NEW sc,
         Agrees(On(A, c), f, in, list, ws, os, sc),
         A.visit \in {"Block", "Stmt"}, B.visit \in {"Block", "Stmt"}
  PROVE  Agrees(On(B, c), f, in, list, ws, os, sc)
<1>1. /\ Fits(c, f, in) /\ ~Terminated(f, in) /\ list = <<in>> /\ in \in 1..f.n
      /\ Shape(On(A, c)) /\ Shape(c) /\ c # <<>> /\ Conds(c) = {}
      /\ ws \in Seq(Branch) /\ os \in Seq(Branch) /\ sc \in Nat /\ Matches(c, sc, ws, os)
  BY StatementFacts
<1>2. /\ ~InCond(A) /\ ~InCond(B) /\ ~HasCond(B) /\ ~IsWhile(B) /\ ~Pushed(B) /\ ~Scoped(B) /\ Plain(B)
      /\ B.visit # "FuncDefExit" /\ B.visit # "FuncDef"
  BY DEF InCond, HasCond, IsWhile, Pushed, Scoped, Plain
<1>3. Shape(On(B, c))
  <2>1. Resumes(Head(c))
    BY <1>1, <1>2, ShapeOn
  <2> QED BY <1>1, <1>2, <2>1, ShapeOn
<1>4. Fits(On(B, c), f, in)
  <2>1. {Entry, Ret} \subseteq BlockIds
    BY <1>1, FitsFacts
  <2> QED BY <1>1, <1>2, <2>1, PlainFits
<1>5. Matches(On(B, c), sc, ws, os)
  BY <1>1, <1>2, SameMatches
<1>6. ListMatches(On(B, c), f, in, list)
  BY <1>1, <1>2, ListOn
<1>7. On(B, c) \in Seq(FrameType) /\ Open(On(B, c), f, in)
  BY <1>1, OnFacts DEF Open
<1> QED BY <1>1, <1>3, <1>4, <1>5, <1>6, <1>7 DEF Agrees, Builds

LEMMA NestedBlockStep ==
  ASSUME Inv, NestedBlock PROVE Inv'
<1>1. At("Stmt") /\ Straight /\ CountStmt /\ fn' = fn
  BY DEF NestedBlock
<1>2. calls # <<>> /\ Top.visit = "Stmt"
  BY <1>1 DEF At
<1>3. /\ Top \in FrameType /\ Below \in Seq(FrameType)
      /\ Agrees(On(Top, Below), fn, insert, cur_basic_block_list, while_stack, or_stack, scope)
  BY <1>2, Opened
<1>4. PICK B : B = [visit |-> "Block"]
  OBVIOUS
<1>5. B \in FrameType /\ B.visit = "Block"
  BY <1>4 DEF FrameType
<1>6. Agrees(On(B, Below), fn, insert, cur_basic_block_list, while_stack, or_stack, scope)
  BY <1>2, <1>3, <1>5, Exchange
<1>7. On(B, Below) # <<>> /\ calls' = On(B, Below)
  BY <1>3, <1>4, <1>5, OnFacts DEF NestedBlock, On
<1> QED BY <1>1, <1>6, <1>7, StatementStep

\* A step inside a condition.
LEMMA ConditionStep ==
  ASSUME Inv, calls # <<>>, Top.visit # "FuncDef", Top.visit # "Block", CondUnchanged, calls' # <<>>,
         Agrees(calls', fn', insert', cur_basic_block_list, while_stack, or_stack', scope),
         cond' \in CondType, Within(fn'.n, stmts, conns')
  PROVE  Inv'
<1>1. void \in BOOLEAN /\ pre_enter_scope \in BOOLEAN /\ ~pre_enter_scope
  BY Opened
<1>2. /\ cur_basic_block_list' = cur_basic_block_list /\ while_stack' = while_stack /\ scope' = scope
      /\ pre_enter_scope' = pre_enter_scope /\ void' = void /\ stmts' = stmts
  BY DEF CondUnchanged
<1> QED BY <1>1, <1>2, Resumed

LEMMA CondFacts ==
  ASSUME NEW d \in CondType
  PROVE  /\ \A t \in Tokens : [d EXCEPT !.prefix = Append(@, t)] \in CondType
         /\ Leaves(d.prefix) + 1 \in Nat
<1>1. d.prefix \in Seq(Tokens) /\ d.start \in Nat
  BY DEF CondType
<1>2. ASSUME NEW t \in Tokens PROVE [d EXCEPT !.prefix = Append(@, t)] \in CondType
  <2>1. PICK p \in Seq(Tokens) : p = Append(d.prefix, t)
    <3>1. Append(d.prefix, t) \in Seq(Tokens)
      BY <1>1
    <3> QED BY <3>1
  <2>2. [d EXCEPT !.prefix = p] \in CondType
    BY DEF CondType
  <2> QED BY <2>1, <2>2
<1>3. Leaves(d.prefix) + 1 \in Nat
  <2>1. PICK K : K = {k \in DOMAIN d.prefix : d.prefix[k][1] = "leaf"}
    OBVIOUS
  <2>2. K \subseteq 1..Len(d.prefix)
    BY <1>1, <2>1
  <2>3. IsFiniteSet(1..Len(d.prefix))
    BY <1>1, FS_Interval
  <2>4. Cardinality(K) \in Nat
    BY <2>2, <2>3, FS_Subset, FS_CardinalityType
  <2> QED BY <2>1, <2>4 DEF Leaves
<1> QED BY <1>2, <1>3

LEMMA LOrEnterStep ==
  ASSUME Inv, LOrEnter PROVE Inv'
<1>1. calls # <<>> /\ Top.visit = "Cond"
  BY DEF LOrEnter, At
<1>2. /\ Top \in FrameType /\ Below \in Seq(FrameType)
      /\ Agrees(On(Top, Below), fn, insert, cur_basic_block_list, while_stack, or_stack, scope)
      /\ Within(fn.n, stmts, conns) /\ fn.n \in Nat
      /\ void \in BOOLEAN /\ pre_enter_scope \in BOOLEAN /\ cond \in CondType
      /\ ~pre_enter_scope
  BY <1>1, Opened
<1>3. MaxBlocks \in Nat /\ fn.n + 1 <= MaxBlocks /\ Within(fn.n + 1, stmts, conns - 1)
  <2>1. conns > 0
    BY DEF LOrEnter
  <2> QED BY <1>2, <2>1, Room
<1>4. PICK i : i = fn.n + 1
  OBVIOUS
<1>5. i \in BlockIds
  <2>1. i \in 1..MaxBlocks
    BY <1>2, <1>3, <1>4
  <2> QED BY <2>1 DEF BlockIds
<1>6. PICK X : X = [visit |-> "Cond", level |-> "LOr"]
  OBVIOUS
<1>7. PICK R : R = [visit |-> "LOrRhs", falseBB |-> i]
  OBVIOUS
<1>8. X \in FrameType /\ X.visit = "Cond" /\ R \in FrameType /\ R.visit = "LOrRhs" /\ R.falseBB = i
  BY <1>5, <1>6, <1>7 DEF FrameType
<1>9. PICK o : o = Append(or_stack, [trueBB |-> Last(or_stack).trueBB, falseBB |-> i])
  OBVIOUS
<1>10. PICK g : g = NewBlocks(fn, 1)
  OBVIOUS
<1>11. /\ Agrees(On(X, On(R, Below)), g, insert, cur_basic_block_list, while_stack, o, scope)
       /\ g.n = fn.n + 1 /\ On(X, On(R, Below)) # <<>>
  <2>1. Provides(R, fn.n + 1, or_stack, o)
    BY <1>4, <1>8, <1>9 DEF Provides
  <2>2. LET h == NewBlocks(fn, 1) IN
        /\ Agrees(On(X, On(R, Below)), h, insert, cur_basic_block_list, while_stack, o, scope)
        /\ h.n = fn.n + 1 /\ On(X, On(R, Below)) # <<>>
    BY <1>1, <1>2, <1>3, <1>8, <2>1, ConnectiveBegins
  <2> QED BY <1>10, <2>2
<1>12. calls' = On(X, On(R, Below))
  <2>1. calls' = <<X, R>> \o Below
    BY <1>4, <1>6, <1>7 DEF LOrEnter
  <2>2. <<X, R>> \o Below = On(X, On(R, Below))
    BY <1>2, <1>8, OnTwo
  <2> QED BY <2>1, <2>2
<1>13. /\ fn' = g /\ insert' = insert /\ or_stack' = o /\ conns' = conns - 1
       /\ cond' = [cond EXCEPT !.prefix = Append(@, <<"or">>)] /\ CondUnchanged
  BY <1>4, <1>9, <1>10 DEF LOrEnter
<1>14. cond' \in CondType
  <2>1. <<"or">> \in Tokens
    BY DEF Tokens
  <2> QED BY <1>2, <1>13, <2>1, CondFacts
<1> QED BY <1>1, <1>2, <1>3, <1>11, <1>12, <1>13, <1>14, ConditionStep

LEMMA LAndEnterStep ==
  ASSUME Inv, LAndEnter PROVE Inv'
<1>1. calls # <<>> /\ Top.visit = "Cond"
  BY DEF LAndEnter, At
<1>2. /\ Top \in FrameType /\ Below \in Seq(FrameType)
      /\ Agrees(On(Top, Below), fn, insert, cur_basic_block_list, while_stack, or_stack, scope)
      /\ Within(fn.n, stmts, conns) /\ fn.n \in Nat
      /\ void \in BOOLEAN /\ pre_enter_scope \in BOOLEAN /\ cond \in CondType
      /\ ~pre_enter_scope
  BY <1>1, Opened
<1>3. MaxBlocks \in Nat /\ fn.n + 1 <= MaxBlocks /\ Within(fn.n + 1, stmts, conns - 1)
  <2>1. conns > 0
    BY DEF LAndEnter
  <2> QED BY <1>2, <2>1, Room
<1>4. PICK i : i = fn.n + 1
  OBVIOUS
<1>5. i \in BlockIds
  <2>1. i \in 1..MaxBlocks
    BY <1>2, <1>3, <1>4
  <2> QED BY <2>1 DEF BlockIds
<1>6. PICK X : X = [visit |-> "Cond", level |-> "LAnd"]
  OBVIOUS
<1>7. PICK R : R = [visit |-> "LAndRhs", trueBB |-> i]
  OBVIOUS
<1>8. X \in FrameType /\ X.visit = "Cond" /\ R \in FrameType /\ R.visit = "LAndRhs" /\ R.trueBB = i
  BY <1>5, <1>6, <1>7 DEF FrameType
<1>9. PICK o : o = or_stack
  OBVIOUS
<1>10. PICK g : g = NewBlocks(fn, 1)
  OBVIOUS
<1>11. /\ Agrees(On(X, On(R, Below)), g, insert, cur_basic_block_list, while_stack, o, scope)
       /\ g.n = fn.n + 1 /\ On(X, On(R, Below)) # <<>>
  <2>1. Provides(R, fn.n + 1, or_stack, o)
    BY <1>4, <1>8, <1>9 DEF Provides
  <2>2. LET h == NewBlocks(fn, 1) IN
        /\ Agrees(On(X, On(R, Below)), h, insert, cur_basic_block_list, while_stack, o, scope)
        /\ h.n = fn.n + 1 /\ On(X, On(R, Below)) # <<>>
    BY <1>1, <1>2, <1>3, <1>8, <2>1, ConnectiveBegins
  <2> QED BY <1>10, <2>2
<1>12. calls' = On(X, On(R, Below))
  <2>1. calls' = <<X, R>> \o Below
    BY <1>4, <1>6, <1>7 DEF LAndEnter
  <2>2. <<X, R>> \o Below = On(X, On(R, Below))
    BY <1>2, <1>8, OnTwo
  <2> QED BY <2>1, <2>2
<1>13. /\ fn' = g /\ insert' = insert /\ or_stack' = o /\ conns' = conns - 1
       /\ cond' = [cond EXCEPT !.prefix = Append(@, <<"and">>)] /\ CondUnchanged
  BY <1>4, <1>9, <1>10 DEF LAndEnter
<1>14. cond' \in CondType
  <2>1. <<"and">> \in Tokens
    BY DEF Tokens
  <2> QED BY <1>2, <1>13, <2>1, CondFacts
<1> QED BY <1>1, <1>2, <1>3, <1>11, <1>12, <1>13, <1>14, ConditionStep

LEMMA LOrRhsStep ==
  ASSUME Inv, LOrRhs PROVE Inv'
<1>1. calls # <<>> /\ Top.visit = "LOrRhs"
  BY DEF LOrRhs, At
<1>2. /\ Top \in FrameType /\ Below \in Seq(FrameType)
      /\ Agrees(On(Top, Below), fn, insert, cur_basic_block_list, while_stack, or_stack, scope)
      /\ Within(fn.n, stmts, conns) /\ fn.n \in Nat
      /\ void \in BOOLEAN /\ pre_enter_scope \in BOOLEAN /\ cond \in CondType
      /\ ~pre_enter_scope
  BY <1>1, Opened
<1>3. PICK X : X = [visit |-> "Cond", level |-> "LAnd"]
  OBVIOUS
<1>4. X \in FrameType /\ X.visit = "Cond"
  BY <1>3 DEF FrameType
<1>5. PICK o : o = Front(or_stack)
  OBVIOUS
<1>6. PICK x : x = Top.falseBB
  OBVIOUS
<1>7. PICK t : t = Last(o).trueBB
  OBVIOUS
<1>8. PICK e : e = x
  OBVIOUS
<1>9. PICK g : g = CreateCondBr(fn, insert, t, e)
  OBVIOUS
<1>10. /\ Agrees(On(X, Below), g, x, cur_basic_block_list, while_stack, o, scope)
       /\ g.n = fn.n /\ On(X, Below) # <<>>
  <2>1. /\ Top.visit = "LAndRhs" => o = or_stack /\ x = Top.trueBB /\ t = x /\ e = Last(o).falseBB
        /\ Top.visit = "LOrRhs" => o = Front(or_stack) /\ x = Top.falseBB /\ t = Last(o).trueBB /\ e = x
    BY <1>1, <1>5, <1>6, <1>7, <1>8
  <2>2. LET h == CreateCondBr(fn, insert, t, e) IN
        Agrees(On(X, Below), h, x, cur_basic_block_list, while_stack, o, scope) /\ h.n = fn.n
        /\ On(X, Below) # <<>>
    BY <1>1, <1>2, <1>4, <2>1, RightBegins
  <2> QED BY <1>9, <2>2
<1>11. /\ fn' = g /\ insert' = x /\ or_stack' = o /\ conns' = conns /\ cond' = cond /\ CondUnchanged
       /\ calls' = On(X, Below)
  BY <1>3, <1>5, <1>6, <1>7, <1>8, <1>9 DEF LOrRhs, On
<1> QED BY <1>1, <1>2, <1>10, <1>11, ConditionStep

LEMMA LAndRhsStep ==
  ASSUME Inv, LAndRhs PROVE Inv'
<1>1. calls # <<>> /\ Top.visit = "LAndRhs"
  BY DEF LAndRhs, At
<1>2. /\ Top \in FrameType /\ Below \in Seq(FrameType)
      /\ Agrees(On(Top, Below), fn, insert, cur_basic_block_list, while_stack, or_stack, scope)
      /\ Within(fn.n, stmts, conns) /\ fn.n \in Nat
      /\ void \in BOOLEAN /\ pre_enter_scope \in BOOLEAN /\ cond \in CondType
      /\ ~pre_enter_scope
  BY <1>1, Opened
<1>3. PICK X : X = [visit |-> "Cond", level |-> "Eq"]
  OBVIOUS
<1>4. X \in FrameType /\ X.visit = "Cond"
  BY <1>3 DEF FrameType
<1>5. PICK o : o = or_stack
  OBVIOUS
<1>6. PICK x : x = Top.trueBB
  OBVIOUS
<1>7. PICK t : t = x
  OBVIOUS
<1>8. PICK e : e = Last(o).falseBB
  OBVIOUS
<1>9. PICK g : g = CreateCondBr(fn, insert, t, e)
  OBVIOUS
<1>10. /\ Agrees(On(X, Below), g, x, cur_basic_block_list, while_stack, o, scope)
       /\ g.n = fn.n /\ On(X, Below) # <<>>
  <2>1. /\ Top.visit = "LAndRhs" => o = or_stack /\ x = Top.trueBB /\ t = x /\ e = Last(o).falseBB
        /\ Top.visit = "LOrRhs" => o = Front(or_stack) /\ x = Top.falseBB /\ t = Last(o).trueBB /\ e = x
    BY <1>1, <1>5, <1>6, <1>7, <1>8
  <2>2. LET h == CreateCondBr(fn, insert, t, e) IN
        Agrees(On(X, Below), h, x, cur_basic_block_list, while_stack, o, scope) /\ h.n = fn.n
        /\ On(X, Below) # <<>>
    BY <1>1, <1>2, <1>4, <2>1, RightBegins
  <2> QED BY <1>9, <2>2
<1>11. /\ fn' = g /\ insert' = x /\ or_stack' = o /\ conns' = conns /\ cond' = cond /\ CondUnchanged
       /\ calls' = On(X, Below)
  BY <1>3, <1>5, <1>6, <1>7, <1>8, <1>9 DEF LAndRhs, On
<1> QED BY <1>1, <1>2, <1>10, <1>11, ConditionStep

LEMMA CondLeafStep ==
  ASSUME Inv, CondLeaf PROVE Inv'
<1>1. calls # <<>> /\ Top.visit = "Cond"
  BY DEF CondLeaf, At
<1>2. /\ Top \in FrameType /\ Below \in Seq(FrameType)
      /\ Agrees(On(Top, Below), fn, insert, cur_basic_block_list, while_stack, or_stack, scope)
      /\ Within(fn.n, stmts, conns) /\ fn.n \in Nat
      /\ void \in BOOLEAN /\ pre_enter_scope \in BOOLEAN /\ cond \in CondType
      /\ ~pre_enter_scope
  BY <1>1, Opened
<1>3. PICK n : n = Leaves(cond.prefix) + 1
  OBVIOUS
<1>4. n \in Nat
  BY <1>2, <1>3, CondFacts
<1>5. PICK g : g = Put(fn, insert, <<"test", n>>)
  OBVIOUS
<1>6. /\ Agrees(Below, g, insert, cur_basic_block_list, while_stack, or_stack, scope)
      /\ g.n = fn.n /\ Below # <<>>
  <2>1. LET h == Put(fn, insert, <<"test", n>>) IN
        Agrees(Below, h, insert, cur_basic_block_list, while_stack, or_stack, scope) /\ h.n = fn.n /\ Below # <<>>
    BY <1>1, <1>2, <1>4, LeafEnds
  <2> QED BY <1>5, <2>1
<1>7. /\ fn' = g /\ insert' = insert /\ or_stack' = or_stack /\ conns' = conns /\ CondUnchanged
      /\ calls' = Below /\ cond' = [cond EXCEPT !.prefix = Append(@, <<"leaf", n>>)]
  BY <1>3, <1>5 DEF CondLeaf
<1>8. cond' \in CondType
  <2>1. <<"leaf", n>> \in Tokens
    BY <1>4 DEF Tokens
  <2> QED BY <1>2, <1>7, <2>1, CondFacts
<1> QED BY <1>1, <1>2, <1>6, <1>7, <1>8, ConditionStep

\* The calls that go on with a condition visited.
LEMMA TurnedIf ==
  ASSUME NEW A \in FrameType, A.visit \in {"IfCond", "IfThen"}, NEW v \in {"IfThen", "IfElse"},
         NEW block \in BOOLEAN, NEW B, B = [A EXCEPT !.visit = v, !.block = block]
  PROVE  B \in FrameType /\ B.visit = v /\ B.block = block /\ SameIf(A, B) /\ A.has_else \in BOOLEAN
<1> DEFINE R == [visit : {"IfCond", "IfThen", "IfElse"}, has_else : BOOLEAN, block : BOOLEAN,
                 trueBB : BlockIds, falseBB : BlockIds, nextBB : BlockIds]
<1>1. A \in R
  BY DEF FrameType
<1>2. B \in R /\ B.visit = v /\ B.block = block
  BY <1>1
<1>3. B.has_else = A.has_else /\ B.trueBB = A.trueBB /\ B.falseBB = A.falseBB /\ B.nextBB = A.nextBB
  BY <1>1
<1>4. A.has_else \in BOOLEAN
  BY <1>1
<1> QED BY <1>2, <1>3, <1>4 DEF FrameType, SameIf

LEMMA TurnedWhile ==
  ASSUME NEW A \in FrameType, A.visit = "WhileCond",
         NEW block \in BOOLEAN, NEW B, B = [A EXCEPT !.visit = "WhileBody", !.block = block]
  PROVE  B \in FrameType /\ B.visit = "WhileBody" /\ B.block = block /\ SameWhile(A, B)
<1> DEFINE R == [visit : {"WhileCond", "WhileBody"}, block : BOOLEAN,
                 whileBB : BlockIds, trueBB : BlockIds, nextBB : BlockIds]
<1>1. A \in R
  BY DEF FrameType
<1>2. B \in R /\ B.visit = "WhileBody" /\ B.block = block
  BY <1>1
<1>3. B.whileBB = A.whileBB /\ B.trueBB = A.trueBB /\ B.nextBB = A.nextBB
  BY <1>1
<1> QED BY <1>2, <1>3 DEF FrameType, SameWhile

LEMMA BodyFrame ==
  ASSUME NEW block \in BOOLEAN
  PROVE  Body(block) \in FrameType /\ Body(block).visit \in {"Block", "Stmt"}
<1>1. CASE block
  BY <1>1 DEF Body, FrameType
<1>2. CASE ~block
  BY <1>2 DEF Body, FrameType
<1> QED BY <1>1, <1>2

LEMMA IfStmtStep ==
  ASSUME Inv, IfStmt PROVE Inv'
<1>1. calls # <<>> /\ Top.visit = "Stmt"
  BY DEF IfStmt, At
<1>2. /\ Top \in FrameType /\ Below \in Seq(FrameType)
      /\ Agrees(On(Top, Below), fn, insert, cur_basic_block_list, while_stack, or_stack, scope)
      /\ Within(fn.n, stmts, conns) /\ fn.n \in Nat
      /\ void \in BOOLEAN /\ pre_enter_scope \in BOOLEAN /\ cond \in CondType
      /\ ~pre_enter_scope
  BY <1>1, Opened
<1>3. MaxBlocks \in Nat /\ fn.n + 3 <= MaxBlocks /\ Within(fn.n + 3, stmts - 1, conns)
  <2>1. stmts > 0
    BY DEF IfStmt, CountStmt
  <2> QED BY <1>2, <2>1, Room
<1>4. PICK i, j, k : i = fn.n + 1 /\ j = fn.n + 2 /\ k = fn.n + 3
  OBVIOUS
<1>5. i \in BlockIds /\ j \in BlockIds /\ k \in BlockIds
  <2>1. i \in 1..MaxBlocks /\ j \in 1..MaxBlocks /\ k \in 1..MaxBlocks
    BY <1>2, <1>3, <1>4
  <2> QED BY <2>1 DEF BlockIds
<1>6. PICK X : X = [visit |-> "Cond", level |-> "LOr"]
  OBVIOUS
<1>7. PICK has_else \in BOOLEAN :
        /\ or_stack' = Append(or_stack, [trueBB |-> fn.n + 1,
                                         falseBB |-> IF has_else THEN fn.n + 2 ELSE fn.n + 3])
        /\ calls' = <<[visit |-> "Cond", level |-> "LOr"],
                      [visit |-> "IfCond", has_else |-> has_else, block |-> FALSE,
                       trueBB |-> fn.n + 1, falseBB |-> fn.n + 2, nextBB |-> fn.n + 3]>> \o Below
  BY DEF IfStmt
<1>8. PICK B : B = [visit |-> "IfCond", has_else |-> has_else, block |-> FALSE,
                    trueBB |-> i, falseBB |-> j, nextBB |-> k]
  OBVIOUS
<1>9. /\ X \in FrameType /\ X.visit = "Cond" /\ B \in FrameType /\ B.visit = "IfCond"
      /\ B.has_else = has_else /\ B.trueBB = i /\ B.falseBB = j /\ B.nextBB = k
  BY <1>5, <1>6, <1>8 DEF FrameType
<1>10. PICK t : t = [trueBB |-> i, falseBB |-> IF has_else THEN j ELSE k]
  OBVIOUS
<1>11. PICK g : g = NewBlocks(fn, 3)
  OBVIOUS
<1>12. /\ Agrees(On(X, On(B, Below)), g, insert, cur_basic_block_list, while_stack, Append(or_stack, t), scope)
       /\ g.n = fn.n + 3 /\ On(X, On(B, Below)) # <<>>
  <2>1. t = [trueBB |-> fn.n + 1, falseBB |-> IF B.has_else THEN fn.n + 2 ELSE fn.n + 3]
    BY <1>4, <1>9, <1>10
  <2>2. B.trueBB = fn.n + 1 /\ B.falseBB = fn.n + 2 /\ B.nextBB = fn.n + 3
    BY <1>4, <1>9
  <2>3. LET h == NewBlocks(fn, 3) IN
        /\ Agrees(On(X, On(B, Below)), h, insert, cur_basic_block_list, while_stack, Append(or_stack, t), scope)
        /\ h.n = fn.n + 3 /\ On(X, On(B, Below)) # <<>>
    BY <1>1, <1>2, <1>3, <1>9, <2>1, <2>2, IfBegins
  <2> QED BY <1>11, <2>3
<1>13. calls' = On(X, On(B, Below))
  <2>1. calls' = <<X, B>> \o Below
    BY <1>4, <1>6, <1>7, <1>8
  <2>2. <<X, B>> \o Below = On(X, On(B, Below))
    BY <1>2, <1>9, OnTwo
  <2> QED BY <2>1, <2>2
<1>14. or_stack' = Append(or_stack, t)
  BY <1>4, <1>7, <1>10
<1>15. /\ fn' = g /\ insert' = insert /\ cur_basic_block_list' = cur_basic_block_list
       /\ while_stack' = while_stack /\ scope' = scope /\ pre_enter_scope' = pre_enter_scope
       /\ void' = void /\ conns' = conns /\ stmts' = stmts - 1 /\ cond' = [start |-> insert, prefix |-> <<>>]
  BY <1>11 DEF IfStmt, CountStmt
<1>16. cond' \in CondType
  <2>1. insert \in 1..fn.n
    BY AtStatement DEF IfStmt
  <2>2. insert \in Nat
    BY <1>2, <2>1
  <2> QED BY <1>15, <2>2 DEF CondType
<1> QED BY <1>2, <1>3, <1>12, <1>13, <1>14, <1>15, <1>16, Resumed

LEMMA WhileStmtStep ==
  ASSUME Inv, WhileStmt PROVE Inv'
<1>1. calls # <<>> /\ Top.visit = "Stmt"
  BY DEF WhileStmt, At
<1>2. /\ Top \in FrameType /\ Below \in Seq(FrameType)
      /\ Agrees(On(Top, Below), fn, insert, cur_basic_block_list, while_stack, or_stack, scope)
      /\ Within(fn.n, stmts, conns) /\ fn.n \in Nat
      /\ void \in BOOLEAN /\ pre_enter_scope \in BOOLEAN /\ cond \in CondType
      /\ ~pre_enter_scope
  BY <1>1, Opened
<1>3. MaxBlocks \in Nat /\ fn.n + 3 <= MaxBlocks /\ Within(fn.n + 3, stmts - 1, conns)
  <2>1. stmts > 0
    BY DEF WhileStmt, CountStmt
  <2> QED BY <1>2, <2>1, Room
<1>4. PICK i, j, k : i = fn.n + 1 /\ j = fn.n + 2 /\ k = fn.n + 3
  OBVIOUS
<1>5. i \in BlockIds /\ j \in BlockIds /\ k \in BlockIds /\ i \in Nat
  <2>1. i \in 1..MaxBlocks /\ j \in 1..MaxBlocks /\ k \in 1..MaxBlocks /\ i \in Nat
    BY <1>2, <1>3, <1>4
  <2> QED BY <2>1 DEF BlockIds
<1>6. PICK X : X = [visit |-> "Cond", level |-> "LOr"]
  OBVIOUS
<1>7. PICK B : B = [visit |-> "WhileCond", block |-> FALSE, whileBB |-> i, trueBB |-> j, nextBB |-> k]
  OBVIOUS
<1>8. /\ X \in FrameType /\ X.visit = "Cond" /\ B \in FrameType /\ B.visit = "WhileCond"
      /\ B.whileBB = i /\ B.trueBB = j /\ B.nextBB = k
  BY <1>5, <1>6, <1>7 DEF FrameType
<1>9. PICK t : t = [trueBB |-> j, falseBB |-> k]
  OBVIOUS
<1>10. PICK u : u = [trueBB |-> i, falseBB |-> k]
  OBVIOUS
<1>11. t \in Branch /\ t.trueBB = B.trueBB /\ t.falseBB = FalseOf(B) /\ u \in Branch /\ u = Targets(B)
  BY <1>5, <1>8, <1>9, <1>10 DEF Branch, FalseOf, Targets
<1>12. PICK g : g = BrUnlessTerminated(NewBlocks(fn, 3), insert, i)
  OBVIOUS
<1>13. /\ Agrees(On(X, On(B, Below)), g, i, Front(cur_basic_block_list), Append(while_stack, u),
                 Append(or_stack, t), scope)
       /\ g.n = fn.n + 3 /\ On(X, On(B, Below)) # <<>>
  <2>1. B.whileBB = fn.n + 1 /\ B.trueBB = fn.n + 2 /\ B.nextBB = fn.n + 3
    BY <1>4, <1>8
  <2>2. LET h == BrUnlessTerminated(NewBlocks(fn, 3), insert, fn.n + 1) IN
        /\ Agrees(On(X, On(B, Below)), h, fn.n + 1, Front(cur_basic_block_list), Append(while_stack, u),
                  Append(or_stack, t), scope)
        /\ h.n = fn.n + 3 /\ On(X, On(B, Below)) # <<>>
    BY <1>1, <1>2, <1>3, <1>8, <1>11, <2>1, WhileBegins
  <2> QED BY <1>4, <1>12, <2>2
<1>14. calls' = On(X, On(B, Below))
  <2>1. calls' = <<X, B>> \o Below
    BY <1>4, <1>6, <1>7 DEF WhileStmt
  <2>2. <<X, B>> \o Below = On(X, On(B, Below))
    BY <1>2, <1>8, OnTwo
  <2> QED BY <2>1, <2>2
<1>15. /\ fn' = g /\ insert' = i /\ cur_basic_block_list' = Front(cur_basic_block_list)
       /\ while_stack' = Append(while_stack, u) /\ or_stack' = Append(or_stack, t)
       /\ scope' = scope /\ pre_enter_scope' = pre_enter_scope
       /\ void' = void /\ conns' = conns /\ stmts' = stmts - 1 /\ cond' = [start |-> i, prefix |-> <<>>]
  BY <1>4, <1>9, <1>10, <1>12 DEF WhileStmt, CountStmt
<1>16. cond' \in CondType
  BY <1>5, <1>15 DEF CondType
<1> QED BY <1>2, <1>3, <1>13, <1>14, <1>15, <1>16, Resumed

LEMMA IfCondDoneStep ==
  ASSUME Inv, IfCondDone PROVE Inv'
<1>1. calls # <<>> /\ Top.visit = "IfCond"
  BY DEF IfCondDone, At
<1>2. /\ Top \in FrameType /\ Below \in Seq(FrameType)
      /\ Agrees(On(Top, Below), fn, insert, cur_basic_block_list, while_stack, or_stack, scope)
      /\ Within(fn.n, stmts, conns) /\ fn.n \in Nat
      /\ void \in BOOLEAN /\ pre_enter_scope \in BOOLEAN /\ cond \in CondType
      /\ ~pre_enter_scope
  BY <1>1, Opened
<1>3. PICK block \in BOOLEAN :
        /\ calls' = <<Body(block), [Top EXCEPT !.visit = "IfThen", !.block = block]>> \o Below
        /\ EnterBody(block)
  BY DEF IfCondDone
<1>4. PICK X : X = Body(block)
  OBVIOUS
<1>5. PICK B : B = [Top EXCEPT !.visit = "IfThen", !.block = block]
  OBVIOUS
<1>6. X \in FrameType /\ X.visit \in {"Block", "Stmt"}
  BY <1>4, BodyFrame
<1>7. B \in FrameType /\ B.visit = "IfThen" /\ B.block = block /\ SameIf(Top, B)
  BY <1>1, <1>2, <1>5, TurnedIf
<1>8. PICK e : e = IF Top.has_else THEN Top.falseBB ELSE Top.nextBB
  OBVIOUS
<1>9. PICK g : g = CreateCondBr(fn, insert, Top.trueBB, e)
  OBVIOUS
<1>10. /\ Agrees(On(X, On(B, Below)), g, Top.trueBB, Append(Front(cur_basic_block_list), Top.trueBB),
                 while_stack, Front(or_stack), Depth(B, scope))
       /\ g.n = fn.n
  <2>1. LET h == CreateCondBr(fn, insert, Top.trueBB, e) IN
        /\ Agrees(On(X, On(B, Below)), h, Top.trueBB, Append(Front(cur_basic_block_list), Top.trueBB),
                  while_stack, Front(or_stack), Depth(B, scope))
        /\ h.n = fn.n
    BY <1>1, <1>2, <1>6, <1>7, <1>8, IfCondEnds
  <2> QED BY <1>9, <2>1
<1>11. On(X, On(B, Below)) # <<>> /\ calls' = On(X, On(B, Below))
  <2>1. On(B, Below) \in Seq(FrameType)
    BY <1>2, <1>7, OnFacts
  <2>2. <<X, B>> \o Below = On(X, On(B, Below))
    BY <1>2, <1>6, <1>7, OnTwo
  <2> QED BY <1>3, <1>4, <1>5, <1>6, <2>1, <2>2, OnFacts
<1>12. scope' = Depth(B, scope)
  BY <1>3, <1>7 DEF EnterBody, Depth
<1>13. /\ fn' = g /\ insert' = Top.trueBB
       /\ cur_basic_block_list' = Append(Front(cur_basic_block_list), Top.trueBB)
       /\ while_stack' = while_stack /\ or_stack' = Front(or_stack) /\ pre_enter_scope' = pre_enter_scope
       /\ void' = void /\ conns' = conns /\ stmts' = stmts /\ cond' = NoCond
  BY <1>8, <1>9 DEF IfCondDone
<1>14. NoCond \in CondType
  BY DEF NoCond, CondType
<1> QED BY <1>2, <1>10, <1>11, <1>12, <1>13, <1>14, Resumed

LEMMA WhileCondDoneStep ==
  ASSUME Inv, WhileCondDone PROVE Inv'
<1>1. calls # <<>> /\ Top.visit = "WhileCond"
  BY DEF WhileCondDone, At
<1>2. /\ Top \in FrameType /\ Below \in Seq(FrameType)
      /\ Agrees(On(Top, Below), fn, insert, cur_basic_block_list, while_stack, or_stack, scope)
      /\ Within(fn.n, stmts, conns) /\ fn.n \in Nat
      /\ void \in BOOLEAN /\ pre_enter_scope \in BOOLEAN /\ cond \in CondType
      /\ ~pre_enter_scope
  BY <1>1, Opened
<1>3. PICK block \in BOOLEAN :
        /\ calls' = <<Body(block), [Top EXCEPT !.visit = "WhileBody", !.block = block]>> \o Below
        /\ EnterBody(block)
  BY DEF WhileCondDone
<1>4. PICK X : X = Body(block)
  OBVIOUS
<1>5. PICK B : B = [Top EXCEPT !.visit = "WhileBody", !.block = block]
  OBVIOUS
<1>6. X \in FrameType /\ X.visit \in {"Block", "Stmt"}
  BY <1>4, BodyFrame
<1>7. B \in FrameType /\ B.visit = "WhileBody" /\ B.block = block /\ SameWhile(Top, B)
  BY <1>1, <1>2, <1>5, TurnedWhile
<1>8. PICK g : g = CreateCondBr(fn, insert, Top.trueBB, Top.nextBB)
  OBVIOUS
<1>9. /\ Agrees(On(X, On(B, Below)), g, Top.trueBB, Append(cur_basic_block_list, Top.trueBB),
                while_stack, Front(or_stack), Depth(B, scope))
      /\ g.n = fn.n
  <2>1. LET h == CreateCondBr(fn, insert, Top.trueBB, Top.nextBB) IN
        /\ Agrees(On(X, On(B, Below)), h, Top.trueBB, Append(cur_basic_block_list, Top.trueBB),
                  while_stack, Front(or_stack), Depth(B, scope))
        /\ h.n = fn.n
    BY <1>1, <1>2, <1>6, <1>7, WhileCondEnds
  <2> QED BY <1>8, <2>1
<1>10. On(X, On(B, Below)) # <<>> /\ calls' = On(X, On(B, Below))
  <2>1. On(B, Below) \in Seq(FrameType)
    BY <1>2, <1>7, OnFacts
  <2>2. <<X, B>> \o Below = On(X, On(B, Below))
    BY <1>2, <1>6, <1>7, OnTwo
  <2> QED BY <1>3, <1>4, <1>5, <1>6, <2>1, <2>2, OnFacts
<1>11. scope' = Depth(B, scope)
  BY <1>3, <1>7 DEF EnterBody, Depth
<1>12. /\ fn' = g /\ insert' = Top.trueBB
       /\ cur_basic_block_list' = Append(cur_basic_block_list, Top.trueBB)
       /\ while_stack' = while_stack /\ or_stack' = Front(or_stack) /\ pre_enter_scope' = pre_enter_scope
       /\ void' = void /\ conns' = conns /\ stmts' = stmts /\ cond' = NoCond
  BY <1>8 DEF WhileCondDone
<1>13. NoCond \in CondType
  BY DEF NoCond, CondType
<1> QED BY <1>2, <1>9, <1>10, <1>11, <1>12, <1>13, Resumed

LEMMA WhileBodyDoneStep ==
  ASSUME Inv, WhileBodyDone PROVE Inv'
<1>1. calls # <<>> /\ Top.visit = "WhileBody"
  BY DEF WhileBodyDone, At
<1>2. /\ Top \in FrameType /\ Below \in Seq(FrameType)
      /\ Agrees(On(Top, Below), fn, insert, cur_basic_block_list, while_stack, or_stack, scope)
      /\ Within(fn.n, stmts, conns) /\ fn.n \in Nat
      /\ void \in BOOLEAN /\ pre_enter_scope \in BOOLEAN /\ cond \in CondType
      /\ ~pre_enter_scope
  BY <1>1, Opened
<1>3. PICK g : g = BrUnlessTerminated(fn, insert, Top.whileBB)
  OBVIOUS
<1>4. /\ Agrees(Below, g, Top.nextBB, Append(Front(cur_basic_block_list), Top.nextBB), Front(while_stack),
                or_stack, Around(Top, scope))
      /\ g.n = fn.n /\ Below # <<>>
  <2>1. LET h == BrUnlessTerminated(fn, insert, Top.whileBB) IN
        /\ Agrees(Below, h, Top.nextBB, Append(Front(cur_basic_block_list), Top.nextBB), Front(while_stack),
                  or_stack, Around(Top, scope))
        /\ h.n = fn.n /\ Below # <<>>
    BY <1>1, <1>2, WhileEnds
  <2> QED BY <1>3, <2>1
<1>5. scope' = Around(Top, scope)
  BY DEF WhileBodyDone, ExitBody, Around
<1>6. /\ fn' = g /\ insert' = Top.nextBB /\ calls' = Below
      /\ cur_basic_block_list' = Append(Front(cur_basic_block_list), Top.nextBB)
      /\ while_stack' = Front(while_stack) /\ or_stack' = or_stack /\ pre_enter_scope' = pre_enter_scope
      /\ void' = void /\ conns' = conns /\ stmts' = stmts /\ cond' = cond
  BY <1>3 DEF WhileBodyDone
<1> QED BY <1>2, <1>4, <1>5, <1>6, Resumed

\* The end of both forms of if.
LEMMA IfEndStep ==
  ASSUME Inv, calls # <<>>, Top.visit = "IfElse" \/ (Top.visit = "IfThen" /\ ~Top.has_else),
         IfEnd(Closing(Top, fn, insert), Front(cur_basic_block_list), Top), ExitBody,
         UNCHANGED <<while_stack, or_stack, pre_enter_scope, void, stmts, conns, cond>>
  PROVE  Inv'
<1>1. Top.visit # "FuncDef" /\ Top.visit # "Block"
  OBVIOUS
<1>2. /\ Top \in FrameType /\ Below \in Seq(FrameType)
      /\ Agrees(On(Top, Below), fn, insert, cur_basic_block_list, while_stack, or_stack, scope)
      /\ Within(fn.n, stmts, conns) /\ fn.n \in Nat
      /\ void \in BOOLEAN /\ pre_enter_scope \in BOOLEAN /\ cond \in CondType
      /\ ~pre_enter_scope
  BY <1>1, Opened
<1>3. PICK h : h = Closing(Top, fn, insert)
  OBVIOUS
<1>4. PICK g : g = EraseBlock(h, Top.nextBB)
  OBVIOUS
<1>5. PICK l : l = Append(Front(cur_basic_block_list), Top.nextBB)
  OBVIOUS
<1>6. /\ Below # <<>> /\ h.n = fn.n
      /\ h.pre[Top.nextBB] # <<>> =>
           Agrees(Below, h, Top.nextBB, l, while_stack, or_stack, Around(Top, scope))
      /\ h.pre[Top.nextBB] = <<>> =>
           Agrees(Below, g, Top.trueBB, l, while_stack, or_stack, Around(Top, scope)) /\ g.n = fn.n
  <2>1. LET h1 == Closing(Top, fn, insert)
            g1 == EraseBlock(h1, Top.nextBB)
            l1 == Append(Front(cur_basic_block_list), Top.nextBB)
        IN  /\ Below # <<>> /\ h1.n = fn.n
            /\ h1.pre[Top.nextBB] # <<>> =>
                 Agrees(Below, h1, Top.nextBB, l1, while_stack, or_stack, Around(Top, scope))
            /\ h1.pre[Top.nextBB] = <<>> =>
                 Agrees(Below, g1, Top.trueBB, l1, while_stack, or_stack, Around(Top, scope)) /\ g1.n = fn.n
    BY <1>2, IfEnds
  <2> QED BY <1>3, <1>4, <1>5, <2>1
<1>7. scope' = Around(Top, scope)
  BY DEF ExitBody, Around
<1>8. /\ cur_basic_block_list' = l /\ calls' = Below
      /\ IF h.pre[Top.nextBB] = <<>> THEN insert' = Top.trueBB /\ fn' = g ELSE insert' = Top.nextBB /\ fn' = h
  BY <1>3, <1>4, <1>5 DEF IfEnd
<1>9. /\ while_stack' = while_stack /\ or_stack' = or_stack /\ pre_enter_scope' = pre_enter_scope
      /\ void' = void /\ conns' = conns /\ stmts' = stmts /\ cond' = cond
  OBVIOUS
<1>10. /\ Agrees(calls', fn', insert', cur_basic_block_list', while_stack', or_stack', scope')
       /\ fn'.n = fn.n
  <2>1. CASE h.pre[Top.nextBB] = <<>>
    BY <1>6, <1>7, <1>8, <1>9, <2>1
  <2>2. CASE h.pre[Top.nextBB] # <<>>
    BY <1>6, <1>7, <1>8, <1>9, <2>2
  <2> QED BY <2>1, <2>2
<1>11. calls' # <<>>
  BY <1>6, <1>8
<1>12. Within(fn'.n, stmts', conns')
  BY <1>2, <1>9, <1>10
<1> QED BY <1>2, <1>9, <1>10, <1>11, <1>12, Resumed

LEMMA IfElseDoneStep ==
  ASSUME Inv, IfElseDone PROVE Inv'
<1>1. calls # <<>> /\ Top.visit = "IfElse"
  BY DEF IfElseDone, At
<1>2. Closing(Top, fn, insert) = BrUnlessTerminated(fn, insert, Top.nextBB)
  BY <1>1 DEF Closing
<1>3. /\ IfEnd(BrUnlessTerminated(fn, insert, Top.nextBB), Front(cur_basic_block_list), Top) /\ ExitBody
      /\ UNCHANGED <<while_stack, or_stack, pre_enter_scope, void, stmts, conns, cond>>
  BY DEF IfElseDone
<1>4. IfEnd(Closing(Top, fn, insert), Front(cur_basic_block_list), Top)
  BY <1>2, <1>3 DEF IfEnd
<1> QED BY <1>1, <1>3, <1>4, IfEndStep

LEMMA IfThenDoneStep ==
  ASSUME Inv, IfThenDone PROVE Inv'
<1>1. calls # <<>> /\ Top.visit = "IfThen"
  BY DEF IfThenDone, At
<1>2. /\ Top \in FrameType /\ Below \in Seq(FrameType)
      /\ Agrees(On(Top, Below), fn, insert, cur_basic_block_list, while_stack, or_stack, scope)
      /\ Within(fn.n, stmts, conns) /\ fn.n \in Nat
      /\ void \in BOOLEAN /\ pre_enter_scope \in BOOLEAN /\ cond \in CondType
      /\ ~pre_enter_scope
  BY <1>1, Opened
<1>3. UNCHANGED <<while_stack, or_stack, pre_enter_scope, void, stmts, conns, cond>>
  BY DEF IfThenDone
<1>4. CASE ~Top.has_else
  <2>1. Closing(Top, fn, insert) = EraseBlock(BrUnlessTerminated(fn, insert, Top.nextBB), Top.falseBB)
    BY <1>1 DEF Closing
  <2>2. /\ IfEnd(EraseBlock(BrUnlessTerminated(fn, insert, Top.nextBB), Top.falseBB),
                 Front(cur_basic_block_list), Top)
        /\ ExitBody
    BY <1>4 DEF IfThenDone
  <2>3. IfEnd(Closing(Top, fn, insert), Front(cur_basic_block_list), Top)
    BY <2>1, <2>2 DEF IfEnd
  <2> QED BY <1>1, <1>3, <1>4, <2>2, <2>3, IfEndStep
<1>5. CASE Top.has_else
  <2>1. PICK block \in BOOLEAN :
          /\ calls' = <<Body(block), [Top EXCEPT !.visit = "IfElse", !.block = block]>> \o Below
          /\ scope' = (IF Top.block THEN scope ELSE scope - 1) + (IF block THEN 0 ELSE 1)
    BY <1>5 DEF IfThenDone
  <2>2. PICK X : X = Body(block)
    OBVIOUS
  <2>3. PICK B : B = [Top EXCEPT !.visit = "IfElse", !.block = block]
    OBVIOUS
  <2>4. X \in FrameType /\ X.visit \in {"Block", "Stmt"}
    BY <2>2, BodyFrame
  <2>5. B \in FrameType /\ B.visit = "IfElse" /\ B.block = block /\ SameIf(Top, B)
    BY <1>1, <1>2, <2>3, TurnedIf
  <2>6. PICK g : g = BrUnlessTerminated(fn, insert, Top.nextBB)
    OBVIOUS
  <2>7. PICK s : s = Around(Top, scope)
    OBVIOUS
  <2>8. /\ Agrees(On(X, On(B, Below)), g, Top.falseBB, Append(Front(cur_basic_block_list), Top.falseBB),
                  while_stack, or_stack, Depth(B, s))
        /\ g.n = fn.n
    <3>1. LET h == BrUnlessTerminated(fn, insert, Top.nextBB) IN
          /\ Agrees(On(X, On(B, Below)), h, Top.falseBB, Append(Front(cur_basic_block_list), Top.falseBB),
                    while_stack, or_stack, Depth(B, Around(Top, scope)))
          /\ h.n = fn.n
      BY <1>1, <1>2, <1>5, <2>4, <2>5, ElseBegins
    <3> QED BY <2>6, <2>7, <3>1
  <2>9. On(X, On(B, Below)) # <<>> /\ calls' = On(X, On(B, Below))
    <3>1. On(B, Below) \in Seq(FrameType)
      BY <1>2, <2>5, OnFacts
    <3>2. <<X, B>> \o Below = On(X, On(B, Below))
      BY <1>2, <2>4, <2>5, OnTwo
    <3> QED BY <2>1, <2>2, <2>3, <2>4, <3>1, <3>2, OnFacts
  <2>10. scope' = Depth(B, s)
    <3>1. s \in Nat
      BY <1>1, <1>2, <2>7, BodyFacts
    <3>2. scope' = s + (IF block THEN 0 ELSE 1)
      BY <2>1, <2>7 DEF Around
    <3>3. CASE block
      BY <2>5, <3>1, <3>2, <3>3 DEF Depth
    <3>4. CASE ~block
      BY <2>5, <3>1, <3>2, <3>4 DEF Depth
    <3> QED BY <3>3, <3>4
  <2>11. /\ fn' = g /\ insert' = Top.falseBB
         /\ cur_basic_block_list' = Append(Front(cur_basic_block_list), Top.falseBB)
    BY <1>5, <2>6 DEF IfThenDone
  <2>12. /\ while_stack' = while_stack /\ or_stack' = or_stack /\ pre_enter_scope' = pre_enter_scope
         /\ void' = void /\ conns' = conns /\ stmts' = stmts /\ cond' = cond
    BY <1>3
  <2> QED BY <1>2, <2>8, <2>9, <2>10, <2>11, <2>12, Resumed
<1> QED BY <1>4, <1>5

\* The invariant holds at the start, and every step preserves it.
LEMMA Initially == Init => Inv
<1> SUFFICES ASSUME Init PROVE Inv
  OBVIOUS
<1>1. PICK b \in Bounds : stmts = b[1] /\ conns = b[2]
  BY DEF Init
<1>2. b[1] \in Nat /\ b[2] \in Nat
  BY BoundsNat
<1>3. Within(2, stmts, conns)
  BY <1>1, <1>2 DEF Within
<1>4. Starting /\ void \in BOOLEAN /\ pre_enter_scope \in BOOLEAN
  BY DEF Init, Starting
<1>5. cond \in CondType
  BY DEF Init, NoCond, CondType
<1> QED BY <1>3, <1>4, <1>5 DEF Inv

LEMMA Preserved == Inv /\ [Next]_vars => Inv'
<1> SUFFICES ASSUME Inv, [Next]_vars PROVE Inv'
  OBVIOUS
<1>1. CASE FuncDefEnter
  BY <1>1, FuncDefEnterStep
<1>2. CASE FuncDefExit
  BY <1>2, FuncDefExitStep
<1>3. CASE BlockEnter
  BY <1>3, BlockEnterStep
<1>4. CASE BlockItem
  BY <1>4, BlockItemStep
<1>5. CASE BlockExit
  BY <1>5, BlockExitStep
<1>6. CASE EmptyStmt
  BY <1>6, EmptyStmtStep
<1>7. CASE SimpleStmt
  BY <1>7, SimpleStmtStep
<1>8. CASE VarDef
  BY <1>8, VarDefStep
<1>9. CASE ReturnStmt
  BY <1>9, ReturnStmtStep
<1>10. CASE BreakStmt
  BY <1>10, BreakStmtStep
<1>11. CASE ContinueStmt
  BY <1>11, ContinueStmtStep
<1>12. CASE NestedBlock
  BY <1>12, NestedBlockStep
<1>13. CASE IfStmt
  BY <1>13, IfStmtStep
<1>14. CASE WhileStmt
  BY <1>14, WhileStmtStep
<1>15. CASE LOrEnter
  BY <1>15, LOrEnterStep
<1>16. CASE LOrRhs
  BY <1>16, LOrRhsStep
<1>17. CASE LAndEnter
  BY <1>17, LAndEnterStep
<1>18. CASE LAndRhs
  BY <1>18, LAndRhsStep
<1>19. CASE CondLeaf
  BY <1>19, CondLeafStep
<1>20. CASE IfCondDone
  BY <1>20, IfCondDoneStep
<1>21. CASE IfThenDone
  BY <1>21, IfThenDoneStep
<1>22. CASE IfElseDone
  BY <1>22, IfElseDoneStep
<1>23. CASE WhileCondDone
  BY <1>23, WhileCondDoneStep
<1>24. CASE WhileBodyDone
  BY <1>24, WhileBodyDoneStep
<1>25. CASE UNCHANGED vars
  BY <1>25 DEF vars, Inv, Starting, Running
<1>26. CASE Statement
  BY <1>6, <1>7, <1>8, <1>9, <1>10, <1>11, <1>12, <1>13, <1>14, <1>26 DEF Statement
<1>27. CASE Condition
  BY <1>15, <1>16, <1>17, <1>18, <1>19, <1>27 DEF Condition
<1>28. CASE Finished
  BY <1>25, <1>28 DEF Finished
<1> QED BY <1>1, <1>2, <1>3, <1>4, <1>5, <1>20, <1>21, <1>22, <1>23, <1>24, <1>25, <1>26, <1>27, <1>28 DEF Next

-----------------------------------------------------------------------------
(* What the invariant means.                                               *)

\* The recorded successors are the targets of the terminator.
LEMMA SuccessorsAre ==
  ASSUME NEW f \in FnType, CodeSound(f), TargetsSound(f), NEW b \in BlockIds
  PROVE  LET targets == IF Terminated(f, b) THEN ToSet(Tail(Last(f.code[b]))) ELSE {}
         IN  ToSet(f.succ[b]) = targets /\ targets \subseteq f.blocks
<1>1. SuccessorsMatch(f, b) /\ ToSet(f.succ[b]) \subseteq f.blocks
  BY DEF CodeSound, TargetsSound
<1>2. \A i : f.code[b] # <<>> /\ Last(f.code[b]) = i /\ i[1] \in {"br", "ret"} => Terminated(f, b)
  BY DEF Terminated, IsTerminator
<1>3. CASE ~Terminated(f, b) /\ f.succ[b] = <<>>
  <2>1. ToSet(<<>>) = {}
    BY DEF ToSet
  <2> QED BY <1>3, <2>1
<1>4. CASE f.code[b] # <<>> /\ Last(f.code[b]) = <<"ret">> /\ f.succ[b] = <<>>
  <2>1. <<"ret">>[1] = "ret" /\ Tail(<<"ret">>) = <<>>
    OBVIOUS
  <2>2. Terminated(f, b)
    BY <1>2, <1>4, <2>1
  <2> QED BY <1>1, <1>4, <2>1, <2>2
<1>5. CASE f.code[b] # <<>> /\ \E t \in BlockIds : Last(f.code[b]) = <<"br", t>> /\ f.succ[b] = <<t>>
  <2>1. PICK t \in BlockIds : Last(f.code[b]) = <<"br", t>> /\ f.succ[b] = <<t>>
    BY <1>5
  <2>2. <<"br", t>>[1] = "br" /\ Tail(<<"br", t>>) = <<t>>
    OBVIOUS
  <2>3. Terminated(f, b)
    BY <1>2, <1>5, <2>1, <2>2
  <2> QED BY <1>1, <2>1, <2>2, <2>3
<1>6. CASE f.code[b] # <<>> /\ \E t, e \in BlockIds :
             Last(f.code[b]) = <<"br", t, e>> /\ f.succ[b] = <<e, t>>
  <2>1. PICK t \in BlockIds, e \in BlockIds : Last(f.code[b]) = <<"br", t, e>> /\ f.succ[b] = <<e, t>>
    BY <1>6
  <2>2. <<"br", t, e>>[1] = "br" /\ Tail(<<"br", t, e>>) = <<t, e>>
    OBVIOUS
  <2>3. Terminated(f, b)
    BY <1>2, <1>6, <2>1, <2>2
  <2>4. ToSet(<<t, e>>) = {t, e} /\ ToSet(<<e, t>>) = {t, e}
    BY DEF ToSet
  <2> QED BY <1>1, <2>1, <2>2, <2>3, <2>4
<1> QED BY <1>1, <1>3, <1>4, <1>5, <1>6 DEF SuccessorsMatch

\* A sequence whose members are all in a set is a sequence over the set.
LEMMA Narrowed ==
  ASSUME NEW S, NEW T, NEW s \in Seq(S), \A k \in 1..Len(s) : s[k] \in T
  PROVE  s \in Seq(T)
<1>1. Len(s) \in Nat /\ s \in [1..Len(s) -> S]
  BY LenProperties
<1>2. PICK m \in Nat : m = Len(s)
  BY <1>1
<1>3. s \in [1..m -> T]
  BY <1>1, <1>2
<1>4. s \in UNION {[1..k -> T] : k \in Nat}
  BY <1>2, <1>3
<1> QED BY <1>4, SeqDef

LEMMA ShortSequences ==
  ASSUME NEW T
  PROVE  <<>> \in Seq(T) /\ DOMAIN <<>> = {} /\ \A b \in T : <<b>> \in Seq(T)
<1>1. <<>> \in Seq(T)
  BY EmptySeq
<1>2. DOMAIN <<>> = {}
  OBVIOUS
<1>3. \A b \in T : <<b>> \in Seq(T)
  OBVIOUS
<1> QED BY <1>1, <1>2, <1>3

LEMMA NumbersIn ==
  ASSUME NEW f \in FnType, Created(f), TargetsSound(f), Symmetric(f), NEW b \in BlockIds
  PROVE  f.pre[b] \in Seq(1..f.n) /\ f.succ[b] \in Seq(1..f.n)
<1>1. ASSUME NEW s \in Seq(BlockIds), ToSet(s) \subseteq 1..f.n PROVE s \in Seq(1..f.n)
  <2>1. \A k \in 1..Len(s) : s[k] \in 1..f.n
    BY <1>1 DEF ToSet
  <2>2. PICK V : V = 1..f.n
    OBVIOUS
  <2>3. s \in Seq(V)
    BY <2>1, <2>2, Narrowed
  <2> QED BY <2>2, <2>3
<1>2. f.pre[b] \in Seq(BlockIds) /\ f.succ[b] \in Seq(BlockIds)
  BY DEF FnType
<1>3. ToSet(f.succ[b]) \subseteq 1..f.n
  BY DEF TargetsSound, Created
<1>4. ASSUME NEW a \in ToSet(f.pre[b]) PROVE a \in 1..f.n
  <2>1. a \in BlockIds
    BY <1>2 DEF ToSet
  <2>2. b \in ToSet(f.succ[a])
    BY <2>1, EdgeBack
  <2>3. f.succ[a] # <<>>
    BY <2>2 DEF ToSet
  <2> QED BY <2>1, <2>3 DEF Created
<1>5. f.pre[b] \in Seq(1..f.n)
  BY <1>1, <1>2, <1>4
<1>6. f.succ[b] \in Seq(1..f.n)
  BY <1>1, <1>2, <1>3
<1> QED BY <1>5, <1>6

\* A sound function agrees with its code.
LEMMA CodeFacts ==
  ASSUME NEW f \in FnType, CodeSound(f), NEW b \in BlockIds
  PROVE  /\ \A k \in DOMAIN f.code[b] : f.code[b][k][1] \in {"op", "alloca", "test", "br", "ret"}
         /\ \A k \in 1..(Len(f.code[b]) - 1) : ~IsTerminator(f.code[b][k])
         /\ b # Entry => \A k \in DOMAIN f.code[b] : f.code[b][k] # <<"alloca">>
<1>1. \A i \in Instructions : i[1] \in {"op", "alloca", "test", "br", "ret"}
  BY DEF Instructions
<1>2. f.code[b] \in Seq(Instructions)
  BY DEF FnType
<1>3. \A k \in DOMAIN f.code[b] : f.code[b][k] \in Instructions
  BY <1>2
<1> QED BY <1>1, <1>3 DEF CodeSound

LEMMA RunningFacts ==
  ASSUME Inv, Running
  PROVE  /\ calls \in Seq(FrameType) /\ Fits(calls, fn, insert)
         /\ fn \in FnType /\ Created(fn) /\ CodeSound(fn) /\ TargetsSound(fn) /\ Symmetric(fn)
         /\ insert \in fn.blocks /\ fn.blocks \subseteq BlockIds /\ fn.n \in Nat
         /\ while_stack \in Seq(Branch) /\ or_stack \in Seq(Branch) /\ scope \in Nat
         /\ Matches(calls, scope, while_stack, or_stack)
         /\ ListMatches(calls, fn, insert, cur_basic_block_list)
<1>1. /\ calls \in Seq(FrameType) /\ Fits(calls, fn, insert)
      /\ while_stack \in Seq(Branch) /\ or_stack \in Seq(Branch) /\ scope \in Nat
      /\ Matches(calls, scope, while_stack, or_stack)
      /\ ListMatches(calls, fn, insert, cur_basic_block_list)
  BY DEF Running, Agrees, Builds
<1>2. /\ fn \in FnType /\ Created(fn) /\ CodeSound(fn) /\ TargetsSound(fn) /\ Symmetric(fn)
      /\ insert \in fn.blocks
  BY <1>1 DEF Fits, Sound, Working
<1> QED BY <1>1, <1>2 DEF FnType

LEMMA TypesHold == ASSUME Inv PROVE TypeOK
<1>1. void \in BOOLEAN /\ pre_enter_scope \in BOOLEAN
  BY DEF Inv
<1>2. ASSUME NEW n, Within(n, stmts, conns)
      PROVE  \E b \in Bounds : stmts \in 0..b[1] /\ conns \in 0..b[2]
  <2>1. PICK b \in Bounds : stmts <= b[1] /\ conns <= b[2] /\ stmts \in Nat /\ conns \in Nat
    BY <1>2 DEF Within
  <2>2. b[1] \in Nat /\ b[2] \in Nat
    BY BoundsNat
  <2> QED BY <2>1, <2>2
<1>3. CASE Starting /\ Within(2, stmts, conns)
  <2>1. PICK e : e = EmptyFn
    OBVIOUS
  <2>2. /\ e.n = 0 /\ e.blocks = {}
        /\ \A b \in BlockIds : e.pre[b] = <<>> /\ e.succ[b] = <<>> /\ e.code[b] = <<>>
    BY <2>1 DEF EmptyFn
  <2>3. fn = e /\ insert = 0 /\ cur_basic_block_list = <<>> /\ while_stack = <<>> /\ or_stack = <<>> /\ scope = 1
    BY <1>3, <2>1 DEF Starting
  <2>4. MaxBlocks \in Nat
    BY <1>3, Room
  <2>5. fn.n \in 0..MaxBlocks /\ insert \in 0..fn.n /\ fn.blocks \subseteq 1..fn.n
    BY <2>2, <2>3, <2>4
  <2>6. \A b \in BlockIds : /\ fn.pre[b] \in Seq(1..fn.n) /\ fn.succ[b] \in Seq(1..fn.n)
                            /\ \A k \in DOMAIN fn.code[b] :
                                 fn.code[b][k][1] \in {"op", "alloca", "test", "br", "ret"}
    <3>1. PICK V : V = 1..fn.n
      OBVIOUS
    <3>2. <<>> \in Seq(V) /\ DOMAIN <<>> = {}
      BY ShortSequences
    <3>3. \A b \in BlockIds : fn.pre[b] \in Seq(V) /\ fn.succ[b] \in Seq(V)
      BY <2>2, <2>3, <3>2
    <3>4. \A b \in BlockIds : DOMAIN fn.code[b] = {}
      BY <2>2, <2>3, <3>2
    <3>5. \A b \in BlockIds : fn.pre[b] \in Seq(1..fn.n) /\ fn.succ[b] \in Seq(1..fn.n)
      BY <3>1, <3>3
    <3> QED BY <3>4, <3>5
  <2>7. cur_basic_block_list \in Seq(1..fn.n) /\ while_stack \in Seq(Branch) /\ or_stack \in Seq(Branch)
        /\ scope \in Nat \ {0}
    BY <2>3
  <2>8. \E b \in Bounds : stmts \in 0..b[1] /\ conns \in 0..b[2]
    BY <1>2, <1>3
  <2> QED BY <1>1, <2>5, <2>6, <2>7, <2>8 DEF TypeOK
<1>4. CASE Running /\ Within(fn.n, stmts, conns)
  <2>1. /\ calls \in Seq(FrameType) /\ fn \in FnType /\ Created(fn) /\ CodeSound(fn) /\ TargetsSound(fn)
        /\ Symmetric(fn) /\ insert \in fn.blocks /\ fn.n \in Nat
        /\ while_stack \in Seq(Branch) /\ or_stack \in Seq(Branch) /\ scope \in Nat
        /\ Matches(calls, scope, while_stack, or_stack)
        /\ ListMatches(calls, fn, insert, cur_basic_block_list)
    BY <1>4, RunningFacts
  <2>2. MaxBlocks \in Nat /\ fn.n <= MaxBlocks
    BY <1>4, <2>1, Room
  <2>3. fn.n \in 0..MaxBlocks /\ fn.blocks \subseteq 1..fn.n /\ insert \in 0..fn.n
    BY <2>1, <2>2 DEF Created
  <2>4. \A b \in BlockIds : /\ fn.pre[b] \in Seq(1..fn.n) /\ fn.succ[b] \in Seq(1..fn.n)
                            /\ \A k \in DOMAIN fn.code[b] :
                                 fn.code[b][k][1] \in {"op", "alloca", "test", "br", "ret"}
    BY <2>1, NumbersIn, CodeFacts
  <2>5. cur_basic_block_list \in Seq(1..fn.n)
    <3>1. cur_basic_block_list = <<>> \/ \E b \in 1..fn.n : cur_basic_block_list = <<b>>
      BY <2>1 DEF ListMatches
    <3>2. PICK V : V = 1..fn.n
      OBVIOUS
    <3>3. <<>> \in Seq(V) /\ \A b \in V : <<b>> \in Seq(V)
      BY ShortSequences
    <3>4. cur_basic_block_list \in Seq(V)
      BY <3>1, <3>2, <3>3
    <3> QED BY <3>2, <3>4
  <2>6. scope \in Nat \ {0}
    <3>1. ScopeMatches(calls, scope)
      BY <2>1 DEF Matches
    <3>2. [visit |-> "Block"] \in FrameType
      BY DEF FrameType
    <3>3. scope > 0
      BY <2>1, <3>1, <3>2, ScopeOn
    <3> QED BY <2>1, <3>3
  <2>7. \E b \in Bounds : stmts \in 0..b[1] /\ conns \in 0..b[2]
    BY <1>2, <1>4
  <2> QED BY <1>1, <2>1, <2>3, <2>4, <2>5, <2>6, <2>7 DEF TypeOK
<1> QED BY <1>3, <1>4 DEF Inv

LEMMA InStep == ASSUME Inv PROVE GraphInStep
<1>1. TypeOK
  BY TypesHold
<1>2. VisitInOpenBlock
  <2> SUFFICES ASSUME At("Stmt") PROVE Last(cur_basic_block_list) = insert /\ ~Terminated(fn, insert)
    BY DEF VisitInOpenBlock
  <2>1. ~Terminated(fn, insert) /\ cur_basic_block_list = <<insert>>
    BY AtStatement
  <2>2. Last(<<insert>>) = insert
    BY OneFacts
  <2> QED BY <2>1, <2>2
<1>3. CASE Starting
  <2>1. PICK e : e = EmptyFn
    OBVIOUS
  <2>2. /\ e.blocks = {}
        /\ \A b \in BlockIds : e.pre[b] = <<>> /\ e.succ[b] = <<>> /\ e.code[b] = <<>>
    BY <2>1 DEF EmptyFn
  <2>3. fn = e
    BY <1>3, <2>1 DEF Starting
  <2>4. PredSuccSymmetric
    <3> SUFFICES ASSUME NEW a \in BlockIds, NEW b \in BlockIds
                 PROVE  Occurrences(fn.succ[a], b) = Occurrences(fn.pre[b], a)
      BY DEF PredSuccSymmetric
    <3>1. <<>> \in Seq(BlockIds) /\ b \notin ToSet(<<>>) /\ a \notin ToSet(<<>>)
      BY DEF ToSet
    <3>2. Occurrences(<<>>, a) = 0 /\ Occurrences(<<>>, b) = 0
      BY <3>1, OccurrencesNat
    <3> QED BY <2>2, <2>3, <3>2
  <2>5. EdgesMatchCode
    BY <2>2, <2>3 DEF EdgesMatchCode, Listed
  <2>6. OneTerminator
    <3>1. \A k : k \notin 1..(Len(<<>>) - 1)
      OBVIOUS
    <3> QED BY <2>2, <2>3, <3>1 DEF OneTerminator
  <2>7. AllocasInEntry
    BY <2>2, <2>3 DEF AllocasInEntry
  <2> QED BY <1>1, <1>2, <2>4, <2>5, <2>6, <2>7 DEF GraphInStep
<1>4. CASE Running
  <2>1. /\ fn \in FnType /\ CodeSound(fn) /\ TargetsSound(fn) /\ Symmetric(fn)
        /\ fn.blocks \subseteq BlockIds
    BY <1>4, RunningFacts
  <2>2. PredSuccSymmetric
    BY <2>1 DEF Symmetric, PredSuccSymmetric
  <2>3. EdgesMatchCode
    BY <2>1, SuccessorsAre DEF EdgesMatchCode, Listed
  <2>4. OneTerminator
    BY <2>1, CodeFacts DEF OneTerminator
  <2>5. AllocasInEntry
    BY <2>1, CodeFacts DEF AllocasInEntry
  <2> QED BY <1>1, <1>2, <2>2, <2>3, <2>4, <2>5 DEF GraphInStep
<1> QED BY <1>3, <1>4 DEF Inv

\* Nothing is left to visit: the graph is complete.
LEMMA AtEnd ==
  ASSUME Inv, Done
  PROVE  /\ Sound(fn, Ret, {}, {}, {}) /\ Terminated(fn, Ret) /\ Last(fn.code[Ret]) = <<"ret">>
         /\ cur_basic_block_list = <<>> /\ while_stack = <<>> /\ or_stack = <<>>
         /\ scope = 1 /\ ~pre_enter_scope
<1>1. calls = <<>>
  BY DEF Done
<1>2. Running
  <2>1. ASSUME NEW x PROVE <<x>> # <<>>
    OBVIOUS
  <2>2. ~Starting
    BY <1>1, <2>1 DEF Starting
  <2> QED BY <2>2 DEF Inv
<1>3. PICK c : c = calls
  OBVIOUS
<1>4. /\ c = <<>> /\ Fits(c, fn, insert) /\ insert = Ret /\ Terminated(fn, Ret) /\ Last(fn.code[Ret]) = <<"ret">>
      /\ while_stack \in Seq(Branch) /\ or_stack \in Seq(Branch)
      /\ ScopeMatches(c, scope) /\ LoopsMatch(c, while_stack) /\ OrsMatch(c, or_stack)
      /\ ListMatches(c, fn, insert, cur_basic_block_list)
  BY <1>1, <1>2, <1>3, RunningFacts DEF Running, Matches
<1>5. /\ AllPending(c) = {} /\ (\A in : Returns(c, in) = {} /\ Dominated(c, in) = {})
      /\ (\A n : ScopeMatches(c, n) <=> n = 1)
      /\ (\A ws \in Seq(Branch) : LoopsMatch(c, ws) <=> ws = <<>>)
      /\ (\A os \in Seq(Branch) : OrsMatch(c, os) <=> os = <<>>)
  BY <1>4, NoCalls
<1>6. Sound(fn, Ret, {}, {}, {})
  <2>1. Sound(fn, Ret, AllPending(c), Returns(c, Ret), Dominated(c, Ret))
    BY <1>4 DEF Fits
  <2> QED BY <1>5, <2>1
<1>7. cur_basic_block_list = <<>>
  BY <1>4 DEF ListMatches
<1>8. ~pre_enter_scope
  <2>1. ASSUME NEW x, NEW y PROVE <<x, y>> # <<>>
    OBVIOUS
  <2> QED BY <1>1, <1>2, <2>1 DEF Running
<1> QED BY <1>4, <1>5, <1>6, <1>7, <1>8

LEMMA Formed == ASSUME Inv PROVE WellFormed
<1> SUFFICES ASSUME Done PROVE WellFormed
  BY DEF WellFormed, BlocksTerminated, AllReachable, LoopsReducible
<1>1. Sound(fn, Ret, {}, {}, {}) /\ Terminated(fn, Ret) /\ Last(fn.code[Ret]) = <<"ret">>
  BY AtEnd
<1>2. Listed = fn.blocks /\ Succs = Succ(fn) /\ Preds = Pred(fn)
  BY DEF Listed, Succs, Preds, Succ, Pred
<1>3. /\ \A b \in fn.blocks : Terminated(fn, b)
      /\ Pred(fn)[Entry] = {}
      /\ ReachIn(fn.blocks, Succ(fn), Entry) = fn.blocks
      /\ ReachIn(fn.blocks, Pred(fn), Ret) = fn.blocks
      /\ \A b \in fn.blocks : Last(fn.code[b]) = <<"ret">> <=> b = Ret
  BY <1>1, FinishedFacts
<1>4. Reducible(fn.blocks, Succ(fn), Entry)
  <2>1. Graph(fn) /\ Structured(fn)
    BY <1>1, SoundGraph DEF Sound
  <2> QED BY <2>1, StructuredReducible
<1>5. \A b \in fn.blocks : b \notin Succ(fn)[b]
  <2>1. NoSelfLoop(fn)
    BY <1>1 DEF Sound
  <2> QED BY <2>1 DEF NoSelfLoop, Succ
<1>6. BlocksTerminated
  BY <1>2, <1>3 DEF BlocksTerminated
<1>7. AllReachable
  BY <1>2, <1>3 DEF AllReachable
<1>8. LoopsReducible
  BY <1>2, <1>4, <1>5 DEF LoopsReducible
<1> QED BY <1>6, <1>7, <1>8 DEF WellFormed

-----------------------------------------------------------------------------
(* The theorems.                                                           *)

LEMMA Invariance == Spec => []Inv
BY Initially, Preserved, PTL DEF Spec

\* At every moment of building a function, whatever its statements and
\* however many, succ_bbs_ and pre_bbs_ record the same edges, they are those
\* of the terminators, nothing stands behind a terminator, a statement is
\* visited with an open insert block that is the last current block, and only
\* the entry block holds an alloca.
THEOREM AlwaysInStep == Spec => []GraphInStep
<1>1. Inv => GraphInStep
  BY InStep
<1> QED BY <1>1, Invariance, PTL

\* A finished function has a terminator in every block; the entry block has no
\* predecessor and reaches every block, every block reaches the ret block, the
\* only one that returns; and its loops are reducible, without a block that
\* branches to itself.
THEOREM FunctionsWellFormed == Spec => []WellFormed
<1>1. Inv => WellFormed
  BY Formed
<1> QED BY <1>1, Invariance, PTL

\* Behind a function the list of current blocks and both stacks of branch
\* targets are empty, and the scope is the global one.
THEOREM VariablesRestored == Spec => []StateRestored
<1>1. Inv => StateRestored
  BY AtEnd DEF StateRestored
<1> QED BY <1>1, Invariance, PTL

\* break jumps behind, and continue to the condition of, the innermost loop
\* around it, at any depth of nesting.
THEOREM InnermostTargets == Spec => JumpsInnermost
<1>1. ASSUME Inv, [Next]_vars
      PROVE  [/\ BreakStmt => fn'.succ[insert] = <<InnermostLoop.nextBB>>
              /\ ContinueStmt => fn'.succ[insert] = <<InnermostLoop.whileBB>>]_vars
  BY <1>1, BreakStmtStep, ContinueStmtStep
<1> QED BY <1>1, Invariance, PTL DEF Spec, JumpsInnermost
=============================================================================
