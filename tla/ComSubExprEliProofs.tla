------------------------- MODULE ComSubExprEliProofs -------------------------
(***************************************************************************)
(* Proofs about the fixpoint of ComSubExprEli, for every function: the     *)
(* sets only shrink, and when the iteration ends an expression is in the   *)
(* set of a block exactly if every path to the block has computed it,      *)
(* whatever the order of the blocks in the list.                           *)
(***************************************************************************)
EXTENDS ComSubExprEli, CfgProofs, SequenceTheorems, TLAPS

\* What the next visit of b finds available at its start.
InOf(b) == IF b = entry THEN {} ELSE Meet(b)

FlowTypes ==
  /\ program \in Programs
  /\ next \in 1..(Len(program.blocks) + 1)
  /\ bb_gen \in [Block -> SUBSET availableExprs]
  /\ bb_in \in [Block -> SUBSET availableExprs]
  /\ bb_out \in [Block -> SUBSET availableExprs]

\* A visit of a block never finds more than the last one left there.
Shrinking == \A b \in Block : InOf(b) \cup bb_gen[b] \subseteq bb_out[b]

\* What is available on every path is never taken out.
KeepsAvailable ==
  \A b \in Block : \A x \in availableExprs :
    x \in bb_gen[b] \/ b \notin Missed(x) => x \in bb_out[b]

Settled(b) == bb_in[b] = InOf(b) /\ bb_out[b] = bb_in[b] \cup bb_gen[b]

\* While a round has changed nothing, the blocks behind it solve the equations.
SettledBehind == ~rerun => \A k \in 1..(next - 1) : Settled(program.blocks[k])

FlowInv == FlowTypes /\ Shrinking /\ KeepsAvailable /\ SettledBehind

\* Before the fixpoint only the empty sets of its start matter.
Start ==
  /\ program \in Programs /\ next = 1
  /\ bb_in = [b \in Block |-> {}]

Inv == (pc = "gen" => Start) /\ (pc = "flow" => FlowInv)

-----------------------------------------------------------------------------

\* The blocks of a function are finitely many, and its list has them all.
LEMMA BlocksFinite ==
  ASSUME program \in Programs
  PROVE  /\ IsFiniteSet(Block)
         /\ program.blocks \in Seq(Block)
         /\ \A b \in Block : \E k \in 1..Len(program.blocks) : program.blocks[k] = b
         /\ \A b \in Block : ToSet(program.pre[b]) \subseteq Block
<1>1. /\ program.blocks \in Seq(Block) /\ ToSet(program.blocks) = Block
      /\ \A b \in Block : program.pre[b] \in Seq(Block)
  BY ProgramsAssumption DEF Function
<1>2. \A b \in Block : \E k \in 1..Len(program.blocks) : program.blocks[k] = b
  BY <1>1 DEF ToSet
<1>3. IsFiniteSet(1..Len(program.blocks))
  BY <1>1, FS_Interval, LenProperties
<1>4. program.blocks \in Surjection(1..Len(program.blocks), Block)
  BY <1>1, <1>2 DEF Surjection
<1>5. IsFiniteSet(Block)
  BY <1>3, <1>4, FS_Surjection
<1>6. \A b \in Block : ToSet(program.pre[b]) \subseteq Block
  BY <1>1 DEF ToSet
<1> QED BY <1>1, <1>2, <1>5, <1>6

\* The edges from p, as its successors' lists of predecessors say.
LEMMA EdgeOf ==
  ASSUME program \in Programs, NEW b \in Block, NEW p \in Block
  PROVE  p \in ToSet(program.pre[b]) <=> b \in succ[p]
<1>1. program.pre[b] \in Seq(Block)
  BY ProgramsAssumption DEF Function
<1>2. DOMAIN program.pre[b] = 1..Len(program.pre[b])
  BY <1>1, LenProperties
<1> QED BY <1>2 DEF succ, Contains, ToSet

\* One step of a path: the start of the entry has no expression, and a block
\* that lacks x at its start and does not compute it hands that on.
LEMMA MissedStep ==
  ASSUME program \in Programs, NEW x, NEW b \in Block, b \notin Missed(x)
  PROVE  /\ b # entry
         /\ \A p \in ToSet(program.pre[b]) : p \in Block /\ (x \in bb_gen[p] \/ p \notin Missed(x))
<1> DEFINE S == [c \in Block |-> IF x \in bb_gen[c] THEN {} ELSE succ[c]]
<1>1. IsFiniteSet(Block)
  BY BlocksFinite
<1>2. (entry \in Block => entry \in ReachIn(Block, S, entry)) /\ Closed(Block, S, ReachIn(Block, S, entry))
  BY <1>1, ReachClosed
<1>3. Missed(x) = ReachIn(Block, S, entry)
  BY DEF Missed
<1>4. b # entry
  BY <1>2, <1>3
<1>5. ASSUME NEW p \in ToSet(program.pre[b]), x \notin bb_gen[p], p \in Missed(x) PROVE FALSE
  <2>1. p \in Block
    BY BlocksFinite
  <2>2. b \in S[p]
    BY <2>1, <1>5, EdgeOf
  <2>3. b \in ReachIn(Block, S, entry)
    BY <2>1, <2>2, <1>2, <1>3, <1>5 DEF Closed
  <2> QED BY <2>3, <1>3
<1>6. ToSet(program.pre[b]) \subseteq Block
  BY BlocksFinite
<1> QED BY <1>4, <1>5, <1>6

\* So the next visit of a block finds what every path to it has computed.
LEMMA FoundOnAllPaths ==
  ASSUME program \in Programs, KeepsAvailable, NEW x \in availableExprs, NEW b \in Block, b \notin Missed(x)
  PROVE  x \in InOf(b)
<1>1. b # entry
  BY MissedStep
<1>2. \A p \in ToSet(program.pre[b]) : p \in Block /\ (x \in bb_gen[p] \/ p \notin Missed(x))
  BY MissedStep
<1>3. \A p \in ToSet(program.pre[b]) : x \in bb_out[p]
  BY <1>2 DEF KeepsAvailable
<1> QED BY <1>1, <1>3 DEF InOf, Meet

-----------------------------------------------------------------------------
(* One visit of a block.                                                   *)

\* The block that is visited.
LEMMA VisitedBlock ==
  ASSUME FlowTypes, next <= Len(program.blocks)
  PROVE  /\ Current \in Block
         /\ next \in 1..Len(program.blocks)
<1>1. program.blocks \in Seq(Block)
  BY BlocksFinite DEF FlowTypes
<1>2. Len(program.blocks) \in Nat /\ next \in 1..(Len(program.blocks) + 1)
  BY <1>1, LenProperties DEF FlowTypes
<1>3. next \in 1..Len(program.blocks)
  BY <1>2
<1> QED BY <1>1, <1>3, ElementOfSeq DEF Current

\* What it does to the sets.
LEMMA VisitSets ==
  ASSUME FlowInv, Iterate
  PROVE  /\ program' = program /\ availableExprs' = availableExprs /\ bb_gen' = bb_gen
         /\ bb_in'[Current] = InOf(Current)
         /\ bb_out'[Current] = InOf(Current) \cup bb_gen[Current]
         /\ \A b \in Block \ {Current} : bb_in'[b] = bb_in[b] /\ bb_out'[b] = bb_out[b]
<1>1. Current \in Block
  BY VisitedBlock DEF FlowInv, Iterate
<1> QED BY <1>1 DEF Iterate, FlowInv, FlowTypes, InOf

LEMMA VisitTypes == FlowInv /\ Iterate => FlowTypes'
<1> SUFFICES ASSUME FlowInv, Iterate PROVE FlowTypes'
  OBVIOUS
<1> DEFINE c == Current
<1>1. c \in Block /\ next \in 1..Len(program.blocks)
  BY VisitedBlock DEF FlowInv, Iterate
<1>2. program.blocks \in Seq(Block)
  BY BlocksFinite DEF FlowInv, FlowTypes
<1>3. Len(program.blocks) \in Nat
  BY <1>2, LenProperties
<1>4. InOf(c) \in SUBSET availableExprs
  BY DEF InOf, Meet
<1>5. bb_in' = [bb_in EXCEPT ![c] = InOf(c)]
  BY DEF Iterate, InOf
<1>6. bb_out' = [bb_out EXCEPT ![c] = InOf(c) \cup bb_gen[c]]
  BY <1>1, VisitSets, <1>5 DEF Iterate
<1>7. bb_in' \in [Block -> SUBSET availableExprs] /\ bb_out' \in [Block -> SUBSET availableExprs]
  BY <1>1, <1>4, <1>5, <1>6 DEF FlowInv, FlowTypes
<1>8. next' \in 1..(Len(program.blocks) + 1)
  BY <1>1, <1>3 DEF Iterate
<1> QED BY <1>7, <1>8 DEF Iterate, FlowInv, FlowTypes

\* A visit takes expressions out of the set of its block and adds none.
LEMMA VisitShrinks ==
  ASSUME FlowInv, Iterate
  PROVE  \A b \in Block : bb_out'[b] \subseteq bb_out[b] /\ (InOf(b))' \subseteq InOf(b)
<1>1. Current \in Block
  BY VisitedBlock DEF FlowInv, Iterate
<1>2. \A b \in Block : bb_out'[b] \subseteq bb_out[b]
  BY <1>1, VisitSets DEF FlowInv, Shrinking
<1>3. ASSUME NEW b \in Block PROVE (InOf(b))' \subseteq InOf(b)
  <2>1. ToSet(program.pre[b]) \subseteq Block
    BY BlocksFinite DEF FlowInv, FlowTypes
  <2>2. program' = program /\ availableExprs' = availableExprs /\ entry' = entry
    BY VisitSets DEF entry
  <2> QED BY <1>2, <2>1, <2>2 DEF InOf, Meet
<1> QED BY <1>2, <1>3

LEMMA VisitShrinking == FlowInv /\ Iterate => Shrinking'
<1> SUFFICES ASSUME FlowInv, Iterate, NEW b \in Block
             PROVE  (InOf(b))' \cup bb_gen'[b] \subseteq bb_out'[b]
  BY DEF Shrinking
<1>1. (InOf(b))' \subseteq InOf(b) /\ bb_gen' = bb_gen
  BY VisitShrinks, VisitSets
<1>2. CASE b = Current
  BY <1>1, <1>2, VisitSets
<1>3. CASE b # Current
  <2>1. bb_out'[b] = bb_out[b]
    BY <1>3, VisitSets
  <2> QED BY <1>1, <2>1 DEF FlowInv, Shrinking
<1> QED BY <1>2, <1>3

LEMMA VisitKeeps == FlowInv /\ Iterate => KeepsAvailable'
<1> SUFFICES ASSUME FlowInv, Iterate PROVE KeepsAvailable'
  OBVIOUS
<1>a. program' = program /\ availableExprs' = availableExprs /\ bb_gen' = bb_gen
  BY VisitSets
<1>b. \A x \in availableExprs : (Missed(x))' = Missed(x)
  BY <1>a DEF Missed, succ, entry
<1> SUFFICES ASSUME NEW b \in Block, NEW x \in availableExprs, x \in bb_gen[b] \/ b \notin Missed(x)
             PROVE  x \in bb_out'[b]
  BY <1>a, <1>b DEF KeepsAvailable
<1>1. program \in Programs /\ KeepsAvailable
  BY DEF FlowInv, FlowTypes
<1>2. x \in InOf(b) \cup bb_gen[b]
  BY <1>1, FoundOnAllPaths
<1>3. CASE b = Current
  BY <1>2, <1>3, VisitSets
<1>4. CASE b # Current
  BY <1>4, VisitSets DEF FlowInv, KeepsAvailable
<1> QED BY <1>3, <1>4

\* A round that has changed nothing so far has left every set as it was.
LEMMA VisitSettles == FlowInv /\ Iterate => SettledBehind'
<1> SUFFICES ASSUME FlowInv, Iterate, ~rerun', NEW k \in 1..(next' - 1)
             PROVE  Settled(program.blocks[k])'
  BY VisitSets DEF SettledBehind
<1> DEFINE b == program.blocks[k]
<1>1. Current \in Block /\ next \in 1..Len(program.blocks)
  BY VisitedBlock DEF FlowInv, Iterate
<1>2. program.blocks \in Seq(Block)
  BY BlocksFinite DEF FlowInv, FlowTypes
<1>3. Len(program.blocks) \in Nat
  BY <1>2, LenProperties
<1>4. next' = next + 1
  BY DEF Iterate
<1>5. k \in 1..next /\ k \in 1..Len(program.blocks)
  BY <1>1, <1>3, <1>4
<1>6. b \in Block
  BY <1>2, <1>5, ElementOfSeq
<1>7. ~rerun /\ bb_out'[Current] = bb_out[Current]
  BY DEF Iterate
<1>8. \A c \in Block : bb_out'[c] = bb_out[c]
  BY <1>7, VisitSets
<1>9. program' = program /\ availableExprs' = availableExprs /\ bb_gen' = bb_gen /\ entry' = entry
  BY VisitSets DEF entry
<1>10. ToSet(program.pre[b]) \subseteq Block
  BY <1>6, BlocksFinite DEF FlowInv, FlowTypes
<1>11. InOf(b)' = InOf(b)
  BY <1>6, <1>8, <1>9, <1>10 DEF InOf, Meet
<1>12. CASE b = Current
  BY <1>9, <1>11, <1>12, VisitSets DEF Settled
<1>13. CASE b # Current
  <2>1. k # next
    BY <1>13 DEF Current
  <2>2. k \in 1..(next - 1)
    BY <1>1, <1>5, <2>1
  <2>3. Settled(b)
    BY <1>7, <2>2 DEF FlowInv, SettledBehind
  <2> QED BY <1>6, <1>9, <1>11, <1>13, <2>3, VisitSets DEF Settled
<1> QED BY <1>12, <1>13

-----------------------------------------------------------------------------
(* The invariant.                                                          *)

\* The fixpoint starts from everything.
LEMMA GenFlow == Start /\ ComputeLocalGen => FlowInv'
<1> SUFFICES ASSUME Start, ComputeLocalGen PROVE FlowInv'
  OBVIOUS
<1> DEFINE A == availableExprs'
<1>1. \A b \in Block : bb_out'[b] = A
  BY DEF ComputeLocalGen
<1>2. bb_gen' \in [Block -> SUBSET A]
  BY DEF ComputeLocalGen, Instrs
<1>3. program' = program /\ next' = 1 /\ bb_in' = bb_in /\ ~rerun'
  BY DEF ComputeLocalGen, Start
<1>4. Len(program.blocks) \in Nat
  BY BlocksFinite, LenProperties DEF Start
<1>5. FlowTypes'
  <2>1. bb_in' \in [Block -> SUBSET A]
    BY <1>3 DEF Start
  <2>2. bb_out' \in [Block -> SUBSET A]
    BY DEF ComputeLocalGen
  <2>3. program' \in Programs /\ next' \in 1..(Len(program'.blocks) + 1)
    BY <1>3, <1>4 DEF Start
  <2> QED BY <1>2, <2>1, <2>2, <2>3 DEF FlowTypes
<1>6. Shrinking'
  <2>1. \A b \in Block : (InOf(b))' \subseteq A
    BY DEF InOf, Meet
  <2> QED BY <1>1, <1>2, <2>1 DEF Shrinking
<1>7. KeepsAvailable'
  BY <1>1 DEF KeepsAvailable
<1>8. SettledBehind'
  BY <1>3 DEF SettledBehind
<1> QED BY <1>5, <1>6, <1>7, <1>8 DEF FlowInv

\* A new round starts with the sets as they are.
LEMMA RoundFlow == FlowInv /\ PassDone => FlowInv'
<1> SUFFICES ASSUME FlowInv, PassDone PROVE FlowInv'
  OBVIOUS
<1>1. /\ program' = program /\ next' = 1 /\ availableExprs' = availableExprs
      /\ bb_gen' = bb_gen /\ bb_in' = bb_in /\ bb_out' = bb_out
  BY DEF PassDone
<1>2. Len(program.blocks) \in Nat
  BY BlocksFinite, LenProperties DEF FlowInv, FlowTypes
<1>3. FlowTypes'
  BY <1>1, <1>2 DEF FlowInv, FlowTypes
<1>4. \A b \in Block : (InOf(b))' = InOf(b)
  BY <1>1 DEF InOf, Meet, entry
<1>5. Shrinking'
  BY <1>1, <1>4 DEF FlowInv, Shrinking
<1>6. \A x \in availableExprs : (Missed(x))' = Missed(x)
  BY <1>1 DEF Missed, succ, entry
<1>7. KeepsAvailable'
  BY <1>1, <1>6 DEF FlowInv, KeepsAvailable
<1>8. SettledBehind'
  BY <1>1 DEF SettledBehind
<1> QED BY <1>3, <1>5, <1>7, <1>8 DEF FlowInv

\* The steps of the replacement do not lead back to the fixpoint.
Replacing ==
  \/ SkipInstr \/ FindGlobal \/ Search \/ ReturnToCaller \/ ReplaceGlobal \/ ReplaceLocal \/ KeepInstr \/ NextBlock
  \/ DeleteAll

LEMMA ReplacingLeaves == Replacing => pc \notin {"gen", "flow"} /\ pc' \notin {"gen", "flow"}
BY DEF Replacing, SkipInstr, FindGlobal, Search, ReturnToCaller, ReplaceGlobal, ReplaceLocal, KeepInstr,
       NextBlock, DeleteAll, AtInstr, Step

LEMMA InitInv == Init => Inv
BY DEF Init, Inv, Start

LEMMA StutterInv == Inv /\ UNCHANGED vars => Inv'
<1> SUFFICES ASSUME Inv, UNCHANGED vars PROVE Inv'
  OBVIOUS
<1>1. /\ program' = program /\ pc' = pc /\ next' = next /\ availableExprs' = availableExprs
      /\ bb_gen' = bb_gen /\ bb_in' = bb_in /\ bb_out' = bb_out /\ rerun' = rerun
  BY DEF vars, flow
<1>2. /\ \A b \in Block : (InOf(b))' = InOf(b)
      /\ \A x \in availableExprs : (Missed(x))' = Missed(x)
  BY <1>1 DEF InOf, Meet, Missed, succ, entry
<1>3. ASSUME FlowInv PROVE FlowInv'
  <2>1. FlowTypes' /\ Shrinking'
    BY <1>1, <1>2, <1>3 DEF FlowInv, FlowTypes, Shrinking
  <2>2. KeepsAvailable'
    BY <1>1, <1>2, <1>3 DEF FlowInv, KeepsAvailable
  <2>3. \A b : (InOf(b))' = InOf(b)
    BY <1>1 DEF InOf, Meet, entry
  <2>4. SettledBehind'
    BY <1>1, <1>3, <2>3 DEF FlowInv, SettledBehind, Settled
  <2> QED BY <2>1, <2>2, <2>4 DEF FlowInv
<1>4. Start => Start'
  BY <1>1 DEF Start
<1> QED BY <1>1, <1>3, <1>4 DEF Inv

LEMMA NextInv == Inv /\ [Next]_vars => Inv'
<1> SUFFICES ASSUME Inv, [Next]_vars PROVE Inv'
  OBVIOUS
<1>1. CASE ComputeLocalGen
  BY <1>1, GenFlow DEF ComputeLocalGen, Inv
<1>2. CASE Iterate
  <2>1. FlowInv /\ pc' = "flow"
    BY <1>2 DEF Iterate, Inv
  <2>2. FlowInv'
    BY <1>2, <2>1, VisitTypes, VisitShrinking, VisitKeeps, VisitSettles DEF FlowInv
  <2> QED BY <2>1, <2>2 DEF Inv
<1>3. CASE PassDone
  <2>1. FlowInv /\ pc' # "gen"
    BY <1>3 DEF PassDone, Inv
  <2> QED BY <1>3, <2>1, RoundFlow DEF Inv
<1>4. CASE Replacing
  BY <1>4, ReplacingLeaves DEF Inv
<1>5. CASE UNCHANGED vars
  BY <1>5, StutterInv
<1> QED BY <1>1, <1>2, <1>3, <1>4, <1>5 DEF Next, Replacing, Finished

LEMMA Invariance == Spec => []Inv
BY InitInv, NextInv, PTL DEF Spec

-----------------------------------------------------------------------------

\* The sets of compute_global_in_out start from everything and no step of an
\* iteration puts an expression back, whatever the blocks, their order and
\* their expressions: with finitely many expressions the rounds come to an end.
THEOREM OutShrinks == Spec => OutOnlyShrinks
<1>1. ASSUME Inv, [Next]_vars, pc = "flow" PROVE \A b \in Block : bb_out'[b] \subseteq bb_out[b]
  <2>1. CASE Iterate
    <3>1. FlowInv
      BY <1>1 DEF Inv
    <3> QED BY <2>1, <3>1, VisitShrinks
  <2>2. CASE PassDone
    BY <2>2 DEF PassDone
  <2>3. CASE UNCHANGED vars
    BY <2>3 DEF vars, flow
  <2>4. ~ComputeLocalGen /\ ~Replacing
    BY <1>1, ReplacingLeaves DEF ComputeLocalGen
  <2> QED BY <1>1, <2>1, <2>2, <2>3, <2>4 DEF Next, Replacing, Finished
<1>2. Inv /\ [Next]_vars => (pc = "flow" => \A b \in Block : bb_out'[b] \subseteq bb_out[b])
  BY <1>1
<1> QED BY <1>2, Invariance, PTL DEF Spec, OutOnlyShrinks

\* A solution of the equations that keeps what every path computes has nothing
\* else: the blocks where x is not in the set are closed under the steps of a
\* path that misses x, and the entry is one of them.
LEMMA SettledExact ==
  ASSUME FlowInv, \A b \in Block : Settled(b), NEW b \in Block
  PROVE  bb_in[b] = {x \in availableExprs : b \notin Missed(x)}
<1>1. program \in Programs /\ KeepsAvailable /\ bb_in[b] \subseteq availableExprs
  BY DEF FlowInv, FlowTypes
<1>2. ASSUME NEW x \in availableExprs, b \notin Missed(x) PROVE x \in bb_in[b]
  BY <1>1, <1>2, FoundOnAllPaths DEF Settled
<1>3. ASSUME NEW x \in bb_in[b] PROVE b \notin Missed(x)
  <2> DEFINE S == [c \in Block |-> IF x \in bb_gen[c] THEN {} ELSE succ[c]]
             X == {c \in Block : x \notin bb_in[c]}
  <2>1. entry \in Block => entry \in X
    BY DEF Settled, InOf
  <2>2. ASSUME NEW c \in X, NEW d \in S[c] \cap Block PROVE d \in X
    <3>1. c \in Block /\ x \notin bb_in[c] /\ x \notin bb_gen[c] /\ d \in succ[c]
      BY <2>2
    <3>2. c \in ToSet(program.pre[d])
      BY <1>1, <3>1, EdgeOf
    <3>3. x \notin bb_out[c]
      BY <3>1 DEF Settled
    <3>4. x \notin InOf(d)
      BY <3>2, <3>3 DEF InOf, Meet
    <3> QED BY <3>4 DEF Settled
  <2>3. Closed(Block, S, X \cap Block)
    BY <2>2 DEF Closed
  <2>4. IsFiniteSet(Block)
    BY <1>1, BlocksFinite
  <2>5. ReachIn(Block, S, entry) \subseteq X
    BY <2>1, <2>3, <2>4, ReachLeast
  <2>6. Missed(x) \subseteq X
    BY <2>5 DEF Missed
  <2> QED BY <2>6
<1> QED BY <1>1, <1>2, <1>3

\* When a round of compute_global_in_out changes nothing, the set at the start
\* of every block holds exactly the expressions that every path from the entry
\* to it has computed, for every graph, every order of the block list and every
\* order of the predecessors; what other functions left in availableExprs is
\* among them only if this one computes an equal expression.
THEOREM AvailableExact == Spec => []AvailExact
<1>1. ASSUME Inv PROVE AvailExact
  <2> SUFFICES ASSUME pc = "flow", next > Len(program.blocks), ~rerun, NEW b \in Block
               PROVE  bb_in[b] = {x \in availableExprs : b \notin Missed(x)}
    BY DEF AvailExact
  <2>1. FlowInv
    BY <1>1 DEF Inv
  <2>2. program \in Programs /\ next \in 1..(Len(program.blocks) + 1)
    BY <2>1 DEF FlowInv, FlowTypes
  <2>3. Len(program.blocks) \in Nat
    BY <2>2, BlocksFinite, LenProperties
  <2>4. 1..(next - 1) = 1..Len(program.blocks)
    BY <2>2, <2>3
  <2>5. \A c \in Block : Settled(c)
    BY <2>1, <2>2, <2>4, BlocksFinite DEF FlowInv, SettledBehind
  <2> QED BY <2>1, <2>5, SettledExact
<1> QED BY <1>1, Invariance, PTL

=============================================================================
