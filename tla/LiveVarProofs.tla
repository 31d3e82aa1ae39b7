---------------------------- MODULE LiveVarProofs ----------------------------
(***************************************************************************)
(* Proofs about LiveVar, for every function and any sets of blocks and     *)
(* values: the sets only grow, when the pass ends they solve the data-flow *)
(* equations, and they are exactly what the paths of the graph need.       *)
(***************************************************************************)
EXTENDS LiveVar, CfgProofs, SequenceTheorems, TLAPS

\* Every value that is live into a block has a source there: lines 110-111,
\* for values without one, are never reached.
SourcesKnown == \A b \in Block : \A v \in live_in[b] : wherefrom[b][Key(v)] # {}

\* Scanning a block again would lose nothing.
Growing == \A b \in Block : live_in[b] \subseteq NewIn(b) /\ live_out[b] \subseteq NewOut(b)

\* A block that has been scanned has recorded the sources of its uses, and
\* itself for what is live through it.
Recorded ==
  \A b \in Block :
    /\ live_in[b] # {} => \A u \in Uses(b) : u.from \in wherefrom[b][Key(u.val)]
    /\ \A v \in Through(b) : b \in wherefrom[b][Key(v)]

Stable(b) == live_in[b] = NewIn(b) /\ live_out[b] = NewOut(b)

\* While a pass has changed nothing, the blocks behind it are stable.
StableBehind ==
  /\ pc = "scan" /\ ~changed => \A k \in 1..(next - 1) : Stable(program.blocks[k])
  /\ EquationsHold

GrowthInv == TypeOK /\ SourcesKnown /\ Growing
Inv == GrowthInv /\ Recorded /\ StableBehind

-----------------------------------------------------------------------------

\* A name is a key of wherefrom.
LEMMA KeyType == \A v \in Value : Key(v) \in Keys
BY DEF Key, Keys

\* What the instructions of a block use are values, and their sources blocks.
LEMMA UsesType ==
  ASSUME TypeOK, NEW b \in Block
  PROVE  Uses(b) \subseteq [val : Value, from : Block]
<1> DEFINE src(k, o) == IF program.code[b][k].phi THEN o.from ELSE b
<1>1. program.code[b] \in Seq([id : (Value \ Unnamed) \cup {Null}, phi : BOOLEAN, ops : Seq(Operand)])
  BY DEF TypeOK, Function
<1>2. ASSUME NEW k \in DOMAIN program.code[b], NEW o \in ToSet(program.code[b][k].ops)
      PROVE  [val |-> o.val, from |-> src(k, o)] \in [val : Value, from : Block]
  <2>1. program.code[b][k] \in [id : (Value \ Unnamed) \cup {Null}, phi : BOOLEAN, ops : Seq(Operand)]
    BY <1>1, LenProperties, ElementOfSeq
  <2>2. program.code[b][k] \in ToSet(program.code[b])
    BY DEF ToSet
  <2>3. o \in Operand
    BY <2>1 DEF ToSet
  <2>4. program.code[b][k].phi <=> o.from # Null
    BY <2>2 DEF TypeOK, Function
  <2>5. src(k, o) \in Block
    BY <2>3, <2>4 DEF Operand
  <2> QED BY <2>3, <2>5 DEF Operand
<1> QED BY <1>2 DEF Uses

\* The values of a block's scan are values.
LEMMA ScanTypes ==
  ASSUME TypeOK, NEW b \in Block
  PROVE  /\ NewIn(b) \in SUBSET Value
         /\ NewOut(b) \in SUBSET Value
         /\ Sources(b) \in [Keys -> SUBSET Block]
<1>1. NewIn(b) \in SUBSET Value
  BY UsesType DEF NewIn, Through, TypeOK
<1>2. NewOut(b) \in SUBSET Value
  BY DEF NewOut, Needs, TypeOK, Function
<1>3. Sources(b) \in [Keys -> SUBSET Block]
  BY UsesType DEF Sources, TypeOK
<1> QED BY <1>1, <1>2, <1>3

\* The block that a step scans.
LEMMA ScannedBlock ==
  ASSUME TypeOK, next <= Len(program.blocks)
  PROVE  program.blocks[next] \in Block
BY DEF TypeOK, Function

LEMMA InitInv == Init => Inv
<1> SUFFICES ASSUME Init PROVE Inv
  OBVIOUS
<1>1. TypeOK
  <2>1. Function(program)
    BY ProgramsAssumption DEF Init
  <2>2. next \in 1..(Len(program.blocks) + 1)
    BY <2>1, LenProperties DEF Init, Function
  <2> QED BY <2>1, <2>2 DEF Init, TypeOK
<1>2. SourcesKnown /\ Growing
  BY DEF Init, SourcesKnown, Growing
<1>3. Recorded
  BY DEF Init, Recorded, Through
<1>4. StableBehind
  BY DEF Init, StableBehind, EquationsHold
<1> QED BY <1>1, <1>2, <1>3, <1>4 DEF Inv, GrowthInv

-----------------------------------------------------------------------------
(* TypeOK.                                                                 *)

LEMMA ScanTypeOK == TypeOK /\ ScanBlock => TypeOK'
<1> SUFFICES ASSUME TypeOK, ScanBlock PROVE TypeOK'
  OBVIOUS
<1> DEFINE b == program.blocks[next]
<1>1. b \in Block
  BY ScannedBlock DEF ScanBlock
<1>2. wherefrom' \in [Block -> [Keys -> SUBSET Block]]
  <2> DEFINE row == [n \in Keys |-> Sources(b)[n] \cup
                       (IF \E v \in NewOut(b) \ def_set(b) : Key(v) = n THEN {b} ELSE {})]
  <2>1. row \in [Keys -> SUBSET Block]
    BY <1>1, ScanTypes
  <2>2. wherefrom' = [wherefrom EXCEPT ![b] = row]
    BY DEF ScanBlock
  <2> QED BY <2>1, <2>2 DEF TypeOK
<1>3. live_in' \in [Block -> SUBSET Value] /\ live_out' \in [Block -> SUBSET Value]
  BY <1>1, ScanTypes DEF ScanBlock, TypeOK
<1>4. changed' \in BOOLEAN
  BY DEF ScanBlock
<1>5. next' \in 1..(Len(program.blocks) + 1)
  BY DEF ScanBlock, TypeOK, Function
<1> QED BY <1>2, <1>3, <1>4, <1>5 DEF ScanBlock, TypeOK

LEMMA NextTypeOK == TypeOK /\ [Next]_vars => TypeOK'
<1> SUFFICES ASSUME TypeOK, [Next]_vars PROVE TypeOK'
  OBVIOUS
<1>1. CASE ScanBlock
  BY <1>1, ScanTypeOK
<1>2. CASE PassDone
  <2>1. next' \in 1..(Len(program.blocks) + 1)
    BY <1>2, LenProperties DEF PassDone, TypeOK, Function
  <2> QED BY <1>2, <2>1 DEF PassDone, TypeOK
<1>3. CASE UNCHANGED vars
  BY <1>3 DEF vars, TypeOK
<1> QED BY <1>1, <1>2, <1>3 DEF Next, Finished

\* The pass's state is well typed, for every function.
THEOREM TypeCorrect == Spec => []TypeOK
<1>1. Init => TypeOK
  BY InitInv DEF Inv, GrowthInv
<1> QED BY <1>1, NextTypeOK, PTL DEF Spec

-----------------------------------------------------------------------------
(* Growth.                                                                 *)

\* What a step does to wherefrom: the scanned block's row gets the sources of
\* its uses, and the block for what is live through it before or after.
LEMMA ScanSources ==
  ASSUME TypeOK, ScanBlock
  PROVE  LET b == program.blocks[next] IN
         /\ \A a \in Block, n \in Keys : wherefrom[a][n] \subseteq wherefrom'[a][n]
         /\ \A a \in Block \ {b} : wherefrom'[a] = wherefrom[a]
         /\ \A u \in Uses(b) : u.from \in wherefrom'[b][Key(u.val)]
         /\ \A v \in Through(b) \cup (NewOut(b) \ def_set(b)) : b \in wherefrom'[b][Key(v)]
<1> DEFINE b == program.blocks[next]
           out(n) == IF \E v \in NewOut(b) \ def_set(b) : Key(v) = n THEN {b} ELSE {}
           row == [n \in Keys |-> Sources(b)[n] \cup out(n)]
<1>1. b \in Block
  BY ScannedBlock DEF ScanBlock
<1>2. wherefrom' = [wherefrom EXCEPT ![b] = row]
  BY DEF ScanBlock
<1>3. wherefrom'[b] = row /\ \A a \in Block \ {b} : wherefrom'[a] = wherefrom[a]
  BY <1>1, <1>2 DEF TypeOK
<1>4. \A n \in Keys : row[n] = Sources(b)[n] \cup out(n)
  OBVIOUS
<1>5. \A n \in Keys : wherefrom[b][n] \subseteq row[n]
  BY <1>4 DEF Sources
<1>6. ASSUME NEW u \in Uses(b) PROVE u.from \in wherefrom'[b][Key(u.val)]
  <2>1. Key(u.val) \in Keys
    BY <1>1, UsesType, KeyType
  <2>2. u.from \in Sources(b)[Key(u.val)]
    BY <2>1 DEF Sources
  <2> QED BY <1>3, <1>4, <2>1, <2>2
<1>7. ASSUME NEW v \in Through(b) PROVE b \in wherefrom'[b][Key(v)]
  <2>1. Key(v) \in Keys
    BY <1>1, KeyType DEF Through, TypeOK
  <2>2. b \in Sources(b)[Key(v)]
    BY <2>1 DEF Sources
  <2> QED BY <1>3, <1>4, <2>1, <2>2
<1>8. ASSUME NEW v \in NewOut(b) \ def_set(b) PROVE b \in wherefrom'[b][Key(v)]
  <2>1. Key(v) \in Keys
    BY <1>1, KeyType, ScanTypes
  <2> QED BY <1>3, <1>4, <2>1
<1>9. \A a \in Block, n \in Keys : wherefrom[a][n] \subseteq wherefrom'[a][n]
  BY <1>3, <1>5
<1> HIDE DEF b
<1>10. /\ \A u \in Uses(b) : u.from \in wherefrom'[b][Key(u.val)]
       /\ \A v \in Through(b) \cup (NewOut(b) \ def_set(b)) : b \in wherefrom'[b][Key(v)]
  BY <1>6, <1>7, <1>8
<1> QED BY <1>3, <1>9, <1>10 DEF b

\* The sets of the scanned block, and of no other, take their new values.
LEMMA ScanSets ==
  ASSUME TypeOK, ScanBlock
  PROVE  LET b == program.blocks[next] IN
         /\ live_in'[b] = NewIn(b) /\ live_out'[b] = NewOut(b)
         /\ \A a \in Block \ {b} : live_in'[a] = live_in[a] /\ live_out'[a] = live_out[a]
BY ScannedBlock DEF ScanBlock, TypeOK

\* The uses and definitions of a block depend on the program only.
LEMMA UsesStable ==
  ASSUME program' = program, NEW b \in Block
  PROVE  Uses(b)' = Uses(b) /\ def_set(b)' = def_set(b)
BY DEF Uses, def_set, DefsUpTo

LEMMA ScanSourcesKnown == GrowthInv /\ ScanBlock => SourcesKnown'
<1> SUFFICES ASSUME TypeOK, SourcesKnown, ScanBlock, NEW a \in Block, NEW v \in live_in'[a]
             PROVE  wherefrom'[a][Key(v)] # {}
  BY DEF GrowthInv, SourcesKnown
<1> DEFINE b == program.blocks[next]
<1>1. CASE a = b
  <2>1. v \in NewIn(b)
    BY <1>1, ScanSets
  <2>2. CASE \E u \in Uses(b) : u.val = v
    BY <1>1, <2>2, ScanSources
  <2>3. CASE v \in Through(b)
    BY <1>1, <2>3, ScanSources
  <2> QED BY <2>1, <2>2, <2>3 DEF NewIn
<1>2. CASE a # b
  BY <1>2, ScanSets, ScanSources DEF SourcesKnown
<1> QED BY <1>1, <1>2

\* A step takes nothing out of the sets, nor out of what a scan would find.
LEMMA ScanGrows ==
  ASSUME GrowthInv, ScanBlock
  PROVE  \A a \in Block : /\ live_in[a] \subseteq live_in'[a]
                          /\ live_out[a] \subseteq live_out'[a]
                          /\ NewIn(a) \subseteq NewIn(a)'
                          /\ NewOut(a) \subseteq NewOut(a)'
<1> DEFINE b == program.blocks[next]
<1>1. b \in Block
  BY ScannedBlock DEF ScanBlock, GrowthInv
<1>2. \A a \in Block : live_in[a] \subseteq live_in'[a] /\ live_out[a] \subseteq live_out'[a]
  BY <1>1, ScanSets DEF GrowthInv, Growing
<1>3. program' = program
  BY DEF ScanBlock
<1>4. ASSUME NEW a \in Block PROVE NewIn(a) \subseteq NewIn(a)'
  <2>1. Uses(a)' = Uses(a) /\ def_set(a)' = def_set(a)
    BY <1>3, UsesStable
  <2> QED BY <1>2, <2>1 DEF NewIn, Through
<1>5. ASSUME NEW a \in Block, NEW v \in NewOut(a) PROVE v \in NewOut(a)'
  <2>1. PICK s \in program.succ[a] : v \in Needs(s, a)
    BY DEF NewOut
  <2>2. s \in Block /\ v \in live_in[s] /\ v \in Value
    BY <2>1 DEF Needs, GrowthInv, TypeOK, Function
  <2>3. wherefrom[s][Key(v)] \cap {a, s} # {}
    BY <2>1, <2>2 DEF Needs, GrowthInv, SourcesKnown
  <2>4. wherefrom[s][Key(v)] \subseteq wherefrom'[s][Key(v)]
    BY <2>2, KeyType, ScanSources DEF GrowthInv
  <2>5. v \in Needs(s, a)'
    BY <1>2, <2>2, <2>3, <2>4 DEF Needs
  <2> QED BY <1>3, <2>1, <2>5 DEF NewOut
<1> QED BY <1>2, <1>4, <1>5

LEMMA ScanGrowing == GrowthInv /\ ScanBlock => Growing'
<1> SUFFICES ASSUME GrowthInv, ScanBlock, NEW a \in Block
             PROVE  live_in'[a] \subseteq NewIn(a)' /\ live_out'[a] \subseteq NewOut(a)'
  BY DEF Growing
<1> DEFINE b == program.blocks[next]
<1>1. NewIn(a) \subseteq NewIn(a)' /\ NewOut(a) \subseteq NewOut(a)'
  BY ScanGrows
<1>2. live_in'[a] \subseteq NewIn(a) /\ live_out'[a] \subseteq NewOut(a)
  BY ScanSets DEF GrowthInv, Growing
<1> QED BY <1>1, <1>2

\* The steps that leave the tables alone.
LEMMA OtherSame ==
  ASSUME UNCHANGED <<program, live_in, live_out, wherefrom>>, NEW b \in Block
  PROVE  /\ Uses(b)' = Uses(b) /\ Through(b)' = Through(b)
         /\ NewIn(b)' = NewIn(b) /\ NewOut(b)' = NewOut(b)
<1>1. Uses(b)' = Uses(b) /\ def_set(b)' = def_set(b)
  BY UsesStable
<1>2. Through(b)' = Through(b) /\ NewIn(b)' = NewIn(b)
  BY <1>1 DEF NewIn, Through
<1>3. NewOut(b)' = NewOut(b)
  BY DEF NewOut, Needs
<1> QED BY <1>1, <1>2, <1>3

LEMMA OtherGrowing ==
  GrowthInv /\ UNCHANGED <<program, live_in, live_out, wherefrom>> => SourcesKnown' /\ Growing'
BY OtherSame DEF GrowthInv, SourcesKnown, Growing

LEMMA NextGrowth == GrowthInv /\ [Next]_vars => GrowthInv'
<1> SUFFICES ASSUME GrowthInv, [Next]_vars PROVE GrowthInv'
  OBVIOUS
<1>1. TypeOK'
  BY NextTypeOK DEF GrowthInv
<1>2. CASE ScanBlock
  BY <1>1, <1>2, ScanSourcesKnown, ScanGrowing DEF GrowthInv
<1>3. CASE UNCHANGED <<program, live_in, live_out, wherefrom>>
  BY <1>1, <1>3, OtherGrowing DEF GrowthInv
<1> QED BY <1>2, <1>3 DEF Next, PassDone, Finished, vars

\* No iteration takes a value out of live_in or live_out: with the finite
\* number of values this is why the number of passes is bounded.
THEOREM LiveSetsGrow == Spec => SetsOnlyGrow
<1> DEFINE Grows == \A b \in Block : live_in[b] \subseteq live_in'[b] /\ live_out[b] \subseteq live_out'[b]
<1>1. Init => GrowthInv
  BY InitInv DEF Inv
<1>2. GrowthInv /\ [Next]_vars => [Grows]_vars
  <2> SUFFICES ASSUME GrowthInv, Next PROVE Grows
    OBVIOUS
  <2>1. CASE ScanBlock
    BY <2>1, ScanGrows
  <2>2. CASE PassDone \/ Finished
    BY <2>2 DEF PassDone, Finished, vars
  <2> QED BY <2>1, <2>2 DEF Next
<1> QED BY <1>1, <1>2, NextGrowth, PTL DEF Spec, SetsOnlyGrow

-----------------------------------------------------------------------------
(* The fixpoint.                                                           *)

LEMMA ScanRecorded == Inv /\ ScanBlock => Recorded'
<1> SUFFICES ASSUME Inv, ScanBlock, NEW a \in Block
             PROVE  /\ live_in'[a] # {} => \A u \in Uses(a)' : u.from \in wherefrom'[a][Key(u.val)]
                    /\ \A v \in Through(a)' : a \in wherefrom'[a][Key(v)]
  BY DEF Recorded
<1> DEFINE b == program.blocks[next]
<1>1. TypeOK
  BY DEF Inv, GrowthInv
<1>2. Uses(a)' = Uses(a) /\ def_set(a)' = def_set(a)
  BY UsesStable DEF ScanBlock
<1>3. CASE a = b
  <2>1. \A u \in Uses(a)' : u.from \in wherefrom'[a][Key(u.val)]
    BY <1>1, <1>2, <1>3, ScanSources
  <2>2. Through(a)' = NewOut(a) \ def_set(a)
    BY <1>1, <1>2, <1>3, ScanSets DEF Through
  <2> QED BY <1>1, <1>3, <2>1, <2>2, ScanSources
<1>4. CASE a # b
  <2>1. Through(a)' = Through(a) /\ live_in'[a] = live_in[a] /\ wherefrom'[a] = wherefrom[a]
    BY <1>1, <1>2, <1>4, ScanSets, ScanSources DEF Through
  <2> QED BY <1>2, <2>1 DEF Inv, Recorded
<1> QED BY <1>3, <1>4

\* An iteration that finds the sets as they were leaves everything as it was.
LEMMA IdleScan ==
  ASSUME Inv, ScanBlock, ~changed'
  PROVE  UNCHANGED <<program, live_in, live_out, wherefrom>> /\ Stable(program.blocks[next])
<1> DEFINE b == program.blocks[next]
           out(n) == IF \E v \in NewOut(b) \ def_set(b) : Key(v) = n THEN {b} ELSE {}
           row == [n \in Keys |-> Sources(b)[n] \cup out(n)]
<1>1. TypeOK /\ b \in Block
  BY ScannedBlock DEF ScanBlock, Inv, GrowthInv
<1>2. live_in[b] = NewIn(b) /\ live_out[b] = NewOut(b)
  BY DEF ScanBlock
<1>3. live_in' = live_in /\ live_out' = live_out
  BY <1>1, <1>2 DEF ScanBlock, TypeOK
<1>4. ASSUME NEW u \in Uses(b) PROVE u.from \in wherefrom[b][Key(u.val)]
  <2>1. live_in[b] # {}
    BY <1>2 DEF NewIn
  <2> QED BY <1>1, <2>1 DEF Inv, Recorded
<1>5. ASSUME NEW v \in Through(b) PROVE b \in wherefrom[b][Key(v)]
  BY <1>1 DEF Inv, Recorded
<1>6. NewOut(b) \ def_set(b) = Through(b)
  BY <1>2 DEF Through
<1>7. ASSUME NEW n \in Keys PROVE row[n] = wherefrom[b][n]
  <2>1. Sources(b)[n] = wherefrom[b][n]
    BY <1>4, <1>5 DEF Sources
  <2>2. out(n) \subseteq wherefrom[b][n]
    BY <1>5, <1>6
  <2> QED BY <2>1, <2>2
<1>8. wherefrom' = [wherefrom EXCEPT ![b] = row]
  BY DEF ScanBlock
<1>9. wherefrom[b] \in [Keys -> SUBSET Block]
  BY <1>1 DEF TypeOK
<1>10. row = wherefrom[b]
  BY <1>7, <1>9
<1>11. wherefrom' = wherefrom
  BY <1>1, <1>8, <1>10 DEF TypeOK
<1> QED BY <1>2, <1>3, <1>11 DEF ScanBlock, Stable

LEMMA ScanStable == Inv /\ ScanBlock => StableBehind'
<1> SUFFICES ASSUME Inv, ScanBlock, ~changed', NEW k \in 1..(next' - 1)
             PROVE  Stable(program.blocks[k])'
  BY DEF StableBehind, EquationsHold, ScanBlock
<1>1. TypeOK /\ next \in Nat /\ k \in 1..next
  BY DEF ScanBlock, Inv, GrowthInv, TypeOK
<1>2. UNCHANGED <<program, live_in, live_out, wherefrom>> /\ Stable(program.blocks[next])
  BY IdleScan
<1>3. Stable(program.blocks[k])
  <2>1. CASE k = next
    BY <1>2, <2>1
  <2>2. CASE k \in 1..(next - 1)
    BY <2>2 DEF Inv, StableBehind, ScanBlock
  <2> QED BY <1>1, <2>1, <2>2
<1>4. program.blocks[k] \in Block
  BY <1>1, ElementOfSeq, LenProperties DEF ScanBlock, TypeOK, Function
<1> DEFINE a == program.blocks[k]
<1>5. NewIn(a)' = NewIn(a) /\ NewOut(a)' = NewOut(a)
  BY <1>2, <1>4, OtherSame
<1> QED BY <1>2, <1>3, <1>5 DEF Stable

\* A pass that changed nothing has left every block stable.
LEMMA PassDoneStable == Inv /\ PassDone => StableBehind'
<1> SUFFICES ASSUME Inv, PassDone PROVE StableBehind'
  OBVIOUS
<1>1. TypeOK
  BY DEF Inv, GrowthInv
<1>2. CASE changed
  BY <1>2 DEF PassDone, StableBehind, EquationsHold
<1>3. CASE ~changed
  <2>1. ASSUME NEW b \in Block PROVE Stable(b)
    <3>1. PICK k \in DOMAIN program.blocks : program.blocks[k] = b
      BY <1>1 DEF TypeOK, Function, ToSet
    <3>2. k \in 1..(next - 1)
      BY <1>1, <3>1, LenProperties DEF PassDone, TypeOK, Function
    <3> QED BY <1>3, <3>1, <3>2 DEF PassDone, Inv, StableBehind
  <2>2. ASSUME NEW b \in Block PROVE live_in'[b] = NewIn(b)' /\ live_out'[b] = NewOut(b)'
    <3>1. NewIn(b)' = NewIn(b) /\ NewOut(b)' = NewOut(b)
      BY OtherSame DEF PassDone
    <3> QED BY <2>1, <3>1 DEF Stable, PassDone
  <2> QED BY <1>3, <2>2 DEF PassDone, StableBehind, EquationsHold
<1> QED BY <1>2, <1>3

LEMMA NextInv == Inv /\ [Next]_vars => Inv'
<1> SUFFICES ASSUME Inv, [Next]_vars PROVE Inv'
  OBVIOUS
<1>1. GrowthInv'
  BY NextGrowth DEF Inv
<1>2. CASE ScanBlock
  BY <1>1, <1>2, ScanRecorded, ScanStable DEF Inv
<1>3. CASE PassDone
  <2>1. Recorded'
    BY <1>3, OtherSame DEF Inv, Recorded, PassDone
  <2> QED BY <1>1, <1>3, <2>1, PassDoneStable DEF Inv
<1>4. CASE UNCHANGED vars
  <2>1. Recorded'
    BY <1>4, OtherSame DEF Inv, Recorded, vars
  <2>2. StableBehind'
    <3>1. ASSUME NEW b \in Block, Stable(b) PROVE Stable(b)'
      <4>1. NewIn(b)' = NewIn(b) /\ NewOut(b)' = NewOut(b)
        BY <1>4, OtherSame DEF vars
      <4> QED BY <1>4, <3>1, <4>1 DEF Stable, vars
    <3>2. \A k \in 1..(next - 1) : program.blocks[k] \in Block
      BY ElementOfSeq, LenProperties DEF Inv, GrowthInv, TypeOK, Function
    <3>3. EquationsHold'
      BY <1>4, <3>1 DEF Inv, StableBehind, EquationsHold, Stable, vars
    <3>4. pc' = "scan" /\ ~changed' => \A k \in 1..(next' - 1) : Stable(program.blocks[k])'
      BY <1>4, <3>1, <3>2 DEF Inv, StableBehind, vars
    <3> QED BY <3>3, <3>4 DEF StableBehind
  <2> QED BY <1>1, <2>1, <2>2 DEF Inv
<1> QED BY <1>2, <1>3, <1>4 DEF Next, Finished

\* When the pass ends, live_in and live_out solve both data-flow equations in
\* every block: the test of sizes and members that ends the loop is enough.
THEOREM SolvesEquations == Spec => []EquationsHold
<1>1. Inv => EquationsHold
  BY DEF Inv, StableBehind
<1> QED BY <1>1, InitInv, NextInv, PTL DEF Spec

-----------------------------------------------------------------------------
(* The sets are what the paths need: never more, and at the end no less.   *)

Goal(v) == PlainUse(v) \cup (OnEdge(v) \ Defines(v))

\* What a value's sources stand for: the block itself, when every predecessor
\* must supply the value, and else a predecessor with a phi's pair.
SourcesRight ==
  \A v \in Value \ Unnamed : \A b \in Block :
    /\ b \in wherefrom[b][v] => b \in NeededIn(v)
    /\ wherefrom[b][v] \ {b} \subseteq OnEdge(v)

\* What NeededIn says, without paths: it holds the goal, goes back along edges
\* through blocks that do not define the value, and is the least such set.
LEMMA NeededClosed ==
  ASSUME TypeOK, NEW v
  PROVE  /\ NeededIn(v) \subseteq Block \ Defines(v)
         /\ Goal(v) \subseteq NeededIn(v)
         /\ \A b \in Block \ Defines(v) : \A s \in program.succ[b] : s \in NeededIn(v) => b \in NeededIn(v)
         /\ NeededOut(v) \ Defines(v) \subseteq NeededIn(v)
<1> DEFINE clear == Block \ Defines(v)
           R(b) == ReachIn(clear, program.succ, b)
<1>1. IsFiniteSet(clear)
  BY BlocksFinite, FS_Subset
<1>2. NeededIn(v) = {b \in clear : R(b) \cap Goal(v) # {}}
  BY DEF NeededIn, Goal
<1>3. Goal(v) \subseteq clear
  BY DEF Goal, PlainUse, OnEdge
<1>4. \A b \in clear : b \in R(b)
  BY <1>1, ReachClosed
<1>5. \A b \in clear : \A s \in program.succ[b] \cap clear : R(s) \subseteq R(b)
  BY <1>1, ReachFirst
<1> HIDE DEF clear, R
<1>6. Goal(v) \subseteq NeededIn(v)
  BY <1>2, <1>3, <1>4
<1>7. \A b \in clear : \A s \in program.succ[b] : s \in NeededIn(v) => b \in NeededIn(v)
  BY <1>2, <1>5
<1>8. NeededOut(v) \cap clear \subseteq NeededIn(v)
  <2>1. \A b \in NeededOut(v) \cap clear : b \in Goal(v) \/ program.succ[b] \cap NeededIn(v) # {}
    BY DEF NeededOut, Goal, clear
  <2> QED BY <2>1, <1>6, <1>7
<1>9. NeededOut(v) \subseteq Block
  BY DEF NeededOut, OnEdge
<1> QED BY <1>2, <1>6, <1>7, <1>8, <1>9 DEF clear

LEMMA NeededLeast ==
  ASSUME TypeOK, NEW v, NEW K, Goal(v) \subseteq K,
         \A b \in Block \ Defines(v) : \A s \in program.succ[b] : s \in K => b \in K
  PROVE  NeededIn(v) \subseteq K
<1> DEFINE clear == Block \ Defines(v)
           out == clear \ K
<1>1. IsFiniteSet(clear)
  BY BlocksFinite, FS_Subset
<1> SUFFICES ASSUME NEW b \in NeededIn(v), b \notin K PROVE FALSE
  OBVIOUS
<1>2. b \in clear /\ ReachIn(clear, program.succ, b) \cap Goal(v) # {}
  BY DEF NeededIn, Goal
<1> HIDE DEF clear
<1>3. \A a \in clear : \A s \in program.succ[a] : s \in K => a \in K
  BY DEF clear
<1>4. Closed(clear, program.succ, out \cap clear)
  BY <1>3 DEF Closed
<1>5. b \in out
  BY <1>2
<1> HIDE DEF out
<1>6. ReachIn(clear, program.succ, b) \subseteq out
  BY <1>1, <1>4, <1>5, ReachLeast
<1> QED BY <1>2, <1>6 DEF out

\* A use is a plain one that asks every predecessor, or a pair of a phi.
LEMMA UseMeans ==
  ASSUME TypeOK, NEW b \in Block, NEW u \in Uses(b)
  PROVE  \/ u.from = b /\ b \in PlainUse(u.val)
         \/ u.from # b /\ u.from \in OnEdge(u.val) /\ b \in PhiUse(u.val)
<1>1. PICK k \in DOMAIN program.code[b] :
        \E o \in ToSet(program.code[b][k].ops) :
          /\ program.code[b][k].phi \/ o.val \notin DefsUpTo(b, k - 1)
          /\ u = [val |-> o.val, from |-> IF program.code[b][k].phi THEN o.from ELSE b]
  BY DEF Uses
<1>2. PICK o \in ToSet(program.code[b][k].ops) :
        /\ program.code[b][k].phi \/ o.val \notin DefsUpTo(b, k - 1)
        /\ u = [val |-> o.val, from |-> IF program.code[b][k].phi THEN o.from ELSE b]
  BY <1>1
<1>3. PICK i : i = program.code[b][k] /\ i \in ToSet(program.code[b])
  BY DEF ToSet
<1>4. /\ i.phi <=> o.from # Null
      /\ i.phi => b \in program.succ[o.from]
      /\ b \notin program.succ[b]
  BY <1>2, <1>3 DEF TypeOK, Function
<1>5. CASE i.phi
  <2>1. u.from = o.from /\ u.val = o.val
    BY <1>2, <1>3, <1>5
  <2>2. o.from \in Block
    <3>1. program.code[b] \in Seq([id : (Value \ Unnamed) \cup {Null}, phi : BOOLEAN, ops : Seq(Operand)])
      BY DEF TypeOK, Function
    <3>2. i.ops \in Seq(Operand)
      <4> DEFINE Instr == [id : (Value \ Unnamed) \cup {Null}, phi : BOOLEAN, ops : Seq(Operand)]
      <4>1. i \in Instr
        BY <1>3, <3>1, LenProperties, ElementOfSeq
      <4> QED BY <4>1
    <3>3. o \in Operand
      BY <1>2, <1>3, <3>2 DEF ToSet
    <3> QED BY <3>3, <1>4, <1>5 DEF Operand
  <2>3. o.from \in OnEdge(o.val)
    BY <1>2, <1>3, <1>4, <1>5, <2>2 DEF OnEdge
  <2>4. b \in PhiUse(o.val)
    BY <1>2, <1>3, <1>5 DEF PhiUse
  <2> QED BY <1>4, <1>5, <2>1, <2>3, <2>4
<1>6. CASE ~i.phi
  <2>1. u.from = b /\ u.val = o.val /\ o.val \notin DefsUpTo(b, k - 1)
    BY <1>2, <1>3, <1>6
  <2>2. b \notin Defines(o.val)
    <3> SUFFICES ASSUME o.val \in def_set(b) PROVE FALSE
      BY DEF Defines
    <3>1. PICK m \in 1..Len(program.code[b]) : program.code[b][m].id = o.val
      BY DEF def_set, DefsUpTo
    <3>2. program.code[b] \in Seq([id : (Value \ Unnamed) \cup {Null}, phi : BOOLEAN, ops : Seq(Operand)])
      BY DEF TypeOK, Function
    <3>3. m \in DOMAIN program.code[b] /\ k \in Nat
      BY <3>2, LenProperties
    <3>4. m < k
      BY <1>2, <1>3, <1>6, <3>1, <3>3 DEF TypeOK, Function
    <3>5. o.val # Null
      BY <3>1 DEF def_set, DefsUpTo
    <3>6. m \in 1..(k - 1)
      BY <3>3, <3>4
    <3>7. o.val \in DefsUpTo(b, k - 1)
      BY <3>1, <3>5, <3>6 DEF DefsUpTo
    <3> QED BY <2>1, <3>7
  <2>3. b \in PlainUse(o.val)
    BY <1>2, <1>3, <1>6, <2>2 DEF PlainUse
  <2> QED BY <2>1, <2>3
<1> QED BY <1>5, <1>6

\* And every use that the reference knows is among them.
LEMMA PlainUseExists ==
  ASSUME TypeOK, NEW v, NEW b \in PlainUse(v)
  PROVE  b \in Block /\ \E u \in Uses(b) : u.val = v /\ u.from = b
<1>0. b \in Block
  BY DEF PlainUse
<1>1. PICK i \in ToSet(program.code[b]) : ~i.phi /\ \E o \in ToSet(i.ops) : o.val = v
  BY DEF PlainUse
<1>2. PICK o \in ToSet(i.ops) : o.val = v
  BY <1>1
<1>3. PICK k \in DOMAIN program.code[b] : program.code[b][k] = i
  BY DEF ToSet
<1>4. v \notin DefsUpTo(b, k - 1)
  <2>1. program.code[b] \in Seq([id : (Value \ Unnamed) \cup {Null}, phi : BOOLEAN, ops : Seq(Operand)])
    BY <1>0 DEF TypeOK, Function
  <2>2. Len(program.code[b]) \in Nat /\ k \in 1..Len(program.code[b])
    BY <2>1, LenProperties
  <2>3. \A m \in 1..(k - 1) : m \in 1..Len(program.code[b])
    BY <2>2
  <2>4. DefsUpTo(b, k - 1) \subseteq def_set(b)
    BY <2>3 DEF DefsUpTo, def_set
  <2> QED BY <2>4 DEF PlainUse, Defines
<1>5. [val |-> o.val, from |-> IF program.code[b][k].phi THEN o.from ELSE b] \in Uses(b)
  BY <1>2, <1>3, <1>4 DEF Uses
<1> QED BY <1>0, <1>1, <1>2, <1>3, <1>5

LEMMA UseExists ==
  ASSUME TypeOK, NEW v, NEW b \in Block
  PROVE  /\ b \in PhiUse(v) => \E u \in Uses(b) : u.val = v
         /\ \A s \in program.succ[b] : s \in Block /\
              (\A i \in ToSet(program.code[s]) : i.phi =>
                 \A o \in ToSet(i.ops) : o.val = v /\ o.from = b => [val |-> v, from |-> b] \in Uses(s))
<1>1. ASSUME NEW a \in Block, NEW i \in ToSet(program.code[a]), NEW o \in ToSet(i.ops), i.phi
      PROVE  [val |-> o.val, from |-> o.from] \in Uses(a)
  <2>1. PICK k \in DOMAIN program.code[a] : program.code[a][k] = i
    BY DEF ToSet
  <2>2. [val |-> o.val, from |-> IF program.code[a][k].phi THEN o.from ELSE a] \in Uses(a)
    BY <1>1, <2>1 DEF Uses
  <2> QED BY <1>1, <2>1, <2>2
<1>3. b \in PhiUse(v) => \E u \in Uses(b) : u.val = v
  BY <1>1 DEF PhiUse
<1>4. \A s \in program.succ[b] : s \in Block
  BY DEF TypeOK, Function
<1> QED BY <1>1, <1>3, <1>4

LEMMA NamedKey ==
  \A v \in Value \ Unnamed : v \in Keys /\ Key(v) = v /\ \A w \in Value : Key(w) = v => w = v
BY ValuesNamed DEF Key, Keys

\* What the scan of a block finds is needed there.
LEMMA FoundIsNeeded ==
  ASSUME GrowthInv, NeverTooMuch, SourcesRight, NEW v \in Value \ Unnamed, NEW b \in Block
  PROVE  /\ v \in NewIn(b) => b \in NeededIn(v) \cup PhiUse(v)
         /\ v \in Through(b) => b \in NeededIn(v)
         /\ v \in NewOut(b) => b \in NeededOut(v)
         /\ v \in NewOut(b) \ def_set(b) => b \in NeededIn(v)
<1>1. TypeOK /\ SourcesKnown
  BY DEF GrowthInv
<1>2. v \in Through(b) => b \in NeededIn(v)
  <2> SUFFICES ASSUME v \in live_out[b], v \notin def_set(b) PROVE b \in NeededIn(v)
    BY DEF Through
  <2>1. b \in NeededOut(v)
    BY DEF NeverTooMuch
  <2>2. b \notin Defines(v)
    BY DEF Defines
  <2> QED BY <1>1, <2>1, <2>2, NeededClosed
<1>3. v \in NewIn(b) => b \in NeededIn(v) \cup PhiUse(v)
  <2>1. ASSUME NEW u \in Uses(b), u.val = v PROVE b \in NeededIn(v) \cup PhiUse(v)
    <3>1. b \in PlainUse(v) \/ b \in PhiUse(v)
      BY <1>1, <2>1, UseMeans
    <3> QED BY <1>1, <3>1, NeededClosed DEF Goal
  <2> QED BY <1>2, <2>1 DEF NewIn
<1>4. v \in NewOut(b) => b \in NeededOut(v)
  <2> SUFFICES ASSUME NEW s \in program.succ[b], v \in Needs(s, b) PROVE b \in NeededOut(v)
    BY DEF NewOut
  <2>1. s \in Block /\ s # b
    BY <1>1 DEF TypeOK, Function
  <2>2. v \in live_in[s] /\ wherefrom[s][v] \cap {b, s} # {}
    BY <1>1, <2>1, NamedKey DEF Needs, SourcesKnown
  <2>3. CASE s \in wherefrom[s][v]
    BY <2>1, <2>3 DEF SourcesRight, NeededOut
  <2>4. CASE b \in wherefrom[s][v]
    BY <2>1, <2>4 DEF SourcesRight, NeededOut
  <2> QED BY <2>2, <2>3, <2>4
<1>5. v \in NewOut(b) \ def_set(b) => b \in NeededIn(v)
  BY <1>1, <1>4, NeededClosed DEF Defines
<1> QED BY <1>2, <1>3, <1>4, <1>5

\* The file of sources gets nothing else.
LEMMA ScanSourcesOnly ==
  ASSUME TypeOK, ScanBlock, NEW v \in Value \ Unnamed
  PROVE  LET b == program.blocks[next] IN
         \A a \in wherefrom'[b][v] :
           \/ a \in wherefrom[b][v]
           \/ \E u \in Uses(b) : u.val = v /\ u.from = a
           \/ a = b /\ v \in Through(b) \cup (NewOut(b) \ def_set(b))
<1> DEFINE b == program.blocks[next]
           out(n) == IF \E w \in NewOut(b) \ def_set(b) : Key(w) = n THEN {b} ELSE {}
           row == [n \in Keys |-> Sources(b)[n] \cup out(n)]
<1>1. b \in Block
  BY ScannedBlock DEF ScanBlock
<1>2. wherefrom' = [wherefrom EXCEPT ![b] = row]
  BY DEF ScanBlock
<1>3. wherefrom'[b] = row
  BY <1>1, <1>2 DEF TypeOK
<1>4. v \in Keys /\ \A w \in Value : Key(w) = v => w = v
  BY NamedKey
<1>5. wherefrom'[b][v] = Sources(b)[v] \cup out(v)
  BY <1>3, <1>4
<1>6. Uses(b) \subseteq [val : Value, from : Block] /\ Through(b) \subseteq Value /\ NewOut(b) \subseteq Value
  BY <1>1, UsesType, ScanTypes DEF NewIn
<1>7. Sources(b)[v] = wherefrom[b][v] \cup {u.from : u \in {u \in Uses(b) : Key(u.val) = v}}
                      \cup (IF \E w \in Through(b) : Key(w) = v THEN {b} ELSE {})
  BY <1>4 DEF Sources
<1> HIDE DEF b
<1>8. \A a \in Sources(b)[v] :
        \/ a \in wherefrom[b][v]
        \/ \E u \in Uses(b) : u.val = v /\ u.from = a
        \/ a = b /\ v \in Through(b)
  BY <1>4, <1>6, <1>7
<1>9. \A a \in out(v) : a = b /\ v \in NewOut(b) \ def_set(b)
  BY <1>4, <1>6
<1> QED BY <1>5, <1>8, <1>9 DEF b

\* The reference depends on the program only.
LEMMA NeededSame ==
  ASSUME program' = program, NEW v
  PROVE  /\ NeededIn(v)' = NeededIn(v) /\ NeededOut(v)' = NeededOut(v)
         /\ PhiUse(v)' = PhiUse(v) /\ OnEdge(v)' = OnEdge(v)
<1>1. OnEdge(v)' = OnEdge(v)
  BY DEF OnEdge
<1>2. Defines(v)' = Defines(v)
  BY UsesStable DEF Defines
<1>3. PlainUse(v)' = PlainUse(v)
  BY <1>2 DEF PlainUse
<1>4. NeededIn(v)' = NeededIn(v)
  BY <1>1, <1>2, <1>3 DEF NeededIn
<1>5. NeededOut(v)' = NeededOut(v)
  BY <1>1, <1>4 DEF NeededOut
<1>6. PhiUse(v)' = PhiUse(v)
  BY DEF PhiUse
<1> QED BY <1>1, <1>4, <1>5, <1>6

LEMMA ScanExact ==
  ASSUME GrowthInv, NeverTooMuch, SourcesRight, ScanBlock
  PROVE  NeverTooMuch' /\ SourcesRight'
<1> DEFINE b == program.blocks[next]
<1>1. TypeOK /\ b \in Block
  BY ScannedBlock DEF GrowthInv, ScanBlock
<1>2. program' = program
  BY DEF ScanBlock
<1>3. /\ live_in'[b] = NewIn(b) /\ live_out'[b] = NewOut(b)
      /\ \A a \in Block \ {b} : live_in'[a] = live_in[a] /\ live_out'[a] = live_out[a] /\ wherefrom'[a] = wherefrom[a]
  BY <1>1, ScanSets, ScanSources
<1> HIDE DEF b
<1>4. NeverTooMuch'
  <2> SUFFICES ASSUME NEW v \in Value \ Unnamed, NEW a \in Block
               PROVE  /\ v \in live_in'[a] => a \in NeededIn(v) \cup PhiUse(v)
                      /\ v \in live_out'[a] => a \in NeededOut(v)
    BY <1>2, NeededSame DEF NeverTooMuch
  <2>1. CASE a = b
    BY <2>1, <1>3, FoundIsNeeded
  <2>2. CASE a # b
    BY <2>2, <1>3 DEF NeverTooMuch
  <2> QED BY <2>1, <2>2
<1>5. SourcesRight'
  <2> SUFFICES ASSUME NEW v \in Value \ Unnamed, NEW a \in Block
               PROVE  /\ a \in wherefrom'[a][v] => a \in NeededIn(v)
                      /\ wherefrom'[a][v] \ {a} \subseteq OnEdge(v)
    BY <1>2, NeededSame DEF SourcesRight
  <2>1. CASE a = b
    <3> SUFFICES ASSUME NEW c \in wherefrom'[b][v]
                 PROVE  IF c = b THEN b \in NeededIn(v) ELSE c \in OnEdge(v)
      BY <2>1
    <3>1. CASE c \in wherefrom[b][v]
      BY <1>1, <3>1 DEF SourcesRight
    <3>2. CASE \E u \in Uses(b) : u.val = v /\ u.from = c
      <4>1. \/ c = b /\ b \in PlainUse(v)
            \/ c # b /\ c \in OnEdge(v)
        BY <1>1, <3>2, UseMeans
      <4> QED BY <1>1, <4>1, NeededClosed DEF Goal
    <3>3. CASE c = b /\ v \in Through(b) \cup (NewOut(b) \ def_set(b))
      BY <1>1, <3>3, FoundIsNeeded
    <3>4. \/ c \in wherefrom[b][v]
          \/ \E u \in Uses(b) : u.val = v /\ u.from = c
          \/ c = b /\ v \in Through(b) \cup (NewOut(b) \ def_set(b))
      BY <1>1, ScanSourcesOnly DEF b
    <3> QED BY <3>1, <3>2, <3>3, <3>4
  <2>2. CASE a # b
    BY <2>2, <1>3 DEF SourcesRight
  <2> QED BY <2>1, <2>2
<1> QED BY <1>4, <1>5

\* When the equations hold and the sources are recorded, nothing is missing.
LEMMA NothingMissing ==
  ASSUME Inv, pc = "done", NEW v \in Value \ Unnamed
  PROVE  /\ \A b \in NeededIn(v) \cup PhiUse(v) : v \in live_in[b]
         /\ \A b \in NeededOut(v) : v \in live_out[b]
<1>1. TypeOK /\ Recorded /\ \A b \in Block : live_in[b] = NewIn(b) /\ live_out[b] = NewOut(b)
  BY DEF Inv, GrowthInv, StableBehind, EquationsHold
<1>2. Key(v) = v
  BY NamedKey
<1>3. ASSUME NEW b \in Block, NEW u \in Uses(b), u.val = v
      PROVE  v \in live_in[b] /\ u.from \in wherefrom[b][v]
  <2>1. v \in live_in[b]
    BY <1>1, <1>3 DEF NewIn
  <2> QED BY <1>1, <1>2, <1>3, <2>1 DEF Recorded
<1>4. ASSUME NEW b \in Block, NEW s \in program.succ[b], v \in live_in[s], wherefrom[s][v] \cap {b, s} # {}
      PROVE  v \in live_out[b]
  <2>1. v \in NewOut(b)
    BY <1>2, <1>4 DEF NewOut, Needs
  <2> QED BY <1>1, <2>1
<1>5. ASSUME NEW b \in Block, v \in live_out[b], b \notin Defines(v)
      PROVE  v \in live_in[b] /\ b \in wherefrom[b][v]
  <2>1. v \in Through(b)
    BY <1>5 DEF Through, Defines
  <2> QED BY <1>1, <1>2, <2>1 DEF NewIn, Recorded
<1>6. ASSUME NEW b \in OnEdge(v) PROVE v \in live_out[b]
  <2>1. b \in Block
    BY DEF OnEdge
  <2>2. PICK s \in program.succ[b] : \E i \in ToSet(program.code[s]) :
          i.phi /\ \E o \in ToSet(i.ops) : o.val = v /\ o.from = b
    BY DEF OnEdge
  <2>3. s \in Block /\ [val |-> v, from |-> b] \in Uses(s)
    BY <1>1, <2>1, <2>2, UseExists
  <2>4. v \in live_in[s] /\ b \in wherefrom[s][v]
    BY <1>3, <2>3
  <2> QED BY <1>4, <2>1, <2>4
<1> DEFINE K == {b \in Block : v \in live_in[b] /\ b \in wherefrom[b][v]}
<1>7. Goal(v) \subseteq K
  <2>1. ASSUME NEW b \in PlainUse(v) PROVE b \in K
    <3>1. b \in Block
      BY DEF PlainUse
    <3>2. PICK u \in Uses(b) : u.val = v /\ u.from = b
      BY <1>1, PlainUseExists
    <3>3. v \in live_in[b] /\ u.from \in wherefrom[b][v]
      BY <1>3, <3>1, <3>2
    <3> QED BY <3>1, <3>2, <3>3
  <2>2. ASSUME NEW b \in OnEdge(v) \ Defines(v) PROVE b \in K
    <3>1. b \in Block
      BY DEF OnEdge
    <3> QED BY <1>5, <1>6, <3>1
  <2> QED BY <2>1, <2>2 DEF Goal
<1>8. \A b \in Block \ Defines(v) : \A s \in program.succ[b] : s \in K => b \in K
  BY <1>4, <1>5
<1> HIDE DEF K
<1>9. NeededIn(v) \subseteq K
  BY <1>1, <1>7, <1>8, NeededLeast
<1>10. ASSUME NEW b \in PhiUse(v) PROVE v \in live_in[b]
  <2>1. b \in Block
    BY DEF PhiUse
  <2>2. PICK u \in Uses(b) : u.val = v
    BY <1>1, <2>1, UseExists
  <2> QED BY <1>3, <2>1, <2>2
<1>11. ASSUME NEW b \in NeededOut(v) PROVE v \in live_out[b]
  <2>1. CASE b \in OnEdge(v)
    BY <1>6, <2>1
  <2>2. CASE b \notin OnEdge(v)
    <3>1. b \in Block
      BY <2>2 DEF NeededOut
    <3>2. PICK s \in program.succ[b] : s \in NeededIn(v)
      BY <2>2 DEF NeededOut
    <3>3. v \in live_in[s] /\ s \in wherefrom[s][v]
      BY <1>9, <3>2 DEF K
    <3> QED BY <1>4, <3>1, <3>3
  <2> QED BY <2>1, <2>2
<1> QED BY <1>9, <1>10, <1>11 DEF K

ExactInv == Inv /\ NeverTooMuch /\ SourcesRight

\* LiveVar computes exactly what is live, for every function: at no time does a
\* set hold a value that no path needs, and when the pass ends and writes them,
\* nothing that some path needs is missing (LiveVar::execute, part3.md:33-34).
THEOREM ComputesLiveness == Spec => []LiveExact
<1>1. Init => ExactInv
  <2> SUFFICES ASSUME Init PROVE ExactInv
    OBVIOUS
  <2>1. Inv
    BY InitInv
  <2>2. NeverTooMuch
    BY DEF Init, NeverTooMuch
  <2>3. SourcesRight
    BY NamedKey DEF Init, SourcesRight
  <2> QED BY <2>1, <2>2, <2>3 DEF ExactInv
<1>2. ExactInv /\ [Next]_vars => ExactInv'
  <2> SUFFICES ASSUME ExactInv, [Next]_vars PROVE ExactInv'
    OBVIOUS
  <2>1. Inv' /\ GrowthInv /\ NeverTooMuch /\ SourcesRight
    BY NextInv DEF ExactInv, Inv
  <2>2. CASE ScanBlock
    BY <2>1, <2>2, ScanExact DEF ExactInv
  <2>3. CASE UNCHANGED <<program, live_in, live_out, wherefrom>>
    <3>1. NeverTooMuch'
      BY <2>1, <2>3, NeededSame DEF NeverTooMuch
    <3>2. SourcesRight'
      BY <2>1, <2>3, NeededSame DEF SourcesRight
    <3> QED BY <2>1, <3>1, <3>2 DEF ExactInv
  <2> QED BY <2>2, <2>3 DEF Next, PassDone, Finished, vars
<1>3. ExactInv => LiveExact
  <2> SUFFICES ASSUME ExactInv PROVE LiveExact
    OBVIOUS
  <2>1. TypeOK /\ NeverTooMuch /\ Inv
    BY DEF ExactInv, Inv, GrowthInv
  <2>2. DumpExact
    <3> SUFFICES ASSUME pc = "done", NEW v \in Value, NEW b \in Block
                 PROVE  /\ v \in dump(live_in[b]) <=> v \notin Unnamed /\ b \in NeededIn(v) \cup PhiUse(v)
                        /\ v \in dump(live_out[b]) <=> v \notin Unnamed /\ b \in NeededOut(v)
      BY DEF DumpExact
    <3>1. CASE v \in Unnamed
      BY <3>1 DEF dump
    <3>2. CASE v \notin Unnamed
      <4>1. /\ b \in NeededIn(v) \cup PhiUse(v) => v \in live_in[b]
            /\ b \in NeededOut(v) => v \in live_out[b]
        BY <2>1, <3>2, NothingMissing
      <4>2. /\ v \in live_in[b] => b \in NeededIn(v) \cup PhiUse(v)
            /\ v \in live_out[b] => b \in NeededOut(v)
        BY <2>1, <3>2 DEF NeverTooMuch
      <4> QED BY <3>2, <4>1, <4>2 DEF dump
    <3> QED BY <3>1, <3>2
  <2> QED BY <2>1, <2>2 DEF LiveExact
<1> QED BY <1>1, <1>2, <1>3, PTL DEF Spec
=============================================================================
