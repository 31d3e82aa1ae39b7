---------------------------- MODULE SmallProofs ----------------------------
(***************************************************************************)
(* Proofs about five components that share no state.  UseDef, for every    *)
(* set of constants, blocks and instructions and every bound on the        *)
(* operands: use lists and operands stay in step.  Naming, for any set of  *)
(* values and any number of calls of set_instr_name: the names are unique, *)
(* kept, and given before print needs them.  Check, for any modules that   *)
(* the passes may leave: what is refused is not well formed and what is    *)
(* accepted keeps the conventions.  Pipeline, for command lines of any     *)
(* words and any length.  CodeSizeOptimizer, for modules of any functions  *)
(* and any bound on the functions that merging adds: where it ends the     *)
(* program is as it was, and no function that it merged has a call.        *)
(***************************************************************************)
EXTENDS UseDef, Naming, Check, Pipeline, CodeSizeOptimizer,
        FiniteSetTheorems, SequenceTheorems, TLAPS

-----------------------------------------------------------------------------
(* UseDef.                                                                 *)

\* Usable values are values, which is all that typing needs of them.
LEMMA UsableIsValue == Usable \subseteq Value
BY DEF Usable, Value

LEMMA InitTyped == Init => TypeOK
<1> SUFFICES ASSUME Init PROVE TypeOK
  OBVIOUS
<1>1. use_list \in [Value -> SUBSET Use]
  BY DEF Init
<1>2. crashed \in BOOLEAN
  BY DEF Init
<1>3. operands \in [Instr -> Seq(Value)]
  BY DEF Init
<1> QED BY <1>1, <1>2, <1>3 DEF Init, TypeOK, Status

\* Every variable of UseDef keeps its type: User::operands_ stays a vector of
\* values and Value::use_list_ a collection of (user, operand number) pairs.
THEOREM TypeCorrect == Spec => []TypeOK
<1>1. Init => TypeOK
  BY InitTyped
<1>2. TypeOK /\ [Next]_vars => TypeOK'
  <2> SUFFICES ASSUME TypeOK, [Next]_vars PROVE TypeOK'
    OBVIOUS
  <2> USE DEF TypeOK
  <2>1. ASSUME NEW i \in Instr, NEW n \in 0..MaxOps, NEW ops \in [1..n -> Usable],
               CreateInstruction(i, ops)
        PROVE  TypeOK'
    <3>1. ops \in Seq(Value)
      BY UsableIsValue, MaxOpsNat
    <3>2. \A v \in Value : {<<i, k>> : k \in {j \in DOMAIN ops : ops[j] = v}} \subseteq Use
      BY <2>1, MaxOpsNat DEF Use
    <3>3. use_list' \in [Value -> SUBSET Use]
      BY <2>1, <3>2 DEF CreateInstruction
    <3> QED BY <2>1, <3>1, <3>3 DEF CreateInstruction, Status
  <2>2. ASSUME NEW i \in Instr, CreatePhi(i) PROVE TypeOK'
    BY <2>2 DEF CreatePhi, Status
  <2>3. ASSUME NEW i \in Instr, AddInstrBegin(i) PROVE TypeOK'
    BY <2>3 DEF AddInstrBegin, Status
  <2>4. ASSUME NEW i \in Instr, NEW v \in Usable, NEW b \in Block, AddPhiPairOperand(i, v, b)
        PROVE  TypeOK'
    <3>1. v \in Value /\ b \in Value
      BY UsableIsValue DEF Value, Leaf
    <3>2. operands[i] \o <<v, b>> \in Seq(Value)
      BY <3>1
    <3>3. Len(operands[i]) \in Nat
      OBVIOUS
    <3>4. <<i, Len(operands[i]) + 1>> \in Use /\ <<i, Len(operands[i]) + 2>> \in Use
      BY <3>3 DEF Use
    <3>5. operands' \in [Instr -> Seq(Value)]
      BY <2>4, <3>2 DEF AddPhiPairOperand
    <3>6. use_list' \in [Value -> SUBSET Use]
      BY <2>4, <3>1, <3>4 DEF AddPhiPairOperand
    <3> QED BY <2>4, <3>5, <3>6 DEF AddPhiPairOperand
  <2>5. ASSUME NEW old \in Instr, NEW new \in Usable, ReplaceAllUseWith(old, new)
        PROVE  TypeOK'
    <3>1. new \in Value /\ old \in Value
      BY UsableIsValue DEF Value
    <3>2. ASSUME NEW i \in Instr
          PROVE  [k \in DOMAIN operands[i] |->
                    IF <<i, k>> \in use_list[old] THEN new ELSE operands[i][k]] \in Seq(Value)
      <4> DEFINE s == operands[i]
                 t == [k \in DOMAIN s |-> IF <<i, k>> \in use_list[old] THEN new ELSE s[k]]
      <4>1. s \in Seq(Value) /\ DOMAIN s = 1..Len(s) /\ Len(s) \in Nat
        OBVIOUS
      <4>2. \A k \in 1..Len(s) : s[k] \in Value
        BY <4>1
      <4>3. t \in [1..Len(s) -> Value]
        BY <4>1, <4>2, <3>1
      <4> QED BY <4>1, <4>3
    <3>3. operands' \in [Instr -> Seq(Value)]
      BY <2>5, <3>2 DEF ReplaceAllUseWith
    <3>4. use_list' \in [Value -> SUBSET Use]
      BY <2>5, <3>1 DEF ReplaceAllUseWith
    <3> QED BY <2>5, <3>3, <3>4 DEF ReplaceAllUseWith
  <2>6. ASSUME NEW i \in Instr, DeleteInstr(i) PROVE TypeOK'
    BY <2>6 DEF DeleteInstr, RemoveUseOfOps, Status
  <2>7. ASSUME NEW i \in Instr, NEW n \in Instr, NEW f \in Const, NEW d \in Const,
               Redirect(i, n, f, d)
        PROVE  TypeOK'
    <3> DEFINE ops == <<f>> \o operands[i] \o <<d>>
    <3>1. ops \in Seq(Value) /\ DOMAIN ops \subseteq Nat
      BY DEF Value, Leaf
    <3>2. \A v \in Value : {<<n, k>> : k \in {j \in DOMAIN ops : ops[j] = v}} \subseteq Use
      BY <3>1 DEF Use
    <3>3. operands' \in [Instr -> Seq(Value)]
      BY <2>7, <3>1 DEF Redirect
    <3>4. use_list' \in [Value -> SUBSET Use]
      BY <2>7, <3>2 DEF Redirect
    <3> QED BY <2>7, <3>3, <3>4 DEF Redirect, Status
  <2>8. ASSUME NEW i \in Instr, LockExpired(i) \/ Free(i) PROVE TypeOK'
    <3>1. CASE LockExpired(i)
      BY <3>1 DEF LockExpired
    <3>2. CASE Free(i)
      <4>1. operands' \in [Instr -> Seq(Value)]
        BY <3>2 DEF Free
      <4> QED BY <3>2, <4>1 DEF Free, Status
    <3> QED BY <2>8, <3>1, <3>2
  <2>9. CASE UNCHANGED vars
    BY <2>9 DEF vars
  <2> QED BY <2>1, <2>2, <2>3, <2>4, <2>5, <2>6, <2>7, <2>8, <2>9 DEF Next
<1> QED BY <1>1, <1>2, PTL DEF Spec

(***************************************************************************)
(* The use-def invariant.                                                  *)
(*                                                                         *)
(* The three invariants only hold together: UsesExact tells which slots a  *)
(* replacement writes, OperandsBacked that it forgets none, OperandsUsable *)
(* that what remains in a slot has not been retired, but for the calls     *)
(* that CodeSizeOptimizer redirected.  Fresh closes the induction for the  *)
(* constructors: an instruction nobody has linked yet enters the usable    *)
(* values with an empty use list.  Casualties keeps the redirected calls   *)
(* apart from what is still in a block.                                    *)
(***************************************************************************)

Fresh ==
  \A i \in Instr : life[i] \in {"unborn", "detached"} =>
    /\ use_list[i] = {} /\ i \notin delete_list
    /\ life[i] = "unborn" => operands[i] = <<>>

UseLists == TypeOK /\ OperandsBacked /\ UsesExact /\ OperandsUsable /\ Fresh

Casualties ==
  /\ \A v \in redirected : life[v] \in {"deleted", "freed"}
  /\ CrashExplained

UseDefInv == UseLists /\ Casualties

LEMMA InitUseDef == Init => UseDefInv
<1> SUFFICES ASSUME Init PROVE UseDefInv
  OBVIOUS
<1>1. TypeOK
  BY InitTyped
<1>2. Live = {} /\ \A v \in Value : use_list[v] = {}
  BY DEF Init, Live
<1>3. OperandsBacked /\ UsesExact /\ OperandsUsable
  BY <1>2, UsableIsValue DEF OperandsBacked, UsesExact, OperandsUsable
<1>4. Fresh
  BY <1>2 DEF Init, Fresh, Value
<1>5. Casualties
  BY DEF Init, Casualties, CrashExplained
<1> QED BY <1>1, <1>3, <1>4, <1>5 DEF UseDefInv, UseLists

LEMMA CreateInstructionInv ==
  ASSUME UseDefInv, TypeOK', NEW i \in Instr, NEW n \in 0..MaxOps,
         NEW ops \in [1..n -> Usable], CreateInstruction(i, ops)
  PROVE  UseLists'
<1> USE DEF UseDefInv, UseLists, TypeOK, CreateInstruction
<1>0. DOMAIN ops = 1..n /\ i \notin delete_list /\ use_list[i] = {} /\ i \in Value
  BY DEF Fresh, Value
<1>1. Usable' = Usable \cup {i} /\ Live' = Live \cup {i} /\ i \notin Usable /\ i \notin Live
  BY <1>0, ConstantsDisjoint DEF Usable, Live, Leaf
<1>2. \A j \in Instr : j # i => operands'[j] = operands[j]
  OBVIOUS
<1>3. operands'[i] = ops
  OBVIOUS
<1>4. \A v \in Value : use_list'[v] = use_list[v] \cup {<<i, k>> : k \in {j \in 1..n : ops[j] = v}}
  BY <1>0
<1>5. OperandsBacked'
  <2> SUFFICES ASSUME NEW j \in Live', NEW k \in DOMAIN operands'[j]
               PROVE  <<j, k>> \in use_list'[operands'[j][k]]
    BY DEF OperandsBacked
  <2>1. CASE j = i
    BY <2>1, <1>0, <1>3, <1>4, UsableIsValue
  <2>2. CASE j # i
    <3>1. operands[j][k] \in Value /\ <<j, k>> \in use_list[operands[j][k]]
      BY <2>2, <1>1, <1>2 DEF OperandsBacked, OperandsUsable, Live
    <3> QED BY <2>2, <3>1, <1>2, <1>4 DEF Live
  <2> QED BY <2>1, <2>2
<1>6. UsesExact'
  <2> SUFFICES ASSUME NEW v \in Usable', NEW u \in use_list'[v]
               PROVE  /\ u[1] \in Live' /\ u[2] \in DOMAIN operands'[u[1]]
                      /\ operands'[u[1]][u[2]] = v
    BY DEF UsesExact
  <2>1. v \in Value
    BY <1>0, <1>1, UsableIsValue
  <2>2. CASE u \in use_list[v]
    <3>1. v \in Usable
      BY <2>2, <1>0, <1>1
    <3>2. u[1] \in Live /\ u[2] \in DOMAIN operands[u[1]] /\ operands[u[1]][u[2]] = v
      BY <2>2, <3>1 DEF UsesExact
    <3> QED BY <3>2, <1>1, <1>2 DEF Live
  <2>3. CASE u \in {<<i, k>> : k \in {j \in 1..n : ops[j] = v}}
    BY <2>3, <1>0, <1>1, <1>3
  <2> QED BY <2>1, <2>2, <2>3, <1>4
<1>7. OperandsUsable'
  BY <1>0, <1>1, <1>2, <1>3 DEF OperandsUsable, Operands, Live
<1>8. Fresh'
  <2> SUFFICES ASSUME NEW j \in Instr, life'[j] \in {"unborn", "detached"}
               PROVE  /\ use_list'[j] = {} /\ j \notin delete_list'
                      /\ life'[j] = "unborn" => operands'[j] = <<>>
    BY DEF Fresh
  <2>1. j # i /\ life[j] \in {"unborn", "detached"}
    OBVIOUS
  <2>2. j \notin Usable
    BY <2>1, ConstantsDisjoint DEF Usable, Leaf
  <2>3. j \in Value /\ {k \in 1..n : ops[k] = j} = {}
    BY <2>2 DEF Value
  <2>4. use_list[j] = {} /\ j \notin delete_list /\ (life[j] = "unborn" => operands[j] = <<>>)
    BY <2>1 DEF Fresh
  <2>5. use_list'[j] = use_list[j]
    <3>1. {<<i, k>> : k \in {m \in 1..n : ops[m] = j}} = {}
      BY <2>3
    <3>2. use_list'[j] = use_list[j] \cup {<<i, k>> : k \in {m \in 1..n : ops[m] = j}}
      BY <2>3, <1>4
    <3> HIDE DEF UseDefInv, UseLists, TypeOK, CreateInstruction
    <3> QED BY <3>1, <3>2
  <2>6. operands'[j] = operands[j] /\ life'[j] = life[j] /\ delete_list' = delete_list
    BY <2>1
  <2> HIDE DEF UseDefInv, UseLists, TypeOK, CreateInstruction
  <2> QED BY <2>4, <2>5, <2>6
<1> QED BY <1>5, <1>6, <1>7, <1>8

LEMMA CreatePhiInv ==
  ASSUME UseDefInv, TypeOK', NEW i \in Instr, CreatePhi(i)
  PROVE  UseLists'
BY DEF UseDefInv, UseLists, TypeOK, CreatePhi, OperandsBacked, UsesExact, OperandsUsable, Fresh, Live,
       Usable, Operands

LEMMA AddInstrBeginInv ==
  ASSUME UseDefInv, TypeOK', NEW i \in Instr, AddInstrBegin(i)
  PROVE  UseLists'
<1> USE DEF UseDefInv, UseLists, TypeOK, AddInstrBegin
<1>1. Live' = Live /\ Usable' = Usable \cup {i} /\ use_list[i] = {}
  BY DEF Live, Usable, Fresh
<1>2. OperandsBacked' /\ OperandsUsable' /\ Fresh'
  BY <1>1 DEF OperandsBacked, OperandsUsable, Operands, Fresh
<1>3. UsesExact'
  BY <1>1 DEF UsesExact
<1> QED BY <1>2, <1>3

LEMMA AddPhiPairInv ==
  ASSUME UseDefInv, TypeOK', NEW i \in Instr, NEW v \in Usable, NEW b \in Block,
         AddPhiPairOperand(i, v, b)
  PROVE  UseLists'
<1> DEFINE n == Len(operands[i])
           s == operands[i]
           t == operands'[i]
<1> USE DEF UseDefInv, UseLists, TypeOK
<1>1. Live' = Live /\ Usable' = Usable /\ i \in Live /\ v \in Value /\ b \in Value /\ b \in Usable
  BY UsableIsValue DEF AddPhiPairOperand, Live, Usable, Value, Leaf
<1>2. s \in Seq(Value) /\ n \in Nat /\ DOMAIN s = 1..n
  OBVIOUS
<1>3. t = s \o <<v, b>> /\ \A j \in Instr : j # i => operands'[j] = operands[j]
  BY DEF AddPhiPairOperand
<1>4. /\ DOMAIN t = 1..(n + 2)
      /\ \A k \in 1..n : t[k] = s[k]
      /\ t[n + 1] = v /\ t[n + 2] = b
  BY <1>1, <1>2, <1>3
<1>5. \A x \in Value : use_list'[x] = use_list[x]
                          \cup (IF x = v THEN {<<i, n + 1>>} ELSE {})
                          \cup (IF x = b THEN {<<i, n + 2>>} ELSE {})
  BY <1>1 DEF AddPhiPairOperand
<1> HIDE DEF n, s, t
<1>6. OperandsBacked'
  <2> SUFFICES ASSUME NEW j \in Live, NEW k \in DOMAIN operands'[j]
               PROVE  <<j, k>> \in use_list'[operands'[j][k]]
    BY <1>1 DEF OperandsBacked
  <2>1. CASE j # i
    <3>1. operands[j][k] \in Value /\ <<j, k>> \in use_list[operands[j][k]]
      BY <2>1, <1>3, UsableIsValue DEF OperandsBacked, OperandsUsable, Operands, Live
    <3> QED BY <2>1, <3>1, <1>3, <1>5 DEF Live
  <2>2. CASE j = i /\ k \in 1..n
    <3>1. s[k] \in Value /\ <<i, k>> \in use_list[s[k]]
      BY <2>2, <1>1, <1>2, UsableIsValue DEF OperandsBacked, OperandsUsable, Operands, s
    <3> QED BY <2>2, <3>1, <1>4, <1>5 DEF t
  <2>3. CASE j = i /\ k = n + 1
    BY <2>3, <1>1, <1>4, <1>5 DEF t
  <2>4. CASE j = i /\ k = n + 2
    BY <2>4, <1>1, <1>4, <1>5 DEF t
  <2>5. j = i => k \in 1..(n + 2)
    BY <1>4 DEF t
  <2>6. n \in Nat
    BY <1>2
  <2> QED BY <2>1, <2>2, <2>3, <2>4, <2>5, <2>6
<1>7. UsesExact'
  <2> SUFFICES ASSUME NEW x \in Usable, NEW u \in use_list'[x]
               PROVE  /\ u[1] \in Live /\ u[2] \in DOMAIN operands'[u[1]]
                      /\ operands'[u[1]][u[2]] = x
    BY <1>1 DEF UsesExact
  <2>1. x \in Value
    BY UsableIsValue
  <2>2. CASE u \in use_list[x]
    <3>1. u[1] \in Live /\ u[2] \in DOMAIN operands[u[1]] /\ operands[u[1]][u[2]] = x
      BY <2>2 DEF UsesExact
    <3>2. CASE u[1] # i
      BY <3>1, <3>2, <1>3 DEF Live
    <3>3. CASE u[1] = i
      BY <3>1, <3>3, <1>2, <1>4 DEF s, t
    <3> QED BY <3>2, <3>3
  <2>3. CASE u = <<i, n + 1>> /\ x = v
    BY <2>3, <1>1, <1>2, <1>4 DEF t
  <2>4. CASE u = <<i, n + 2>> /\ x = b
    BY <2>4, <1>1, <1>2, <1>4 DEF t
  <2> QED BY <2>1, <2>2, <2>3, <2>4, <1>5
<1>8. OperandsUsable'
  <2> SUFFICES ASSUME NEW j \in Live, NEW k \in DOMAIN operands'[j]
               PROVE  operands'[j][k] \in Usable \cup redirected'
    BY <1>1 DEF OperandsUsable, Operands
  <2>1. CASE j # i
    BY <2>1, <1>3 DEF OperandsUsable, Operands, Live, AddPhiPairOperand
  <2>2. CASE j = i /\ k \in 1..n
    BY <2>2, <1>1, <1>2, <1>4 DEF OperandsUsable, Operands, AddPhiPairOperand, s, t
  <2>3. CASE j = i /\ (k = n + 1 \/ k = n + 2)
    BY <2>3, <1>1, <1>4 DEF t
  <2>4. j = i => k \in 1..(n + 2)
    BY <1>4 DEF t
  <2>5. n \in Nat
    BY <1>2
  <2> QED BY <2>1, <2>2, <2>3, <2>4, <2>5
<1>9. Fresh'
  <2> SUFFICES ASSUME NEW j \in Instr, life[j] \in {"unborn", "detached"}
               PROVE  /\ use_list'[j] = {} /\ j \notin delete_list
                      /\ life[j] = "unborn" => operands'[j] = <<>>
    BY DEF Fresh, AddPhiPairOperand
  <2>1. j \notin Usable /\ j \in Value
    BY ConstantsDisjoint DEF Usable, Leaf, Value
  <2>2. use_list'[j] = use_list[j]
    BY <2>1, <1>1, <1>5
  <2>3. j # i \/ life[j] # "unborn"
    BY <1>1 DEF Live
  <2> QED BY <2>2, <2>3, <1>3 DEF Fresh
<1> QED BY <1>6, <1>7, <1>8, <1>9

LEMMA ReplaceAllUseWithInv ==
  ASSUME UseDefInv, TypeOK', NEW old \in Instr, NEW new \in Usable,
         ReplaceAllUseWith(old, new)
  PROVE  UseLists'
<1> USE DEF UseDefInv, UseLists, TypeOK
<1>1. /\ Live' = Live /\ Usable' = Usable \ {old}
      /\ old \in Usable /\ new # old /\ old \in Value /\ new \in Value
  BY UsableIsValue, ConstantsDisjoint DEF ReplaceAllUseWith, Live, Usable, Leaf
<1>2. \A j \in Instr : /\ DOMAIN operands'[j] = DOMAIN operands[j]
                       /\ \A k \in DOMAIN operands[j] :
                            operands'[j][k] = IF <<j, k>> \in use_list[old]
                                              THEN new ELSE operands[j][k]
  BY DEF ReplaceAllUseWith
<1>3. \A x \in Value : use_list'[x] = use_list[x] \cup (IF x = new THEN use_list[old] ELSE {})
  BY <1>1 DEF ReplaceAllUseWith
\* The slots written are exactly the slots that hold the old value.
<1>4. \A j \in Live : \A k \in DOMAIN operands[j] :
        <<j, k>> \in use_list[old] <=> operands[j][k] = old
  BY <1>1 DEF OperandsBacked, UsesExact
<1>5. OperandsUsable'
  <2> SUFFICES ASSUME NEW j \in Live, NEW k \in DOMAIN operands[j]
               PROVE  operands'[j][k] \in (Usable \ {old}) \cup redirected
    <3>1. redirected' = redirected
      BY DEF ReplaceAllUseWith
    <3> QED BY <3>1, <1>1, <1>2 DEF OperandsUsable, Operands, Live
  <2>1. operands[j][k] \in Usable \cup redirected
    BY DEF OperandsUsable, Operands
  <2> QED BY <2>1, <1>1, <1>2, <1>4 DEF Live
<1>6. OperandsBacked'
  <2> SUFFICES ASSUME NEW j \in Live, NEW k \in DOMAIN operands[j]
               PROVE  <<j, k>> \in use_list'[operands'[j][k]]
    BY <1>1, <1>2 DEF OperandsBacked, Live
  <2>1. operands[j][k] \in Value /\ <<j, k>> \in use_list[operands[j][k]]
    BY DEF OperandsBacked, Live
  <2>2. j \in Instr
    BY DEF Live
  <2>3. CASE <<j, k>> \in use_list[old]
    BY <2>2, <2>3, <1>1, <1>2, <1>3
  <2>4. CASE <<j, k>> \notin use_list[old]
    BY <2>1, <2>2, <2>4, <1>2, <1>3
  <2> QED BY <2>3, <2>4
<1>7. UsesExact'
  <2> SUFFICES ASSUME NEW x \in Usable, x # old, NEW u \in use_list'[x]
               PROVE  /\ u[1] \in Live /\ u[2] \in DOMAIN operands'[u[1]]
                      /\ operands'[u[1]][u[2]] = x
    BY <1>1 DEF UsesExact
  <2>1. x \in Value
    BY UsableIsValue
  <2>2. CASE u \in use_list[x]
    <3>1. u[1] \in Live /\ u[2] \in DOMAIN operands[u[1]] /\ operands[u[1]][u[2]] = x
      BY <2>2 DEF UsesExact
    <3>2. <<u[1], u[2]>> \notin use_list[old]
      BY <3>1, <1>4
    <3> QED BY <3>1, <3>2, <1>2 DEF Live
  <2>3. CASE x = new /\ u \in use_list[old]
    <3>1. u[1] \in Live /\ u[2] \in DOMAIN operands[u[1]]
      BY <2>3, <1>1 DEF UsesExact
    <3>2. u = <<u[1], u[2]>>
      BY <2>3, <1>1 DEF Use
    <3> QED BY <3>1, <3>2, <2>3, <1>2 DEF Live
  <2> QED BY <2>1, <2>2, <2>3, <1>3
<1>8. Fresh'
  <2> SUFFICES ASSUME NEW j \in Instr, life[j] \in {"unborn", "detached"}
               PROVE  /\ use_list'[j] = {} /\ j \notin delete_list \cup {old}
                      /\ life[j] = "unborn" => operands'[j] = <<>>
    BY DEF Fresh, ReplaceAllUseWith
  <2>1. j \notin Usable /\ j \in Value
    BY ConstantsDisjoint DEF Usable, Leaf, Value
  <2>2. operands[j] = <<>> => operands'[j] = <<>>
    BY <1>2 DEF ReplaceAllUseWith
  <2> QED BY <2>1, <2>2, <1>1, <1>3 DEF Fresh
<1> QED BY <1>5, <1>6, <1>7, <1>8

LEMMA DeleteInstrInv ==
  ASSUME UseDefInv, TypeOK', NEW i \in Instr, DeleteInstr(i)
  PROVE  UseLists'
<1> USE DEF UseDefInv, UseLists, TypeOK
<1>1. Live' = Live \ {i} /\ Usable' = Usable \ {i} /\ i \in Value
  BY ConstantsDisjoint DEF DeleteInstr, Live, Usable, Leaf, Value
<1>2. \A x \in Value : use_list'[x] = IF x \in Operands(i) THEN {u \in use_list[x] : u[1] # i}
                                                         ELSE use_list[x]
  BY DEF DeleteInstr, RemoveUseOfOps
<1>3. operands' = operands /\ delete_list' = delete_list /\ redirected' = redirected
  BY DEF DeleteInstr
\* Nobody holds the deleted value: either it was replaced, or its list is empty.
<1>4. \A j \in Live : i \notin Operands(j)
  BY ConstantsDisjoint DEF DeleteInstr, Casualties, OperandsBacked, OperandsUsable, Operands, Usable, Leaf
<1>5. OperandsUsable'
  BY <1>1, <1>3, <1>4 DEF OperandsUsable, Operands
<1>6. OperandsBacked'
  <2> SUFFICES ASSUME NEW j \in Live, j # i, NEW k \in DOMAIN operands[j]
               PROVE  <<j, k>> \in use_list'[operands[j][k]]
    BY <1>1, <1>3 DEF OperandsBacked
  <2>1. operands[j][k] \in Value /\ <<j, k>> \in use_list[operands[j][k]]
    BY DEF OperandsBacked, Live
  <2> QED BY <2>1, <1>2
<1>7. UsesExact'
  <2> SUFFICES ASSUME NEW x \in Usable, x # i, NEW u \in use_list'[x]
               PROVE  /\ u[1] \in Live \ {i} /\ u[2] \in DOMAIN operands[u[1]]
                      /\ operands[u[1]][u[2]] = x
    BY <1>1, <1>3 DEF UsesExact
  <2>1. x \in Value
    BY UsableIsValue
  <2>2. u \in use_list[x]
    BY <2>1, <1>2
  <2>3. u[1] \in Live /\ u[2] \in DOMAIN operands[u[1]] /\ operands[u[1]][u[2]] = x
    BY <2>2 DEF UsesExact
  <2>4. u[1] # i
    <3> SUFFICES ASSUME u[1] = i
                 PROVE  FALSE
      OBVIOUS
    <3>1. x \in Operands(i)
      BY <2>3 DEF Operands
    <3> QED BY <3>1, <2>1, <1>2
  <2> QED BY <2>3, <2>4
<1>8. Fresh'
  BY <1>2, <1>3 DEF Fresh, DeleteInstr, Value
<1> QED BY <1>5, <1>6, <1>7, <1>8

LEMMA RedirectInv ==
  ASSUME UseDefInv, TypeOK', NEW i \in Instr, NEW n \in Instr, NEW f \in Const, NEW d \in Const,
         Redirect(i, n, f, d)
  PROVE  UseLists'
<1> DEFINE ops == <<f>> \o operands[i] \o <<d>>
           New(v) == {<<n, k>> : k \in {j \in DOMAIN ops : ops[j] = v}}
<1> USE DEF UseDefInv, UseLists, TypeOK
<1>1. i # n /\ i \notin delete_list /\ n \notin delete_list /\ use_list[n] = {} /\ n \in Value
  BY DEF Redirect, Fresh, Value
<1>2. /\ Live' = (Live \ {i}) \cup {n} /\ n \notin Live
      /\ Usable' = (Usable \ {i}) \cup {n} /\ n \notin Usable
      /\ redirected' = redirected \cup {i} /\ n \notin redirected
      /\ delete_list' = delete_list
  <2>1. life[i] = "linked" /\ life[n] = "unborn" /\ life' = [life EXCEPT ![i] = "deleted", ![n] = "linked"]
    BY DEF Redirect
  <2>2. Live' = (Live \ {i}) \cup {n} /\ n \notin Live
    BY <1>1, <2>1 DEF Live
  <2>3. delete_list' = delete_list /\ redirected' = redirected \cup {i} /\ n \notin redirected
    BY <2>1 DEF Redirect, Casualties
  <2>4. i \notin Leaf /\ n \notin Leaf
    BY ConstantsDisjoint DEF Leaf
  <2>5. \A j \in Instr : life'[j] = IF j = i THEN "deleted" ELSE IF j = n THEN "linked" ELSE life[j]
    BY <1>1, <2>1
  <2>6. Usable' = (Usable \ {i}) \cup {n} /\ n \notin Usable
    BY <1>1, <2>1, <2>3, <2>4, <2>5 DEF Usable
  <2> QED BY <2>2, <2>3, <2>6
<1>3. operands'[n] = ops /\ \A j \in Instr : j # n => operands'[j] = operands[j]
  BY DEF Redirect
<1>4. \A v \in Value : use_list'[v] = (IF v \in Operands(i) THEN {u \in use_list[v] : u[1] # i}
                                                         ELSE use_list[v]) \cup New(v)
  BY DEF Redirect
\* The new call has the operands of the old one and two constants.
<1>5. \A k \in DOMAIN ops : ops[k] \in Value /\ ops[k] \in Usable \cup redirected
  <2> SUFFICES ASSUME NEW k \in DOMAIN ops PROVE ops[k] \in Value /\ ops[k] \in Usable \cup redirected
    OBVIOUS
  <2> DEFINE s == operands[i]
  <2>1. s \in Seq(Value) /\ Len(s) \in Nat /\ DOMAIN s = 1..Len(s)
    OBVIOUS
  <2>2. f \in Value /\ d \in Value /\ f \in Usable /\ d \in Usable
    BY DEF Value, Leaf, Usable
  <2>3. \A m \in DOMAIN s : s[m] \in Value /\ s[m] \in Usable \cup redirected
    BY DEF OperandsUsable, Operands, Live, Redirect
  <2> HIDE DEF s
  <2>4. DOMAIN ops = 1..(Len(s) + 2) /\ ops[1] = f /\ ops[Len(s) + 2] = d
        /\ \A m \in 2..(Len(s) + 1) : ops[m] = s[m - 1]
    BY <2>1, <2>2 DEF s
  <2> HIDE DEF ops
  <2>5. CASE k \in 2..(Len(s) + 1)
    <3>1. k - 1 \in DOMAIN s
      BY <2>1, <2>5
    <3> QED BY <3>1, <2>3, <2>4, <2>5
  <2>6. CASE k = 1 \/ k = Len(s) + 2
    BY <2>6, <2>2, <2>4
  <2> QED BY <2>1, <2>4, <2>5, <2>6
<1> HIDE DEF ops
<1>6. OperandsBacked'
  <2> SUFFICES ASSUME NEW j \in Live', NEW k \in DOMAIN operands'[j]
               PROVE  <<j, k>> \in use_list'[operands'[j][k]]
    BY DEF OperandsBacked
  <2>1. CASE j = n
    BY <2>1, <1>3, <1>4, <1>5
  <2>2. CASE j # n
    <3>1. j \in Live /\ j # i /\ j \in Instr /\ operands'[j] = operands[j]
      BY <2>2, <1>2, <1>3 DEF Live
    <3>2. operands[j][k] \in Value /\ <<j, k>> \in use_list[operands[j][k]]
      BY <3>1 DEF OperandsBacked
    <3> QED BY <3>1, <3>2, <1>4
  <2> QED BY <2>1, <2>2
<1>7. UsesExact'
  <2> SUFFICES ASSUME NEW v \in Usable', NEW u \in use_list'[v]
               PROVE  /\ u[1] \in Live' /\ u[2] \in DOMAIN operands'[u[1]]
                      /\ operands'[u[1]][u[2]] = v
    BY DEF UsesExact
  <2>1. v \in Value
    BY <1>1, <1>2, UsableIsValue
  <2>2. CASE u \in New(v)
    BY <2>2, <1>2, <1>3
  <2>3. CASE u \notin New(v)
    <3>1. u \in use_list[v] /\ (v \in Operands(i) => u[1] # i)
      BY <2>1, <2>3, <1>4
    <3>2. v \in Usable
      BY <3>1, <1>1, <1>2
    <3>3. u[1] \in Live /\ u[2] \in DOMAIN operands[u[1]] /\ operands[u[1]][u[2]] = v
      BY <3>1, <3>2 DEF UsesExact
    <3>4. u[1] # i
      BY <3>1, <3>3 DEF Operands
    <3> QED BY <3>3, <3>4, <1>2, <1>3 DEF Live
  <2> QED BY <2>2, <2>3
<1>8. OperandsUsable'
  <2> SUFFICES ASSUME NEW j \in Live', NEW k \in DOMAIN operands'[j]
               PROVE  operands'[j][k] \in Usable \cup redirected
    BY <1>2 DEF OperandsUsable, Operands
  <2>1. CASE j = n
    BY <2>1, <1>3, <1>5
  <2>2. CASE j # n
    BY <2>2, <1>2, <1>3 DEF OperandsUsable, Operands, Live
  <2> QED BY <2>1, <2>2
<1>9. Fresh'
  <2> SUFFICES ASSUME NEW j \in Instr, life'[j] \in {"unborn", "detached"}
               PROVE  /\ use_list'[j] = {} /\ j \notin delete_list'
                      /\ life'[j] = "unborn" => operands'[j] = <<>>
    BY DEF Fresh
  <2>1. j # n /\ life[j] \in {"unborn", "detached"} /\ life'[j] = life[j]
    BY DEF Redirect
  <2>2. j \notin Usable /\ j \notin redirected /\ j \in Value
    BY <2>1, ConstantsDisjoint DEF Usable, Leaf, Casualties, Value
  <2>3. New(j) = {}
    BY <2>2, <1>5
  <2>4. use_list[j] = {} /\ j \notin delete_list /\ (life[j] = "unborn" => operands[j] = <<>>)
    BY <2>1 DEF Fresh
  <2>5. use_list'[j] = {}
    BY <2>2, <2>3, <2>4, <1>4
  <2> QED BY <2>1, <2>4, <2>5, <1>2, <1>3
<1> QED BY <1>6, <1>7, <1>8, <1>9

LEMMA FreeInv ==
  ASSUME UseDefInv, TypeOK', NEW i \in Instr, Free(i)
  PROVE  UseLists'
<1> USE DEF UseDefInv, UseLists, TypeOK
<1>1. Live' = Live /\ Usable' = Usable
  BY DEF Free, Live, Usable
<1>2. \A j \in Instr : j # i => operands'[j] = operands[j] /\ life'[j] = life[j]
  BY DEF Free
<1>3. i \notin Live
  BY DEF Free, Live
<1>4. OperandsBacked' /\ OperandsUsable'
  BY <1>1, <1>2, <1>3 DEF Free, OperandsBacked, OperandsUsable, Operands, Live
<1>5. UsesExact'
  BY <1>1, <1>2, <1>3 DEF Free, UsesExact, Live
<1>6. Fresh'
  BY DEF Free, Fresh
<1> QED BY <1>4, <1>5, <1>6

\* A redirected call stays out of the blocks, and only a call of those that is
\* destroyed lets an operand expire: what a linked instruction holds besides
\* is in a block.
LEMMA CasualtiesStep == UseDefInv /\ [Next]_vars => Casualties'
<1> SUFFICES ASSUME UseDefInv, [Next]_vars PROVE Casualties'
  OBVIOUS
<1> USE DEF UseDefInv, UseLists, Casualties, CrashExplained, TypeOK
<1>1. ASSUME NEW i \in Instr, NEW n \in 0..MaxOps, NEW ops \in [1..n -> Usable],
             CreateInstruction(i, ops)
      PROVE  Casualties'
  BY <1>1 DEF CreateInstruction
<1>2. ASSUME NEW i \in Instr, CreatePhi(i) \/ AddInstrBegin(i) \/ DeleteInstr(i) \/ Free(i)
      PROVE  Casualties'
  BY <1>2 DEF CreatePhi, AddInstrBegin, DeleteInstr, Free
<1>3. ASSUME NEW i \in Instr, NEW v \in Usable, NEW b \in Block, AddPhiPairOperand(i, v, b)
      PROVE  Casualties'
  BY <1>3 DEF AddPhiPairOperand
<1>4. ASSUME NEW old \in Instr, NEW new \in Usable, ReplaceAllUseWith(old, new)
      PROVE  Casualties'
  BY <1>4 DEF ReplaceAllUseWith
<1>5. ASSUME NEW i \in Instr, NEW n \in Instr, NEW f \in Const, NEW d \in Const,
             Redirect(i, n, f, d)
      PROVE  Casualties'
  BY <1>5 DEF Redirect
<1>6. ASSUME NEW i \in Instr, LockExpired(i) PROVE Casualties'
  <2>1. PICK v \in Operands(i) \cap Instr : life[v] = "freed"
    BY <1>6 DEF LockExpired, Expired
  <2>2. v \in redirected
    BY <2>1, <1>6, ConstantsDisjoint DEF LockExpired, OperandsUsable, Live, Usable, Leaf
  <2> QED BY <1>6, <2>1, <2>2 DEF LockExpired
<1>7. CASE UNCHANGED vars
  BY <1>7 DEF vars
<1> QED BY <1>1, <1>2, <1>3, <1>4, <1>5, <1>6, <1>7 DEF Next

LEMMA StepUseDef == UseDefInv /\ TypeOK' /\ [Next]_vars => UseDefInv'
<1> SUFFICES ASSUME UseDefInv, TypeOK', [Next]_vars PROVE UseLists' /\ Casualties'
  BY DEF UseDefInv
<1>1. Casualties'
  BY CasualtiesStep
<1>2. CASE UNCHANGED vars
  BY <1>2, <1>1 DEF vars, UseDefInv, UseLists, TypeOK, OperandsBacked, UsesExact, OperandsUsable,
                    Operands, Fresh, Live, Usable
<1>3. ASSUME NEW i \in Instr, LockExpired(i) PROVE UseLists'
  BY <1>3 DEF LockExpired, UseDefInv, UseLists, TypeOK, OperandsBacked, UsesExact, OperandsUsable,
              Operands, Fresh, Live, Usable
<1>4. CASE Next
  BY <1>1, <1>3, <1>4, CreateInstructionInv, CreatePhiInv, AddInstrBeginInv, AddPhiPairInv,
     ReplaceAllUseWithInv, DeleteInstrInv, RedirectInv, FreeInv DEF Next
<1> QED BY <1>1, <1>2, <1>4

\* The use-def check of Check.cpp does not find a missing use: after any
\* sequence of the calls the builder and the passes make, every operand of a
\* live instruction is backed by its use, and no replacement overwrites a
\* foreign slot.  A live instruction may hold what is deleted, and that end the
\* program when it is locked, only if CodeSizeOptimizer redirected a call.
THEOREM UseDefSafe == Spec => []UseDefSound
<1>1. Spec => []UseDefInv
  <2>1. Init => UseDefInv
    BY InitUseDef
  <2>2. UseDefInv /\ TypeOK' /\ [Next]_vars => UseDefInv'
    BY StepUseDef
  <2> QED BY <2>1, <2>2, TypeCorrect, PTL DEF Spec
<1>2. UseDefInv => UseDefSound
  BY DEF UseDefInv, UseLists, Casualties, UseDefSound
<1> QED BY <1>1, <1>2, PTL

\* Outside the slots of the value being replaced, no call rewrites an operand:
\* the stale entries set_operand leaves behind are never followed.
THEOREM SlotsStable == Spec => OnlyHoldersChange
<1>1. UseDefInv /\ TypeOK' /\ [Next]_vars =>
        [\A i \in Live : \A k \in DOMAIN operands[i] :
           operands'[i][k] # operands[i][k] => operands[i][k] \in delete_list' \ delete_list]_vars
  <2> SUFFICES ASSUME UseDefInv, [Next]_vars, NEW i \in Live, NEW k \in DOMAIN operands[i],
                      operands'[i][k] # operands[i][k]
               PROVE  operands[i][k] \in delete_list' \ delete_list
    OBVIOUS
  <2> USE DEF UseDefInv, UseLists, TypeOK
  <2>1. ASSUME NEW j \in Instr, NEW n \in 0..MaxOps, NEW ops \in [1..n -> Usable],
               CreateInstruction(j, ops)
        PROVE  FALSE
    BY <2>1 DEF CreateInstruction, Live
  <2>2. ASSUME NEW j \in Instr, NEW v \in Usable, NEW b \in Block, AddPhiPairOperand(j, v, b)
        PROVE  FALSE
    <3>1. v \in Value /\ b \in Value
      BY UsableIsValue DEF Value, Leaf
    <3>2. operands[j] \in Seq(Value) /\ operands'[j] = operands[j] \o <<v, b>>
      BY <2>2 DEF AddPhiPairOperand
    <3>3. \A m \in DOMAIN operands[j] : operands'[j][m] = operands[j][m]
      BY <3>1, <3>2
    <3> QED BY <2>2, <3>3 DEF AddPhiPairOperand, Live
  <2>3. ASSUME NEW old \in Instr, NEW new \in Usable, ReplaceAllUseWith(old, new)
        PROVE  operands[i][k] \in delete_list' \ delete_list
    <3>1. <<i, k>> \in use_list[old]
      BY <2>3 DEF ReplaceAllUseWith, Live
    <3>2. operands[i][k] = old /\ old \notin delete_list
      BY <2>3, <3>1, ConstantsDisjoint DEF ReplaceAllUseWith, UsesExact, Usable, Leaf
    <3> QED BY <2>3, <3>2 DEF ReplaceAllUseWith
  <2>4. ASSUME NEW j \in Instr,
               CreatePhi(j) \/ AddInstrBegin(j) \/ DeleteInstr(j) \/ LockExpired(j) \/ Free(j)
        PROVE  FALSE
    BY <2>4 DEF CreatePhi, AddInstrBegin, DeleteInstr, LockExpired, Free, Live
  <2>5. ASSUME NEW j \in Instr, NEW n \in Instr, NEW f \in Const, NEW d \in Const,
               Redirect(j, n, f, d)
        PROVE  FALSE
    BY <2>5 DEF Redirect, Live
  <2>6. CASE UNCHANGED vars
    BY <2>6 DEF vars
  <2> QED BY <2>1, <2>2, <2>3, <2>4, <2>5, <2>6 DEF Next
<1>2. Init => UseDefInv
  BY InitUseDef
<1>3. UseDefInv /\ TypeOK' /\ [Next]_vars => UseDefInv'
  BY StepUseDef
<1> QED BY <1>1, <1>2, <1>3, TypeCorrect, PTL DEF Spec, OnlyHoldersChange


-----------------------------------------------------------------------------
(* Naming.                                                                 *)

\* Every number given so far is below the next one.
NamesBelow ==
  \A v \in Val :
    name[v] # None => name[v] < seq_cnt + (IF pc = "naming" THEN size ELSE 0)

\* What the loop is past has a name.
NamedBehind ==
  pc = "naming" => \A k \in 1..Len(list) : k < next /\ list[k] \notin Void => name[list[k]] # None

NamingInv == NamingTypeOK /\ NamesBelow /\ NamesUnique /\ NamedBehind /\ PrintsNamed

-----------------------------------------------------------------------------

\* A new value may stand at any place of the list.
LEMMA CreateType ==
  ASSUME NamingTypeOK, NEW v \in Val, NEW k \in 0..Len(list)
  PROVE  SubSeq(list, 1, k) \o <<v>> \o SubSeq(list, k + 1, Len(list)) \in Seq(Val)
<1>1. Len(list) \in Nat /\ \A i \in 1..Len(list) : list[i] \in Val
  BY LenProperties, ElementOfSeq DEF NamingTypeOK
<1>2. SubSeq(list, 1, k) \in Seq(Val)
  <2>1. k \in Int /\ \A i \in 1..k : list[i] \in Val
    BY <1>1
  <2> QED BY <2>1, SubSeqProperties
<1>3. SubSeq(list, k + 1, Len(list)) \in Seq(Val)
  <2>1. k + 1 \in Int /\ Len(list) \in Int /\ \A i \in (k + 1)..Len(list) : list[i] \in Val
    BY <1>1
  <2> QED BY <2>1, SubSeqProperties
<1>4. <<v>> \in Seq(Val)
  OBVIOUS
<1>5. SubSeq(list, 1, k) \o <<v>> \in Seq(Val)
  BY <1>2, <1>4, ConcatProperties
<1> QED BY <1>3, <1>5, ConcatProperties

\* Any value may go.
LEMMA DeleteType ==
  ASSUME NamingTypeOK, NEW k \in 1..Len(list)
  PROVE  SubSeq(list, 1, k - 1) \o SubSeq(list, k + 1, Len(list)) \in Seq(Val)
<1>1. Len(list) \in Nat /\ \A i \in 1..Len(list) : list[i] \in Val
  BY LenProperties, ElementOfSeq DEF NamingTypeOK
<1>2. SubSeq(list, 1, k - 1) \in Seq(Val)
  <2>1. k - 1 \in Int /\ \A i \in 1..(k - 1) : list[i] \in Val
    BY <1>1
  <2> QED BY <2>1, SubSeqProperties
<1>3. SubSeq(list, k + 1, Len(list)) \in Seq(Val)
  <2>1. k + 1 \in Int /\ Len(list) \in Int /\ \A i \in (k + 1)..Len(list) : list[i] \in Val
    BY <1>1
  <2> QED BY <2>1, SubSeqProperties
<1> QED BY <1>2, <1>3, ConcatProperties

LEMMA NamingTypeStep == NamingTypeOK /\ [NamingNext]_naming => NamingTypeOK'
<1> SUFFICES ASSUME NamingTypeOK, [NamingNext]_naming PROVE NamingTypeOK'
  OBVIOUS
<1>1. ASSUME NEW v \in Val, NEW k \in 0..Len(list), Create(v, k) PROVE NamingTypeOK'
  <2>1. list' \in Seq(Val)
    BY <1>1, CreateType DEF Create
  <2> QED BY <1>1, <2>1 DEF Create, NamingTypeOK
<1>2. ASSUME NEW k \in 1..Len(list), Delete(k) PROVE NamingTypeOK'
  <2>1. list' \in Seq(Val)
    BY <1>2, DeleteType DEF Delete
  <2> QED BY <1>2, <2>1 DEF Delete, NamingTypeOK
<1>3. CASE SetInstrName
  BY <1>3 DEF SetInstrName, NamingTypeOK
<1>4. CASE NameNext
  BY <1>4 DEF NameNext, NamingTypeOK
<1>5. CASE NamingDone
  BY <1>5 DEF NamingDone, NamingTypeOK
<1>6. CASE Printed
  BY <1>6 DEF Printed, NamingTypeOK
<1>7. CASE UNCHANGED naming
  BY <1>7 DEF naming, NamingTypeOK
<1> QED BY <1>1, <1>2, <1>3, <1>4, <1>5, <1>6, <1>7 DEF NamingNext

LEMMA NamingInitType == NamingInit => NamingTypeOK
<1> SUFFICES ASSUME NamingInit PROVE NamingTypeOK
  OBVIOUS
<1>1. list \in Seq(Val) /\ Len(list) = 0
  BY EmptySeq DEF NamingInit
<1>2. name \in [Val -> Nat \cup {None}]
  BY DEF NamingInit
<1>3. created \subseteq Val /\ seq_cnt \in Nat /\ size \in Nat /\ next \in Nat \ {0}
  BY DEF NamingInit
<1>4. pc \in {"pass", "naming", "print"} /\ printing \in BOOLEAN
  BY DEF NamingInit
<1> QED BY <1>1, <1>2, <1>3, <1>4 DEF NamingTypeOK

\* The counters, the list and the table of names keep their types
\* (Function::set_instr_name).
THEOREM NamingTypeCorrect == NamingSpec => []NamingTypeOK
<1>1. NamingInit => NamingTypeOK
  BY NamingInitType
<1> QED BY <1>1, NamingTypeStep, PTL DEF NamingSpec

\* NameNext gives a number above all that were given, or no name.
LEMMA NameNextStep == NamingInv /\ NameNext => NamesBelow' /\ NamesUnique' /\ NamedBehind'
<1> SUFFICES ASSUME NamingInv, NameNext PROVE NamesBelow' /\ NamesUnique' /\ NamedBehind'
  OBVIOUS
<1> DEFINE v == list[next]
<1>1. next \in 1..Len(list) /\ v \in Val
  BY LenProperties, ElementOfSeq DEF NamingInv, NamingTypeOK, NameNext
<1>2. pc = "naming" /\ pc' = "naming" /\ list' = list /\ next' = next + 1 /\ seq_cnt' = seq_cnt
  BY DEF NameNext
<1>3. CASE v \in Void \/ name[v] # None
  <2>1. name' = name /\ size' = size
    BY <1>3 DEF NameNext
  <2>2. NamesBelow' /\ NamesUnique'
    BY <1>2, <2>1 DEF NamingInv, NamesBelow, NamesUnique
  <2>3. NamedBehind'
    BY <1>1, <1>2, <1>3, <2>1 DEF NamingInv, NamingTypeOK, NamedBehind
  <2> QED BY <2>2, <2>3
<1>4. CASE ~(v \in Void \/ name[v] # None)
  <2>1. name' = [name EXCEPT ![v] = seq_cnt + size] /\ size' = size + 1
    BY <1>4 DEF NameNext
  <2>2. /\ name'[v] = seq_cnt + size /\ seq_cnt + size \in Nat
        /\ \A w \in Val : w # v => name'[w] = name[w]
        /\ \A w \in Val : name[w] \in Nat \cup {None}
    BY <1>1, <2>1 DEF NamingInv, NamingTypeOK
  <2>3. \A w \in Val : name[w] # None => name[w] < seq_cnt + size
    BY <1>2 DEF NamingInv, NamesBelow
  <2>4. NamesBelow'
    <3>1. \A w \in Val : name'[w] # None => name'[w] < seq_cnt + (size + 1)
      BY <2>2, <2>3 DEF NamingInv, NamingTypeOK
    <3> QED BY <1>2, <2>1, <3>1 DEF NamesBelow
  <2>5. \A w \in Val : name[w] # None => name[w] # seq_cnt + size
    BY <2>2, <2>3
  <2>6. NamesUnique'
    BY <2>2, <2>5 DEF NamingInv, NamesUnique
  <2>7. name'[v] # None /\ \A w \in Val : name[w] # None => name'[w] # None
    BY <2>2, NoneAssumption
  <2>8. \A k \in 1..Len(list) : list[k] \in Val
    BY LenProperties, ElementOfSeq DEF NamingInv, NamingTypeOK
  <2>9. \A k \in 1..Len(list) : k < next + 1 => k = next \/ k < next
    BY DEF NamingInv, NamingTypeOK
  <2>10. NamedBehind'
    BY <1>2, <2>7, <2>8, <2>9 DEF NamingInv, NamedBehind
  <2> QED BY <2>4, <2>6, <2>10
<1> QED BY <1>3, <1>4

LEMMA NamingInvStep == NamingInv /\ [NamingNext]_naming => NamingInv'
<1> SUFFICES ASSUME NamingInv, [NamingNext]_naming PROVE NamingInv'
  OBVIOUS
<1>1. NamingTypeOK'
  BY NamingTypeStep DEF NamingInv
<1>2. ASSUME NEW v \in Val, NEW k \in 0..Len(list), Create(v, k) PROVE NamingInv'
  BY <1>1, <1>2 DEF Create, NamingInv, NamesBelow, NamesUnique, NamedBehind, PrintsNamed
<1>3. ASSUME NEW k \in 1..Len(list), Delete(k) PROVE NamingInv'
  BY <1>1, <1>3 DEF Delete, NamingInv, NamesBelow, NamesUnique, NamedBehind, PrintsNamed
<1>4. CASE SetInstrName
  <2>1. \A k \in 1..Len(list) : ~(k < 1)
    OBVIOUS
  <2>2. NamesBelow'
    BY <1>4 DEF SetInstrName, NamingInv, NamingTypeOK, NamesBelow
  <2> QED BY <1>1, <1>4, <2>1, <2>2 DEF SetInstrName, NamingInv, NamesUnique, NamedBehind, PrintsNamed
<1>5. CASE NameNext
  BY <1>1, <1>5, NameNextStep DEF NameNext, NamingInv, PrintsNamed
<1>6. CASE NamingDone
  <2>1. pc = "naming" /\ pc' # "naming" /\ name' = name /\ list' = list /\ seq_cnt' = seq_cnt + size
    BY <1>6 DEF NamingDone
  <2>2. \A k \in 1..Len(list) : k < next
    BY <1>6, LenProperties DEF NamingDone, NamingInv, NamingTypeOK
  <2>3. NamesBelow'
    BY <2>1 DEF NamingInv, NamingTypeOK, NamesBelow
  <2>4. PrintsNamed'
    BY <2>1, <2>2 DEF NamingInv, NamedBehind, PrintsNamed
  <2> QED BY <1>1, <2>1, <2>3, <2>4 DEF NamingInv, NamesUnique, NamedBehind
<1>7. CASE Printed
  BY <1>1, <1>7 DEF Printed, NamingInv, NamesBelow, NamesUnique, NamedBehind, PrintsNamed
<1>8. CASE UNCHANGED naming
  BY <1>1, <1>8 DEF naming, NamingInv, NamesBelow, NamesUnique, NamedBehind, PrintsNamed
<1> QED BY <1>2, <1>3, <1>4, <1>5, <1>6, <1>7, <1>8 DEF NamingNext

LEMMA NamingInvAlways == NamingSpec => []NamingInv
<1>1. NamingInit => NamingInv
  <2> SUFFICES ASSUME NamingInit PROVE NamingInv
    OBVIOUS
  <2>1. \A v \in Val : name[v] = None
    BY DEF NamingInit
  <2> QED BY <2>1, NamingInitType DEF NamingInit, NamingInv, NamesBelow, NamesUnique, NamedBehind, PrintsNamed
<1> QED BY <1>1, NamingInvStep, PTL DEF NamingSpec

\* No two values of a function get the same number, over any number of calls
\* of set_instr_name, and print meets no value without a name.
THEOREM NamesSafe == NamingSpec => []NamesSound
<1>1. NamingInv => NamesSound
  BY DEF NamingInv, NamesSound
<1> QED BY <1>1, NamingInvAlways, PTL

\* A value that has a name keeps it, whatever set_instr_name and the passes do.
THEOREM NamesStay == NamingSpec => NamesKept
<1>1. NamingTypeOK /\ [NamingNext]_naming => [\A v \in Val : name[v] # None => name'[v] = name[v]]_naming
  <2> SUFFICES ASSUME NamingTypeOK, [NamingNext]_naming, NEW v \in Val, name[v] # None
               PROVE  name'[v] = name[v]
    OBVIOUS
  <2>1. CASE NameNext
    BY <2>1 DEF NameNext, NamingTypeOK
  <2>2. CASE ~NameNext
    BY <2>2 DEF NamingNext, Create, Delete, SetInstrName, NamingDone, Printed, naming
  <2> QED BY <2>1, <2>2
<1> QED BY <1>1, NamingTypeCorrect, PTL DEF NamingSpec, NamesKept

-----------------------------------------------------------------------------
(* The check of a module.                                                  *)

CodeOk(f) == \A b \in FnBlocks(f) : module.code[b] # <<>> /\ Last(module.code[b]) \in module.terminators

Definitions == UNION {DefsOf(g) : g \in Defined}

OperandsOk(f) ==
  \A in \in FnInstrs(f) : ToSet(module.ops[in]) \subseteq module.exempt \cup Definitions

Passed(f) == EdgesOk(f) /\ CodeOk(f) /\ UsesOk(f) /\ OperandsOk(f)

\* Each check the function at hand is past has found it right, and so have all
\* checks the functions before it.
Progress ==
  /\ phase \in {"edges", "last", "uses", "defs"} => nth <= Len(module.functions) /\ Fn.blocks # <<>>
  /\ phase \in {"last", "uses", "defs"} => EdgesOk(Fn)
  /\ phase \in {"uses", "defs"} => CodeOk(Fn)
  /\ phase = "defs" => UsesOk(Fn)
  /\ phase = "done" => nth > Len(module.functions)
  /\ defs \subseteq Definitions
  /\ phase \notin {"exit", "crashed"} =>
       \A k \in 1..(nth - 1) : module.functions[k].blocks # <<>> => Passed(module.functions[k])

Inv == CheckTypeOK /\ Progress /\ AcceptsWellFormed

-----------------------------------------------------------------------------

\* The module stays, and all that is said of it alone.
LEMMA SameModule ==
  ASSUME module' = module
  PROVE  /\ \A f : /\ EdgesOk(f)' <=> EdgesOk(f)
                   /\ CodeOk(f)' <=> CodeOk(f)
                   /\ UsesOk(f)' <=> UsesOk(f)
                   /\ DefsOf(f)' = DefsOf(f)
                   /\ Passed(f)' <=> Passed(f)
         /\ Defined' = Defined
         /\ Definitions' = Definitions
         /\ WellFormed' <=> WellFormed
<1>1. Defined' = Defined
  BY DEF Defined
<1>2. \A f : FnInstrs(f)' = FnInstrs(f) /\ DefsOf(f)' = DefsOf(f)
  BY DEF FnInstrs, FnBlocks, DefsOf
<1>3. \A f : (EdgesOk(f)' <=> EdgesOk(f)) /\ (CodeOk(f)' <=> CodeOk(f)) /\ (UsesOk(f)' <=> UsesOk(f))
  BY <1>2 DEF EdgesOk, CodeOk, UsesOk, FnBlocks
<1>0. Definitions' = Definitions
  BY <1>1, <1>2 DEF Definitions
<1>4. \A f : OperandsOk(f)' <=> OperandsOk(f)
  BY <1>0, <1>2 DEF OperandsOk
<1>5. \A f : Passed(f)' <=> Passed(f)
  BY <1>3, <1>4 DEF Passed
<1>6. WellFormed' <=> WellFormed
  BY <1>1, <1>2 DEF WellFormed, FnBlocks
<1> QED BY <1>0, <1>1, <1>2, <1>3, <1>5, <1>6

\* The function at hand is one of the module's.
LEMMA FnFacts ==
  ASSUME CheckTypeOK, nth <= Len(module.functions)
  PROVE  /\ Fn \in ToSet(module.functions) /\ nth \in 1..Len(module.functions)
         /\ Len(module.functions) \in Nat /\ DOMAIN module.functions = 1..Len(module.functions)
         /\ Fn.blocks # <<>> => Fn \in Defined
<1>1. module.functions \in Seq(ToSet(module.functions))
  BY DEF CheckTypeOK, IsModule
<1>2. Len(module.functions) \in Nat /\ DOMAIN module.functions = 1..Len(module.functions)
  BY <1>1
<1>3. nth \in 1..Len(module.functions)
  BY <1>2 DEF CheckTypeOK
<1>4. Fn \in ToSet(module.functions)
  BY <1>2, <1>3 DEF Fn, ToSet
<1> QED BY <1>2, <1>3, <1>4 DEF Defined

\* A function of a well-formed module passes every check.
LEMMA WellFormedPasses ==
  ASSUME CheckTypeOK, WellFormed, NEW f \in Defined
  PROVE  /\ EdgesOk(f) /\ LastOk(f) /\ UsesOk(f)
         /\ \A b \in FnBlocks(f) : module.code[b] # <<>>
         /\ \A in \in FnInstrs(f) : ToSet(module.ops[in]) \subseteq DefsOf(f) \cup module.exempt
<1>1. /\ \A a, b \in FnBlocks(f) : a \in ToSet(module.pre[b]) <=> b \in ToSet(module.succ[a])
      /\ \A b \in FnBlocks(f) : module.code[b] # <<>> /\ Last(module.code[b]) \in module.terminators
      /\ \A in \in FnInstrs(f) : \A o \in ToSet(module.ops[in]) :
           in \in module.users[o] /\ o \in DefsOf(f) \cup module.exempt
  BY DEF WellFormed
<1>2. \A b \in FnBlocks(f) : ToSet(module.pre[b]) \subseteq FnBlocks(f) /\ ToSet(module.succ[b]) \subseteq FnBlocks(f)
  BY DEF CheckTypeOK, IsModule, Defined, FnBlocks
<1>3. EdgesOk(f)
  BY <1>1, <1>2 DEF EdgesOk
<1> QED BY <1>1, <1>3 DEF LastOk, UsesOk

-----------------------------------------------------------------------------

LEMMA InitInv == ASSUME CheckInit PROVE Inv
<1>1. IsModule(module) /\ defs = {} /\ nth = 1 /\ phase = "function"
  BY ModulesAssumption DEF CheckInit
<1>2. CheckTypeOK
  <2>1. Len(module.functions) \in Nat
    BY <1>1 DEF IsModule
  <2> QED BY <1>1, <2>1 DEF CheckTypeOK
<1>3. Progress
  BY <1>1 DEF Progress
<1> QED BY <1>1, <1>2, <1>3 DEF Inv, AcceptsWellFormed

\* While the function at hand stays, what is known of it and of those before
\* it stays known.
LEMMA SameFunction ==
  ASSUME Inv, module' = module, nth' = nth
  PROVE  /\ Fn' = Fn
         /\ EdgesOk(Fn)' <=> EdgesOk(Fn)
         /\ CodeOk(Fn)' <=> CodeOk(Fn)
         /\ UsesOk(Fn)' <=> UsesOk(Fn)
         /\ Definitions' = Definitions
         /\ phase \notin {"exit", "crashed"} =>
              \A k \in 1..(nth - 1) : module'.functions[k].blocks # <<>> => Passed(module.functions[k])'
<1>1. Fn' = Fn
  BY DEF Fn
<1>2. PICK f : f = Fn
  OBVIOUS
<1>3. (EdgesOk(Fn)' <=> EdgesOk(Fn)) /\ (CodeOk(Fn)' <=> CodeOk(Fn)) /\ (UsesOk(Fn)' <=> UsesOk(Fn))
  BY <1>1, <1>2, SameModule
<1>4. Definitions' = Definitions
  BY SameModule
<1>5. ASSUME phase \notin {"exit", "crashed"}, NEW k \in 1..(nth - 1), module.functions[k].blocks # <<>>
      PROVE  Passed(module.functions[k])'
  <2>1. PICK g : g = module.functions[k]
    OBVIOUS
  <2>2. Passed(g)
    BY <1>5, <2>1 DEF Inv, Progress
  <2> QED BY <2>1, <2>2, SameModule
<1> QED BY <1>1, <1>3, <1>4, <1>5

LEMMA CheckStep == ASSUME Inv, CheckEdges \/ CheckLast \/ CheckUses PROVE Inv'
<1>1. /\ module' = module /\ nth' = nth /\ defs' = defs
      /\ \/ phase = "edges" /\ phase' = IF EdgesOk(Fn) THEN "last" ELSE "exit"
         \/ phase = "last" /\ (\E b \in FnBlocks(Fn) : module.code[b] = <<>>) /\ phase' \in {"exit", "crashed"}
         \/ phase = "last" /\ ~(\E b \in FnBlocks(Fn) : module.code[b] = <<>>) /\ phase' = IF LastOk(Fn) THEN "uses" ELSE "exit"
         \/ phase = "uses" /\ phase' = IF UsesOk(Fn) THEN "defs" ELSE "exit"
  BY DEF CheckEdges, CheckLast, CheckUses, Verdict
<1>2. CheckTypeOK /\ Progress /\ AcceptsWellFormed
  BY DEF Inv
<1>3. CheckTypeOK'
  BY <1>1, <1>2 DEF CheckTypeOK
<1>4. PICK f : f = Fn /\ f \in Defined
  BY <1>1, <1>2, FnFacts DEF Progress
<1>5. nth <= Len(module.functions) /\ f.blocks # <<>>
  BY <1>1, <1>2, <1>4 DEF Progress
<1>6. Progress'
  <2>1. phase' = "last" => EdgesOk(Fn)
    BY <1>1
  <2>2. phase' \in {"uses", "defs"} => EdgesOk(Fn) /\ CodeOk(Fn)
    BY <1>1, <1>2 DEF Progress, CodeOk, LastOk
  <2>3. phase' = "defs" => UsesOk(Fn)
    BY <1>1
  <2>4. phase' \in {"last", "uses", "defs", "exit", "crashed"} /\ phase \notin {"exit", "crashed"}
    BY <1>1
  <2>5. Fn' = Fn /\ (EdgesOk(Fn)' <=> EdgesOk(Fn)) /\ (CodeOk(Fn)' <=> CodeOk(Fn)) /\ (UsesOk(Fn)' <=> UsesOk(Fn))
    BY <1>1, SameFunction
  <2>6. \A k \in 1..(nth - 1) : module'.functions[k].blocks # <<>> => Passed(module.functions[k])'
    BY <2>4, <1>1, SameFunction
  <2>7. defs' \subseteq Definitions'
    BY <1>1, <1>2, SameFunction DEF Progress
  <2> QED BY <2>1, <2>2, <2>3, <2>4, <2>5, <2>6, <2>7, <1>1, <1>4, <1>5 DEF Progress
<1>7. AcceptsWellFormed'
  <2> SUFFICES ASSUME WellFormed PROVE phase' \notin {"exit", "crashed"}
    BY <1>1, SameModule DEF AcceptsWellFormed
  <2>1. /\ EdgesOk(f) /\ LastOk(f) /\ UsesOk(f)
        /\ \A b \in FnBlocks(f) : module.code[b] # <<>>
    BY <1>2, <1>4, WellFormedPasses
  <2> QED BY <2>1, <1>1, <1>4
<1> QED BY <1>3, <1>6, <1>7 DEF Inv

LEMMA CheckDefsStep == ASSUME Inv, CheckDefs PROVE Inv'
<1>1. /\ phase = "defs" /\ module' = module /\ defs' = defs \cup DefsOf(Fn)
      /\ phase' = (IF \A in \in FnInstrs(Fn) : ToSet(module.ops[in]) \subseteq defs' \cup module.exempt THEN "function" ELSE "exit")
      /\ nth' = IF phase' = "function" THEN nth + 1 ELSE nth
  BY DEF CheckDefs, Verdict
<1>2. CheckTypeOK /\ Progress /\ AcceptsWellFormed
  BY DEF Inv
<1>3. nth <= Len(module.functions) /\ Fn.blocks # <<>>
  BY <1>1, <1>2 DEF Progress
<1>4. PICK f : f = Fn /\ f \in Defined
  BY <1>2, <1>3, FnFacts
<1>5. nth \in 1..Len(module.functions) /\ Len(module.functions) \in Nat
  BY <1>2, <1>3, FnFacts
<1>6. CheckTypeOK'
  <2>1. nth' \in 1..(Len(module.functions) + 1)
    BY <1>1, <1>5
  <2> QED BY <2>1, <1>1, <1>2 DEF CheckTypeOK
<1>7. defs' \subseteq Definitions
  BY <1>1, <1>2, <1>4 DEF Progress, Definitions
<1>8. ASSUME phase' = "function" PROVE Passed(f)
  <2>1. EdgesOk(f) /\ CodeOk(f) /\ UsesOk(f)
    BY <1>1, <1>2, <1>4 DEF Progress
  <2>2. OperandsOk(f)
    BY <1>1, <1>4, <1>7, <1>8 DEF OperandsOk
  <2> QED BY <2>1, <2>2 DEF Passed
<1>9. ASSUME phase' = "function", NEW k \in 1..(nth' - 1), module.functions[k].blocks # <<>>
      PROVE  Passed(module.functions[k])
  <2>1. CASE k = nth
    BY <2>1, <1>4, <1>8, <1>9 DEF Fn
  <2>2. CASE k # nth
    <3>1. k \in 1..(nth - 1)
      BY <2>2, <1>1, <1>5, <1>9
    <3> QED BY <3>1, <1>1, <1>2, <1>9 DEF Progress
  <2> QED BY <2>1, <2>2
<1>10. Progress'
  <2>1. defs' \subseteq Definitions'
    BY <1>1, <1>7, SameModule
  <2>2. ASSUME phase' = "function", NEW k \in 1..(nth' - 1), module.functions[k].blocks # <<>>
        PROVE  Passed(module.functions[k])'
    <3>1. PICK g : g = module.functions[k]
      OBVIOUS
    <3>2. Passed(g)
      BY <2>2, <3>1, <1>9
    <3> QED BY <3>1, <3>2, <1>1, SameModule
  <2> QED BY <2>1, <2>2, <1>1 DEF Progress
<1>11. AcceptsWellFormed'
  <2> SUFFICES ASSUME WellFormed PROVE phase' = "function"
    BY <1>1, SameModule DEF AcceptsWellFormed
  <2>1. \A in \in FnInstrs(f) : ToSet(module.ops[in]) \subseteq DefsOf(f) \cup module.exempt
    BY <1>2, <1>4, WellFormedPasses
  <2> QED BY <2>1, <1>1, <1>4
<1> QED BY <1>6, <1>10, <1>11 DEF Inv

LEMMA FunctionStep == ASSUME Inv, NextFunction \/ AllChecked PROVE Inv'
<1>1. /\ phase = "function" /\ module' = module /\ defs' = defs
      /\ \/ nth <= Len(module.functions) /\ Fn.blocks = <<>> /\ nth' = nth + 1 /\ phase' = phase
         \/ nth <= Len(module.functions) /\ Fn.blocks # <<>> /\ nth' = nth /\ phase' = "edges"
         \/ nth > Len(module.functions) /\ nth' = nth /\ phase' = "done"
  BY DEF NextFunction, AllChecked
<1>2. CheckTypeOK /\ Progress
  BY DEF Inv
<1>3. Len(module.functions) \in Nat /\ nth \in Nat \ {0}
  <2>1. Len(module.functions) \in Nat
    BY <1>2 DEF CheckTypeOK, IsModule
  <2> QED BY <2>1, <1>2 DEF CheckTypeOK
<1>4. CheckTypeOK'
  <2>1. nth' \in 1..(Len(module.functions) + 1)
    BY <1>1, <1>2, <1>3 DEF CheckTypeOK
  <2> QED BY <2>1, <1>1, <1>2 DEF CheckTypeOK
<1>5. Progress'
  <2>1. ASSUME NEW k \in 1..(nth' - 1), module.functions[k].blocks # <<>> PROVE Passed(module.functions[k])'
    <3>1. k \in 1..(nth - 1)
      BY <2>1, <1>1, <1>3 DEF Fn
    <3>2. PICK g : g = module.functions[k]
      OBVIOUS
    <3>3. Passed(g)
      BY <2>1, <3>1, <3>2, <1>1, <1>2 DEF Progress
    <3> QED BY <3>2, <3>3, <1>1, SameModule
  <2>2. phase' = "edges" => nth' <= Len(module'.functions) /\ Fn'.blocks # <<>>
    BY <1>1 DEF Fn
  <2>3. phase' = "done" => nth' > Len(module'.functions)
    BY <1>1
  <2>4. defs' \subseteq Definitions'
    BY <1>1, <1>2, SameModule DEF Progress
  <2> QED BY <2>1, <2>2, <2>3, <2>4, <1>1 DEF Progress
<1>6. AcceptsWellFormed'
  BY <1>1 DEF AcceptsWellFormed
<1> QED BY <1>4, <1>5, <1>6 DEF Inv

LEMMA NextInv == ASSUME Inv, [CheckNext]_checking PROVE Inv'
<1>1. CASE UNCHANGED checking
  <2>1. module' = module /\ nth' = nth /\ defs' = defs /\ phase' = phase
    BY <1>1 DEF checking
  <2>2. CheckTypeOK'
    BY <2>1 DEF Inv, CheckTypeOK
  <2>3. Progress'
    <3>1. Fn' = Fn /\ (EdgesOk(Fn)' <=> EdgesOk(Fn)) /\ (CodeOk(Fn)' <=> CodeOk(Fn)) /\ (UsesOk(Fn)' <=> UsesOk(Fn))
      BY <2>1, SameFunction
    <3>2. Definitions' = Definitions
      BY <2>1, SameFunction
    <3>3. phase \notin {"exit", "crashed"} =>
            \A k \in 1..(nth - 1) : module'.functions[k].blocks # <<>> => Passed(module.functions[k])'
      BY <2>1, SameFunction
    <3> QED BY <2>1, <3>1, <3>2, <3>3 DEF Inv, Progress
  <2>4. AcceptsWellFormed'
    BY <2>1, SameModule DEF Inv, AcceptsWellFormed
  <2> QED BY <2>2, <2>3, <2>4 DEF Inv
<1> QED BY <1>1, CheckStep, CheckDefsStep, FunctionStep DEF CheckNext, Finished

\* The verdict of the pass is right, for any modules: nothing well formed is
\* refused, and what is accepted keeps the conventions in each function, up to
\* operands of other functions (Check::execute).
THEOREM VerdictRight == CheckSpec => []CheckSound
<1>1. Inv => CheckSound
  <2> SUFFICES ASSUME Inv PROVE CheckSound
    OBVIOUS
  <2>1. AcceptedIsSound
    <3> SUFFICES ASSUME phase = "done", NEW f \in Defined PROVE Passed(f)
      BY DEF AcceptedIsSound, Passed, CodeOk, OperandsOk, Definitions
    <3>1. nth > Len(module.functions) /\ module.functions \in Seq(ToSet(module.functions))
      BY DEF Inv, Progress, CheckTypeOK, IsModule
    <3>2. PICK k \in DOMAIN module.functions : module.functions[k] = f
      BY DEF Defined, ToSet
    <3>3. k \in 1..(nth - 1)
      BY <3>1, <3>2 DEF Inv, CheckTypeOK
    <3> QED BY <3>2, <3>3 DEF Inv, Progress, Defined
  <2> QED BY <2>1 DEF Inv, CheckSound
<1>2. CheckInit => Inv
  BY InitInv
<1>3. Inv /\ [CheckNext]_checking => Inv'
  BY NextInv
<1> QED BY <1>1, <1>2, <1>3, PTL DEF CheckSpec

-----------------------------------------------------------------------------
(* The list of passes.                                                     *)

OnceIn(s, p) == \E j \in DOMAIN s : \A i \in DOMAIN s : s[i] = p <=> i = j
NeverIn(s, p) == \A i \in DOMAIN s : s[i] # p

\* What a list of passes is, for the flags that are set.
IsListFor(s, fs) ==
  /\ s \in Seq(Passes)
  /\ IF "optimize" \in fs
     THEN /\ Len(s) >= 2 /\ s[1] = "DominateTree" /\ s[2] = "Mem2Reg" /\ s[Len(s)] = "Check"
          /\ OnceIn(s, "DominateTree") /\ OnceIn(s, "Mem2Reg")
     ELSE s = <<>>
  /\ IF "optimize" \in fs /\ {"optimize_all", "lv"} \cap fs # {}
     THEN OnceIn(s, "LiveVar") ELSE NeverIn(s, "LiveVar")
  /\ IF "optimize" \in fs /\ {"optimize_all", "cse"} \cap fs # {}
     THEN OnceIn(s, "ComSubExprEli") ELSE NeverIn(s, "ComSubExprEli")
  /\ IF "optimize" \in fs /\ {"optimize_all", "optimize_size"} \cap fs # {}
     THEN OnceIn(s, "CodeSizeOptimizer") ELSE NeverIn(s, "CodeSizeOptimizer")

LEMMA Joined ==
  ASSUME NEW s \in Seq(Passes), NEW t \in Seq(Passes)
  PROVE  /\ s \o t \in Seq(Passes)
         /\ Len(s \o t) = Len(s) + Len(t)
         /\ \A i \in 1..Len(s) : (s \o t)[i] = s[i]
         /\ \A i \in 1..Len(t) : (s \o t)[Len(s) + i] = t[i]
  OBVIOUS

LEMMA Part ==
  ASSUME NEW p \in Passes, NEW q, NEW ok \in BOOLEAN, q = IF ok THEN <<p, "Check">> ELSE <<>>
  PROVE  /\ q \in Seq(Passes)
         /\ ok => Len(q) = 2 /\ q[1] = p /\ q[2] = "Check"
         /\ ~ok => Len(q) = 0
<1>1. CASE ok
  <2>1. q = <<p, "Check">> /\ "Check" \in Passes
    BY <1>1 DEF Passes
  <2>2. <<p, "Check">> \in Seq(Passes)
    BY <2>1
  <2> QED
    BY <1>1, <2>1, <2>2
<1>2. CASE ~ok
  <2>1. q = <<>>
    BY <1>2
  <2>2. <<>> \in Seq(Passes)
    OBVIOUS
  <2> QED
    BY <1>2, <2>1, <2>2
<1> QED
  BY <1>1, <1>2

\* The list that PassList builds is one.
LEMMA PassListSound ==
  ASSUME NEW fs
  PROVE  IsListFor(PassList(fs), fs)
<1> PICK L : L = PassList(fs)
  OBVIOUS
<1> SUFFICES IsListFor(L, fs)
  OBVIOUS
<1>1. CASE "optimize" \notin fs
  <2>1. L = <<>>
    BY <1>1 DEF PassList
  <2> QED
    BY <1>1, <2>1 DEF IsListFor, NeverIn
<1>2. CASE "optimize" \in fs /\ "optimize_all" \in fs
  <2> PICK a : a = <<"DominateTree", "Mem2Reg">>
    OBVIOUS
  <2> PICK b : b = <<"LiveVar", "ComSubExprEli", "CodeSizeOptimizer", "Check">>
    OBVIOUS
  <2>1. a \in Seq(Passes) /\ b \in Seq(Passes) /\ Len(a) = 2 /\ Len(b) = 4
    BY DEF Passes
  <2>2. L = a \o b
    BY <1>2 DEF PassList
  <2>3. L \in Seq(Passes) /\ Len(L) = 6
    BY <2>1, <2>2, Joined
  <2>4. \A i \in 1..2 : L[i] = a[i]
    BY <2>1, <2>2, Joined
  <2>5. \A i \in 1..4 : L[2 + i] = b[i]
    BY <2>1, <2>2, Joined
  <2>6. L[1] = "DominateTree" /\ L[2] = "Mem2Reg"
    BY <2>4
  <2>7. L[3] = "LiveVar" /\ L[4] = "ComSubExprEli" /\ L[5] = "CodeSizeOptimizer" /\ L[6] = "Check"
    BY <2>5
  <2>8. DOMAIN L = 1..6
    BY <2>3
  <2>9. \A i \in 1..6 : i \in {1, 2, 3, 4, 5, 6}
    OBVIOUS
  <2>10. OnceIn(L, "DominateTree") /\ OnceIn(L, "Mem2Reg")
    BY <2>6, <2>7, <2>8, <2>9 DEF OnceIn
  <2>11. OnceIn(L, "LiveVar") /\ OnceIn(L, "ComSubExprEli") /\ OnceIn(L, "CodeSizeOptimizer")
    BY <2>6, <2>7, <2>8, <2>9 DEF OnceIn
  <2> QED
    BY <1>2, <2>3, <2>6, <2>7, <2>10, <2>11 DEF IsListFor
<1>3. CASE "optimize" \in fs /\ "optimize_all" \notin fs
  <2> PICK a : a = <<"DominateTree", "Mem2Reg">>
    OBVIOUS
  <2> PICK b : b = IF "lv" \in fs THEN <<"LiveVar", "Check">> ELSE <<>>
    OBVIOUS
  <2> PICK c : c = IF "cse" \in fs THEN <<"ComSubExprEli", "Check">> ELSE <<>>
    OBVIOUS
  <2> PICK d : d = IF "optimize_size" \in fs THEN <<"CodeSizeOptimizer", "Check">> ELSE <<"Check">>
    OBVIOUS
  <2>1. a \in Seq(Passes) /\ Len(a) = 2 /\ a[1] = "DominateTree" /\ a[2] = "Mem2Reg"
    BY DEF Passes
  <2>2. b \in Seq(Passes) /\ IF "lv" \in fs THEN Len(b) = 2 /\ b[1] = "LiveVar" /\ b[2] = "Check" ELSE Len(b) = 0
    <3>1. "LiveVar" \in Passes
      BY DEF Passes
    <3> QED
      BY <3>1, Part
  <2>3. c \in Seq(Passes) /\ IF "cse" \in fs THEN Len(c) = 2 /\ c[1] = "ComSubExprEli" /\ c[2] = "Check" ELSE Len(c) = 0
    <3>1. "ComSubExprEli" \in Passes
      BY DEF Passes
    <3> QED
      BY <3>1, Part
  <2>4. d \in Seq(Passes) /\ IF "optimize_size" \in fs THEN Len(d) = 2 /\ d[1] = "CodeSizeOptimizer" /\ d[2] = "Check"
                             ELSE Len(d) = 1 /\ d[1] = "Check"
    <3>1. CASE "optimize_size" \in fs
      <4>1. d = <<"CodeSizeOptimizer", "Check">>
        BY <3>1
      <4> QED
        BY <3>1, <4>1 DEF Passes
    <3>2. CASE "optimize_size" \notin fs
      <4>1. d = <<"Check">>
        BY <3>2
      <4> QED
        BY <3>2, <4>1 DEF Passes
    <3> QED
      BY <3>1, <3>2
  <2>5. L = a \o ((b \o c) \o d)
    BY <1>3 DEF PassList
  <2> PICK e : e = b \o c
    OBVIOUS
  <2>6. e \in Seq(Passes) /\ Len(e) = Len(b) + Len(c) /\ (\A i \in 1..Len(b) : e[i] = b[i])
          /\ \A i \in 1..Len(c) : e[Len(b) + i] = c[i]
    BY <2>2, <2>3, Joined
  <2> PICK g : g = e \o d
    OBVIOUS
  <2>7. g \in Seq(Passes) /\ Len(g) = Len(e) + Len(d) /\ (\A i \in 1..Len(e) : g[i] = e[i])
          /\ \A i \in 1..Len(d) : g[Len(e) + i] = d[i]
    BY <2>4, <2>6, Joined
  <2>8. L \in Seq(Passes) /\ Len(L) = 2 + Len(g) /\ (\A i \in 1..2 : L[i] = a[i])
          /\ \A i \in 1..Len(g) : L[2 + i] = g[i]
    BY <2>1, <2>5, <2>7, Joined
  <2> PICK n, m : n = Len(b) /\ m = Len(c)
    OBVIOUS
  <2>9. n \in {0, 2} /\ m \in {0, 2}
    BY <2>2, <2>3
  <2> HIDE DEF PassList
  <2>10. L[1] = "DominateTree" /\ L[2] = "Mem2Reg"
    BY <2>1, <2>8
  <2>11. IF "lv" \in fs THEN n = 2 /\ L[3] = "LiveVar" /\ L[4] = "Check" ELSE n = 0
    BY <2>2, <2>3, <2>4, <2>6, <2>7, <2>8
  <2>12. IF "cse" \in fs THEN m = 2 /\ L[3 + n] = "ComSubExprEli" /\ L[4 + n] = "Check" ELSE m = 0
    BY <2>2, <2>3, <2>4, <2>6, <2>7, <2>8
  <2>13. IF "optimize_size" \in fs
         THEN Len(L) = 4 + n + m /\ L[3 + n + m] = "CodeSizeOptimizer" /\ L[4 + n + m] = "Check"
         ELSE Len(L) = 3 + n + m /\ L[3 + n + m] = "Check"
    BY <2>2, <2>3, <2>4, <2>6, <2>7, <2>8
  <2>14. DOMAIN L = 1..Len(L) /\ Len(L) \in Nat
    BY <2>8
  <2>90. n \in {0, 2} /\ m \in {0, 2}
    BY <2>9
  <2>91. n \in Int /\ m \in Int
    BY <2>90
  <2>92. Len(L) = 3 + n + m \/ ("optimize_size" \in fs /\ Len(L) = 4 + n + m)
    BY <2>13
  <2>93. Len(L) >= 3 + n + m
    BY <2>91, <2>92
  <2>94. 3 + n \in DOMAIN L /\ 3 + n + m \in DOMAIN L /\ 1 \in DOMAIN L /\ 2 \in DOMAIN L
    BY <2>90, <2>14, <2>93
  <2>15. \A i \in DOMAIN L :
           \/ i = 1 \/ i = 2
           \/ "lv" \in fs /\ (i = 3 \/ i = 4)
           \/ "cse" \in fs /\ (i = 3 + n \/ i = 4 + n)
           \/ i = 3 + n + m
           \/ "optimize_size" \in fs /\ i = 4 + n + m
    <3>1. (n = 2 => "lv" \in fs) /\ (m = 2 => "cse" \in fs)
      BY <2>11, <2>12
    <3>2. ASSUME NEW i \in DOMAIN L
          PROVE  i \in Nat /\ i >= 1 /\ (i <= 3 + n + m \/ ("optimize_size" \in fs /\ i = 4 + n + m))
      <4> PICK N : N = Len(L)
        OBVIOUS
      <4>1. i \in 1..N /\ N \in Nat
        BY <2>14
      <4>2. N = 3 + n + m \/ ("optimize_size" \in fs /\ N = 4 + n + m)
        BY <2>92
      <4>3. i \in Nat /\ i >= 1 /\ i <= N
        BY <4>1
      <4> QED
        BY <2>91, <4>2, <4>3
    <3>3. ASSUME NEW i \in Nat, i >= 1, i <= 3 + n + m
          PROVE  i = 1 \/ i = 2 \/ (n = 2 /\ (i = 3 \/ i = 4)) \/ (m = 2 /\ (i = 3 + n \/ i = 4 + n)) \/ i = 3 + n + m
      BY <2>90, <3>3
    <3> QED
      BY <3>1, <3>2, <3>3
  <2>16. 1 \in DOMAIN L /\ 2 \in DOMAIN L
    BY <2>94
  <2>17. \A p \in {"DominateTree", "Mem2Reg"} : OnceIn(L, p)
    <3> SUFFICES ASSUME NEW p \in {"DominateTree", "Mem2Reg"} PROVE OnceIn(L, p)
      OBVIOUS
    <3> PICK j : j = IF p = "DominateTree" THEN 1 ELSE 2
      OBVIOUS
    <3>1. \A i \in DOMAIN L : L[i] = p <=> i = j
      BY <2>90, <2>10, <2>11, <2>12, <2>13, <2>15
    <3> QED
      BY <2>16, <3>1 DEF OnceIn
  <2>18. IF "lv" \in fs THEN OnceIn(L, "LiveVar") ELSE NeverIn(L, "LiveVar")
    <3>1. ASSUME "lv" \in fs PROVE 3 \in DOMAIN L /\ \A i \in DOMAIN L : L[i] = "LiveVar" <=> i = 3
      <4>1. 3 \in DOMAIN L
        BY <2>90, <2>94, <2>14
      <4>2. \A i \in DOMAIN L : L[i] = "LiveVar" <=> i = 3
        BY <3>1, <2>90, <2>10, <2>11, <2>12, <2>13, <2>15
      <4> QED
        BY <4>1, <4>2
    <3>2. ASSUME "lv" \notin fs, NEW i \in DOMAIN L PROVE L[i] # "LiveVar"
      BY <3>2, <2>90, <2>10, <2>11, <2>12, <2>13, <2>14, <2>15
    <3> QED
      BY <3>1, <3>2 DEF OnceIn, NeverIn
  <2>19. Len(L) >= 2 /\ L[Len(L)] = "Check"
    BY <2>90, <2>13
  <2>20. IF "cse" \in fs THEN OnceIn(L, "ComSubExprEli") ELSE NeverIn(L, "ComSubExprEli")
    <3>1. ASSUME "cse" \in fs PROVE 3 + n \in DOMAIN L /\ \A i \in DOMAIN L : L[i] = "ComSubExprEli" <=> i = 3 + n
      BY <3>1, <2>90, <2>94, <2>10, <2>11, <2>12, <2>13, <2>15
    <3>2. ASSUME "cse" \notin fs, NEW i \in DOMAIN L PROVE L[i] # "ComSubExprEli"
      BY <3>2, <2>90, <2>10, <2>11, <2>12, <2>13, <2>14, <2>15
    <3> QED
      BY <3>1, <3>2 DEF OnceIn, NeverIn
  <2>21. IF "optimize_size" \in fs THEN OnceIn(L, "CodeSizeOptimizer") ELSE NeverIn(L, "CodeSizeOptimizer")
    <3>1. ASSUME "optimize_size" \in fs
          PROVE  3 + n + m \in DOMAIN L /\ \A i \in DOMAIN L : L[i] = "CodeSizeOptimizer" <=> i = 3 + n + m
      BY <3>1, <2>90, <2>10, <2>11, <2>12, <2>13, <2>14, <2>15
    <3>2. ASSUME "optimize_size" \notin fs, NEW i \in DOMAIN L PROVE L[i] # "CodeSizeOptimizer"
      BY <3>2, <2>90, <2>10, <2>11, <2>12, <2>13, <2>14, <2>15
    <3> QED
      BY <3>1, <3>2 DEF OnceIn, NeverIn
  <2> QED
    BY <1>3, <2>8, <2>10, <2>17, <2>18, <2>19, <2>20, <2>21 DEF IsListFor
<1> QED
  BY <1>1, <1>2, <1>3

-----------------------------------------------------------------------------
(* The command line.                                                       *)

\* What is said of the words up to the one at hand, which is no operand.
SoFar(w) == \E j \in 1..(word - 1) : argv[j] = w /\ ~IsOperand(argv, j)

WordsRead ==
  /\ argv \in Seq(Words) /\ Len(argv) <= MaxWords
  /\ word \in 1..(Len(argv) + 1)
  /\ ~IsOperand(argv, word)
  /\ ~SoFar("-h")
  /\ \A f : f \in flags <=> \E w \in Options : f \in Sets(w) /\ SoFar(w)
  /\ filename = "-" \/ SoFar(filename)
  /\ status \in {"parse", "check", "build", "passes"} \/ output # "none" => word = Len(argv) + 1

\* What is done and what is left to do make the list.
Splits(passes) ==
  /\ Len(passes) = Len(done) + Len(todo)
  /\ \A i \in 1..Len(done) : done[i] = passes[i]
  /\ \A i \in 1..Len(todo) : todo[i] = passes[Len(done) + i]

\* What has been asked before the passes run.
Admitted ==
  /\ "emit_ir" \in flags
  /\ content # "syntax"
  /\ "check" \in flags => content = "correct"

StepsTaken ==
  /\ status \in {"words", "parse", "check", "build"} => ~broken /\ done = <<>> /\ output = "none"
  /\ status \in {"check", "build", "passes"} => content # "?"
  /\ status = "build" /\ "check" \in flags => content \in {"correct", "syntax"}
  /\ status = "passes" => output = "none"
  /\ status = "passes" \/ output # "none" =>
       Admitted /\ Splits(PassList(flags)) /\ (todo = <<>> => ~broken)
  /\ output # "none" => todo = <<>>

CommandInv == CommandTypeOK /\ WordsRead /\ StepsTaken

-----------------------------------------------------------------------------

\* A set of numbers has its least one in it.
LEMMA LeastOf ==
  ASSUME NEW K \in SUBSET Nat, K # {}
  PROVE  \E m \in K : \A k \in K : m <= k
<1> DEFINE T == {0..k : k \in K}
           R == StrictSubsetOrdering(Nat)
<1>1. T \subseteq FiniteSubsetsOf(Nat)
  <2> SUFFICES ASSUME NEW k \in K PROVE 0..k \in FiniteSubsetsOf(Nat)
    OBVIOUS
  <2>1. IsFiniteSet(0..k)
    BY FS_Interval
  <2> QED
    BY <2>1 DEF FiniteSubsetsOf
<1>2. \E X \in T : \A Y \in T : <<Y, X>> \notin R
  <2>1. T # {}
    OBVIOUS
  <2> HIDE DEF R, T
  <2> QED
    BY <1>1, <2>1, FS_StrictSubsetOrderingWellFounded, WFMin DEF R
<1>3. PICK m \in K : \A k \in K : <<0..k, 0..m>> \notin R
  BY <1>2
<1>4. ASSUME NEW k \in K, k < m PROVE FALSE
  <2>1. m \in 0..m /\ m \notin 0..k
    BY <1>4
  <2>2. 0..k \subseteq 0..m /\ 0..k # 0..m /\ 0..k \in SUBSET Nat /\ 0..m \in SUBSET Nat
    BY <1>4, <2>1
  <2> QED
    BY <1>3, <2>2 DEF StrictSubsetOrdering
<1> QED
  BY <1>4

\* Whether a word is an operand depends on the one before.
LEMMA OperandNext ==
  ASSUME NEW words, NEW j \in Nat, j >= 1
  PROVE  IsOperand(words, j + 1) <=> words[j] = "-o" /\ ~IsOperand(words, j)
<1> DEFINE Run(k, l) == k \in 1..(l - 1) /\ (\A i \in k..(l - 1) : words[i] = "-o") /\ (k > 1 => words[k - 1] # "-o")
<1>1. \A l : IsOperand(words, l) <=> \E k : Run(k, l) /\ (l - k) % 2 = 1
  BY DEF IsOperand
<1>2. ASSUME NEW k, NEW m, Run(k, j + 1), Run(m, j) PROVE k = m
  <2>1. k \in Nat /\ m \in Nat /\ 1 <= k /\ k <= j /\ 1 <= m /\ m < j
    BY <1>2
  <2>2. CASE k < m
    <3>1. m - 1 \in k..j /\ m > 1
      BY <2>1, <2>2
    <3> QED
      BY <1>2, <3>1
  <2>3. CASE m < k
    <3>1. k - 1 \in m..(j - 1) /\ k > 1
      BY <2>1, <2>3
    <3> QED
      BY <1>2, <3>1
  <2> QED
    BY <2>1, <2>2, <2>3
<1>3. ASSUME IsOperand(words, j + 1) PROVE words[j] = "-o" /\ ~IsOperand(words, j)
  <2>1. PICK k : Run(k, j + 1) /\ (j + 1 - k) % 2 = 1
    BY <1>1, <1>3
  <2>2. k \in Nat /\ k <= j
    BY <2>1
  <2>3. words[j] = "-o"
    BY <2>1, <2>2
  <2>4. ASSUME NEW m, Run(m, j), (j - m) % 2 = 1 PROVE FALSE
    <3>1. k = m
      BY <1>2, <2>1, <2>4
    <3> QED
      BY <2>1, <2>2, <2>4, <3>1
  <2> QED
    BY <1>1, <2>3, <2>4
<1>4. ASSUME words[j] = "-o", ~IsOperand(words, j) PROVE IsOperand(words, j + 1)
  <2> DEFINE K == {k \in 1..j : \A i \in k..j : words[i] = "-o"}
  <2>1. j \in K
    BY <1>4
  <2>2. PICK k \in K : \A m \in K : k <= m
    <3>1. K \in SUBSET Nat /\ K # {}
      BY <2>1
    <3> HIDE DEF K
    <3> QED
      BY <3>1, LeastOf
  <2>3. k > 1 => words[k - 1] # "-o"
    <3> SUFFICES ASSUME k > 1, words[k - 1] = "-o" PROVE FALSE
      OBVIOUS
    <3>1. k - 1 \in K
      OBVIOUS
    <3> QED
      BY <2>2, <3>1
  <2>4. Run(k, j + 1)
    BY <2>3
  <2>5. CASE k = j
    <3>1. (j + 1 - k) % 2 = 1
      BY <2>5
    <3> HIDE DEF Run
    <3> QED
      BY <1>1, <2>4, <3>1
  <2>6. CASE k < j
    <3>1. Run(k, j)
      BY <2>4, <2>6
    <3>2. (j - k) % 2 # 1
      BY <1>1, <1>4, <3>1
    <3>3. (j + 1 - k) % 2 = 1
      BY <3>2
    <3> HIDE DEF Run
    <3> QED
      BY <1>1, <2>4, <3>3
  <2> QED
    BY <2>5, <2>6
<1> QED
  BY <1>3, <1>4

-----------------------------------------------------------------------------
(* The steps.                                                              *)

LEMMA CommandInit == MainInit => CommandInv
<1> SUFFICES ASSUME MainInit PROVE CommandInv
  OBVIOUS
<1>1. PICK n \in 0..MaxWords : argv \in [1..n -> Words]
  BY DEF MainInit
<1>2. argv \in Seq(Words) /\ Len(argv) = n /\ n \in Nat /\ n <= MaxWords
  BY <1>1, MaxWordsAssumption
<1>3. WordsRead
  <2>1. \A w : ~SoFar(w)
    BY DEF SoFar, MainInit
  <2>2. ~IsOperand(argv, word)
    BY DEF IsOperand, MainInit
  <2> QED
    BY <1>2, <2>1, <2>2, MaxWordsAssumption DEF WordsRead, MainInit
<1>4. CommandTypeOK
  <2>1. <<>> \in Seq(Passes) /\ word \in 1..(MaxWords + 1)
    BY MaxWordsAssumption DEF MainInit
  <2>2. todo \in Seq(Passes) /\ done \in Seq(Passes)
    BY <2>1 DEF MainInit
  <2>3. done = <<>>
    BY DEF MainInit
  <2> QED
    BY <2>1, <2>2, <2>3 DEF CommandTypeOK, MainInit, Stopped
<1>5. StepsTaken
  BY DEF StepsTaken, MainInit
<1> QED
  BY <1>3, <1>4, <1>5 DEF CommandInv

\* A word that is read and is no -o.
LEMMA OneWord ==
  ASSUME WordsRead, word <= Len(argv), argv[word] # "-o", argv' = argv, word' = word + 1
  PROVE  /\ word' \in 1..(Len(argv') + 1)
         /\ ~IsOperand(argv', word')
         /\ \A w : SoFar(w)' <=> SoFar(w) \/ argv[word] = w
<1>1. word \in Nat /\ word >= 1 /\ Len(argv) \in Nat
  BY DEF WordsRead
<1>2. ~IsOperand(argv, word + 1)
  BY <1>1, OperandNext
<1>3. 1..((word + 1) - 1) = 1..(word - 1) \cup {word}
  BY <1>1
<1> QED
  BY <1>1, <1>2, <1>3 DEF SoFar, WordsRead

\* An -o and its operand.
LEMMA TwoWords ==
  ASSUME WordsRead, word < Len(argv), argv[word] = "-o", argv' = argv, word' = word + 2
  PROVE  /\ word' \in 1..(Len(argv') + 1)
         /\ ~IsOperand(argv', word')
         /\ \A w : SoFar(w)' <=> SoFar(w) \/ "-o" = w
<1>1. word \in Nat /\ word >= 1 /\ Len(argv) \in Nat /\ ~IsOperand(argv, word)
  BY DEF WordsRead
<1>2. IsOperand(argv, word + 1)
  BY <1>1, OperandNext
<1>3. ~IsOperand(argv, (word + 1) + 1)
  <2>1. word + 1 \in Nat /\ word + 1 >= 1
    BY <1>1
  <2> QED
    BY <1>2, <2>1, OperandNext
<1>4. (word + 1) + 1 = word + 2
  BY <1>1
<1>5. 1..((word + 2) - 1) = 1..(word - 1) \cup {word, word + 1}
  BY <1>1
<1> QED
  BY <1>1, <1>2, <1>3, <1>4, <1>5 DEF SoFar, WordsRead

\* Nothing is read any more.
LEMMA NoWord ==
  ASSUME WordsRead, argv' = argv, word' = word, flags' = flags, filename' = filename,
         word = Len(argv) + 1 \/ (status' \notin {"parse", "check", "build", "passes"} /\ output' = "none")
  PROVE  WordsRead'
<1>1. \A w : SoFar(w)' <=> SoFar(w)
  BY DEF SoFar
<1> QED
  BY <1>1 DEF WordsRead

LEMMA OptionStep ==
  ASSUME CommandInv, Option
  PROVE  CommandInv'
<1>1. WordsRead'
  <2>1. word \in Nat /\ word <= Len(argv) /\ argv[word] # "-o" /\ argv[word] # "-h" /\ argv[word] \in Options
    BY DEF Option, Options, CommandInv, WordsRead
  <2>2. /\ word' \in 1..(Len(argv') + 1)
        /\ ~IsOperand(argv', word')
        /\ \A w : SoFar(w)' <=> SoFar(w) \/ argv[word] = w
    BY <2>1, OneWord DEF Option, CommandInv
  <2>3. \A f : f \in flags' <=> \E w \in Options : f \in Sets(w) /\ SoFar(w)'
    <3> HIDE DEF Options
    <3>1. flags' = flags \cup Sets(argv[word])
      BY DEF Option
    <3>2. \A f : f \in flags <=> \E w \in Options : f \in Sets(w) /\ SoFar(w)
      BY DEF CommandInv, WordsRead
    <3> HIDE DEF Sets, SoFar
    <3> QED
      BY <2>1, <2>2, <3>1, <3>2
  <2> QED
    BY <2>1, <2>2, <2>3 DEF WordsRead, Option, CommandInv, StepsTaken
<1>2. CommandTypeOK'
  <2>1. word' \in 1..(MaxWords + 1)
    BY MaxWordsAssumption DEF Option, CommandInv, WordsRead
  <2> QED
    BY <2>1 DEF CommandTypeOK, Option, CommandInv
<1>3. StepsTaken'
  BY DEF StepsTaken, Option, CommandInv
<1> QED
  BY <1>1, <1>2, <1>3 DEF CommandInv

LEMMA InputFileStep ==
  ASSUME CommandInv, InputFile
  PROVE  CommandInv'
<1>0. word \in 1..Len(argv) /\ argv \in Seq(Words)
  BY DEF InputFile, CommandInv, WordsRead
<1>1. WordsRead'
  <2>1. word \in Nat /\ word <= Len(argv) /\ argv[word] # "-o" /\ argv[word] # "-h" /\ argv[word] \notin Options
    BY DEF InputFile, CommandInv, WordsRead
  <2>2. /\ word' \in 1..(Len(argv') + 1)
        /\ ~IsOperand(argv', word')
        /\ \A w : SoFar(w)' <=> SoFar(w) \/ argv[word] = w
    BY <2>1, OneWord DEF InputFile, CommandInv
  <2>3. \A f : f \in flags' <=> \E w \in Options : f \in Sets(w) /\ SoFar(w)'
    BY <2>1, <2>2 DEF CommandInv, WordsRead, InputFile
  <2> QED
    BY <2>1, <2>2, <2>3 DEF WordsRead, InputFile, CommandInv, StepsTaken
<1>2. CommandTypeOK'
  <2>1. word' \in 1..(MaxWords + 1)
    BY MaxWordsAssumption DEF InputFile, CommandInv, WordsRead
  <2>2. argv[word] \in Words
    BY <1>0
  <2> QED
    BY <2>1, <2>2 DEF CommandTypeOK, InputFile, CommandInv
<1>3. StepsTaken'
  BY DEF StepsTaken, InputFile, CommandInv
<1> QED
  BY <1>1, <1>2, <1>3 DEF CommandInv

LEMMA OutputFileStep ==
  ASSUME CommandInv, OutputFile
  PROVE  CommandInv'
<1>0. word \in 1..Len(argv) /\ argv \in Seq(Words)
  BY DEF OutputFile, CommandInv, WordsRead
<1>1. CASE word = Len(argv)
  <2>1. WordsRead'
    BY <1>1, NoWord DEF OutputFile, CommandInv, StepsTaken
  <2> QED
    BY <1>1, <2>1 DEF CommandInv, CommandTypeOK, StepsTaken, OutputFile, Stopped
<1>2. CASE word # Len(argv)
  <2>1. word < Len(argv) /\ argv[word] = "-o" /\ argv' = argv /\ word' = word + 2 /\ target' = argv[word + 1]
    BY <1>0, <1>2 DEF OutputFile
  <2>2. /\ word' \in 1..(Len(argv') + 1)
        /\ ~IsOperand(argv', word')
        /\ \A w : SoFar(w)' <=> SoFar(w) \/ "-o" = w
    BY <2>1, TwoWords DEF CommandInv
  <2>3. \A f : f \in flags' <=> \E w \in Options : f \in Sets(w) /\ SoFar(w)'
    <3>1. \A w \in Options : w # "-o"
      BY DEF Options
    <3> QED
      BY <2>2, <3>1 DEF CommandInv, WordsRead, OutputFile
  <2>4. WordsRead'
    BY <1>2, <2>1, <2>2, <2>3 DEF WordsRead, OutputFile, CommandInv, StepsTaken
  <2>5. argv[word + 1] \in Words
    BY <1>0, <2>1
  <2>6. word' \in 1..(MaxWords + 1)
    BY <1>0, <2>1, MaxWordsAssumption DEF CommandInv, WordsRead
  <2> QED
    BY <1>2, <2>1, <2>4, <2>5, <2>6 DEF CommandInv, CommandTypeOK, StepsTaken, OutputFile
<1> QED
  BY <1>1, <1>2

LEMMA HelpStep ==
  ASSUME CommandInv, Help
  PROVE  CommandInv'
<1>1. WordsRead'
  BY NoWord DEF Help, CommandInv, StepsTaken
<1> QED
  BY <1>1 DEF CommandInv, CommandTypeOK, StepsTaken, Help, Stopped

LEMMA AllReadStep ==
  ASSUME CommandInv, AllRead
  PROVE  CommandInv'
<1>1. word = Len(argv) + 1
  BY DEF AllRead, CommandInv, WordsRead
<1>2. WordsRead'
  BY <1>1, NoWord DEF AllRead, CommandInv
<1> QED
  BY <1>2 DEF CommandInv, CommandTypeOK, StepsTaken, AllRead

LEMMA SourceStep ==
  ASSUME CommandInv, Missing \/ Parse \/ VisitTree
  PROVE  CommandInv'
<1>1. word = Len(argv) + 1 /\ argv' = argv /\ word' = word /\ flags' = flags /\ filename' = filename
  BY DEF Missing, Parse, VisitTree, CommandInv, WordsRead
<1>2. WordsRead'
  BY <1>1, NoWord DEF CommandInv
<1>3. CASE Missing
  BY <1>2, <1>3 DEF CommandInv, CommandTypeOK, StepsTaken, Missing, Stopped
<1>4. CASE Parse
  BY <1>2, <1>4 DEF CommandInv, CommandTypeOK, StepsTaken, Parse, Stopped
<1>5. CASE VisitTree
  <2>1. /\ status' \in {"crashed", "failed", "build"}
        /\ status' = "build" /\ "check" \in flags => content \in {"correct", "syntax"}
    BY <1>5 DEF VisitTree, CommandInv, CommandTypeOK, StepsTaken
  <2> QED
    BY <1>2, <1>5, <2>1 DEF CommandInv, CommandTypeOK, StepsTaken, VisitTree, Stopped
<1> QED
  BY <1>3, <1>4, <1>5

LEMMA BuildStep ==
  ASSUME CommandInv, Build
  PROVE  CommandInv'
<1>1. word = Len(argv) + 1 /\ argv' = argv /\ word' = word /\ flags' = flags /\ filename' = filename
  BY DEF Build, CommandInv, WordsRead
<1>2. WordsRead'
  BY <1>1, NoWord DEF CommandInv
<1> PICK L : L = PassList(flags)
  OBVIOUS
<1>3. L \in Seq(Passes)
  BY PassListSound DEF IsListFor
<1>4. done = <<>> /\ done' = <<>> /\ todo' = L /\ output' = "none" /\ ~broken /\ ~broken'
        /\ content' # "?"
  BY DEF Build, CommandInv, StepsTaken
<1>5. status' \in {"exit", "failed", "crashed", "passes"} /\ (status' = "passes" => Admitted')
  <2> HIDE DEF PassList
  <2>1. CASE "emit_ir" \notin flags
    BY <2>1 DEF Build
  <2>2. CASE "emit_ir" \in flags /\ content = "syntax"
    BY <2>2 DEF Build
  <2>3. CASE "emit_ir" \in flags /\ content = "misused"
    <3>1. "check" \notin flags
      BY <2>3 DEF Build, CommandInv, StepsTaken
    <3> QED
      BY <2>3, <3>1 DEF Build, Admitted
  <2>4. CASE "emit_ir" \in flags /\ content \notin {"syntax", "misused"}
    BY <2>4 DEF Build, Admitted, CommandInv, StepsTaken
  <2> QED
    BY <2>1, <2>2, <2>3, <2>4
<1>6. Splits(L)'
  BY <1>3, <1>4 DEF Splits
<1>7. PassList(flags)' = L
  BY <1>1
<1>8. CommandTypeOK'
  BY <1>3, <1>4, <1>5 DEF CommandTypeOK, Build, CommandInv, Stopped
<1>9. StepsTaken'
  <2> HIDE DEF PassList
  <2> QED
    BY <1>4, <1>5, <1>6, <1>7 DEF StepsTaken
<1> QED
  BY <1>2, <1>8, <1>9 DEF CommandInv

\* A pass goes from one end to the other.
LEMMA OnePass ==
  ASSUME CommandTypeOK, StepsTaken, status = "passes", todo # <<>>, flags' = flags,
         done' = Append(done, Head(todo)), todo' = Tail(todo)
  PROVE  /\ todo' \in Seq(Passes) /\ done' \in Seq(Passes)
         /\ Splits(PassList(flags))'
         /\ todo' = <<>> => Head(todo) = "Check"
<1> PICK L : L = PassList(flags)
  OBVIOUS
<1>1. IsListFor(L, flags)
  BY PassListSound
<1>2. L \in Seq(Passes)
  BY <1>1 DEF IsListFor
<1>3. PassList(flags)' = L
  OBVIOUS
<1>4. Splits(L)
  BY DEF StepsTaken
<1>5. todo \in Seq(Passes) /\ done \in Seq(Passes) /\ Len(todo) \in Nat /\ Len(done) \in Nat /\ Len(todo) > 0
  BY DEF CommandTypeOK
<1>6. Head(todo) = todo[1] /\ Head(todo) \in Passes
  BY <1>5
<1>7. todo' \in Seq(Passes) /\ Len(todo') = Len(todo) - 1 /\ \A i \in 1..(Len(todo) - 1) : todo'[i] = todo[i + 1]
  BY <1>5
<1>8. done' \in Seq(Passes) /\ Len(done') = Len(done) + 1 /\ done'[Len(done) + 1] = todo[1]
        /\ \A i \in 1..Len(done) : done'[i] = done[i]
  BY <1>5, <1>6
<1>9. Splits(L)'
  <2>1. Len(L) = Len(done') + Len(todo')
    BY <1>4, <1>5, <1>7, <1>8 DEF Splits
  <2>2. ASSUME NEW i \in 1..Len(done') PROVE done'[i] = L[i]
    <3>1. todo[1] = L[Len(done) + 1]
      BY <1>4, <1>5 DEF Splits
    <3>2. i \in 1..Len(done) \/ i = Len(done) + 1
      BY <1>5, <1>8
    <3> QED
      BY <1>4, <1>8, <3>1, <3>2 DEF Splits
  <2>3. ASSUME NEW i \in 1..Len(todo') PROVE todo'[i] = L[Len(done') + i]
    <3>1. i + 1 \in 1..Len(todo) /\ i \in 1..(Len(todo) - 1) /\ Len(done) + (i + 1) = (Len(done) + 1) + i
      BY <1>5, <1>7
    <3> QED
      BY <1>4, <1>7, <1>8, <3>1 DEF Splits
  <2> QED
    BY <2>1, <2>2, <2>3 DEF Splits
<1>10. ASSUME todo' = <<>> PROVE Head(todo) = "Check"
  <2>1. Len(todo) = 1
    BY <1>5, <1>7, <1>10
  <2>2. Len(L) = Len(done) + 1 /\ todo[1] = L[Len(L)]
    BY <1>4, <1>5, <2>1 DEF Splits
  <2>3. L # <<>>
    BY <1>2, <1>5, <2>2
  <2>4. L[Len(L)] = "Check"
    BY <1>1, <2>3 DEF IsListFor
  <2> QED
    BY <1>6, <2>2, <2>4
<1> QED
  BY <1>3, <1>7, <1>8, <1>9, <1>10

LEMMA PassStep ==
  ASSUME CommandInv, Execute \/ ExecuteCheck
  PROVE  CommandInv'
<1>1. word = Len(argv) + 1 /\ argv' = argv /\ word' = word /\ flags' = flags /\ filename' = filename
        /\ status = "passes" /\ todo # <<>> /\ done' = Append(done, Head(todo)) /\ todo' = Tail(todo)
        /\ content' = content /\ output' = output /\ output = "none" /\ target' = target
        /\ content' # "?"
  BY DEF Execute, ExecuteCheck, CommandInv, WordsRead, StepsTaken
<1>2. WordsRead'
  BY <1>1, NoWord DEF CommandInv
<1>3. /\ todo' \in Seq(Passes) /\ done' \in Seq(Passes)
      /\ Splits(PassList(flags))'
      /\ todo' = <<>> => Head(todo) = "Check"
  BY <1>1, OnePass DEF CommandInv
<1>4. /\ broken' \in BOOLEAN
      /\ Head(todo) = "Check" /\ broken' => status' # "passes"
      /\ status' \in {"passes", "exit", "crashed"}
  <2>1. broken \in BOOLEAN
    BY DEF CommandInv, CommandTypeOK
  <2>2. CASE Execute
    BY <1>1, <2>1, <2>2 DEF Execute
  <2>3. CASE ExecuteCheck
    BY <1>1, <2>1, <2>3 DEF ExecuteCheck
  <2> QED
    BY <2>2, <2>3
<1>5. CommandTypeOK'
  BY <1>1, <1>3, <1>4 DEF CommandTypeOK, CommandInv, Stopped
<1>6. Admitted'
  BY <1>1 DEF Admitted, CommandInv, StepsTaken
<1>7. StepsTaken'
  <2> HIDE DEF PassList
  <2> QED
    BY <1>1, <1>3, <1>4, <1>6 DEF StepsTaken
<1> QED
  BY <1>2, <1>5, <1>7 DEF CommandInv

LEMMA PassCrashesStep ==
  ASSUME CommandInv, PassCrashes
  PROVE  CommandInv'
<1>1. WordsRead'
  BY NoWord DEF CommandInv, StepsTaken, PassCrashes
<1> QED
  BY <1>1 DEF CommandInv, CommandTypeOK, StepsTaken, PassCrashes, Stopped

LEMMA WriteStep ==
  ASSUME CommandInv, WriteModule
  PROVE  CommandInv'
<1>1. word = Len(argv) + 1 /\ argv' = argv /\ word' = word /\ flags' = flags /\ filename' = filename
        /\ todo = <<>> /\ todo' = todo /\ done' = done /\ broken' = broken /\ content' = content
  BY DEF WriteModule, CommandInv, WordsRead
<1>2. WordsRead'
  BY <1>1, NoWord DEF CommandInv
<1>3. CommandTypeOK'
  BY <1>1 DEF CommandTypeOK, CommandInv, WriteModule, Stopped
<1>4. Admitted' /\ Splits(PassList(flags))' /\ ~broken'
  <2> HIDE DEF PassList
  <2>1. Admitted /\ Splits(PassList(flags)) /\ ~broken
    BY <1>1 DEF CommandInv, StepsTaken, WriteModule
  <2>2. PassList(flags)' = PassList(flags)
    BY <1>1
  <2> QED
    BY <1>1, <2>1, <2>2 DEF Admitted, Splits
<1>5. StepsTaken'
  <2> HIDE DEF PassList
  <2> QED
    BY <1>1, <1>4 DEF StepsTaken, WriteModule
<1> QED
  BY <1>2, <1>3, <1>5 DEF CommandInv

LEMMA CommandNext == CommandInv /\ [MainNext]_command => CommandInv'
<1> SUFFICES ASSUME CommandInv, [MainNext]_command PROVE CommandInv'
  OBVIOUS
<1>1. CASE UNCHANGED command
  <2>1. WordsRead' /\ CommandTypeOK'
    BY <1>1 DEF command, CommandInv, WordsRead, SoFar, CommandTypeOK
  <2>2. StepsTaken'
    <3> HIDE DEF PassList
    <3> QED
      BY <1>1 DEF command, CommandInv, StepsTaken, Admitted, Splits
  <2> QED
    BY <2>1, <2>2 DEF CommandInv
<1> QED
  BY <1>1, HelpStep, OutputFileStep, OptionStep, InputFileStep, AllReadStep, SourceStep, BuildStep, PassStep,
     PassCrashesStep, WriteStep DEF MainNext, Ended

-----------------------------------------------------------------------------
(* What is written.                                                        *)

LEMMA CommandAlways == MainSpec => []CommandInv
<1>1. MainInit => CommandInv
  BY CommandInit
<1>2. CommandInv /\ [MainNext]_command => CommandInv'
  BY CommandNext
<1> QED
  BY <1>1, <1>2, PTL DEF MainSpec

\* Why a program without a module has the status of success.
Excused ==
  \/ Given("-h")
  \/ word = Len(argv) + 1 /\ "emit_ir" \notin flags
  \/ broken /\ done # <<>> /\ Last(done) = "Check"

Quiet == status = "exit" /\ output = "none" => Excused

LEMMA QuietStep == CommandInv /\ Quiet /\ [MainNext]_command => Quiet'
<1> SUFFICES ASSUME CommandInv, Quiet, [MainNext]_command, status' = "exit", output' = "none"
             PROVE  Excused'
  BY DEF Quiet
<1>1. CASE UNCHANGED command \/ Ended
  BY <1>1 DEF command, Ended, Quiet, Excused, Given
<1>2. CASE Help
  <2>1. word \in DOMAIN argv /\ argv[word] = "-h" /\ ~IsOperand(argv, word) /\ argv' = argv
    BY <1>2 DEF Help, CommandInv, WordsRead
  <2> QED
    BY <2>1 DEF Excused, Given
<1>3. CASE Build
  <2>1. word = Len(argv) + 1 /\ word' = word /\ argv' = argv /\ flags' = flags
    BY <1>3 DEF Build, CommandInv, WordsRead
  <2>2. "emit_ir" \notin flags
    BY <1>3 DEF Build
  <2> QED
    BY <2>1, <2>2 DEF Excused
<1>4. CASE ExecuteCheck
  <2>1. broken' /\ done' = Append(done, "Check") /\ done \in Seq(Passes)
    BY <1>4 DEF ExecuteCheck, CommandInv, CommandTypeOK
  <2>2. done' # <<>> /\ done'[Len(done')] = "Check"
    BY <2>1 DEF Passes
  <2> QED
    BY <2>1, <2>2 DEF Excused, Last
<1>5. CASE WriteModule
  BY <1>5, WordsAssumption DEF WriteModule, CommandInv, CommandTypeOK
<1>6. CASE OutputFile \/ Option \/ InputFile \/ AllRead \/ Missing \/ Parse \/ VisitTree \/ Execute \/ PassCrashes
  BY <1>6 DEF OutputFile, Option, InputFile, AllRead, Missing, Parse, VisitTree, Execute, PassCrashes
<1> QED
  BY <1>1, <1>2, <1>3, <1>4, <1>5, <1>6 DEF MainNext

LEMMA QuietAlways == MainSpec => []Quiet
<1>1. MainInit => Quiet
  BY DEF MainInit, Quiet
<1>2. CommandInv /\ Quiet /\ [MainNext]_command => Quiet'
  BY QuietStep
<1> QED
  BY <1>1, <1>2, CommandAlways, PTL DEF MainSpec

\* When the module is written, all of the list is done, and all words are read.
LEMMA Written ==
  ASSUME CommandInv, output # "none"
  PROVE  /\ IsListFor(done, flags) /\ Admitted /\ ~broken
         /\ \A w : Given(w) <=> SoFar(w)
<1> PICK L : L = PassList(flags)
  OBVIOUS
<1>1. Splits(L) /\ todo = <<>> /\ Admitted /\ ~broken
  BY DEF CommandInv, StepsTaken
<1>2. IsListFor(L, flags)
  BY PassListSound
<1>3. L \in Seq(Passes) /\ done \in Seq(Passes)
  BY <1>2 DEF IsListFor, CommandInv, CommandTypeOK
<1>4. Len(L) = Len(done) /\ \A i \in 1..Len(done) : done[i] = L[i]
  BY <1>1, <1>3 DEF Splits
<1>5. done = L
  BY <1>3, <1>4
<1>6. word - 1 = Len(argv) /\ DOMAIN argv = 1..Len(argv)
  BY DEF CommandInv, WordsRead
<1>7. \A w : Given(w) <=> SoFar(w)
  BY <1>6 DEF Given, SoFar
<1> QED
  BY <1>1, <1>2, <1>5, <1>7

\* The flags are what the words say.
LEMMA FlagsSay ==
  ASSUME CommandInv, output # "none"
  PROVE  /\ "optimize" \in flags <=> Asked
         /\ "optimize_all" \in flags <=> Given("-O2")
         /\ "lv" \in flags <=> Given("-lv")
         /\ "cse" \in flags <=> Given("-cse")
         /\ "optimize_size" \in flags <=> Given("-optimize-size")
         /\ "emit_ir" \in flags <=> Given("-emit-ir")
         /\ "check" \in flags <=> Given("-check")
<1>1. \A w : Given(w) <=> SoFar(w)
  BY Written
<1>2. \A f : f \in flags <=> \E w \in Options : f \in Sets(w) /\ Given(w)
  BY <1>1 DEF CommandInv, WordsRead
<1>3. /\ Sets("-O2") = {"optimize_all", "optimize"} /\ Sets("-O") = {"optimize"}
      /\ Sets("-lv") = {"optimize", "lv"} /\ Sets("-cse") = {"optimize", "cse"}
      /\ Sets("-optimize-size") = {"optimize", "optimize_size"}
      /\ Sets("-check") = {"check"} /\ Sets("-emit-ast") = {"print_ast"} /\ Sets("-emit-ir") = {"emit_ir"}
  BY DEF Sets
<1> HIDE DEF Sets, Given
<1>4. "optimize" \in flags <=> Asked
  BY <1>2, <1>3 DEF Options, Asked
<1>5. "optimize_all" \in flags <=> Given("-O2")
  BY <1>2, <1>3 DEF Options
<1>6. "lv" \in flags <=> Given("-lv")
  BY <1>2, <1>3 DEF Options
<1>7. "cse" \in flags <=> Given("-cse")
  BY <1>2, <1>3 DEF Options
<1>8. "optimize_size" \in flags <=> Given("-optimize-size")
  BY <1>2, <1>3 DEF Options
<1>9. "emit_ir" \in flags <=> Given("-emit-ir")
  BY <1>2, <1>3 DEF Options
<1>10. "check" \in flags <=> Given("-check")
  BY <1>2, <1>3 DEF Options
<1> QED
  BY <1>4, <1>5, <1>6, <1>7, <1>8, <1>9, <1>10

\* Whatever the words of the command line, their number and their order, and
\* wherever the program may fail or crash: a module that is written has had the
\* passes that were asked for, once each, the analysis first, and no other; and
\* without a module the status of success means that none was asked for or that
\* Check refused it (main).
THEOREM PassesAsAsked == MainSpec => []RunSound
<1>1. CommandInv /\ Quiet => RunSound
  <2>0. ASSUME CommandInv, Quiet PROVE SilentExits
    <3> SUFFICES ASSUME status = "exit", output = "none", ~Given("-h"), Given("-emit-ir"),
                        word = Len(argv) + 1, "emit_ir" \notin flags
                 PROVE  FALSE
      BY <2>0 DEF SilentExits, Quiet, Excused
    <3>1. PICK j \in DOMAIN argv : argv[j] = "-emit-ir" /\ ~IsOperand(argv, j)
      BY DEF Given
    <3>2. j \in 1..(word - 1)
      BY <2>0 DEF CommandInv, WordsRead
    <3>3. SoFar("-emit-ir")
      BY <3>1, <3>2 DEF SoFar
    <3>4. "emit_ir" \in Sets("-emit-ir") /\ "-emit-ir" \in Options
      BY DEF Sets, Options
    <3> HIDE DEF Sets, Options, SoFar
    <3> QED
      BY <2>0, <3>3, <3>4 DEF CommandInv, WordsRead
  <2> SUFFICES ASSUME CommandInv, output # "none" PROVE AsAsked
    BY <2>0 DEF RunSound, CommandInv, AsAsked
  <2>1. /\ IsListFor(done, flags) /\ Admitted
        /\ \A w : Given(w) <=> SoFar(w)
    BY Written
  <2>2. Given("-emit-ir") /\ ~Given("-h") /\ (Given(filename) \/ filename = "-")
    BY <2>1, FlagsSay DEF CommandInv, WordsRead, Admitted
  <2>3. IF Asked THEN /\ Len(done) >= 2 /\ done[1] = "DominateTree" /\ done[2] = "Mem2Reg"
                      /\ Once("DominateTree") /\ Once("Mem2Reg")
                 ELSE done = <<>>
    <3> HIDE DEF Asked
    <3>1. "optimize" \in flags <=> Asked
      BY FlagsSay
    <3> QED
      BY <2>1, <3>1 DEF IsListFor, OnceIn, Once
  <2>4. ASSUME NEW p \in {"LiveVar", "ComSubExprEli", "CodeSizeOptimizer"}
        PROVE  IF AskedFor(p) THEN Once(p) ELSE Never(p)
    <3>1. /\ "optimize_all" \in flags <=> Given("-O2")
          /\ "lv" \in flags <=> Given("-lv")
          /\ "cse" \in flags <=> Given("-cse")
          /\ "optimize_size" \in flags <=> Given("-optimize-size")
          /\ "optimize" \in flags <=> Asked
      BY FlagsSay
    <3> HIDE DEF Given
    <3>2. (Given("-O2") \/ Given("-lv") \/ Given("-cse") \/ Given("-optimize-size")) => Asked
      BY DEF Asked
    <3>3. CASE p = "LiveVar"
      <4>1. AskedFor(p) <=> "optimize" \in flags /\ {"optimize_all", "lv"} \cap flags # {}
        BY <3>1, <3>2, <3>3 DEF AskedFor
      <4>2. IF AskedFor(p) THEN OnceIn(done, p) ELSE NeverIn(done, p)
        BY <2>1, <3>3, <4>1 DEF IsListFor
      <4> QED
        BY <4>2 DEF OnceIn, Once, NeverIn, Never
    <3>4. CASE p = "ComSubExprEli"
      <4>1. AskedFor(p) <=> "optimize" \in flags /\ {"optimize_all", "cse"} \cap flags # {}
        BY <3>1, <3>2, <3>4 DEF AskedFor
      <4>2. IF AskedFor(p) THEN OnceIn(done, p) ELSE NeverIn(done, p)
        BY <2>1, <3>4, <4>1 DEF IsListFor
      <4> QED
        BY <4>2 DEF OnceIn, Once, NeverIn, Never
    <3>5. CASE p = "CodeSizeOptimizer"
      <4>1. AskedFor(p) <=> "optimize" \in flags /\ {"optimize_all", "optimize_size"} \cap flags # {}
        BY <3>1, <3>2, <3>5 DEF AskedFor
      <4>2. IF AskedFor(p) THEN OnceIn(done, p) ELSE NeverIn(done, p)
        BY <2>1, <3>5, <4>1 DEF IsListFor
      <4> QED
        BY <4>2 DEF OnceIn, Once, NeverIn, Never
    <3> QED
      BY <3>3, <3>4, <3>5
  <2> QED
    BY <2>2, <2>3, <2>4 DEF AsAsked
<1> QED
  BY <1>1, CommandAlways, QuietAlways, PTL

\* Whatever the words of the command line: nothing is written for a file that
\* does not parse, that the checker was asked about and refused, or whose module
\* no Check has seen since a pass rewrote it (main, PassMgr::execute).
THEOREM OnlyJustified == MainSpec => []OutputJustified
<1>1. CommandInv => OutputJustified
  <2> SUFFICES ASSUME CommandInv, output # "none" PROVE OutputJustified
    BY DEF OutputJustified
  <2>1. IsListFor(done, flags) /\ Admitted /\ ~broken
    BY Written
  <2>2. "check" \in flags <=> Given("-check")
    BY FlagsSay
  <2>3. ASSUME NEW j \in DOMAIN done PROVE \E k \in j..Len(done) : done[k] = "Check"
    <3>1. done \in Seq(Passes) /\ Len(done) \in j..Len(done)
      BY DEF CommandInv, CommandTypeOK
    <3>2. done[Len(done)] = "Check"
      BY <2>1, <3>1 DEF IsListFor
    <3> QED
      BY <3>1, <3>2
  <2> QED
    BY <2>1, <2>2, <2>3 DEF OutputJustified, Admitted
<1> QED
  BY <1>1, CommandAlways, PTL

-----------------------------------------------------------------------------
(* The merging of functions.                                               *)

\* What holds of 1 and of the next of each holds up to n.
LEMMA UpTo ==
  ASSUME NEW n \in Nat, NEW K, 1 \in K, \A k \in 1..(n - 1) : k \in K => k + 1 \in K
  PROVE  \A k \in 1..n : k \in K
<1> DEFINE L == {k \in 1..n : k \notin K}
<1> SUFFICES ASSUME L # {} PROVE FALSE
  OBVIOUS
<1>1. PICK m \in L : \A k \in L : m <= k
  <2>1. L \in SUBSET Nat /\ L # {}
    OBVIOUS
  <2> HIDE DEF L
  <2> QED
    BY <2>1, LeastOf
<1>2. m - 1 \in 1..(n - 1) /\ m - 1 \notin L
  BY <1>1
<1>3. m - 1 \in K
  BY <1>2
<1> QED
  BY <1>1, <1>2, <1>3

\* f is the function of FlattenSeq up to its n-th value.
FlatUpTo(f, bs, n) ==
  /\ DOMAIN f = 1..Len(bs)
  /\ \A i \in 1..n : f[i] = IF i = 1 THEN bs[i] ELSE f[i - 1] \o bs[i]

IsFlat(f, bs) == f = [i \in 1..Len(bs) |-> IF i = 1 THEN bs[i] ELSE f[i - 1] \o bs[i]]

LEMMA FlatExists ==
  ASSUME NEW bs, Len(bs) \in Nat, Len(bs) # 0
  PROVE  \E f : IsFlat(f, bs)
<1> DEFINE K == {n \in 1..Len(bs) : \E f : FlatUpTo(f, bs, n) /\ f = [i \in 1..Len(bs) |-> f[i]]}
<1>1. 1 \in K
  <2>1. PICK f : f = [i \in 1..Len(bs) |-> bs[1]]
    OBVIOUS
  <2>2. FlatUpTo(f, bs, 1)
    BY <2>1 DEF FlatUpTo
  <2>3. f = [i \in 1..Len(bs) |-> f[i]]
    BY <2>1
  <2> QED
    BY <2>2, <2>3
<1>2. ASSUME NEW n \in 1..(Len(bs) - 1), n \in K PROVE n + 1 \in K
  <2>1. PICK f : FlatUpTo(f, bs, n) /\ f = [i \in 1..Len(bs) |-> f[i]]
    BY <1>2
  <2>2. PICK g : g = [i \in 1..Len(bs) |-> IF i = n + 1 THEN f[n] \o bs[n + 1] ELSE f[i]]
    OBVIOUS
  <2>3. DOMAIN g = 1..Len(bs) /\ g = [i \in 1..Len(bs) |-> g[i]]
    BY <2>2
  <2>4. ASSUME NEW i \in 1..(n + 1)
        PROVE  g[i] = IF i = 1 THEN bs[i] ELSE g[i - 1] \o bs[i]
    <3>1. CASE i = n + 1
      <4>1. i # 1 /\ i - 1 = n /\ i \in 1..Len(bs) /\ n \in 1..Len(bs) /\ n # n + 1
        BY <3>1
      <4>2. g[i] = f[n] \o bs[n + 1] /\ g[n] = f[n]
        BY <2>2, <3>1, <4>1
      <4> QED
        BY <3>1, <4>1, <4>2
    <3>2. CASE i # n + 1
      <4>1. i \in 1..n /\ (i # 1 => i - 1 \in 1..n)
        BY <3>2
      <4>2. g[i] = f[i] /\ (i # 1 => g[i - 1] = f[i - 1])
        BY <2>2, <4>1
      <4>3. f[i] = IF i = 1 THEN bs[i] ELSE f[i - 1] \o bs[i]
        BY <2>1, <4>1 DEF FlatUpTo
      <4> QED
        BY <4>2, <4>3
    <3> QED
      BY <3>1, <3>2
  <2>5. FlatUpTo(g, bs, n + 1)
    BY <2>3, <2>4 DEF FlatUpTo
  <2> QED
    BY <2>3, <2>5
<1>3. Len(bs) \in K
  <2> HIDE DEF K
  <2>1. \A n \in 1..Len(bs) : n \in K
    BY <1>1, <1>2, UpTo
  <2> QED
    BY <2>1
<1>4. PICK f : FlatUpTo(f, bs, Len(bs)) /\ f = [i \in 1..Len(bs) |-> f[i]]
  BY <1>3
<1>5. \A i \in 1..Len(bs) : f[i] = IF i = 1 THEN bs[i] ELSE f[i - 1] \o bs[i]
  BY <1>4 DEF FlatUpTo
<1>6. f = [i \in 1..Len(bs) |-> IF i = 1 THEN bs[i] ELSE f[i - 1] \o bs[i]]
  BY <1>4, <1>5
<1> QED
  BY <1>6 DEF IsFlat

LEMMA FlatDef ==
  ASSUME NEW bs, Len(bs) \in Nat, Len(bs) # 0
  PROVE  \E f : IsFlat(f, bs) /\ FlattenSeq(bs) = f[Len(bs)]
<1> DEFINE g == CHOOSE f : IsFlat(f, bs)
<1>1. IsFlat(g, bs)
  BY FlatExists
<1>2. FlattenSeq(bs) = g[Len(bs)]
  BY Zenon DEF FlattenSeq, IsFlat
<1> QED
  BY <1>1, <1>2

\* The places of a body.
LEMMA PlaceIn ==
  ASSUME NEW bs, NEW p
  PROVE  p \in Places(bs) <=> \E b \in DOMAIN bs : \E k \in DOMAIN bs[b] : p = <<b, k>>
BY DEF Places

\* The places of the first n blocks.
FirstPlaces(bs, n) == {p \in Places(bs) : p[1] <= n}

\* pos says where in t the instructions of the first n blocks are.
IsFlattening(pos, bs, n, t) ==
  /\ pos \in [FirstPlaces(bs, n) -> DOMAIN t]
  /\ \A p, q \in FirstPlaces(bs, n) : pos[p] = pos[q] => p = q
  /\ \A k \in DOMAIN t : \E p \in FirstPlaces(bs, n) : pos[p] = k
  /\ \A p \in FirstPlaces(bs, n) : t[pos[p]] = bs[p[1]][p[2]]

\* One block more.
LEMMA FlattenBlock ==
  ASSUME NEW S, NEW bs \in Seq(Seq(S)), NEW n \in Nat, n + 1 \in DOMAIN bs, NEW t \in Seq(S),
         NEW pos, IsFlattening(pos, bs, n, t)
  PROVE  \E psi : IsFlattening(psi, bs, n + 1, t \o bs[n + 1])
<1> DEFINE u   == t \o bs[n + 1]
           psi == [p \in FirstPlaces(bs, n + 1) |-> IF p[1] = n + 1 THEN Len(t) + p[2] ELSE pos[p]]
<1>1. /\ bs[n + 1] \in Seq(S) /\ Len(t) \in Nat /\ Len(bs[n + 1]) \in Nat
      /\ DOMAIN t = 1..Len(t) /\ DOMAIN bs[n + 1] = 1..Len(bs[n + 1])
      /\ DOMAIN u = 1..(Len(t) + Len(bs[n + 1]))
      /\ \A k \in 1..Len(t) : u[k] = t[k]
      /\ \A k \in 1..Len(bs[n + 1]) : u[Len(t) + k] = bs[n + 1][k]
  OBVIOUS
<1>2. ASSUME NEW p \in FirstPlaces(bs, n + 1)
      PROVE  \/ p \in FirstPlaces(bs, n) /\ p[1] # n + 1
             \/ p[1] = n + 1 /\ p[2] \in 1..Len(bs[n + 1]) /\ p = <<n + 1, p[2]>>
  <2>1. PICK b \in DOMAIN bs : \E k \in DOMAIN bs[b] : p = <<b, k>>
    BY PlaceIn DEF FirstPlaces
  <2>2. b \in Nat /\ b <= n + 1 /\ p[1] = b
    BY <2>1 DEF FirstPlaces
  <2> QED
    BY <1>1, <2>1, <2>2 DEF FirstPlaces
<1>3. FirstPlaces(bs, n) \subseteq FirstPlaces(bs, n + 1) /\ \A p \in FirstPlaces(bs, n) : p[1] # n + 1
  <2> SUFFICES ASSUME NEW p \in FirstPlaces(bs, n) PROVE p \in FirstPlaces(bs, n + 1) /\ p[1] # n + 1
    OBVIOUS
  <2>1. PICK b \in DOMAIN bs : \E k \in DOMAIN bs[b] : p = <<b, k>>
    BY PlaceIn DEF FirstPlaces
  <2> QED
    BY <2>1 DEF FirstPlaces
<1>4. \A k \in 1..Len(bs[n + 1]) : <<n + 1, k>> \in FirstPlaces(bs, n + 1)
  BY <1>1, PlaceIn DEF FirstPlaces
<1>5. \A p \in FirstPlaces(bs, n) : pos[p] \in 1..Len(t) /\ psi[p] = pos[p]
  BY <1>1, <1>3 DEF IsFlattening
<1>6. \A k \in 1..Len(bs[n + 1]) : psi[<<n + 1, k>>] = Len(t) + k
  BY <1>4
<1>7. \A p \in FirstPlaces(bs, n + 1) :
         \/ p \in FirstPlaces(bs, n) /\ psi[p] = pos[p] /\ pos[p] \in 1..Len(t)
         \/ /\ p[1] = n + 1 /\ p[2] \in 1..Len(bs[n + 1]) /\ p = <<n + 1, p[2]>>
            /\ psi[p] = Len(t) + p[2]
  BY <1>2, <1>5
<1>8. psi \in [FirstPlaces(bs, n + 1) -> DOMAIN u]
  <2>1. ASSUME NEW p \in FirstPlaces(bs, n + 1) PROVE psi[p] \in DOMAIN u
    <3> HIDE DEF psi, u
    <3>1. PICK k : k = p[2]
      OBVIOUS
    <3>2. psi[p] \in 1..Len(t) \/ (k \in 1..Len(bs[n + 1]) /\ psi[p] = Len(t) + k)
      BY <1>7, <3>1
    <3> QED
      BY <1>1, <3>2
  <2> QED
    BY <2>1
<1> HIDE DEF psi, u
<1>9. \A p, q \in FirstPlaces(bs, n + 1) : psi[p] = psi[q] => p = q
  <2> SUFFICES ASSUME NEW p \in FirstPlaces(bs, n + 1), NEW q \in FirstPlaces(bs, n + 1), psi[p] = psi[q]
               PROVE  p = q
    OBVIOUS
  <2>1. CASE p \in FirstPlaces(bs, n) /\ q \in FirstPlaces(bs, n)
    BY <1>5, <2>1 DEF IsFlattening
  <2>2. CASE p \notin FirstPlaces(bs, n) \/ q \notin FirstPlaces(bs, n)
    <3>1. PICK k, l, m, x : k = p[2] /\ l = q[2] /\ m = Len(t) /\ x = psi[p]
      OBVIOUS
    <3>2. \/ x \in 1..m /\ p \in FirstPlaces(bs, n)
          \/ k \in 1..Len(bs[n + 1]) /\ x = m + k /\ p = <<n + 1, k>>
      BY <1>7, <3>1
    <3>3. \/ x \in 1..m /\ q \in FirstPlaces(bs, n)
          \/ l \in 1..Len(bs[n + 1]) /\ x = m + l /\ q = <<n + 1, l>>
      BY <1>7, <3>1
    <3>4. m \in Nat /\ Len(bs[n + 1]) \in Nat
      BY <1>1, <3>1
    <3>5. k \in Nat /\ l \in Nat /\ x = m + k /\ x = m + l /\ p = <<n + 1, k>> /\ q = <<n + 1, l>>
      BY <2>2, <3>2, <3>3, <3>4
    <3>6. k = l
      BY <3>4, <3>5
    <3> QED
      BY <3>5, <3>6
  <2> QED
    BY <2>1, <2>2
<1>10. \A k \in DOMAIN u : \E p \in FirstPlaces(bs, n + 1) : psi[p] = k
  <2> SUFFICES ASSUME NEW k \in DOMAIN u PROVE \E p \in FirstPlaces(bs, n + 1) : psi[p] = k
    OBVIOUS
  <2>1. CASE k <= Len(t)
    <3>1. k \in DOMAIN t
      BY <1>1, <2>1
    <3> QED
      BY <1>3, <1>5, <3>1 DEF IsFlattening
  <2>2. CASE ~(k <= Len(t))
    <3>1. k - Len(t) \in 1..Len(bs[n + 1])
      BY <1>1, <2>2
    <3>2. psi[<<n + 1, k - Len(t)>>] = k
      BY <1>1, <1>6, <3>1
    <3> QED
      BY <1>4, <3>1, <3>2
  <2> QED
    BY <2>1, <2>2
<1>11. ASSUME NEW p \in FirstPlaces(bs, n + 1) PROVE u[psi[p]] = bs[p[1]][p[2]]
  <2>1. CASE p \in FirstPlaces(bs, n)
    <3>1. u[pos[p]] = t[pos[p]]
      BY <1>1, <1>5, <2>1
    <3>2. t[pos[p]] = bs[p[1]][p[2]]
      BY <2>1 DEF IsFlattening
    <3> QED
      BY <1>5, <2>1, <3>1, <3>2
  <2>2. CASE p \notin FirstPlaces(bs, n)
    BY <1>1, <1>7, <2>2
  <2> QED
    BY <2>1, <2>2
<1>12. IsFlattening(psi, bs, n + 1, u)
  BY <1>8, <1>9, <1>10, <1>11 DEF IsFlattening
<1> QED
  BY <1>12 DEF u

\* FlattenSeq keeps every instruction, and each has a place of its own.
LEMMA Flattening ==
  ASSUME NEW S, NEW bs \in Seq(Seq(S))
  PROVE  /\ FlattenSeq(bs) \in Seq(S)
         /\ \E pos : IsFlattening(pos, bs, Len(bs), FlattenSeq(bs))
<1>1. Len(bs) \in Nat /\ DOMAIN bs = 1..Len(bs) /\ \A i \in 1..Len(bs) : bs[i] \in Seq(S)
  OBVIOUS
<1>2. CASE Len(bs) = 0
  <2>1. bs = <<>> /\ FlattenSeq(bs) = bs
    BY <1>2 DEF FlattenSeq
  <2>2. Places(bs) = {} /\ FirstPlaces(bs, Len(bs)) = {}
    BY <2>1 DEF Places, FirstPlaces
  <2>3. PICK pos : pos = [p \in {} |-> 1]
    OBVIOUS
  <2>4. IsFlattening(pos, bs, Len(bs), FlattenSeq(bs))
    BY <2>1, <2>2, <2>3 DEF IsFlattening
  <2>5. <<>> \in Seq(S)
    OBVIOUS
  <2>6. FlattenSeq(bs) \in Seq(S)
    BY <2>1, <2>5
  <2> QED
    BY <2>4, <2>6
<1>3. CASE Len(bs) # 0
  <2> DEFINE Good(f, n) == f[n] \in Seq(S) /\ \E pos : IsFlattening(pos, bs, n, f[n])
  <2>1. PICK f : IsFlat(f, bs) /\ FlattenSeq(bs) = f[Len(bs)]
    BY <1>1, <1>3, FlatDef
  <2>2. \A i \in 1..Len(bs) : f[i] = IF i = 1 THEN bs[i] ELSE f[i - 1] \o bs[i]
    BY <2>1 DEF IsFlat
  <2>3. f[1] = bs[1] /\ f[1] \in Seq(S)
    BY <1>1, <1>3, <2>2
  <2>4. Good(f, 1)
    <3>1. PICK pos : pos = [p \in FirstPlaces(bs, 0) |-> 1]
      OBVIOUS
    <3>2. FirstPlaces(bs, 0) = {}
      <4> SUFFICES ASSUME NEW p \in FirstPlaces(bs, 0) PROVE FALSE
        OBVIOUS
      <4>1. PICK b \in DOMAIN bs : \E k \in DOMAIN bs[b] : p = <<b, k>>
        BY PlaceIn DEF FirstPlaces
      <4> QED
        BY <1>1, <4>1 DEF FirstPlaces
    <3>3. IsFlattening(pos, bs, 0, <<>>)
      BY <3>1, <3>2 DEF IsFlattening
    <3>4. 0 + 1 \in DOMAIN bs /\ <<>> \in Seq(S)
      BY <1>1, <1>3
    <3>5. \E psi : IsFlattening(psi, bs, 0 + 1, <<>> \o bs[0 + 1])
      BY <3>3, <3>4, FlattenBlock
    <3>6. <<>> \o bs[1] = bs[1] /\ 0 + 1 = 1
      BY <2>3
    <3> QED
      BY <2>3, <3>5, <3>6
  <2>5. ASSUME NEW n \in 1..(Len(bs) - 1), Good(f, n) PROVE Good(f, n + 1)
    <3>1. PICK pos : IsFlattening(pos, bs, n, f[n])
      BY <2>5
    <3>2. n + 1 \in DOMAIN bs /\ n \in Nat /\ f[n] \in Seq(S) /\ bs[n + 1] \in Seq(S)
      BY <1>1, <2>5
    <3>3. \E psi : IsFlattening(psi, bs, n + 1, f[n] \o bs[n + 1])
      BY <3>1, <3>2, FlattenBlock
    <3>4. f[n + 1] = f[n] \o bs[n + 1]
      <4>1. n + 1 \in 1..Len(bs) /\ n + 1 # 1 /\ (n + 1) - 1 = n
        BY <1>1
      <4> QED
        BY <2>2, <4>1
    <3>5. f[n + 1] \in Seq(S)
      BY <3>2, <3>4
    <3> QED
      BY <3>3, <3>4, <3>5
  <2>6. Good(f, Len(bs))
    <3> DEFINE K == {n \in 1..Len(bs) : Good(f, n)}
    <3>1. 1 \in K /\ \A n \in 1..(Len(bs) - 1) : n \in K => n + 1 \in K
      <4> HIDE DEF Good
      <4> QED
        BY <1>1, <1>3, <2>4, <2>5
    <3>2. \A n \in 1..Len(bs) : n \in K
      <4> HIDE DEF K
      <4> QED
        BY <1>1, <3>1, UpTo
    <3> QED
      BY <1>1, <1>3, <3>2
  <2> QED
    BY <2>1, <2>6
<1> QED
  BY <1>2, <1>3

\* A body has as many instructions as the block that holds them all.
LEMMA FlattenPlaces ==
  ASSUME NEW S, NEW bs \in Seq(Seq(S))
  PROVE  /\ FlattenSeq(bs) \in Seq(S)
         /\ \E pos : /\ pos \in [Places(bs) -> DOMAIN FlattenSeq(bs)]
                     /\ \A p, q \in Places(bs) : pos[p] = pos[q] => p = q
                     /\ \A k \in DOMAIN FlattenSeq(bs) : \E p \in Places(bs) : pos[p] = k
                     /\ \A p \in Places(bs) : FlattenSeq(bs)[pos[p]] = bs[p[1]][p[2]]
         /\ IsFiniteSet(Places(bs))
<1>1. FlattenSeq(bs) \in Seq(S)
  BY Flattening
<1>2. PICK pos : IsFlattening(pos, bs, Len(bs), FlattenSeq(bs))
  BY Flattening
<1>3. FirstPlaces(bs, Len(bs)) = Places(bs)
  <2> SUFFICES ASSUME NEW p \in Places(bs) PROVE p[1] <= Len(bs)
    BY DEF FirstPlaces
  <2>1. PICK b \in DOMAIN bs : \E k \in DOMAIN bs[b] : p = <<b, k>>
    BY PlaceIn
  <2> QED
    BY <2>1
<1>4. /\ pos \in [Places(bs) -> DOMAIN FlattenSeq(bs)]
      /\ \A p, q \in Places(bs) : pos[p] = pos[q] => p = q
      /\ \A k \in DOMAIN FlattenSeq(bs) : \E p \in Places(bs) : pos[p] = k
      /\ \A p \in Places(bs) : FlattenSeq(bs)[pos[p]] = bs[p[1]][p[2]]
  BY <1>2, <1>3 DEF IsFlattening
<1>5. IsFiniteSet(DOMAIN FlattenSeq(bs))
  <2>1. DOMAIN FlattenSeq(bs) = 1..Len(FlattenSeq(bs)) /\ Len(FlattenSeq(bs)) \in Nat
    BY <1>1
  <2> QED
    BY <2>1, FS_Interval
<1>6. pos \in Injection(Places(bs), DOMAIN FlattenSeq(bs))
  BY <1>4 DEF Injection, IsInjective
<1>7. IsFiniteSet(Places(bs))
  BY <1>5, <1>6, FS_Injection
<1> QED
  BY <1>1, <1>4, <1>7

\* pi maps S onto T, one to one.
OneToOne(pi, S, T) ==
  /\ pi \in [S -> T]
  /\ \A p, q \in S : pi[p] = pi[q] => p = q
  /\ \A r \in T : \E p \in S : pi[p] = r

LEMMA SameNumber ==
  ASSUME NEW S, NEW T, NEW pi, OneToOne(pi, S, T), IsFiniteSet(S)
  PROVE  IsFiniteSet(T) /\ Cardinality(T) = Cardinality(S)
<1>1. pi \in Bijection(S, T)
  BY DEF OneToOne, Bijection, Injection, Surjection, IsInjective
<1>2. ExistsBijection(S, T)
  BY <1>1 DEF ExistsBijection
<1> QED
  BY <1>2, FS_Bijection

\* The bodies bs and cs differ in the order of the instructions of a block.
Reordering(pi, bs, cs) ==
  /\ DOMAIN bs = DOMAIN cs
  /\ OneToOne(pi, Places(bs), Places(cs))
  /\ \A p \in Places(bs) : OpAt(cs, pi[p]) = OpAt(bs, p) /\ pi[p][1] = p[1]

Reordered(bs, cs) == \E pi : Reordering(pi, bs, cs)

Bodies == Seq(Seq([op : {"op", "cmp", "br", "ret", "call"}, home : Nat, callee : Nat]))

\* Matching counts these.
Matches(bs, cs) ==
  {q \in Places(bs) \X DOMAIN cs : \E in2 \in ToSet(cs[q[2]]) : in2.op = OpAt(bs, q[1])}

LEMMA FiniteMatches ==
  ASSUME NEW bs \in Bodies, NEW cs \in Bodies
  PROVE  IsFiniteSet(Places(bs)) /\ IsFiniteSet(Matches(bs, cs))
<1>1. IsFiniteSet(Places(bs))
  BY FlattenPlaces DEF Bodies
<1>2. IsFiniteSet(DOMAIN cs)
  <2>1. DOMAIN cs = 1..Len(cs) /\ Len(cs) \in Nat
    BY DEF Bodies
  <2> QED
    BY <2>1, FS_Interval
<1>3. IsFiniteSet(Places(bs) \X DOMAIN cs)
  BY <1>1, <1>2, FS_Product
<1>4. Matches(bs, cs) \subseteq Places(bs) \X DOMAIN cs
  BY DEF Matches
<1>5. Matches(bs, cs) \in SUBSET (Places(bs) \X DOMAIN cs)
  BY <1>4
<1> QED
  BY <1>1, <1>3, <1>5, FS_Subset

\* A block has the same kinds of instructions when they are in another order.
LEMMA SameKinds ==
  ASSUME NEW bs, NEW cs, Reordered(bs, cs), NEW b \in DOMAIN bs, NEW o
  PROVE  (\E in2 \in ToSet(bs[b]) : in2.op = o) <=> (\E in2 \in ToSet(cs[b]) : in2.op = o)
<1>1. PICK pi : Reordering(pi, bs, cs)
  BY DEF Reordered
<1>2. ASSUME NEW in1 \in ToSet(bs[b]), in1.op = o PROVE \E in2 \in ToSet(cs[b]) : in2.op = o
  <2>1. PICK k \in DOMAIN bs[b] : bs[b][k] = in1
    BY <1>2 DEF ToSet
  <2>2. PICK p : p = <<b, k>>
    OBVIOUS
  <2>3. p \in Places(bs) /\ OpAt(bs, p) = o /\ p[1] = b
    BY <1>2, <2>1, <2>2, PlaceIn DEF OpAt
  <2>4. pi[p] \in Places(cs) /\ OpAt(cs, pi[p]) = o /\ pi[p][1] = b
    BY <1>1, <2>3 DEF Reordering, OneToOne
  <2>5. PICK c \in DOMAIN cs : \E l \in DOMAIN cs[c] : pi[p] = <<c, l>>
    BY <2>4, PlaceIn
  <2>6. PICK l \in DOMAIN cs[c] : pi[p] = <<c, l>>
    BY <2>5
  <2>7. c = b /\ cs[b][l].op = o /\ cs[b][l] \in ToSet(cs[b])
    BY <2>4, <2>6 DEF OpAt, ToSet
  <2> QED
    BY <2>7
<1>3. ASSUME NEW in2 \in ToSet(cs[b]), in2.op = o PROVE \E in1 \in ToSet(bs[b]) : in1.op = o
  <2>1. PICK k \in DOMAIN cs[b] : cs[b][k] = in2
    BY <1>3 DEF ToSet
  <2>2. PICK r : r = <<b, k>>
    OBVIOUS
  <2>3. r \in Places(cs) /\ OpAt(cs, r) = o /\ r[1] = b
    BY <1>1, <1>3, <2>1, <2>2, PlaceIn DEF OpAt, Reordering
  <2>4. PICK p \in Places(bs) : pi[p] = r
    BY <1>1, <2>3 DEF Reordering, OneToOne
  <2>5. OpAt(bs, p) = o /\ p[1] = b
    BY <1>1, <2>3, <2>4 DEF Reordering
  <2>6. PICK c \in DOMAIN bs : \E l \in DOMAIN bs[c] : p = <<c, l>>
    BY PlaceIn
  <2>7. PICK l \in DOMAIN bs[c] : p = <<c, l>>
    BY <2>6
  <2>8. c = b /\ bs[b][l].op = o /\ bs[b][l] \in ToSet(bs[b])
    BY <2>5, <2>7 DEF OpAt, ToSet
  <2> QED
    BY <2>8
<1> QED
  BY <1>2, <1>3

LEMMA MatchesKept ==
  ASSUME NEW bs \in Bodies, NEW cs \in Bodies, NEW ds \in Bodies, NEW es \in Bodies,
         Reordered(bs, cs), Reordered(ds, es)
  PROVE  /\ Cardinality(Places(bs)) = Cardinality(Places(cs))
         /\ Cardinality(Matches(bs, ds)) = Cardinality(Matches(cs, es))
<1>1. PICK pi : Reordering(pi, bs, cs)
  BY DEF Reordered
<1>2. OneToOne(pi, Places(bs), Places(cs)) /\ DOMAIN ds = DOMAIN es
  BY <1>1 DEF Reordered, Reordering
<1>3. Cardinality(Places(bs)) = Cardinality(Places(cs))
  BY <1>2, FiniteMatches, SameNumber
<1> DEFINE rho == [q \in Matches(bs, ds) |-> <<pi[q[1]], q[2]>>]
<1>4. ASSUME NEW q \in Matches(bs, ds)
      PROVE  rho[q] \in Matches(cs, es) /\ q = <<q[1], q[2]>> /\ q[1] \in Places(bs)
  <2>1. q[1] \in Places(bs) /\ q[2] \in DOMAIN ds /\ q = <<q[1], q[2]>>
    BY DEF Matches
  <2>2. PICK r : r = <<pi[q[1]], q[2]>>
    OBVIOUS
  <2>3. r \in Places(cs) \X DOMAIN es /\ r[2] = q[2]
    BY <1>2, <2>1, <2>2 DEF OneToOne
  <2>4. OpAt(cs, r[1]) = OpAt(bs, q[1])
    BY <1>1, <2>1, <2>2 DEF Reordering
  <2>5. \E in2 \in ToSet(ds[q[2]]) : in2.op = OpAt(bs, q[1])
    BY DEF Matches
  <2>6. \E in2 \in ToSet(es[r[2]]) : in2.op = OpAt(cs, r[1])
    BY <2>1, <2>3, <2>4, <2>5, SameKinds
  <2>7. r \in Matches(cs, es)
    BY <2>3, <2>6 DEF Matches
  <2> QED
    BY <2>1, <2>2, <2>7
<1>5. ASSUME NEW r \in Matches(cs, es) PROVE \E q \in Matches(bs, ds) : rho[q] = r
  <2>1. r[1] \in Places(cs) /\ r[2] \in DOMAIN ds /\ r = <<r[1], r[2]>>
    BY <1>2 DEF Matches
  <2>2. PICK p \in Places(bs) : pi[p] = r[1]
    BY <1>2, <2>1 DEF OneToOne
  <2>3. PICK q : q = <<p, r[2]>>
    OBVIOUS
  <2>4. q \in Places(bs) \X DOMAIN ds /\ q[1] = p /\ q[2] = r[2]
    BY <2>1, <2>2, <2>3
  <2>5. OpAt(cs, r[1]) = OpAt(bs, q[1])
    BY <1>1, <2>2, <2>4 DEF Reordering
  <2>6. \E in2 \in ToSet(es[r[2]]) : in2.op = OpAt(cs, r[1])
    BY DEF Matches
  <2>7. \E in2 \in ToSet(ds[q[2]]) : in2.op = OpAt(bs, q[1])
    BY <2>1, <2>4, <2>5, <2>6, SameKinds
  <2>8. q \in Matches(bs, ds)
    BY <2>4, <2>7 DEF Matches
  <2>9. rho[q] = r
    BY <2>1, <2>2, <2>4, <2>8
  <2> QED
    BY <2>8, <2>9
<1>6. ASSUME NEW q \in Matches(bs, ds), NEW r \in Matches(bs, ds), rho[q] = rho[r] PROVE q = r
  <2>1. pi[q[1]] = pi[r[1]] /\ q[2] = r[2]
    BY <1>6
  <2>2. PICK x, y : x = q[1] /\ y = r[1]
    OBVIOUS
  <2>3. x \in Places(bs) /\ y \in Places(bs) /\ pi[x] = pi[y]
    BY <1>4, <2>1, <2>2
  <2>4. q[1] = r[1]
    BY <1>2, <2>2, <2>3 DEF OneToOne
  <2> QED
    BY <1>4, <2>1, <2>4
<1>7. rho \in [Matches(bs, ds) -> Matches(cs, es)]
  <2>1. \A q \in Matches(bs, ds) : rho[q] \in Matches(cs, es)
    BY <1>4
  <2> QED
    BY <2>1
<1>8. OneToOne(rho, Matches(bs, ds), Matches(cs, es))
  <2> HIDE DEF rho
  <2> QED
    BY <1>5, <1>6, <1>7 DEF OneToOne
<1>9. Cardinality(Matches(bs, ds)) = Cardinality(Matches(cs, es))
  <2> HIDE DEF rho
  <2> QED
    BY <1>8, FiniteMatches, SameNumber
<1> QED
  BY <1>3, <1>9

Functions(n) == [ret : {"int", "float", "void"}, args : Nat, blocks : Seq(Seq(Instruction(n)))]

LEMMA WiderSeq == ASSUME NEW S, NEW T, S \subseteq T PROVE Seq(S) \subseteq Seq(T)
<1> SUFFICES ASSUME NEW s \in Seq(S) PROVE s \in Seq(T)
  OBVIOUS
<1>1. Len(s) \in Nat /\ s \in [1..Len(s) -> S]
  OBVIOUS
<1>2. s \in [1..Len(s) -> T]
  BY <1>1
<1> QED
  BY <1>1, <1>2

LEMMA WiderBlocks == ASSUME NEW S, NEW T, S \subseteq T PROVE Seq(Seq(S)) \subseteq Seq(Seq(T))
BY WiderSeq

LEMMA FunctionFacts ==
  ASSUME NEW n \in Nat, NEW f \in Functions(n)
  PROVE  /\ f.blocks \in Bodies /\ f.blocks \in Seq(Seq(Instruction(n))) /\ DOMAIN f.blocks = 1..Len(f.blocks)
         /\ Len(f.blocks) \in Nat
         /\ \A b \in DOMAIN f.blocks : /\ f.blocks[b] \in Seq(Instruction(n))
                                       /\ DOMAIN f.blocks[b] = 1..Len(f.blocks[b])
                                       /\ Len(f.blocks[b]) \in Nat
<1>1. f.blocks \in Seq(Seq(Instruction(n)))
  BY DEF Functions
<1>2. Instruction(n) \subseteq [op : {"op", "cmp", "br", "ret", "call"}, home : Nat, callee : Nat]
  BY DEF Instruction
<1>3. f.blocks \in Bodies
  BY <1>1, <1>2, WiderBlocks DEF Bodies
<1>4. \A b \in DOMAIN f.blocks : f.blocks[b] \in Seq(Instruction(n))
  BY <1>1
<1> QED
  BY <1>1, <1>3, <1>4

LEMMA FunctionsFacts ==
  ASSUME NEW fs, IsFunctions(fs)
  PROVE  /\ fs \in Seq(Functions(Len(fs))) /\ Len(fs) \in Nat /\ DOMAIN fs = 1..Len(fs)
         /\ \A f \in DOMAIN fs : fs[f] \in Functions(Len(fs))
<1>1. fs \in Seq(Functions(Len(fs)))
  BY DEF IsFunctions, Functions
<1> QED
  BY <1>1

\* fs and gs differ in the order of the instructions of a block.
Alike(fs, gs) ==
  /\ DOMAIN fs = DOMAIN gs
  /\ \A f \in DOMAIN fs : /\ fs[f].ret = gs[f].ret /\ fs[f].args = gs[f].args
                          /\ Reordered(fs[f].blocks, gs[f].blocks)

LEMMA SimilarKept ==
  ASSUME NEW fs, NEW gs, IsFunctions(fs), IsFunctions(gs), Alike(fs, gs),
         NEW f \in DOMAIN fs, NEW g \in DOMAIN fs
  PROVE  Similar(fs[f], fs[g]) <=> Similar(gs[f], gs[g])
<1>1. /\ Reordered(fs[f].blocks, gs[f].blocks) /\ Reordered(fs[g].blocks, gs[g].blocks)
      /\ fs[f].ret = gs[f].ret /\ fs[f].args = gs[f].args
      /\ fs[g].ret = gs[g].ret /\ fs[g].args = gs[g].args
  BY DEF Alike
<1>2. /\ fs[f].blocks \in Bodies /\ fs[g].blocks \in Bodies
      /\ gs[f].blocks \in Bodies /\ gs[g].blocks \in Bodies
  <2>1. /\ fs[f] \in Functions(Len(fs)) /\ fs[g] \in Functions(Len(fs)) /\ Len(fs) \in Nat
        /\ gs[f] \in Functions(Len(gs)) /\ gs[g] \in Functions(Len(gs)) /\ Len(gs) \in Nat
    BY FunctionsFacts DEF Alike
  <2> QED
    BY <2>1, FunctionFacts
<1>3. /\ Cardinality(Places(fs[f].blocks)) = Cardinality(Places(gs[f].blocks))
      /\ Cardinality(Matches(fs[f].blocks, fs[g].blocks)) = Cardinality(Matches(gs[f].blocks, gs[g].blocks))
  BY <1>1, <1>2, MatchesKept
<1>4. \A f1, f2 : Matching(f1, f2) = Cardinality(Matches(f1.blocks, f2.blocks))
  BY DEF Matching, Matches
<1> QED
  BY <1>1, <1>3, <1>4 DEF Similar

LEMMA OwnIn ==
  ASSUME NEW fs, NEW of, NEW e
  PROVE  e \in Own(fs, of) <=> \E f \in of : \E p \in Places(fs[f].blocks) :
                                  OpAt(fs[f].blocks, p) \in {"op", "ret"} /\ e = <<f, p>>
BY DEF Own

LEMMA OwnKept ==
  ASSUME NEW fs, NEW gs, Alike(fs, gs), NEW of \in SUBSET DOMAIN fs, IsFiniteSet(Own(fs, of))
  PROVE  IsFiniteSet(Own(gs, of)) /\ Cardinality(Own(gs, of)) = Cardinality(Own(fs, of))
<1> DEFINE pi(f) == CHOOSE x : Reordering(x, fs[f].blocks, gs[f].blocks)
           rho == [e \in Own(fs, of) |-> <<e[1], pi(e[1])[e[2]]>>]
<1>1. ASSUME NEW f \in of PROVE Reordering(pi(f), fs[f].blocks, gs[f].blocks)
  BY DEF Alike, Reordered
<1> HIDE DEF pi
<1>2. ASSUME NEW e \in Own(fs, of)
      PROVE  /\ e[1] \in of /\ e[2] \in Places(fs[e[1]].blocks) /\ e = <<e[1], e[2]>>
             /\ rho[e] = <<e[1], pi(e[1])[e[2]]>> /\ rho[e] \in Own(gs, of)
  <2>1. PICK f \in of : \E p \in Places(fs[f].blocks) :
                           OpAt(fs[f].blocks, p) \in {"op", "ret"} /\ e = <<f, p>>
    BY OwnIn
  <2>2. PICK p \in Places(fs[f].blocks) : OpAt(fs[f].blocks, p) \in {"op", "ret"} /\ e = <<f, p>>
    BY <2>1
  <2>3. pi(f)[p] \in Places(gs[f].blocks) /\ OpAt(gs[f].blocks, pi(f)[p]) \in {"op", "ret"}
    BY <1>1, <2>2 DEF Reordering, OneToOne
  <2>4. <<f, pi(f)[p]>> \in Own(gs, of)
    BY <2>3, OwnIn
  <2> QED
    BY <2>2, <2>4
<1>3. ASSUME NEW r \in Own(gs, of) PROVE \E e \in Own(fs, of) : rho[e] = r
  <2>1. PICK f \in of : \E p \in Places(gs[f].blocks) :
                           OpAt(gs[f].blocks, p) \in {"op", "ret"} /\ r = <<f, p>>
    BY OwnIn
  <2>2. PICK q \in Places(gs[f].blocks) : OpAt(gs[f].blocks, q) \in {"op", "ret"} /\ r = <<f, q>>
    BY <2>1
  <2>3. PICK p \in Places(fs[f].blocks) : pi(f)[p] = q
    BY <1>1, <2>2 DEF Reordering, OneToOne
  <2>4. OpAt(fs[f].blocks, p) \in {"op", "ret"}
    BY <1>1, <2>2, <2>3 DEF Reordering
  <2>5. PICK e : e = <<f, p>>
    OBVIOUS
  <2>6. e \in Own(fs, of) /\ e[1] = f /\ e[2] = p
    BY <2>4, <2>5, OwnIn
  <2>7. rho[e] = r
    BY <2>2, <2>3, <2>6
  <2> QED
    BY <2>6, <2>7
<1>4. rho \in [Own(fs, of) -> Own(gs, of)]
  <2>1. \A e \in Own(fs, of) : rho[e] \in Own(gs, of)
    BY <1>2
  <2> QED
    BY <2>1
<1> HIDE DEF rho
<1>5. ASSUME NEW d \in Own(fs, of), NEW e \in Own(fs, of), rho[d] = rho[e] PROVE d = e
  <2>1. PICK f, p, q : f = d[1] /\ p = d[2] /\ q = e[2]
    OBVIOUS
  <2>2. e[1] = f /\ pi(f)[p] = pi(f)[q]
    BY <1>2, <1>5, <2>1
  <2>3. f \in of /\ p \in Places(fs[f].blocks) /\ q \in Places(fs[f].blocks)
    BY <1>2, <2>1, <2>2
  <2>4. p = q
    BY <1>1, <2>2, <2>3 DEF Reordering, OneToOne
  <2> QED
    BY <1>2, <2>1, <2>2, <2>4
<1>6. OneToOne(rho, Own(fs, of), Own(gs, of))
  BY <1>3, <1>4, <1>5 DEF OneToOne
<1> QED
  BY <1>6, SameNumber

\* t is s, of m members, without the k-th.
IsRemoved(t, S, s, k, m) ==
  /\ m \in Nat /\ k \in 1..m /\ DOMAIN s = 1..m
  /\ t \in Seq(S) /\ Len(t) = m - 1
  /\ \A n \in 1..(m - 1) : t[n] = IF n < k THEN s[n] ELSE s[n + 1]

LEMMA Removed ==
  ASSUME NEW S, NEW s \in Seq(S), NEW k \in DOMAIN s, NEW m, m = Len(s), NEW t, t = RemoveAt(s, k)
  PROVE  IsRemoved(t, S, s, k, m)
<1>1. m \in Nat /\ k \in 1..m /\ DOMAIN s = 1..m /\ \A n \in 1..m : s[n] \in S
  OBVIOUS
<1>2. PICK l, r : l = SubSeq(s, 1, k - 1) /\ r = SubSeq(s, k + 1, m)
  OBVIOUS
<1>3. l \in Seq(S) /\ Len(l) = k - 1 /\ \A n \in 1..(k - 1) : l[n] = s[n]
  <2>1. \A n \in 1..(k - 1) : s[n] \in S
    BY <1>1
  <2> QED
    BY <1>1, <1>2, <2>1
<1>4. r \in Seq(S) /\ Len(r) = m - k /\ \A n \in 1..(m - k) : r[n] = s[k + n]
  <2>1. \A n \in (k + 1)..m : s[n] \in S
    BY <1>1
  <2> QED
    BY <1>1, <1>2, <2>1
<1>5. t = l \o r
  BY <1>2 DEF RemoveAt
<1>6. /\ t \in Seq(S) /\ Len(t) = Len(l) + Len(r)
      /\ \A n \in 1..(Len(l) + Len(r)) : t[n] = IF n <= Len(l) THEN l[n] ELSE r[n - Len(l)]
  <2>1. l \in Seq(S) /\ r \in Seq(S)
    BY <1>3, <1>4
  <2>2. /\ l \o r \in Seq(S) /\ Len(l \o r) = Len(l) + Len(r)
        /\ \A n \in 1..(Len(l) + Len(r)) : (l \o r)[n] = IF n <= Len(l) THEN l[n] ELSE r[n - Len(l)]
    BY <2>1, ConcatProperties
  <2> QED
    BY <1>5, <2>2
<1>7. Len(t) = m - 1
  BY <1>1, <1>3, <1>4, <1>6
<1>8. ASSUME NEW n \in 1..(m - 1) PROVE t[n] = IF n < k THEN s[n] ELSE s[n + 1]
  <2>1. n \in 1..(Len(l) + Len(r)) /\ (n <= Len(l) <=> n < k)
    BY <1>1, <1>3, <1>4
  <2>2. CASE n < k
    BY <1>1, <1>3, <1>6, <2>1, <2>2
  <2>3. CASE ~(n < k)
    <3>1. t[n] = r[n - (k - 1)]
      BY <1>3, <1>6, <2>1, <2>3
    <3>2. n - (k - 1) \in 1..(m - k) /\ k + (n - (k - 1)) = n + 1
      BY <1>1, <2>3
    <3>3. r[n - (k - 1)] = s[n + 1]
      BY <1>4, <3>2
    <3> QED
      BY <2>3, <3>1, <3>3
  <2> QED
    BY <2>2, <2>3
<1> QED
  BY <1>1, <1>6, <1>7, <1>8 DEF IsRemoved

\* t is s and x behind it.
IsAppended(t, S, s, x) ==
  /\ t \in Seq(S) /\ Len(t) = Len(s) + 1
  /\ \A n \in 1..Len(s) : t[n] = s[n]
  /\ t[Len(s) + 1] = x

LEMMA Appended ==
  ASSUME NEW S, NEW s \in Seq(S), NEW x \in S, NEW t, t = Append(s, x)
  PROVE  IsAppended(t, S, s, x)
BY AppendProperties DEF IsAppended

\* t is s, of m members, without the k-th and with x at the end.
IsRelocated(t, S, s, k, x, m) ==
  /\ m \in Nat /\ k \in 1..m /\ DOMAIN s = 1..m
  /\ t \in Seq(S) /\ DOMAIN t = 1..m /\ Len(t) = m
  /\ \A n \in 1..m : n < k => t[n] = s[n]
  /\ \A n \in 1..m : k <= n /\ n < m => t[n] = s[n + 1]
  /\ t[m] = x

\* A call that is taken out of its block, and the one put at its end.
LEMMA Relocated ==
  ASSUME NEW S, NEW s \in Seq(S), NEW k \in DOMAIN s, NEW x \in S,
         NEW m, m = Len(s), NEW t, t = Append(RemoveAt(s, k), x)
  PROVE  IsRelocated(t, S, s, k, x, m)
<1>1. PICK u : u = RemoveAt(s, k)
  OBVIOUS
<1>2. /\ m \in Nat /\ k \in 1..m /\ DOMAIN s = 1..m
      /\ u \in Seq(S) /\ Len(u) = m - 1
      /\ \A n \in 1..(m - 1) : u[n] = IF n < k THEN s[n] ELSE s[n + 1]
  <2>1. IsRemoved(u, S, s, k, m)
    BY <1>1, Removed
  <2> QED
    BY <2>1 DEF IsRemoved
<1>3. t = Append(u, x)
  BY <1>1
<1>4. /\ t \in Seq(S) /\ Len(t) = Len(u) + 1
      /\ \A n \in 1..Len(u) : t[n] = u[n]
      /\ t[Len(u) + 1] = x
  BY <1>2, <1>3, AppendProperties
<1>5. Len(t) = m /\ t[m] = x
  BY <1>2, <1>4
<1>6. DOMAIN t = 1..m
  BY <1>4, <1>5
<1>7. \A n \in 1..m : n < k => t[n] = s[n]
  <2> SUFFICES ASSUME NEW n \in 1..m, n < k PROVE t[n] = s[n]
    OBVIOUS
  <2>1. n \in 1..(m - 1)
    BY <1>2
  <2> QED
    BY <1>2, <1>4, <2>1
<1>8. \A n \in 1..m : k <= n /\ n < m => t[n] = s[n + 1]
  <2> SUFFICES ASSUME NEW n \in 1..m, k <= n, n < m PROVE t[n] = s[n + 1]
    OBVIOUS
  <2>1. n \in 1..(m - 1) /\ ~(n < k)
    BY <1>2
  <2> QED
    BY <1>2, <1>4, <2>1
<1> QED
  BY <1>2, <1>4, <1>5, <1>6, <1>7, <1>8 DEF IsRelocated

\* Where the n-th of m instructions goes when the k-th goes to the end.
NewPlace(m, k, n) == IF n < k THEN n ELSE IF n = k THEN m ELSE n - 1

LEMMA NewPlaces ==
  ASSUME NEW m \in Nat, NEW k \in 1..m
  PROVE  /\ \A n \in 1..m : NewPlace(m, k, n) \in 1..m
         /\ \A l, n \in 1..m : NewPlace(m, k, l) = NewPlace(m, k, n) => l = n
         /\ \A l \in 1..m : \E n \in 1..m : NewPlace(m, k, n) = l
<1>1. \A n \in 1..m : NewPlace(m, k, n) \in 1..m
  BY DEF NewPlace
<1>2. \A l, n \in 1..m : NewPlace(m, k, l) = NewPlace(m, k, n) => l = n
  BY DEF NewPlace
<1>3. ASSUME NEW l \in 1..m PROVE \E n \in 1..m : NewPlace(m, k, n) = l
  <2>1. CASE l < k
    BY <2>1 DEF NewPlace
  <2>2. CASE l >= k /\ l < m
    <3>1. l + 1 \in 1..m /\ NewPlace(m, k, l + 1) = l
      BY <2>2 DEF NewPlace
    <3> QED
      BY <3>1
  <2>3. CASE l = m
    <3>1. NewPlace(m, k, k) = l
      BY <2>3 DEF NewPlace
    <3> QED
      BY <3>1
  <2> QED
    BY <2>1, <2>2, <2>3
<1> QED
  BY <1>1, <1>2, <1>3

\* What is left of the body bs when the k-th instruction of a block gives way
\* to x, at the end of the block.
IsRelocatedBody(cs, S, bs, b, k, x) ==
  /\ cs \in Seq(Seq(S)) /\ DOMAIN cs = DOMAIN bs
  /\ \A c \in DOMAIN bs : c # b => cs[c] = bs[c]
  /\ DOMAIN cs[b] = DOMAIN bs[b]
  /\ \A n \in DOMAIN bs[b] : n < k => cs[b][n] = bs[b][n]
  /\ \A n \in DOMAIN bs[b] : cs[b][n] = x \/ \E l \in DOMAIN bs[b] : cs[b][n] = bs[b][l]
  /\ Len(cs[b]) \in DOMAIN cs[b] /\ cs[b][Len(cs[b])] = x
  /\ Reordered(bs, cs)

LEMMA RelocatedBody ==
  ASSUME NEW S, NEW bs \in Seq(Seq(S)), NEW b \in DOMAIN bs, NEW k \in DOMAIN bs[b], NEW x \in S,
         x.op = bs[b][k].op, NEW cs, cs = [bs EXCEPT ![b] = Append(RemoveAt(bs[b], k), x)]
  PROVE  IsRelocatedBody(cs, S, bs, b, k, x)
<1>1. bs[b] \in Seq(S) /\ DOMAIN bs = 1..Len(bs) /\ Len(bs) \in Nat
  OBVIOUS
<1>2. PICK s, m, t : s = bs[b] /\ m = Len(s) /\ t = Append(RemoveAt(s, k), x)
  OBVIOUS
<1>3. /\ m \in Nat /\ k \in 1..m /\ DOMAIN s = 1..m
      /\ t \in Seq(S) /\ DOMAIN t = 1..m /\ Len(t) = m
      /\ \A n \in 1..m : n < k => t[n] = s[n]
      /\ \A n \in 1..m : k <= n /\ n < m => t[n] = s[n + 1]
      /\ t[m] = x
  <2>1. s \in Seq(S) /\ k \in DOMAIN s
    BY <1>1, <1>2
  <2>2. m = Len(s) /\ t = Append(RemoveAt(s, k), x)
    BY <1>2
  <2>3. IsRelocated(t, S, s, k, x, m)
    BY <2>1, <2>2, Relocated
  <2> QED
    BY <2>3 DEF IsRelocated
<1>4. cs = [bs EXCEPT ![b] = t]
  BY <1>2
<1>5. DOMAIN cs = DOMAIN bs /\ cs[b] = t /\ \A c \in DOMAIN bs : c # b => cs[c] = bs[c]
  BY <1>4
<1>6. cs \in Seq(Seq(S))
  <2>1. b \in 1..Len(bs) /\ t \in Seq(S)
    BY <1>3
  <2>2. [bs EXCEPT ![b] = t] \in Seq(Seq(S))
    BY <2>1, ExceptSeq
  <2> QED
    BY <1>4, <2>2
<1>7. DOMAIN cs[b] = DOMAIN bs[b] /\ DOMAIN bs[b] = 1..m
  BY <1>2, <1>3, <1>5
<1>8. \A n \in DOMAIN bs[b] : n < k => cs[b][n] = bs[b][n]
  BY <1>2, <1>3, <1>5
<1>9. ASSUME NEW n \in DOMAIN bs[b]
      PROVE  cs[b][n] = x \/ \E l \in DOMAIN bs[b] : cs[b][n] = bs[b][l]
  <2>1. CASE n < k
    BY <1>8, <2>1
  <2>2. CASE n = m
    BY <1>3, <1>5, <2>2
  <2>3. CASE k <= n /\ n < m
    <3>1. n + 1 \in DOMAIN bs[b] /\ cs[b][n] = bs[b][n + 1]
      BY <1>2, <1>3, <1>5, <1>7, <2>3
    <3> QED
      BY <3>1
  <2> QED
    BY <1>3, <1>7, <2>1, <2>2, <2>3
<1>10. Places(cs) = Places(bs)
  <2>1. ASSUME NEW c \in DOMAIN bs PROVE DOMAIN cs[c] = DOMAIN bs[c]
    BY <1>5, <1>7
  <2> QED
    BY <1>5, <2>1 DEF Places
<1>11. /\ \A n \in 1..m : NewPlace(m, k, n) \in 1..m
       /\ \A l, n \in 1..m : NewPlace(m, k, l) = NewPlace(m, k, n) => l = n
       /\ \A l \in 1..m : \E n \in 1..m : NewPlace(m, k, n) = l
  <2>1. m \in Nat /\ k \in 1..m
    BY <1>3
  <2> QED
    BY <2>1, NewPlaces
<1>12. ASSUME NEW n \in 1..m PROVE t[NewPlace(m, k, n)].op = s[n].op
  <2>1. CASE n < k
    BY <1>3, <2>1 DEF NewPlace
  <2>2. CASE n = k
    <3>1. NewPlace(m, k, n) = m
      BY <1>3, <2>2 DEF NewPlace
    <3> QED
      BY <1>2, <1>3, <2>2, <3>1
  <2>3. CASE n > k
    <3>1. NewPlace(m, k, n) = n - 1 /\ n - 1 \in 1..m /\ k <= n - 1 /\ n - 1 < m /\ (n - 1) + 1 = n
      BY <1>3, <2>3 DEF NewPlace
    <3>2. t[n - 1] = s[n]
      BY <1>3, <3>1
    <3> QED
      BY <3>1, <3>2
  <2> QED
    BY <1>3, <2>1, <2>2, <2>3
<1> DEFINE pi == [p \in Places(bs) |-> IF p[1] = b THEN <<b, NewPlace(m, k, p[2])>> ELSE p]
<1>13. ASSUME NEW p \in Places(bs)
       PROVE  /\ p[1] \in DOMAIN bs /\ p[2] \in DOMAIN bs[p[1]] /\ p = <<p[1], p[2]>>
              /\ p[1] = b => p[2] \in 1..m
  <2>1. PICK c \in DOMAIN bs : \E n \in DOMAIN bs[c] : p = <<c, n>>
    BY PlaceIn
  <2>2. PICK n \in DOMAIN bs[c] : p = <<c, n>>
    BY <2>1
  <2> QED
    BY <1>7, <2>2
<1>14. \A n \in 1..m : <<b, n>> \in Places(bs)
  BY <1>7, PlaceIn
<1>15. ASSUME NEW p \in Places(bs)
       PROVE  /\ p[1] = b => pi[p] = <<b, NewPlace(m, k, p[2])>>
              /\ p[1] # b => pi[p] = p
              /\ pi[p] \in Places(bs) /\ pi[p][1] = p[1]
  <2>1. CASE p[1] = b
    <3>1. PICK n : n = p[2]
      OBVIOUS
    <3>2. n \in 1..m /\ NewPlace(m, k, n) \in 1..m
      BY <1>11, <1>13, <2>1, <3>1
    <3>3. pi[p] = <<b, NewPlace(m, k, n)>>
      BY <2>1, <3>1
    <3> QED
      BY <1>14, <2>1, <3>1, <3>2, <3>3
  <2>2. CASE p[1] # b
    BY <2>2
  <2> QED
    BY <2>1, <2>2
<1>16. pi \in [Places(bs) -> Places(bs)]
  <2>1. \A p \in Places(bs) : pi[p] \in Places(bs)
    BY <1>15
  <2> QED
    BY <2>1
<1> HIDE DEF pi
<1>17. ASSUME NEW p \in Places(bs), NEW q \in Places(bs), pi[p] = pi[q] PROVE p = q
  <2>1. p[1] = q[1]
    BY <1>15, <1>17
  <2>2. CASE p[1] = b
    <3>1. PICK l, n : l = p[2] /\ n = q[2]
      OBVIOUS
    <3>2. <<b, NewPlace(m, k, l)>> = <<b, NewPlace(m, k, n)>> /\ l \in 1..m /\ n \in 1..m
      BY <1>13, <1>15, <1>17, <2>1, <2>2, <3>1
    <3>3. l = n
      BY <1>11, <3>2
    <3> QED
      BY <1>13, <2>1, <3>1, <3>3
  <2>3. CASE p[1] # b
    BY <1>15, <1>17, <2>1, <2>3
  <2> QED
    BY <2>2, <2>3
<1>18. ASSUME NEW r \in Places(bs) PROVE \E p \in Places(bs) : pi[p] = r
  <2>1. CASE r[1] = b
    <3>1. PICK n \in 1..m : NewPlace(m, k, n) = r[2]
      BY <1>11, <1>13, <2>1
    <3>2. PICK p : p = <<b, n>>
      OBVIOUS
    <3>3. p \in Places(bs) /\ p[1] = b /\ p[2] = n
      BY <1>14, <3>2
    <3>4. pi[p] = <<r[1], r[2]>>
      BY <1>15, <2>1, <3>1, <3>3
    <3> QED
      BY <1>13, <3>3, <3>4
  <2>2. CASE r[1] # b
    BY <1>15, <2>2
  <2> QED
    BY <2>1, <2>2
<1>19. ASSUME NEW p \in Places(bs) PROVE OpAt(cs, pi[p]) = OpAt(bs, p)
  <2>1. CASE p[1] = b
    <3>1. PICK n : n = p[2]
      OBVIOUS
    <3>2. PICK l : l = NewPlace(m, k, n)
      OBVIOUS
    <3>3. pi[p] = <<b, l>> /\ n \in 1..m /\ t[l].op = s[n].op
      BY <1>12, <1>13, <1>15, <2>1, <3>1, <3>2
    <3>4. pi[p][1] = b /\ pi[p][2] = l
      BY <3>3
    <3>5. OpAt(cs, pi[p]) = t[l].op
      BY <1>5, <3>4 DEF OpAt
    <3>6. OpAt(bs, p) = s[n].op
      BY <1>2, <2>1, <3>1 DEF OpAt
    <3> QED
      BY <3>3, <3>5, <3>6
  <2>2. CASE p[1] # b
    BY <1>5, <1>13, <1>15, <2>2 DEF OpAt
  <2> QED
    BY <2>1, <2>2
<1>20. Reordering(pi, bs, cs)
  BY <1>5, <1>10, <1>15, <1>16, <1>17, <1>18, <1>19 DEF Reordering, OneToOne
<1>21. Len(cs[b]) \in DOMAIN cs[b] /\ cs[b][Len(cs[b])] = x
  <2>1. Len(cs[b]) = m /\ cs[b][m] = x /\ m \in 1..m
    BY <1>3, <1>5
  <2> QED
    BY <1>7, <2>1
<1> QED
  BY <1>5, <1>6, <1>7, <1>8, <1>9, <1>20, <1>21 DEF Reordered, IsRelocatedBody

LEMMA SameOrder == ASSUME NEW bs PROVE Reordered(bs, bs)
<1>1. PICK pi : pi = [p \in Places(bs) |-> p]
  OBVIOUS
<1>2. Reordering(pi, bs, bs)
  BY <1>1 DEF Reordering, OneToOne
<1> QED
  BY <1>2 DEF Reordered

Ascending(v) == \A p, q \in DOMAIN v : p < q => v[p] < v[q]

\* The vector w is v, of m functions below n + 1, with n + 1 in place of the
\* i-th and the j-th.
IsMergedVector(w, v, m, n, i, j) ==
  /\ m \in Nat /\ DOMAIN v = 1..m
  /\ w \in Seq(1..(n + 1)) /\ Len(w) = m - 1 /\ DOMAIN w = 1..(m - 1)
  /\ \A p \in 1..(m - 2) : p < i => w[p] = v[p]
  /\ \A p \in 1..(m - 2) : i <= p /\ p < j - 1 => w[p] = v[p + 1]
  /\ \A p \in 1..(m - 2) : j - 1 <= p => w[p] = v[p + 2]
  /\ w[m - 1] = n + 1

LEMMA MergedVector ==
  ASSUME NEW n \in Nat, NEW v \in Seq(1..n), NEW m, m = Len(v), NEW i \in 1..m, NEW j \in 1..m, i < j,
         NEW w, w = Append(RemoveAt(RemoveAt(v, j), i), n + 1)
  PROVE  IsMergedVector(w, v, m, n, i, j)
<1>1. m \in Nat /\ DOMAIN v = 1..m
  OBVIOUS
<1>2. PICK u, t : u = RemoveAt(v, j) /\ t = RemoveAt(u, i)
  OBVIOUS
<1>3. u \in Seq(1..n) /\ Len(u) = m - 1 /\ \A p \in 1..(m - 1) : u[p] = IF p < j THEN v[p] ELSE v[p + 1]
  <2>1. u = RemoveAt(v, j) /\ j \in DOMAIN v
    BY <1>1, <1>2
  <2>2. IsRemoved(u, 1..n, v, j, m)
    BY <2>1, Removed
  <2> QED
    BY <2>2 DEF IsRemoved
<1>4. t \in Seq(1..n) /\ Len(t) = m - 2 /\ \A p \in 1..(m - 2) : t[p] = IF p < i THEN u[p] ELSE u[p + 1]
  <2>1. PICK l : l = Len(u)
    OBVIOUS
  <2>2. t = RemoveAt(u, i) /\ i \in DOMAIN u /\ l = Len(u) /\ l = m - 1
    BY <1>1, <1>2, <1>3, <2>1
  <2>3. t \in Seq(1..n) /\ Len(t) = l - 1 /\ \A p \in 1..(l - 1) : t[p] = IF p < i THEN u[p] ELSE u[p + 1]
    <3>1. IsRemoved(t, 1..n, u, i, l)
      BY <1>3, <2>2, Removed
    <3> QED
      BY <3>1 DEF IsRemoved
  <2>4. l - 1 = m - 2
    BY <1>1, <2>2
  <2> QED
    BY <2>3, <2>4
<1>5. /\ w \in Seq(1..(n + 1)) /\ Len(w) = m - 1
      /\ \A p \in 1..(m - 2) : w[p] = t[p]
      /\ w[m - 1] = n + 1
  <2>1. 1..n \subseteq 1..(n + 1) /\ n + 1 \in 1..(n + 1)
    OBVIOUS
  <2>2. t \in Seq(1..(n + 1)) /\ w = Append(t, n + 1)
    BY <1>2, <1>4, <2>1, WiderSeq
  <2>3. /\ w \in Seq(1..(n + 1)) /\ Len(w) = Len(t) + 1
        /\ \A p \in 1..Len(t) : w[p] = t[p]
        /\ w[Len(t) + 1] = n + 1
    <3>1. IsAppended(w, 1..(n + 1), t, n + 1)
      BY <2>1, <2>2, Appended
    <3> QED
      BY <3>1 DEF IsAppended
  <2>4. Len(t) + 1 = m - 1
    BY <1>1, <1>4
  <2> QED
    BY <1>4, <2>3, <2>4
<1>6. DOMAIN w = 1..(m - 1)
  BY <1>5
<1>7. \A p \in 1..(m - 2) : p < i => w[p] = v[p]
  <2> SUFFICES ASSUME NEW p \in 1..(m - 2), p < i PROVE w[p] = v[p]
    OBVIOUS
  <2>1. p \in 1..(m - 1) /\ p < j
    BY <1>1
  <2> QED
    BY <1>3, <1>4, <1>5, <2>1
<1>8. \A p \in 1..(m - 2) : i <= p /\ p < j - 1 => w[p] = v[p + 1]
  <2> SUFFICES ASSUME NEW p \in 1..(m - 2), i <= p, p < j - 1 PROVE w[p] = v[p + 1]
    OBVIOUS
  <2>1. p + 1 \in 1..(m - 1) /\ p + 1 < j /\ ~(p < i)
    BY <1>1
  <2> QED
    BY <1>3, <1>4, <1>5, <2>1
<1>9. \A p \in 1..(m - 2) : j - 1 <= p => w[p] = v[p + 2]
  <2> SUFFICES ASSUME NEW p \in 1..(m - 2), j - 1 <= p PROVE w[p] = v[p + 2]
    OBVIOUS
  <2>1. p + 1 \in 1..(m - 1) /\ ~(p + 1 < j) /\ ~(p < i) /\ (p + 1) + 1 = p + 2
    BY <1>1
  <2>2. u[p + 1] = v[(p + 1) + 1]
    BY <1>3, <2>1
  <2>3. w[p] = u[p + 1]
    BY <1>4, <1>5, <2>1
  <2> QED
    BY <2>1, <2>2, <2>3
<1> QED
  BY <1>1, <1>5, <1>6, <1>7, <1>8, <1>9 DEF IsMergedVector

\* What such a w keeps of v.
IsMergedMembers(w, v, m, n, i, j) ==
  /\ Ascending(w)
  /\ ToSet(w) = (ToSet(v) \ {v[i], v[j]}) \cup {n + 1}
  /\ \A q \in 1..(m - 1) : w[q] # n + 1 => \E p \in 1..m : q <= p /\ w[q] = v[p]

LEMMA MergedMembers ==
  ASSUME NEW n \in Nat, NEW m \in Nat, NEW v \in [1..m -> 1..n], Ascending(v), NEW i \in 1..m, NEW j \in 1..m, i < j,
         NEW w, IsMergedVector(w, v, m, n, i, j)
  PROVE  IsMergedMembers(w, v, m, n, i, j)
<1>0. /\ DOMAIN v = 1..m /\ DOMAIN w = 1..(m - 1)
      /\ \A p \in 1..(m - 2) : p < i => w[p] = v[p]
      /\ \A p \in 1..(m - 2) : i <= p /\ p < j - 1 => w[p] = v[p + 1]
      /\ \A p \in 1..(m - 2) : j - 1 <= p => w[p] = v[p + 2]
      /\ w[m - 1] = n + 1
  BY DEF IsMergedVector
<1>1. \A p \in 1..m : v[p] \in 1..n
  OBVIOUS
<1>2. v[i] < v[j]
  BY <1>0 DEF Ascending
<1> DEFINE old(q) == IF q < i THEN q ELSE IF q < j - 1 THEN q + 1 ELSE q + 2
<1>3. \A q \in 1..(m - 2) : old(q) \in 1..m /\ old(q) # i /\ old(q) # j /\ q <= old(q)
  OBVIOUS
<1>4. \A q \in 1..(m - 2) : w[q] = v[old(q)]
  BY <1>0
<1>5. \A p, q \in 1..(m - 2) : p < q => old(p) < old(q)
  OBVIOUS
<1>6. \A p \in 1..m : p # i /\ p # j => \E q \in 1..(m - 2) : old(q) = p
  <2> SUFFICES ASSUME NEW p \in 1..m, p # i, p # j PROVE \E q \in 1..(m - 2) : old(q) = p
    OBVIOUS
  <2>1. CASE p < i
    <3>1. p \in 1..(m - 2) /\ old(p) = p
      BY <2>1
    <3> QED
      BY <3>1
  <2>2. CASE p > i /\ p < j
    <3>1. p - 1 \in 1..(m - 2) /\ old(p - 1) = p
      BY <2>2
    <3> QED
      BY <3>1
  <2>3. CASE p > j
    <3>1. p - 2 \in 1..(m - 2) /\ old(p - 2) = p
      BY <2>3
    <3> QED
      BY <3>1
  <2> QED
    BY <2>1, <2>2, <2>3
<1> HIDE DEF old
<1>7. Ascending(w)
  <2> SUFFICES ASSUME NEW p \in 1..(m - 1), NEW q \in 1..(m - 1), p < q PROVE w[p] < w[q]
    BY <1>0 DEF Ascending
  <2>1. p \in 1..(m - 2) /\ w[p] = v[old(p)] /\ old(p) \in 1..m
    BY <1>3, <1>4
  <2>2. CASE q = m - 1
    <3>1. w[p] \in 1..n /\ w[q] = n + 1
      BY <1>0, <1>1, <2>1, <2>2
    <3> QED
      BY <3>1
  <2>3. CASE q # m - 1
    <3>1. q \in 1..(m - 2) /\ w[q] = v[old(q)] /\ old(q) \in 1..m /\ old(p) < old(q)
      BY <1>3, <1>4, <1>5, <2>1, <2>3
    <3> QED
      BY <1>0, <2>1, <3>1 DEF Ascending
  <2> QED
    BY <2>2, <2>3
<1>8. \A q \in 1..(m - 1) : w[q] # n + 1 => \E p \in 1..m : q <= p /\ w[q] = v[p]
  <2> SUFFICES ASSUME NEW q \in 1..(m - 1), w[q] # n + 1 PROVE \E p \in 1..m : q <= p /\ w[q] = v[p]
    OBVIOUS
  <2>1. q # m - 1
    BY <1>0
  <2>2. q \in 1..(m - 2)
    BY <2>1
  <2> QED
    BY <1>3, <1>4, <2>2
<1>9. ASSUME NEW x, x \in ToSet(w) PROVE x \in (ToSet(v) \ {v[i], v[j]}) \cup {n + 1}
  <2>1. PICK q \in 1..(m - 1) : w[q] = x
    BY <1>0, <1>9 DEF ToSet
  <2>2. CASE q = m - 1
    BY <1>0, <2>1, <2>2
  <2>3. CASE q # m - 1
    <3>1. q \in 1..(m - 2)
      BY <2>3
    <3>2. PICK p : p = old(q)
      OBVIOUS
    <3>3. p \in 1..m /\ p # i /\ p # j /\ x = v[p]
      BY <1>3, <1>4, <2>1, <3>1, <3>2
    <3>4. v[p] # v[i] /\ v[p] # v[j]
      <4>1. v[p] \in 1..n /\ v[i] \in 1..n /\ v[j] \in 1..n
        BY <1>1, <3>3
      <4>2. p < i \/ i < p
        BY <3>3
      <4>3. p < j \/ j < p
        BY <3>3
      <4>4. \A a, b \in 1..m : a < b => v[a] < v[b]
        BY <1>0 DEF Ascending
      <4>5. v[p] < v[i] \/ v[i] < v[p]
        BY <3>3, <4>2, <4>4
      <4>6. v[p] < v[j] \/ v[j] < v[p]
        BY <3>3, <4>3, <4>4
      <4>7. PICK x1, x2, x3 : x1 = v[p] /\ x2 = v[i] /\ x3 = v[j]
        OBVIOUS
      <4>8. x1 \in Nat /\ x2 \in Nat /\ x3 \in Nat /\ (x1 < x2 \/ x2 < x1) /\ (x1 < x3 \/ x3 < x1)
        BY <4>1, <4>5, <4>6, <4>7
      <4>9. x1 # x2 /\ x1 # x3
        BY <4>8
      <4> QED
        BY <4>7, <4>9
    <3> QED
      BY <1>0, <3>3, <3>4 DEF ToSet
  <2> QED
    BY <2>2, <2>3
<1>10. ASSUME NEW x, x \in (ToSet(v) \ {v[i], v[j]}) \cup {n + 1} PROVE x \in ToSet(w)
  <2>1. CASE x = n + 1
    <3>1. m - 1 \in DOMAIN w /\ w[m - 1] = x
      BY <1>0, <2>1
    <3> QED
      BY <3>1 DEF ToSet
  <2>2. CASE x # n + 1
    <3>1. PICK p \in 1..m : v[p] = x
      BY <1>0, <1>10, <2>2 DEF ToSet
    <3>2. p # i /\ p # j
      BY <1>10, <2>2, <3>1
    <3>3. PICK q \in 1..(m - 2) : old(q) = p
      BY <1>6, <3>2
    <3>4. q \in DOMAIN w /\ w[q] = x
      <4>1. q \in 1..(m - 1)
        OBVIOUS
      <4>2. w[q] = v[old(q)]
        BY <1>4
      <4> QED
        BY <1>0, <3>1, <3>3, <4>1, <4>2
    <3> QED
      BY <3>4 DEF ToSet
  <2> QED
    BY <2>1, <2>2
<1>11. ToSet(w) = (ToSet(v) \ {v[i], v[j]}) \cup {n + 1}
  BY <1>9, <1>10
<1> QED
  BY <1>7, <1>8, <1>11 DEF IsMergedMembers

-----------------------------------------------------------------------------
(* The invariant of the merging.                                           *)

MergeTyped ==
  /\ IsFunctions(fns) /\ IsFunctions(start) /\ Len(start) <= Len(fns)
  /\ functions \in Seq(1..Len(fns)) /\ Ascending(functions)
  /\ first \in 1..(Len(functions) + 1) /\ second \in Nat /\ first < second
  /\ merged \in Nat /\ olds \in Seq(1..Len(fns))
  /\ at \in [f : Nat \ {0}, b : Nat \ {0}, k : Nat \ {0}]
  /\ stage \in {"compare", "replace", "done", "crashed"}
  /\ stage \in {"compare", "done"} => olds = <<>>
  /\ stage = "done" => first > Len(functions)

\* A call of the module that was created in g.
CallAt(f, b, k, g) ==
  /\ f \in DOMAIN fns /\ b \in DOMAIN fns[f].blocks /\ k \in DOMAIN fns[f].blocks[b]
  /\ fns[f].blocks[b][k].op = "call" /\ fns[f].blocks[b][k].home = g

\* What the iterators have passed.
Behind(f, b, k) == f < at.f \/ (f = at.f /\ (b < at.b \/ (b = at.b /\ k < at.k)))

\* What is replaced is no longer in the vector, what replaces it is.
OldsInv ==
  olds # <<>> => merged \in InVector /\ ToSet(olds) \cap InVector = {}

\* The calls are those of the start, and copies of them in merged functions:
\* none is of a function that has been replaced.
CallsInv ==
  \A f, b, k, g : CallAt(f, b, k, g) =>
    /\ g \in Originals /\ HasCall(start[g]) /\ (f \in Originals => f = g)
    /\ g \in InVector \cup ToSet(olds)
    /\ fns[f].blocks[b][k].callee \in Originals

\* Nothing has been redirected yet.
Calm ==
  /\ \A f \in Originals : fns[f] = start[f]
  /\ CallsInv
  /\ olds # <<>> => \A f, b, k : CallAt(f, b, k, olds[1]) => ~Behind(f, b, k)

\* The walk has redirected a call of Old in Old itself, and has the call that
\* it made in front of it.
Hit ==
  /\ olds # <<>> /\ Old \in Originals \ InVector /\ HasCall(start[Old])
  /\ at.f = Old /\ at.b \in DOMAIN fns[Old].blocks
  /\ at.k \in DOMAIN fns[Old].blocks[at.b]
  /\ CallAt(Old, at.b, Len(fns[Old].blocks[at.b]), Old)

StageInv ==
  /\ stage \in {"compare", "done"} => Calm
  /\ stage = "replace" => Calm \/ Hit
  /\ stage = "crashed" => \E f \in Originals \ InVector : HasCall(start[f])

\* The pairs that have been compared, the second of them as it was at the
\* start: what is appended to the vector need not be compared with those before.
PairsInv ==
  \A p, q \in DOMAIN functions :
     p < q /\ functions[q] <= Len(start) /\ (p < first \/ (p = first /\ q < second)) =>
       ~Similar(fns[functions[p]], fns[functions[q]])

OwnInv == IsFiniteSet(Own(fns, InVector)) /\ CodeKept

MergeInv == MergeTyped /\ OldsInv /\ StageInv /\ PairsInv /\ OwnInv

LEMMA VectorFacts ==
  ASSUME MergeTyped
  PROVE  /\ Len(fns) \in Nat /\ DOMAIN fns = 1..Len(fns)
         /\ Len(functions) \in Nat /\ DOMAIN functions = 1..Len(functions)
         /\ functions \in [1..Len(functions) -> 1..Len(fns)]
         /\ \A p \in DOMAIN functions : functions[p] \in 1..Len(fns)
         /\ Len(start) \in Nat /\ DOMAIN start = 1..Len(start)
         /\ InVector \subseteq 1..Len(fns)
<1>1. functions \in Seq(1..Len(fns)) /\ IsFunctions(fns) /\ IsFunctions(start)
  BY DEF MergeTyped
<1>2. Len(fns) \in Nat /\ DOMAIN fns = 1..Len(fns) /\ Len(start) \in Nat /\ DOMAIN start = 1..Len(start)
  BY <1>1, FunctionsFacts
<1>3. /\ Len(functions) \in Nat /\ DOMAIN functions = 1..Len(functions)
      /\ functions \in [1..Len(functions) -> 1..Len(fns)]
      /\ \A p \in DOMAIN functions : functions[p] \in 1..Len(fns)
  BY <1>1
<1> QED
  BY <1>2, <1>3 DEF InVector, ToSet

\* What says nothing of the iterators and the indices.
LEMMA SameOwn ==
  ASSUME OwnInv, UNCHANGED <<fns, functions, start>>
  PROVE  OwnInv'
BY DEF OwnInv, CodeKept, InVector, Originals

LEMMA SameOlds ==
  ASSUME OldsInv, UNCHANGED <<functions, olds, merged>>
  PROVE  OldsInv'
BY DEF OldsInv, InVector

LEMMA SameCalm ==
  ASSUME Calm, UNCHANGED <<fns, functions, olds, at, start>>
  PROVE  Calm'
<1>1. CallsInv'
  BY DEF Calm, CallsInv, CallAt, InVector, Originals
<1>2. \A f \in Originals' : fns'[f] = start'[f]
  BY DEF Calm, Originals
<1>3. ASSUME olds' # <<>>, NEW f, NEW b, NEW k, CallAt(f, b, k, olds[1])' PROVE ~(Behind(f, b, k)')
  <2>1. CallAt(f, b, k, olds[1])
    BY <1>3 DEF CallAt
  <2>2. ~Behind(f, b, k)
    BY <1>3, <2>1 DEF Calm
  <2> QED
    BY <2>2 DEF Behind
<1> QED
  BY <1>1, <1>2, <1>3 DEF Calm, CallAt

\* Calm in the next state, of the same module, if nothing is replaced in it or
\* the walk leaves nothing behind it.
LEMMA PrimedCalm ==
  ASSUME \A f \in Originals' : fns'[f] = start'[f], CallsInv',
         NEW h, olds' # <<>> => h = olds'[1],
         olds' # <<>> => \A f, b, k : CallAt(f, b, k, h)' => ~(Behind(f, b, k)')
  PROVE  Calm'
<1>1. ASSUME olds' # <<>>, NEW f, NEW b, NEW k, CallAt(f, b, k, olds[1])' PROVE ~(Behind(f, b, k)')
  <2>1. CallAt(f, b, k, h)'
    BY <1>1 DEF CallAt
  <2> QED
    BY <1>1, <2>1
<1> QED
  BY <1>1 DEF Calm, CallAt

LEMMA SamePairs ==
  ASSUME PairsInv, UNCHANGED <<fns, functions, start, first, second>>
  PROVE  PairsInv'
BY DEF PairsInv

LEMMA CompareStep == ASSUME MergeInv, CompareNext PROVE MergeInv'
<1>1. MergeTyped /\ OldsInv /\ StageInv /\ PairsInv /\ OwnInv
  BY DEF MergeInv
<1>2. /\ Len(functions) \in Nat /\ DOMAIN functions = 1..Len(functions)
      /\ first \in 1..Len(functions) /\ second \in Nat /\ first < second
  BY <1>1, VectorFacts DEF MergeTyped, CompareNext
<1>3. UNCHANGED <<fns, functions, merged, olds, at, stage, start>>
  BY DEF CompareNext
<1>6. OldsInv' /\ StageInv'
  <2>1. Calm /\ stage' = "compare"
    BY <1>1, <1>3 DEF StageInv, CompareNext
  <2> QED
    BY <1>1, <1>3, <2>1, SameOlds, SameCalm DEF StageInv
<1>4. CASE second > Len(functions)
  <2>1. first' = first + 1 /\ second' = first + 2
    BY <1>4 DEF CompareNext
  <2>2. first' \in 1..(Len(functions) + 1) /\ second' \in Nat /\ first' < second'
    BY <1>2, <2>1
  <2>3. stage # "done"
    BY DEF CompareNext
  <2>4. MergeTyped'
    BY <1>1, <1>3, <2>2, <2>3 DEF MergeTyped
  <2>5. PairsInv'
    <3> SUFFICES ASSUME NEW p \in DOMAIN functions, NEW q \in DOMAIN functions, p < q,
                        functions[q] <= Len(start), p < first' \/ (p = first' /\ q < second')
                 PROVE  ~Similar(fns[functions[p]], fns[functions[q]])
      BY <1>3 DEF PairsInv
    <3>1. p \in 1..Len(functions) /\ q \in 1..Len(functions)
      BY <1>2
    <3>2. p < first \/ (p = first /\ q < second)
      BY <1>2, <1>4, <2>1, <3>1
    <3> QED
      BY <1>1, <3>2 DEF PairsInv
  <2> QED
    BY <1>1, <1>3, <1>6, <2>4, <2>5, SameOwn DEF MergeInv
<1>5. CASE ~(second > Len(functions))
  <2>1. first' = first /\ second' = second + 1 /\ ~Similar(fns[functions[first]], fns[functions[second]])
    BY <1>5 DEF CompareNext
  <2>2. MergeTyped'
    BY <1>1, <1>2, <1>3, <2>1 DEF MergeTyped
  <2>3. PairsInv'
    <3> SUFFICES ASSUME NEW p \in DOMAIN functions, NEW q \in DOMAIN functions, p < q,
                        functions[q] <= Len(start), p < first' \/ (p = first' /\ q < second')
                 PROVE  ~Similar(fns[functions[p]], fns[functions[q]])
      BY <1>3 DEF PairsInv
    <3>1. p \in 1..Len(functions) /\ q \in 1..Len(functions)
      BY <1>2
    <3>2. \/ p < first \/ (p = first /\ q < second)
          \/ p = first /\ q = second
      BY <1>2, <2>1, <3>1
    <3> QED
      BY <1>1, <2>1, <3>2 DEF PairsInv
  <2> QED
    BY <1>1, <1>3, <1>6, <2>2, <2>3, SameOwn DEF MergeInv
<1> QED
  BY <1>4, <1>5

LEMMA ComparedStep == ASSUME MergeInv, AllCompared PROVE MergeInv'
<1>1. MergeTyped /\ OldsInv /\ StageInv /\ PairsInv /\ OwnInv
  BY DEF MergeInv
<1>2. UNCHANGED <<fns, functions, first, second, merged, olds, at, start>> /\ stage' = "done"
      /\ stage = "compare" /\ first > Len(functions)
  BY DEF AllCompared
<1>3. MergeTyped'
  BY <1>1, <1>2 DEF MergeTyped
<1>4. StageInv'
  BY <1>1, <1>2, SameCalm DEF StageInv
<1> QED
  BY <1>1, <1>2, <1>3, <1>4, SameOwn, SameOlds, SamePairs DEF MergeInv

LEMMA BodyFacts ==
  ASSUME MergeTyped, NEW f \in DOMAIN fns
  PROVE  /\ f \in Nat /\ f <= Len(fns) /\ Len(fns) \in Nat
         /\ fns[f] \in Functions(Len(fns))
         /\ fns[f].blocks \in Seq(Seq(Instruction(Len(fns)))) /\ Len(fns[f].blocks) \in Nat
         /\ DOMAIN fns[f].blocks = 1..Len(fns[f].blocks)
         /\ \A b \in DOMAIN fns[f].blocks : /\ fns[f].blocks[b] \in Seq(Instruction(Len(fns)))
                                            /\ DOMAIN fns[f].blocks[b] = 1..Len(fns[f].blocks[b])
                                            /\ Len(fns[f].blocks[b]) \in Nat
<1>1. fns[f] \in Functions(Len(fns)) /\ Len(fns) \in Nat /\ DOMAIN fns = 1..Len(fns)
  BY FunctionsFacts DEF MergeTyped
<1> QED
  BY <1>1, FunctionFacts

LEMMA CallFacts ==
  ASSUME MergeTyped, NEW f, NEW b, NEW k, NEW g, CallAt(f, b, k, g)
  PROVE  /\ f \in Nat /\ f <= Len(fns) /\ Len(fns) \in Nat
         /\ b \in Nat /\ b <= Len(fns[f].blocks) /\ Len(fns[f].blocks) \in Nat
         /\ k \in Nat /\ k <= Len(fns[f].blocks[b]) /\ Len(fns[f].blocks[b]) \in Nat
<1>1. f \in DOMAIN fns /\ b \in DOMAIN fns[f].blocks /\ k \in DOMAIN fns[f].blocks[b]
  BY DEF CallAt
<1> QED
  BY <1>1, BodyFacts

\* The call in front of the walk is in a block.
LEMMA HitInBlock == ASSUME MergeTyped, Hit PROVE InBlock /\ at.f <= Len(fns)
<1>1. /\ Old \in DOMAIN fns /\ at.f = Old /\ at.b \in DOMAIN fns[Old].blocks
      /\ at.k \in DOMAIN fns[Old].blocks[at.b]
  BY DEF Hit, CallAt
<1> QED
  BY <1>1, BodyFacts DEF InBlock, Blocks

LEMMA SkipStep == ASSUME MergeInv, SkipInstr PROVE MergeInv'
<1>1. MergeTyped /\ OldsInv /\ StageInv /\ PairsInv /\ OwnInv
  BY DEF MergeInv
<1>2. UNCHANGED <<fns, functions, first, second, merged, olds, stage, start>> /\ at' = [at EXCEPT !.k = @ + 1]
  BY DEF SkipInstr
<1>3. at \in [f : Nat \ {0}, b : Nat \ {0}, k : Nat \ {0}]
  BY <1>1 DEF MergeTyped
<1>4. at'.f = at.f /\ at'.b = at.b /\ at'.k = at.k + 1 /\ at' \in [f : Nat \ {0}, b : Nat \ {0}, k : Nat \ {0}]
  BY <1>2, <1>3
<1>5. MergeTyped'
  BY <1>1, <1>2, <1>4 DEF MergeTyped
<1>6. ASSUME Calm PROVE StageInv'
  <2>1. ASSUME NEW f, NEW b, NEW k, CallAt(f, b, k, olds[1])', olds # <<>> PROVE ~(Behind(f, b, k)')
    <3>0. CallAt(f, b, k, olds[1])
      BY <1>2, <2>1 DEF CallAt
    <3>1. ~Behind(f, b, k)
      BY <1>6, <2>1, <3>0 DEF Calm
    <3>2. olds[1] = Old
      BY <2>1 DEF Old
    <3>3. k \in Nat
      BY <1>1, <3>0, CallFacts
    <3>4. ~(f = at.f /\ b = at.b /\ k = at.k)
      BY <3>0, <3>2 DEF SkipInstr, IsOldCall, Here, Blocks, CallAt
    <3> QED
      BY <1>3, <1>4, <3>1, <3>3, <3>4 DEF Behind
  <2>2. CallsInv' /\ \A f \in Originals' : fns'[f] = start'[f]
    BY <1>2, <1>6 DEF Calm, CallsInv, CallAt, InVector, Originals
  <2>3. PICK h : h = olds[1]
    OBVIOUS
  <2>5. ASSUME olds' # <<>>, NEW f, NEW b, NEW k, CallAt(f, b, k, h)' PROVE ~(Behind(f, b, k)')
    <3>1. CallAt(f, b, k, olds[1])' /\ olds # <<>>
      BY <1>2, <2>3, <2>5 DEF CallAt
    <3> QED
      BY <2>1, <3>1
  <2>4. Calm'
    BY <1>2, <2>2, <2>3, <2>5, PrimedCalm
  <2> QED
    BY <1>2, <2>4 DEF StageInv, SkipInstr
<1>7. ASSUME Hit PROVE StageInv'
  <2>1. PICK body, last : body = fns[Old].blocks[at.b] /\ last = Len(body)
    OBVIOUS
  <2>2. /\ Old \in DOMAIN fns /\ at.b \in DOMAIN fns[Old].blocks /\ at.k \in DOMAIN body
        /\ body[last].op = "call" /\ body[last].home = Old /\ at.f = Old
    BY <1>7, <2>1 DEF Hit, CallAt
  <2>3. DOMAIN body = 1..last /\ last \in Nat
    BY <1>1, <2>1, <2>2, BodyFacts
  <2>4. at.k # last
    BY <2>1, <2>2 DEF SkipInstr, IsOldCall, Here, Blocks
  <2>5. at.k + 1 \in DOMAIN body
    BY <2>2, <2>3, <2>4
  <2>6. /\ olds' = olds /\ Old' = Old /\ InVector' = InVector /\ Originals' = Originals
        /\ start' = start /\ fns' = fns
    BY <1>2 DEF Old, InVector, Originals
  <2>8. at'.f = Old /\ at'.b = at.b /\ at'.k = at.k + 1
    BY <1>4, <2>2
  <2>9. /\ fns'[Old'].blocks[at'.b] = body
        /\ at'.b \in DOMAIN fns'[Old'].blocks /\ Old' \in DOMAIN fns'
    BY <2>1, <2>2, <2>6, <2>8
  <2>10. last \in DOMAIN body
    BY <2>2, <2>3
  <2>11. CallAt(Old, at.b, last, Old)'
    BY <2>1, <2>2, <2>6, <2>8, <2>9, <2>10 DEF CallAt
  <2>7. Hit'
    BY <1>7, <2>1, <2>5, <2>6, <2>8, <2>9, <2>11 DEF Hit, CallAt
  <2> QED
    BY <1>2, <2>7 DEF StageInv, SkipInstr
<1>8. StageInv'
  BY <1>1, <1>6, <1>7 DEF StageInv, SkipInstr
<1> QED
  BY <1>1, <1>2, <1>5, <1>8, SameOwn, SameOlds, SamePairs DEF MergeInv

LEMMA BlockStep == ASSUME MergeInv, NextBlock PROVE MergeInv'
<1>1. MergeTyped /\ OldsInv /\ StageInv /\ PairsInv /\ OwnInv
  BY DEF MergeInv
<1>2. UNCHANGED <<fns, functions, first, second, merged, olds, stage, start>>
  BY DEF NextBlock
<1>3. at \in [f : Nat \ {0}, b : Nat \ {0}, k : Nat \ {0}]
  BY <1>1 DEF MergeTyped
<1>4. PICK here, there : here = at /\ there = at'
  OBVIOUS
<1>5. here \in [f : Nat \ {0}, b : Nat \ {0}, k : Nat \ {0}]
  BY <1>3, <1>4
<1>6. \/ there = [here EXCEPT !.b = @ + 1, !.k = 1]
      \/ there = [f |-> here.f + 1, b |-> 1, k |-> 1] /\ ~(here.b < Len(fns[here.f].blocks))
  BY <1>4 DEF NextBlock, Blocks
<1>7. \/ there.f = here.f /\ there.b = here.b + 1 /\ there.k = 1
      \/ /\ there.f = here.f + 1 /\ there.b = 1 /\ there.k = 1
         /\ ~(here.b < Len(fns[here.f].blocks))
  <2>1. CASE there = [here EXCEPT !.b = @ + 1, !.k = 1]
    <3>1. there = [f |-> here.f, b |-> here.b + 1, k |-> 1]
      BY <1>5, <2>1
    <3> QED
      BY <3>1
  <2>2. CASE there = [f |-> here.f + 1, b |-> 1, k |-> 1] /\ ~(here.b < Len(fns[here.f].blocks))
    BY <2>2
  <2> QED
    BY <1>6, <2>1, <2>2
<1>8. there \in [f : Nat \ {0}, b : Nat \ {0}, k : Nat \ {0}]
  <2>1. here.f + 1 \in Nat \ {0} /\ here.b + 1 \in Nat \ {0} /\ 1 \in Nat \ {0}
    BY <1>5
  <2>2. CASE there = [here EXCEPT !.b = @ + 1, !.k = 1]
    BY <1>5, <2>1, <2>2
  <2>3. CASE there = [f |-> here.f + 1, b |-> 1, k |-> 1]
    BY <2>1, <2>3
  <2> QED
    BY <1>6, <2>2, <2>3
<1>9. MergeTyped'
  BY <1>1, <1>2, <1>4, <1>8 DEF MergeTyped
<1>11. Calm
  BY <1>1, HitInBlock DEF StageInv, NextBlock
<1>10. Calm'
  <2>1. ASSUME NEW f, NEW b, NEW k, CallAt(f, b, k, olds[1]), olds # <<>> PROVE ~(Behind(f, b, k)')
    <3>1. ~(f < here.f \/ (f = here.f /\ (b < here.b \/ (b = here.b /\ k < here.k))))
      BY <1>4, <1>11, <2>1 DEF Calm, Behind
    <3>2. /\ f \in Nat /\ f <= Len(fns) /\ Len(fns) \in Nat
          /\ b \in Nat /\ b <= Len(fns[f].blocks) /\ Len(fns[f].blocks) \in Nat
          /\ k \in Nat /\ k <= Len(fns[f].blocks[b]) /\ Len(fns[f].blocks[b]) \in Nat
      BY <1>1, <2>1, CallFacts
    <3>3. f = here.f /\ b = here.b => here.k > Len(fns[f].blocks[b])
      <4> SUFFICES ASSUME f = here.f, b = here.b PROVE here.k > Len(fns[f].blocks[b])
        OBVIOUS
      <4>1. ~(here.f <= Len(fns) /\ here.b <= Len(fns[f].blocks) /\ here.k <= Len(fns[f].blocks[b]))
        BY <1>4 DEF NextBlock, InBlock, Blocks
      <4> QED
        BY <1>5, <3>2, <4>1
    <3>4. ~(f = here.f /\ b = here.b)
      BY <1>5, <3>1, <3>2, <3>3
    <3>6. b >= 1 /\ k >= 1
      <4>1. f \in DOMAIN fns /\ b \in DOMAIN fns[f].blocks /\ k \in DOMAIN fns[f].blocks[b]
        BY <2>1 DEF CallAt
      <4> QED
        BY <1>1, <4>1, BodyFacts
    <3>5. ~(f < there.f \/ (f = there.f /\ (b < there.b \/ (b = there.b /\ k < there.k))))
      <4>1. CASE there.f = here.f /\ there.b = here.b + 1 /\ there.k = 1
        <5>1. f = here.f => b > here.b
          BY <1>5, <3>1, <3>2, <3>4
        <5>2. ~(f < here.f)
          BY <3>1
        <5>3. CASE f = here.f
          BY <1>5, <3>2, <3>6, <4>1, <5>1, <5>3
        <5>4. CASE f # here.f
          BY <4>1, <5>2, <5>4
        <5> QED
          BY <5>3, <5>4
      <4>2. CASE there.f = here.f + 1 /\ there.b = 1 /\ there.k = 1 /\ ~(here.b < Len(fns[here.f].blocks))
        <5>1. f # here.f
          <6> SUFFICES ASSUME f = here.f PROVE FALSE
            OBVIOUS
          <6>1. b <= here.b
            BY <1>5, <3>2, <4>2
          <6> QED
            BY <1>5, <3>1, <3>2, <3>4, <6>1
        <5>2. f > here.f
          BY <1>5, <3>1, <3>2, <5>1
        <5>3. ~(f < there.f)
          BY <1>5, <3>2, <4>2, <5>2
        <5> QED
          BY <3>2, <3>6, <4>2, <5>3
      <4> QED
        BY <1>7, <4>1, <4>2
    <3> QED
      BY <1>4, <3>5 DEF Behind
  <2>2. CallsInv' /\ \A f \in Originals' : fns'[f] = start'[f]
    BY <1>2, <1>11 DEF Calm, CallsInv, CallAt, InVector, Originals
  <2>3. PICK h : h = olds[1]
    OBVIOUS
  <2>4. ASSUME olds' # <<>>, NEW f, NEW b, NEW k, CallAt(f, b, k, h)' PROVE ~(Behind(f, b, k)')
    <3>1. CallAt(f, b, k, olds[1]) /\ olds # <<>>
      BY <1>2, <2>3, <2>4 DEF CallAt
    <3> QED
      BY <2>1, <3>1
  <2> QED
    BY <1>2, <2>2, <2>3, <2>4, PrimedCalm
<1>12. StageInv'
  BY <1>2, <1>10 DEF StageInv, NextBlock
<1> QED
  BY <1>1, <1>2, <1>9, <1>12, SameOwn, SameOlds, SamePairs DEF MergeInv

LEMMA OldStep == ASSUME MergeInv, NextOld PROVE MergeInv'
<1>1. MergeTyped /\ OldsInv /\ StageInv /\ PairsInv /\ OwnInv
  BY DEF MergeInv
<1>2. /\ UNCHANGED <<fns, functions, first, second, merged, start>>
      /\ olds # <<>> /\ olds' = Tail(olds) /\ at' = [f |-> 1, b |-> 1, k |-> 1]
      /\ stage = "replace" /\ stage' = IF olds' = <<>> THEN "compare" ELSE "replace"
      /\ at.f > Len(fns)
  BY DEF NextOld
<1>3. /\ olds \in Seq(1..Len(fns)) /\ olds' \in Seq(1..Len(fns))
      /\ \A p \in DOMAIN olds' : p + 1 \in DOMAIN olds /\ olds'[p] = olds[p + 1]
      /\ \A p \in DOMAIN olds : p # 1 => p - 1 \in DOMAIN olds' /\ olds'[p - 1] = olds[p]
  <2>1. olds \in Seq(1..Len(fns))
    BY <1>1 DEF MergeTyped
  <2> QED
    BY <1>2, <2>1
<1>4. ToSet(olds') \subseteq ToSet(olds) /\ \A g \in ToSet(olds) : g # olds[1] => g \in ToSet(olds')
  <2>1. ASSUME NEW g \in ToSet(olds') PROVE g \in ToSet(olds)
    <3>1. PICK p \in DOMAIN olds' : olds'[p] = g
      BY <2>1 DEF ToSet
    <3>2. p + 1 \in DOMAIN olds /\ olds[p + 1] = g
      BY <1>3, <3>1
    <3> QED
      BY <3>2 DEF ToSet
  <2>2. ASSUME NEW g \in ToSet(olds), g # olds[1] PROVE g \in ToSet(olds')
    <3>1. PICK p \in DOMAIN olds : olds[p] = g
      BY <2>2 DEF ToSet
    <3>2. p - 1 \in DOMAIN olds' /\ olds'[p - 1] = g
      BY <1>3, <2>2, <3>1
    <3> QED
      BY <3>2 DEF ToSet
  <2> QED
    BY <2>1, <2>2
<1>5. MergeTyped'
  <2>1. at' \in [f : Nat \ {0}, b : Nat \ {0}, k : Nat \ {0}]
    BY <1>2
  <2> QED
    BY <1>1, <1>2, <1>3, <2>1 DEF MergeTyped
<1>6. Calm
  <2>1. at.f \in Nat /\ Len(fns) \in Nat
    BY <1>1, VectorFacts DEF MergeTyped
  <2> QED
    BY <1>1, <1>2, <2>1, HitInBlock DEF StageInv
<1>7. Calm'
  <2>1. ASSUME NEW f, NEW b, NEW k, NEW g, CallAt(f, b, k, g) PROVE g \in InVector \cup ToSet(olds')
    <3>1. f \in Nat /\ f <= Len(fns) /\ Len(fns) \in Nat
      BY <1>1, <2>1, CallFacts
    <3>2. at.f \in Nat
      BY <1>1 DEF MergeTyped
    <3>3. Behind(f, b, k)
      BY <1>2, <3>1, <3>2 DEF Behind
    <3>4. g # olds[1]
      BY <1>2, <1>6, <2>1, <3>3 DEF Calm
    <3>5. g \in InVector \cup ToSet(olds)
      BY <1>6, <2>1 DEF Calm, CallsInv
    <3> QED
      BY <1>4, <3>4, <3>5
  <2>2. CallsInv' /\ \A f \in Originals' : fns'[f] = start'[f]
    BY <1>2, <1>6, <2>1 DEF Calm, CallsInv, CallAt, InVector, Originals
  <2>3. PICK h : h = olds'[1]
    OBVIOUS
  <2>4. ASSUME NEW f, NEW b, NEW k, CallAt(f, b, k, h)' PROVE ~(Behind(f, b, k)')
    <3>1. f \in DOMAIN fns /\ b \in DOMAIN fns[f].blocks /\ k \in DOMAIN fns[f].blocks[b]
      BY <1>2, <2>4 DEF CallAt
    <3>2. f \in Nat /\ f >= 1 /\ b \in Nat /\ b >= 1 /\ k \in Nat /\ k >= 1
      BY <1>1, <3>1, BodyFacts, VectorFacts
    <3>3. at'.f = 1 /\ at'.b = 1 /\ at'.k = 1
      BY <1>2
    <3> QED
      BY <3>2, <3>3 DEF Behind
  <2> QED
    BY <2>2, <2>3, <2>4, PrimedCalm
<1>8. OldsInv'
  BY <1>1, <1>2, <1>4 DEF OldsInv, InVector
<1>9. StageInv'
  BY <1>2, <1>7 DEF StageInv
<1> QED
  BY <1>1, <1>2, <1>5, <1>8, <1>9, SameOwn, SamePairs DEF MergeInv

\* A call is replaced: what changes is its block.
LEMMA ReplacedCall ==
  ASSUME MergeTyped, OldsInv, ReplaceCall
  PROVE  \E f0 \in DOMAIN fns : \E b0 \in DOMAIN fns[f0].blocks : \E k0 \in DOMAIN fns[f0].blocks[b0] :
         \E x, cs :
           /\ f0 = at.f /\ b0 = at.b /\ k0 = at.k
           /\ x \in Instruction(Len(fns)) /\ x.op = "call" /\ x.home = f0
           /\ fns[f0].blocks[b0][k0].op = "call" /\ fns[f0].blocks[b0][k0].home = Old
           /\ cs = [fns[f0].blocks EXCEPT ![b0] = Append(RemoveAt(fns[f0].blocks[b0], k0), x)]
           /\ fns' = [fns EXCEPT ![f0] = [ret |-> fns[f0].ret, args |-> fns[f0].args, blocks |-> cs]]
<1>1. at \in [f : Nat \ {0}, b : Nat \ {0}, k : Nat \ {0}]
  BY DEF MergeTyped
<1>2. PICK f0, b0, k0 : f0 = at.f /\ b0 = at.b /\ k0 = at.k
  OBVIOUS
<1>3. f0 \in Nat \ {0} /\ b0 \in Nat \ {0} /\ k0 \in Nat \ {0}
  BY <1>1, <1>2
<1>4. f0 <= Len(fns) /\ b0 <= Len(fns[f0].blocks) /\ k0 <= Len(fns[f0].blocks[b0])
  BY <1>2 DEF ReplaceCall, InBlock, Blocks
<1>5. f0 \in DOMAIN fns
  <2>1. Len(fns) \in Nat /\ DOMAIN fns = 1..Len(fns)
    BY VectorFacts
  <2> QED
    BY <1>3, <1>4, <2>1
<1>6. b0 \in DOMAIN fns[f0].blocks
  <2>1. Len(fns[f0].blocks) \in Nat /\ DOMAIN fns[f0].blocks = 1..Len(fns[f0].blocks)
    BY <1>5, BodyFacts
  <2> QED
    BY <1>3, <1>4, <2>1
<1>7. k0 \in DOMAIN fns[f0].blocks[b0]
  <2>1. /\ Len(fns[f0].blocks[b0]) \in Nat
        /\ DOMAIN fns[f0].blocks[b0] = 1..Len(fns[f0].blocks[b0])
    BY <1>5, <1>6, BodyFacts
  <2> QED
    BY <1>3, <1>4, <2>1
<1>8. fns[f0].blocks[b0][k0] = Here /\ Here.op = "call" /\ Here.home = Old
  BY <1>2 DEF ReplaceCall, IsOldCall, Here, Blocks
<1>9. PICK x : x = NewCall
  OBVIOUS
<1>11. merged \in 1..Len(fns) /\ Len(fns) \in Nat
  <2>1. merged \in InVector
    BY DEF OldsInv, ReplaceCall
  <2> QED
    BY <2>1, VectorFacts
<1>12. x \in Instruction(Len(fns)) /\ x.op = "call" /\ x.home = f0
  <2>1. x = [op |-> "call", home |-> f0, callee |-> merged]
    BY <1>2, <1>9 DEF NewCall
  <2>2. f0 \in 1..Len(fns)
    BY <1>3, <1>4, <1>11
  <2> QED
    BY <1>11, <2>1, <2>2 DEF Instruction
<1>13. PICK cs : cs = [fns[f0].blocks EXCEPT ![b0] = Append(RemoveAt(fns[f0].blocks[b0], k0), x)]
  OBVIOUS
<1>14. fns[f0] = [ret |-> fns[f0].ret, args |-> fns[f0].args, blocks |-> fns[f0].blocks]
  <2>1. fns[f0] \in Functions(Len(fns))
    BY <1>5, BodyFacts
  <2> QED
    BY <2>1 DEF Functions
<1>15. fns' = [fns EXCEPT ![f0] = [fns[f0] EXCEPT !.blocks = cs]]
  BY <1>2, <1>9, <1>13 DEF ReplaceCall
<1>16. [fns[f0] EXCEPT !.blocks = cs] = [ret |-> fns[f0].ret, args |-> fns[f0].args, blocks |-> cs]
  BY <1>14
<1>17. fns' = [fns EXCEPT ![f0] = [ret |-> fns[f0].ret, args |-> fns[f0].args, blocks |-> cs]]
  BY <1>15, <1>16
<1> QED
  BY <1>2, <1>5, <1>6, <1>7, <1>8, <1>12, <1>13, <1>17

\* The first call that is redirected is one of Old, in Old: the walk comes to
\* the functions in their order, and merged functions, which may share the
\* call, are behind it.
LEMMA FirstHit ==
  ASSUME MergeTyped, OldsInv, Calm, olds # <<>>,
         NEW f0 \in DOMAIN fns, NEW b0 \in DOMAIN fns[f0].blocks, NEW k0 \in DOMAIN fns[f0].blocks[b0],
         f0 = at.f, fns[f0].blocks[b0][k0].op = "call", fns[f0].blocks[b0][k0].home = Old
  PROVE  Old \in Originals \ InVector /\ HasCall(start[Old]) /\ f0 = Old
<1>1. CallAt(f0, b0, k0, Old)
  BY DEF CallAt
<1>2. Old \in Originals /\ HasCall(start[Old]) /\ (f0 \in Originals => f0 = Old)
  BY <1>1 DEF Calm, CallsInv
<1>3. Old = olds[1] /\ Old \in ToSet(olds)
  BY DEF MergeTyped, Old, ToSet
<1>4. Old \notin InVector
  BY <1>3 DEF OldsInv
<1>5. PICK b \in DOMAIN fns[Old].blocks : \E in \in ToSet(fns[Old].blocks[b]) : in.op = "call"
  BY <1>2 DEF Calm, HasCall
<1>6. PICK k \in DOMAIN fns[Old].blocks[b] : fns[Old].blocks[b][k].op = "call"
  BY <1>5 DEF ToSet
<1>7. Len(start) \in Nat /\ Len(fns) \in Nat /\ Len(start) <= Len(fns) /\ DOMAIN fns = 1..Len(fns)
  BY VectorFacts DEF MergeTyped
<1>8. PICK g : g = fns[Old].blocks[b][k].home
  OBVIOUS
<1>9. Old \in DOMAIN fns
  BY <1>2, <1>7 DEF Originals
<1>10. CallAt(Old, b, k, g)
  BY <1>6, <1>8, <1>9 DEF CallAt
<1>11. g = Old
  BY <1>2, <1>10 DEF Calm, CallsInv
<1>12. ~Behind(Old, b, k)
  BY <1>3, <1>10, <1>11 DEF Calm
<1>13. at.f <= Old /\ f0 \in 1..Len(fns) /\ Old \in 1..Len(start)
  <2>1. f0 \in 1..Len(fns) /\ Old \in 1..Len(start) /\ ~(Old < at.f)
    BY <1>2, <1>7, <1>12 DEF Originals, Behind
  <2> QED
    BY <1>7, <2>1
<1>14. f0 \in Originals
  BY <1>7, <1>13 DEF Originals
<1> QED
  BY <1>2, <1>4, <1>14

LEMMA ReplaceStep == ASSUME MergeInv, ReplaceCall PROVE MergeInv'
<1>1. MergeTyped /\ OldsInv /\ StageInv /\ PairsInv /\ OwnInv
  BY DEF MergeInv
<1>2. /\ UNCHANGED <<functions, first, second, merged, olds, at, start>>
      /\ stage = "replace" /\ stage' \in {"replace", "crashed"} /\ olds # <<>>
  BY DEF ReplaceCall
<1>3. PICK f0 \in DOMAIN fns : \E b0 \in DOMAIN fns[f0].blocks : \E k0 \in DOMAIN fns[f0].blocks[b0] :
         \E x, cs :
           /\ f0 = at.f /\ b0 = at.b /\ k0 = at.k
           /\ x \in Instruction(Len(fns)) /\ x.op = "call" /\ x.home = f0
           /\ fns[f0].blocks[b0][k0].op = "call" /\ fns[f0].blocks[b0][k0].home = Old
           /\ cs = [fns[f0].blocks EXCEPT ![b0] = Append(RemoveAt(fns[f0].blocks[b0], k0), x)]
           /\ fns' = [fns EXCEPT ![f0] = [ret |-> fns[f0].ret, args |-> fns[f0].args, blocks |-> cs]]
  BY <1>1, ReplacedCall
<1>4. PICK b0 \in DOMAIN fns[f0].blocks : \E k0 \in DOMAIN fns[f0].blocks[b0] :
         \E x, cs :
           /\ f0 = at.f /\ b0 = at.b /\ k0 = at.k
           /\ x \in Instruction(Len(fns)) /\ x.op = "call" /\ x.home = f0
           /\ fns[f0].blocks[b0][k0].op = "call" /\ fns[f0].blocks[b0][k0].home = Old
           /\ cs = [fns[f0].blocks EXCEPT ![b0] = Append(RemoveAt(fns[f0].blocks[b0], k0), x)]
           /\ fns' = [fns EXCEPT ![f0] = [ret |-> fns[f0].ret, args |-> fns[f0].args, blocks |-> cs]]
  BY <1>3
<1>5. PICK k0 \in DOMAIN fns[f0].blocks[b0] : \E x, cs :
           /\ f0 = at.f /\ b0 = at.b /\ k0 = at.k
           /\ x \in Instruction(Len(fns)) /\ x.op = "call" /\ x.home = f0
           /\ fns[f0].blocks[b0][k0].op = "call" /\ fns[f0].blocks[b0][k0].home = Old
           /\ cs = [fns[f0].blocks EXCEPT ![b0] = Append(RemoveAt(fns[f0].blocks[b0], k0), x)]
           /\ fns' = [fns EXCEPT ![f0] = [ret |-> fns[f0].ret, args |-> fns[f0].args, blocks |-> cs]]
  BY <1>4
<1>6. PICK x, cs :
           /\ f0 = at.f /\ b0 = at.b /\ k0 = at.k
           /\ x \in Instruction(Len(fns)) /\ x.op = "call" /\ x.home = f0
           /\ fns[f0].blocks[b0][k0].op = "call" /\ fns[f0].blocks[b0][k0].home = Old
           /\ cs = [fns[f0].blocks EXCEPT ![b0] = Append(RemoveAt(fns[f0].blocks[b0], k0), x)]
           /\ fns' = [fns EXCEPT ![f0] = [ret |-> fns[f0].ret, args |-> fns[f0].args, blocks |-> cs]]
  BY <1>5
<1>7. PICK n, bs, gs : n = Len(fns) /\ bs = fns[f0].blocks /\ gs = fns'
  OBVIOUS
<1>8. bs \in Seq(Seq(Instruction(n))) /\ n \in Nat /\ DOMAIN fns = 1..n
  BY <1>1, <1>7, BodyFacts, VectorFacts
<1>9. /\ b0 \in DOMAIN bs /\ k0 \in DOMAIN bs[b0] /\ x \in Instruction(n)
      /\ x.op = bs[b0][k0].op /\ cs = [bs EXCEPT ![b0] = Append(RemoveAt(bs[b0], k0), x)]
  BY <1>6, <1>7
<1>10. /\ cs \in Seq(Seq(Instruction(n))) /\ DOMAIN cs = DOMAIN bs
       /\ \A c \in DOMAIN bs : c # b0 => cs[c] = bs[c]
       /\ DOMAIN cs[b0] = DOMAIN bs[b0]
       /\ Len(cs[b0]) \in DOMAIN cs[b0] /\ cs[b0][Len(cs[b0])] = x
       /\ Reordered(bs, cs)
  <2>1. IsRelocatedBody(cs, Instruction(n), bs, b0, k0, x)
    BY <1>8, <1>9, RelocatedBody
  <2> QED
    BY <2>1 DEF IsRelocatedBody
<1>11. PICK new : new = [ret |-> fns[f0].ret, args |-> fns[f0].args, blocks |-> cs]
  OBVIOUS
<1>12. /\ gs = [fns EXCEPT ![f0] = new] /\ new.blocks = cs
       /\ new.ret = fns[f0].ret /\ new.args = fns[f0].args
  BY <1>6, <1>7, <1>11
<1>13. DOMAIN gs = DOMAIN fns /\ gs[f0] = new /\ \A f \in DOMAIN fns : f # f0 => gs[f] = fns[f]
  BY <1>12
<1>14. IsFunctions(gs) /\ Len(gs) = n
  <2>1. fns \in Seq(Functions(n)) /\ fns[f0] \in Functions(n)
    BY <1>1, <1>7, FunctionsFacts DEF MergeTyped
  <2>2. new \in Functions(n)
    BY <1>10, <1>11, <2>1 DEF Functions
  <2>3. f0 \in 1..Len(fns)
    BY <1>7, <1>8
  <2>4. gs \in Seq(Functions(n)) /\ Len(gs) = Len(fns)
    BY <1>12, <2>1, <2>2, <2>3, ExceptSeq
  <2> QED
    BY <1>7, <2>4 DEF IsFunctions, Functions
<1>15. Alike(fns, gs)
  <2>1. ASSUME NEW f \in DOMAIN fns
        PROVE  /\ fns[f].ret = gs[f].ret /\ fns[f].args = gs[f].args
               /\ Reordered(fns[f].blocks, gs[f].blocks)
    BY <1>7, <1>10, <1>12, <1>13, SameOrder
  <2> QED
    BY <1>13, <2>1 DEF Alike
<1>16. MergeTyped'
  BY <1>1, <1>2, <1>7, <1>14 DEF MergeTyped
<1>17. Old \in Originals \ InVector /\ HasCall(start[Old]) /\ f0 = Old
  <2>1. CASE Calm
    BY <1>1, <1>2, <1>6, <2>1, FirstHit
  <2>2. CASE Hit
    BY <1>6, <2>2 DEF Hit
  <2> QED
    BY <1>1, <1>2, <2>1, <2>2 DEF StageInv
<1>18. StageInv'
  <2>1. Old' = Old /\ InVector' = InVector /\ Originals' = Originals /\ start' = start
    BY <1>2 DEF Old, InVector, Originals
  <2>2. fns'[f0].blocks = cs /\ f0 \in DOMAIN fns'
    BY <1>7, <1>12, <1>13
  <2>3. CallAt(f0, b0, Len(cs[b0]), f0)'
    BY <1>6, <1>9, <1>10, <2>2 DEF CallAt
  <2>4. at'.f = f0 /\ at'.b = b0 /\ at'.k = k0
    BY <1>2, <1>6
  <2>5. k0 \in DOMAIN cs[b0] /\ b0 \in DOMAIN cs
    BY <1>9, <1>10
  <2>6. Hit'
    BY <1>2, <1>17, <2>1, <2>2, <2>3, <2>4, <2>5 DEF Hit, CallAt
  <2>7. \E f \in Originals' \ InVector' : HasCall(start'[f])
    BY <1>17, <2>1
  <2> QED
    BY <1>2, <2>6, <2>7 DEF StageInv
<1>19. PairsInv'
  <2> SUFFICES ASSUME NEW p \in DOMAIN functions, NEW q \in DOMAIN functions, p < q,
                      functions[q] <= Len(start), p < first \/ (p = first /\ q < second)
               PROVE  ~Similar(gs[functions[p]], gs[functions[q]])
    BY <1>2, <1>7 DEF PairsInv
  <2>1. ~Similar(fns[functions[p]], fns[functions[q]])
    BY <1>1 DEF PairsInv
  <2>2. functions[p] \in DOMAIN fns /\ functions[q] \in DOMAIN fns
    BY <1>1, VectorFacts
  <2>3. IsFunctions(fns)
    BY <1>1 DEF MergeTyped
  <2> QED
    BY <1>14, <1>15, <2>1, <2>2, <2>3, SimilarKept
<1>20. OwnInv'
  <2>1. InVector \in SUBSET DOMAIN fns /\ IsFiniteSet(Own(fns, InVector))
    BY <1>1, VectorFacts DEF OwnInv
  <2>2. IsFiniteSet(Own(gs, InVector)) /\ Cardinality(Own(gs, InVector)) = Cardinality(Own(fns, InVector))
    BY <1>15, <2>1, OwnKept
  <2>3. InVector' = InVector /\ start' = start /\ Originals' = Originals
    BY <1>2 DEF InVector, Originals
  <2> QED
    BY <1>1, <1>7, <2>2, <2>3 DEF OwnInv, CodeKept
<1> QED
  BY <1>1, <1>2, <1>16, <1>18, <1>19, <1>20, SameOlds DEF MergeInv

\* pos says where in t the instructions of a body are.
Flattened(pos, bs, t) ==
  OneToOne(pos, Places(bs), DOMAIN t) /\ \A p \in Places(bs) : t[pos[p]] = bs[p[1]][p[2]]

LEMMA FlattenedBody ==
  ASSUME NEW S, NEW bs \in Seq(Seq(S)), NEW t, t = FlattenSeq(bs)
  PROVE  t \in Seq(S) /\ \E pos : Flattened(pos, bs, t)
<1>1. FlattenSeq(bs) \in Seq(S)
  BY FlattenPlaces
<1>2. PICK pos : /\ pos \in [Places(bs) -> DOMAIN FlattenSeq(bs)]
                 /\ \A p, q \in Places(bs) : pos[p] = pos[q] => p = q
                 /\ \A k \in DOMAIN FlattenSeq(bs) : \E p \in Places(bs) : pos[p] = k
                 /\ \A p \in Places(bs) : FlattenSeq(bs)[pos[p]] = bs[p[1]][p[2]]
  BY FlattenPlaces
<1> QED
  BY <1>1, <1>2 DEF Flattened, OneToOne

\* gs is fs, of n functions, and the merged function of the f1-th and the
\* f2-th, whose blocks are t0, t1 and t2.
IsMergedModule(gs, fs, n, f1, f2, t0, t1, t2, pos1, pos2) ==
  /\ IsFunctions(gs) /\ Len(gs) = n + 1 /\ DOMAIN gs = 1..(n + 1)
  /\ \A f \in 1..n : gs[f] = fs[f]
  /\ gs[n + 1].blocks = <<t0, t1, t2>>
  /\ \A k \in DOMAIN t0 : t0[k].op \notin {"op", "ret", "call"}
  /\ Flattened(pos1, fs[f1].blocks, t1) /\ Flattened(pos2, fs[f2].blocks, t2)

LEMMA MergedModule ==
  ASSUME NEW fs, IsFunctions(fs), NEW n, n = Len(fs), NEW f1 \in 1..n, NEW f2 \in 1..n,
         NEW gs, gs = Append(fs, Merged(fs[f1], fs[f2]))
  PROVE  \E t0, t1, t2, pos1, pos2 : IsMergedModule(gs, fs, n, f1, f2, t0, t1, t2, pos1, pos2)
<1>1. /\ fs \in Seq(Functions(n)) /\ n \in Nat /\ DOMAIN fs = 1..n
      /\ fs[f1] \in Functions(n) /\ fs[f2] \in Functions(n)
  BY FunctionsFacts
<1>2. PICK t0, t1, t2 : /\ t0 = <<Plain("cmp"), Plain("br")>>
                        /\ t1 = FlattenSeq(fs[f1].blocks) /\ t2 = FlattenSeq(fs[f2].blocks)
  OBVIOUS
<1>3. fs[f1].blocks \in Seq(Seq(Instruction(n))) /\ fs[f2].blocks \in Seq(Seq(Instruction(n)))
  BY <1>1, FunctionFacts
<1>4. t1 \in Seq(Instruction(n)) /\ t2 \in Seq(Instruction(n))
  BY <1>2, <1>3, FlattenedBody
<1>5. PICK pos1 : Flattened(pos1, fs[f1].blocks, t1)
  BY <1>2, <1>3, FlattenedBody
<1>6. PICK pos2 : Flattened(pos2, fs[f2].blocks, t2)
  BY <1>2, <1>3, FlattenedBody
<1>7. Instruction(n) \subseteq Instruction(n + 1)
  BY <1>1 DEF Instruction
<1>8. /\ t0 \in Seq(Instruction(n + 1)) /\ DOMAIN t0 = {1, 2}
      /\ t0[1].op = "cmp" /\ t0[2].op = "br"
  <2>1. Plain("cmp") \in Instruction(n + 1) /\ Plain("br") \in Instruction(n + 1)
    BY <1>1 DEF Plain, Instruction
  <2> QED
    BY <1>2, <2>1 DEF Plain
<1>9. PICK new : new = Merged(fs[f1], fs[f2])
  OBVIOUS
<1>10. new = [ret |-> fs[f1].ret, args |-> fs[f1].args + 1, blocks |-> <<t0, t1, t2>>]
  BY <1>2, <1>9 DEF Merged
<1>11. new \in Functions(n + 1)
  <2>1. t1 \in Seq(Instruction(n + 1)) /\ t2 \in Seq(Instruction(n + 1))
    BY <1>4, <1>7, WiderSeq
  <2>2. <<t0, t1, t2>> \in Seq(Seq(Instruction(n + 1)))
    BY <1>8, <2>1
  <2>3. fs[f1].ret \in {"int", "float", "void"} /\ fs[f1].args + 1 \in Nat
    BY <1>1 DEF Functions
  <2> QED
    BY <1>10, <2>2, <2>3 DEF Functions
<1>12. Functions(n) \subseteq Functions(n + 1)
  <2>1. Seq(Seq(Instruction(n))) \subseteq Seq(Seq(Instruction(n + 1)))
    BY <1>7, WiderBlocks
  <2> QED
    BY <2>1 DEF Functions
<1>13. fs \in Seq(Functions(n + 1))
  BY <1>1, <1>12, WiderSeq
<1>14. IsAppended(gs, Functions(n + 1), fs, new)
  BY <1>9, <1>11, <1>13, Appended
<1>15. /\ gs \in Seq(Functions(n + 1)) /\ Len(gs) = n + 1
       /\ \A f \in 1..n : gs[f] = fs[f]
       /\ gs[n + 1] = new
  BY <1>14 DEF IsAppended
<1>16. IsFunctions(gs) /\ DOMAIN gs = 1..(n + 1)
  BY <1>15 DEF IsFunctions, Functions
<1>17. gs[n + 1].blocks = <<t0, t1, t2>>
  BY <1>10, <1>15
<1>18. \A k \in DOMAIN t0 : t0[k].op \notin {"op", "ret", "call"}
  BY <1>8
<1>19. IsMergedModule(gs, fs, n, f1, f2, t0, t1, t2, pos1, pos2)
  BY <1>5, <1>6, <1>15, <1>16, <1>17, <1>18 DEF IsMergedModule
<1> QED
  BY <1>19

\* As much code in the W of gs as in the V of fs.
AsMuch(gs, W, fs, V) ==
  IsFiniteSet(Own(gs, W)) /\ Cardinality(Own(gs, W)) = Cardinality(Own(fs, V))

\* A merged function has the code of both, and nothing else of its own.
LEMMA MergedOwn ==
  ASSUME NEW n \in Nat, NEW fs, NEW gs, NEW V \in SUBSET (1..n), NEW f1 \in V, NEW f2 \in V, f1 # f2,
         NEW t0, NEW t1, NEW t2, NEW pos1, NEW pos2,
         IsMergedModule(gs, fs, n, f1, f2, t0, t1, t2, pos1, pos2),
         NEW W, W = (V \ {f1, f2}) \cup {n + 1}, IsFiniteSet(Own(fs, V))
  PROVE  AsMuch(gs, W, fs, V)
<1> DEFINE rho == [e \in Own(fs, V) |->
                     IF e[1] = f1 THEN <<n + 1, <<2, pos1[e[2]]>>>>
                     ELSE IF e[1] = f2 THEN <<n + 1, <<3, pos2[e[2]]>>>> ELSE e]
           OwnOp(o) == o \in {"op", "ret"}
<1>0. /\ \A f \in 1..n : gs[f] = fs[f]
      /\ gs[n + 1].blocks = <<t0, t1, t2>>
      /\ \A k \in DOMAIN t0 : t0[k].op \notin {"op", "ret"}
      /\ Flattened(pos1, fs[f1].blocks, t1) /\ Flattened(pos2, fs[f2].blocks, t2)
  BY DEF IsMergedModule
<1> USE <1>0
<1>1. n + 1 \notin V /\ n + 1 # f1 /\ n + 1 # f2
  OBVIOUS
<1>2. PICK new : new = gs[n + 1].blocks
  OBVIOUS
<1>3. DOMAIN new = {1, 2, 3} /\ new[1] = t0 /\ new[2] = t1 /\ new[3] = t2
  BY <1>2
<1>4. ASSUME NEW p
      PROVE  /\ (p \in Places(new) /\ OwnOp(OpAt(new, p)))
                <=> \/ \E k \in DOMAIN t1 : p = <<2, k>> /\ OwnOp(t1[k].op)
                    \/ \E k \in DOMAIN t2 : p = <<3, k>> /\ OwnOp(t2[k].op)
  <2>1. ASSUME p \in Places(new), OwnOp(OpAt(new, p))
        PROVE  \/ \E k \in DOMAIN t1 : p = <<2, k>> /\ OwnOp(t1[k].op)
               \/ \E k \in DOMAIN t2 : p = <<3, k>> /\ OwnOp(t2[k].op)
    <3>1. PICK b \in {1, 2, 3} : \E k \in DOMAIN new[b] : p = <<b, k>>
      BY <1>3, <2>1, PlaceIn
    <3>2. PICK k \in DOMAIN new[b] : p = <<b, k>>
      BY <3>1
    <3>3. OwnOp(new[b][k].op)
      BY <2>1, <3>2 DEF OpAt
    <3>4. b # 1
      BY <1>3, <3>2, <3>3
    <3> HIDE DEF OwnOp
    <3> QED
      BY <1>3, <3>2, <3>3, <3>4
  <2>2. ASSUME NEW k \in DOMAIN t1, p = <<2, k>>, OwnOp(t1[k].op)
        PROVE  p \in Places(new) /\ OwnOp(OpAt(new, p))
    <3>1. p \in Places(new)
      BY <1>3, <2>2, PlaceIn
    <3>2. OpAt(new, p) = t1[k].op
      BY <1>3, <2>2 DEF OpAt
    <3> QED
      BY <2>2, <3>1, <3>2
  <2>3. ASSUME NEW k \in DOMAIN t2, p = <<3, k>>, OwnOp(t2[k].op)
        PROVE  p \in Places(new) /\ OwnOp(OpAt(new, p))
    <3>1. p \in Places(new)
      BY <1>3, <2>3, PlaceIn
    <3>2. OpAt(new, p) = t2[k].op
      BY <1>3, <2>3 DEF OpAt
    <3> QED
      BY <2>3, <3>1, <3>2
  <2> HIDE DEF OwnOp
  <2> QED
    BY <2>1, <2>2, <2>3
<1>5. \A e : e \in Own(fs, V) <=> \E f \in V : \E p \in Places(fs[f].blocks) :
                                    OwnOp(OpAt(fs[f].blocks, p)) /\ e = <<f, p>>
  BY DEF Own
<1>6. \A e : e \in Own(gs, W) <=> \E f \in W : \E p \in Places(gs[f].blocks) :
                                    OwnOp(OpAt(gs[f].blocks, p)) /\ e = <<f, p>>
  BY DEF Own
<1> HIDE DEF OwnOp
<1>7. ASSUME NEW e \in Own(fs, V)
      PROVE  /\ e[1] \in V /\ e[2] \in Places(fs[e[1]].blocks) /\ e = <<e[1], e[2]>>
             /\ OwnOp(OpAt(fs[e[1]].blocks, e[2]))
  <2>1. PICK f \in V : \E p \in Places(fs[f].blocks) : OwnOp(OpAt(fs[f].blocks, p)) /\ e = <<f, p>>
    BY <1>5
  <2>2. PICK p \in Places(fs[f].blocks) : OwnOp(OpAt(fs[f].blocks, p)) /\ e = <<f, p>>
    BY <2>1
  <2> QED
    BY <2>2
<1>8. ASSUME NEW e \in Own(fs, V)
      PROVE  /\ e[1] = f1 => rho[e] = <<n + 1, <<2, pos1[e[2]]>>>>
             /\ e[1] = f2 => rho[e] = <<n + 1, <<3, pos2[e[2]]>>>>
             /\ e[1] # f1 /\ e[1] # f2 => rho[e] = e
             /\ rho[e] \in Own(gs, W)
  <2>1. PICK f, p : f = e[1] /\ p = e[2]
    OBVIOUS
  <2>2. f \in V /\ p \in Places(fs[f].blocks) /\ e = <<f, p>> /\ OwnOp(OpAt(fs[f].blocks, p))
    BY <1>7, <2>1
  <2>3. CASE f = f1
    <3>1. rho[e] = <<n + 1, <<2, pos1[p]>>>>
      BY <2>1, <2>3
    <3>2. pos1[p] \in DOMAIN t1 /\ t1[pos1[p]] = fs[f].blocks[p[1]][p[2]]
      BY <2>2, <2>3 DEF Flattened, OneToOne
    <3>3. OwnOp(t1[pos1[p]].op)
      BY <2>2, <3>2 DEF OpAt
    <3>4. PICK q : q = <<2, pos1[p]>>
      OBVIOUS
    <3>5. q \in Places(new) /\ OwnOp(OpAt(new, q))
      BY <1>4, <3>2, <3>3, <3>4
    <3>6. <<n + 1, q>> \in Own(gs, W)
      BY <1>2, <1>6, <3>5
    <3> QED
      BY <2>1, <2>3, <3>1, <3>4, <3>6
  <2>4. CASE f = f2
    <3>1. rho[e] = <<n + 1, <<3, pos2[p]>>>>
      BY <2>1, <2>4
    <3>2. pos2[p] \in DOMAIN t2 /\ t2[pos2[p]] = fs[f].blocks[p[1]][p[2]]
      BY <2>2, <2>4 DEF Flattened, OneToOne
    <3>3. OwnOp(t2[pos2[p]].op)
      BY <2>2, <3>2 DEF OpAt
    <3>4. PICK q : q = <<3, pos2[p]>>
      OBVIOUS
    <3>5. q \in Places(new) /\ OwnOp(OpAt(new, q))
      BY <1>4, <3>2, <3>3, <3>4
    <3>6. <<n + 1, q>> \in Own(gs, W)
      BY <1>2, <1>6, <3>5
    <3> QED
      BY <2>1, <2>4, <3>1, <3>4, <3>6
  <2>5. CASE f # f1 /\ f # f2
    <3>1. rho[e] = e
      BY <2>1, <2>5
    <3>2. f \in W /\ gs[f] = fs[f]
      BY <2>2, <2>5
    <3>3. e \in Own(gs, W)
      BY <1>6, <2>2, <3>2
    <3> QED
      BY <2>1, <2>5, <3>1, <3>3
  <2> QED
    BY <2>3, <2>4, <2>5
<1>9. rho \in [Own(fs, V) -> Own(gs, W)]
  <2>1. \A e \in Own(fs, V) : rho[e] \in Own(gs, W)
    BY <1>8
  <2> QED
    BY <2>1
<1> HIDE DEF rho
<1>10. ASSUME NEW r \in Own(gs, W) PROVE \E e \in Own(fs, V) : rho[e] = r
  <2>1. PICK f \in W : \E p \in Places(gs[f].blocks) : OwnOp(OpAt(gs[f].blocks, p)) /\ r = <<f, p>>
    BY <1>6
  <2>2. PICK p \in Places(gs[f].blocks) : OwnOp(OpAt(gs[f].blocks, p)) /\ r = <<f, p>>
    BY <2>1
  <2>3. CASE f # n + 1
    <3>1. f \in V /\ f # f1 /\ f # f2 /\ gs[f] = fs[f]
      BY <2>3
    <3>2. r \in Own(fs, V) /\ r[1] = f
      BY <1>5, <2>2, <3>1
    <3> QED
      BY <1>8, <3>1, <3>2
  <2>4. CASE f = n + 1
    <3>1. p \in Places(new) /\ OwnOp(OpAt(new, p))
      BY <1>2, <2>2, <2>4
    <3>2. ASSUME NEW k \in DOMAIN t1, p = <<2, k>>, OwnOp(t1[k].op)
          PROVE  \E e \in Own(fs, V) : rho[e] = r
      <4>1. PICK q \in Places(fs[f1].blocks) : pos1[q] = k
        BY DEF Flattened, OneToOne
      <4>2. OwnOp(OpAt(fs[f1].blocks, q))
        BY <3>2, <4>1 DEF Flattened, OpAt
      <4>3. PICK e : e = <<f1, q>>
        OBVIOUS
      <4>4. e \in Own(fs, V) /\ e[1] = f1 /\ e[2] = q
        BY <1>5, <4>2, <4>3
      <4>5. rho[e] = r
        BY <1>8, <2>2, <2>4, <3>2, <4>1, <4>4
      <4> QED
        BY <4>4, <4>5
    <3>3. ASSUME NEW k \in DOMAIN t2, p = <<3, k>>, OwnOp(t2[k].op)
          PROVE  \E e \in Own(fs, V) : rho[e] = r
      <4>1. PICK q \in Places(fs[f2].blocks) : pos2[q] = k
        BY DEF Flattened, OneToOne
      <4>2. OwnOp(OpAt(fs[f2].blocks, q))
        BY <3>3, <4>1 DEF Flattened, OpAt
      <4>3. PICK e : e = <<f2, q>>
        OBVIOUS
      <4>4. e \in Own(fs, V) /\ e[1] = f2 /\ e[2] = q
        BY <1>5, <4>2, <4>3
      <4>5. rho[e] = r
        BY <1>8, <2>2, <2>4, <3>3, <4>1, <4>4
      <4> QED
        BY <4>4, <4>5
    <3> QED
      BY <1>4, <3>1, <3>2, <3>3
  <2> QED
    BY <2>3, <2>4
<1>11. ASSUME NEW d \in Own(fs, V), NEW e \in Own(fs, V), rho[d] = rho[e] PROVE d = e
  <2>1. PICK f, g, p, q : f = d[1] /\ g = e[1] /\ p = d[2] /\ q = e[2]
    OBVIOUS
  <2>2. /\ f \in V /\ p \in Places(fs[f].blocks) /\ d = <<f, p>>
        /\ g \in V /\ q \in Places(fs[g].blocks) /\ e = <<g, q>>
    BY <1>7, <2>1
  <2>3. /\ f = f1 => rho[d] = <<n + 1, <<2, pos1[p]>>>>
        /\ f = f2 => rho[d] = <<n + 1, <<3, pos2[p]>>>>
        /\ f # f1 /\ f # f2 => rho[d] = <<f, p>>
    BY <1>8, <2>1, <2>2
  <2>4. /\ g = f1 => rho[e] = <<n + 1, <<2, pos1[q]>>>>
        /\ g = f2 => rho[e] = <<n + 1, <<3, pos2[q]>>>>
        /\ g # f1 /\ g # f2 => rho[e] = <<g, q>>
    BY <1>8, <2>1, <2>2
  <2>5. CASE f = f1
    <3>1. g = f1
      BY <1>1, <1>11, <2>2, <2>3, <2>4, <2>5
    <3>2. pos1[p] = pos1[q]
      BY <1>11, <2>3, <2>4, <2>5, <3>1
    <3>3. p = q
      BY <2>2, <2>5, <3>1, <3>2 DEF Flattened, OneToOne
    <3> QED
      BY <2>2, <2>5, <3>1, <3>3
  <2>6. CASE f = f2
    <3>1. g = f2
      BY <1>1, <1>11, <2>2, <2>3, <2>4, <2>6
    <3>2. pos2[p] = pos2[q]
      BY <1>11, <2>3, <2>4, <2>6, <3>1
    <3>3. p = q
      BY <2>2, <2>6, <3>1, <3>2 DEF Flattened, OneToOne
    <3> QED
      BY <2>2, <2>6, <3>1, <3>3
  <2>7. CASE f # f1 /\ f # f2
    <3>1. g # f1 /\ g # f2
      BY <1>1, <1>11, <2>2, <2>3, <2>4, <2>7
    <3> QED
      BY <1>11, <2>2, <2>3, <2>4, <2>7, <3>1
  <2> QED
    BY <2>5, <2>6, <2>7
<1>12. OneToOne(rho, Own(fs, V), Own(gs, W))
  BY <1>9, <1>10, <1>11 DEF OneToOne
<1> QED
  BY <1>12, SameNumber DEF AsMuch

LEMMA MergeStep == ASSUME MergeInv, MergePair PROVE MergeInv'
<1>1. MergeTyped /\ OldsInv /\ StageInv /\ PairsInv /\ OwnInv
  BY DEF MergeInv
<1>2. PICK n, m, v, i, j, fs, f1, f2 :
        /\ n = Len(fns) /\ m = Len(functions) /\ v = functions /\ i = first /\ j = second /\ fs = fns
        /\ f1 = v[i] /\ f2 = v[j]
  OBVIOUS
<1>3. /\ stage = "compare" /\ olds = <<>> /\ second <= Len(functions) /\ start' = start
      /\ fns' = Append(fns, Merged(fns[functions[first]], fns[functions[second]]))
      /\ merged' = Len(fns') /\ olds' = <<functions[first], functions[second]>>
      /\ functions' = Append(RemoveAt(RemoveAt(functions, second), first), merged')
      /\ first' = first /\ second' = first + 1
      /\ at' = [f |-> 1, b |-> 1, k |-> 1] /\ stage' = "replace"
  BY <1>1 DEF MergePair, MergeTyped
<1>4. /\ n \in Nat /\ m \in Nat /\ v \in Seq(1..n) /\ v \in [1..m -> 1..n] /\ Ascending(v)
      /\ m = Len(v) /\ DOMAIN v = 1..m
      /\ i \in 1..m /\ j \in 1..m /\ i < j
  <2>1. /\ functions \in Seq(1..Len(fns)) /\ Ascending(functions)
        /\ first \in 1..(Len(functions) + 1) /\ second \in Nat /\ first < second
    BY <1>1 DEF MergeTyped
  <2>2. /\ n \in Nat /\ m \in Nat /\ v \in Seq(1..n) /\ v \in [1..m -> 1..n] /\ Ascending(v)
        /\ m = Len(v) /\ DOMAIN v = 1..m
    BY <1>1, <1>2, <2>1, VectorFacts
  <2> QED
    BY <1>2, <1>3, <2>1, <2>2
<1>5. f1 \in 1..n /\ f2 \in 1..n /\ f1 < f2
  BY <1>2, <1>4 DEF Ascending
<1>6. PICK gs : gs = Append(fs, Merged(fs[f1], fs[f2]))
  OBVIOUS
<1>7. fns' = gs
  BY <1>2, <1>3, <1>6
<1>8. IsFunctions(fs) /\ n = Len(fs)
  BY <1>1, <1>2 DEF MergeTyped
<1>9. PICK t0, t1, t2, pos1, pos2 : IsMergedModule(gs, fs, n, f1, f2, t0, t1, t2, pos1, pos2)
  BY <1>5, <1>6, <1>8, MergedModule
<1>10. /\ IsFunctions(gs) /\ Len(gs) = n + 1 /\ DOMAIN gs = 1..(n + 1)
       /\ \A f \in 1..n : gs[f] = fs[f]
       /\ gs[n + 1].blocks = <<t0, t1, t2>>
       /\ \A k \in DOMAIN t0 : t0[k].op \notin {"op", "ret", "call"}
       /\ Flattened(pos1, fs[f1].blocks, t1) /\ Flattened(pos2, fs[f2].blocks, t2)
  BY <1>9 DEF IsMergedModule
<1>11. merged' = n + 1
  BY <1>3, <1>7, <1>10
<1>12. PICK w : w = Append(RemoveAt(RemoveAt(v, j), i), n + 1)
  OBVIOUS
<1>13. functions' = w /\ olds' = <<f1, f2>>
  BY <1>2, <1>3, <1>11, <1>12
<1>14. IsMergedVector(w, v, m, n, i, j)
  BY <1>4, <1>12, MergedVector
<1>15. /\ w \in Seq(1..(n + 1)) /\ Len(w) = m - 1 /\ DOMAIN w = 1..(m - 1)
       /\ \A p \in 1..(m - 2) : p < i => w[p] = v[p]
       /\ w[m - 1] = n + 1
  BY <1>14 DEF IsMergedVector
<1>16. /\ Ascending(w)
       /\ ToSet(w) = (ToSet(v) \ {f1, f2}) \cup {n + 1}
       /\ \A q \in 1..(m - 1) : w[q] # n + 1 => \E p \in 1..m : q <= p /\ w[q] = v[p]
  <2>1. IsMergedMembers(w, v, m, n, i, j)
    BY <1>4, <1>14, MergedMembers
  <2> QED
    BY <1>2, <2>1 DEF IsMergedMembers
<1>17. PICK V, W : V = ToSet(v) /\ W = ToSet(w)
  OBVIOUS
<1>18. /\ InVector = V /\ InVector' = W /\ W = (V \ {f1, f2}) \cup {n + 1}
       /\ V \subseteq 1..n /\ f1 \in V /\ f2 \in V
  <2>1. InVector = V /\ InVector' = W
    BY <1>2, <1>13, <1>17 DEF InVector
  <2>2. V \subseteq 1..n /\ f1 \in V /\ f2 \in V
    BY <1>2, <1>4, <1>17 DEF ToSet
  <2> QED
    BY <1>16, <1>17, <2>1, <2>2
<1>19. MergeTyped'
  <2>1. i \in 1..((m - 1) + 1) /\ i + 1 \in Nat /\ i < i + 1
    BY <1>4
  <2>2. first' = i /\ second' = i + 1 /\ Len(functions') = m - 1
    BY <1>2, <1>3, <1>13, <1>15
  <2>3. olds' \in Seq(1..(n + 1)) /\ n + 1 \in Nat
    BY <1>4, <1>5, <1>13
  <2>4. at' \in [f : Nat \ {0}, b : Nat \ {0}, k : Nat \ {0}]
    BY <1>3
  <2>5. Len(start) \in Nat /\ Len(start) <= n /\ IsFunctions(start)
    BY <1>1, <1>2, VectorFacts DEF MergeTyped
  <2>6. Len(start) <= n + 1
    BY <1>4, <2>5
  <2> QED
    BY <1>3, <1>7, <1>10, <1>11, <1>13, <1>15, <1>16, <2>1, <2>2, <2>3, <2>4, <2>5, <2>6 DEF MergeTyped
<1>20. Calm'
  <2>0. Calm /\ Originals' = Originals /\ Originals \subseteq 1..n /\ start' = start
    <3>1. Len(start) \in Nat /\ Len(start) <= n /\ n \in Nat
      BY <1>1, <1>2, <1>4, VectorFacts DEF MergeTyped
    <3> QED
      BY <1>1, <1>3, <3>1 DEF StageInv, Originals
  <2> DEFINE Lawful(f, in) == /\ in.home \in Originals /\ HasCall(start[in.home])
                             /\ (f \in Originals => f = in.home)
                             /\ in.home \in V /\ in.callee \in Originals
  <2>1. ASSUME NEW f, NEW b, NEW k, NEW in, CallAt(f, b, k, in.home), in = fns[f].blocks[b][k]
        PROVE  Lawful(f, in)
    <3>1. ToSet(olds) = {}
      BY <1>3 DEF ToSet
    <3> QED
      BY <1>18, <2>0, <2>1, <3>1 DEF Calm, CallsInv
  <2> HIDE DEF Lawful
  <2>2. V \subseteq W \cup {f1, f2}
    BY <1>18
  <2>5. n + 1 \notin Originals /\ \A f, in : Lawful(f, in) => Lawful(n + 1, in)
    <3>1. n + 1 \notin Originals
      BY <1>4, <2>0
    <3> QED
      BY <3>1 DEF Lawful
  <2>3. ASSUME NEW f0 \in 1..n, NEW t, NEW pos, Flattened(pos, fs[f0].blocks, t),
               NEW k \in DOMAIN t, t[k].op = "call"
        PROVE  Lawful(f0, t[k])
    <3>1. PICK p \in Places(fs[f0].blocks) : pos[p] = k
      BY <2>3 DEF Flattened, OneToOne
    <3>2. t[k] = fs[f0].blocks[p[1]][p[2]]
      BY <2>3, <3>1 DEF Flattened
    <3>3. PICK b \in DOMAIN fs[f0].blocks : \E l \in DOMAIN fs[f0].blocks[b] : p = <<b, l>>
      BY <3>1, PlaceIn
    <3>4. PICK l \in DOMAIN fs[f0].blocks[b] : p = <<b, l>>
      BY <3>3
    <3>5. PICK in : in = t[k]
      OBVIOUS
    <3>6. f0 \in DOMAIN fns /\ in = fs[f0].blocks[b][l]
      BY <1>1, <1>2, <3>2, <3>4, <3>5, VectorFacts
    <3>7. CallAt(f0, b, l, in.home)
      BY <1>2, <2>3, <3>3, <3>4, <3>5, <3>6 DEF CallAt
    <3> QED
      BY <1>2, <2>1, <3>5, <3>6, <3>7
  <2>4. ASSUME NEW f, NEW b, NEW k, NEW g, CallAt(f, b, k, g)'
        PROVE  Lawful(f, gs[f].blocks[b][k]) /\ gs[f].blocks[b][k].home = g
    <3>1. /\ f \in 1..(n + 1) /\ b \in DOMAIN gs[f].blocks /\ k \in DOMAIN gs[f].blocks[b]
          /\ gs[f].blocks[b][k].op = "call" /\ gs[f].blocks[b][k].home = g
      BY <1>7, <1>10, <2>4 DEF CallAt
    <3>2. CASE f # n + 1
      <4>1. f \in 1..n /\ gs[f] = fs[f] /\ f \in DOMAIN fns
        <5>1. f \in 1..n
          BY <1>4, <3>1, <3>2
        <5>2. DOMAIN fns = 1..n
          BY <1>1, <1>2, VectorFacts
        <5> QED
          BY <1>10, <5>1, <5>2
      <4>2. PICK in : in = fns[f].blocks[b][k]
        OBVIOUS
      <4>3. in = gs[f].blocks[b][k]
        BY <1>2, <4>1, <4>2
      <4>4. CallAt(f, b, k, in.home)
        BY <1>2, <3>1, <4>1, <4>2, <4>3 DEF CallAt
      <4> QED
        BY <2>1, <3>1, <4>2, <4>3, <4>4
    <3>3. CASE f = n + 1
      <4>1. PICK new : new = gs[n + 1].blocks
        OBVIOUS
      <4>2. new = <<t0, t1, t2>>
        BY <1>10, <4>1
      <4>3. DOMAIN new = {1, 2, 3} /\ new[1] = t0 /\ new[2] = t1 /\ new[3] = t2
        BY <4>2
      <4>4. PICK in : in = new[b][k]
        OBVIOUS
      <4>5. b \in DOMAIN new /\ k \in DOMAIN new[b] /\ in.op = "call" /\ in.home = g
        BY <3>1, <3>3, <4>1, <4>4
      <4>6. CASE b = 1
        BY <1>10, <4>3, <4>4, <4>5, <4>6
      <4>7. CASE b = 2
        <5>1. Lawful(f1, in)
          BY <1>5, <1>10, <2>3, <4>3, <4>4, <4>5, <4>7
        <5> QED
          BY <2>5, <3>3, <4>1, <4>4, <4>5, <5>1
      <4>8. CASE b = 3
        <5>1. Lawful(f2, in)
          BY <1>5, <1>10, <2>3, <4>3, <4>4, <4>5, <4>8
        <5> QED
          BY <2>5, <3>3, <4>1, <4>4, <4>5, <5>1
      <4> QED
        BY <4>3, <4>5, <4>6, <4>7, <4>8
    <3> QED
      BY <3>2, <3>3
  <2>6. ToSet(olds') = {f1, f2} /\ olds'[1] = f1
    BY <1>13 DEF ToSet
  <2>7. CallsInv'
    <3> SUFFICES ASSUME NEW f, NEW b, NEW k, NEW g, CallAt(f, b, k, g)'
                 PROVE  /\ g \in Originals /\ HasCall(start[g]) /\ (f \in Originals => f = g)
                        /\ g \in W \cup {f1, f2}
                        /\ gs[f].blocks[b][k].callee \in Originals
      BY <1>7, <1>18, <2>0, <2>6 DEF CallsInv
    <3> QED
      BY <2>2, <2>4 DEF Lawful
  <2>8. ASSUME NEW f, NEW b, NEW k, CallAt(f, b, k, f1)' PROVE ~(Behind(f, b, k)')
    <3>1. f \in 1..(n + 1) /\ b \in DOMAIN gs[f].blocks /\ k \in DOMAIN gs[f].blocks[b]
      BY <1>7, <1>10, <2>8 DEF CallAt
    <3>2. gs[f] \in Functions(n + 1) /\ n + 1 \in Nat
      BY <1>4, <1>10, <3>1, FunctionsFacts
    <3>3. f \in Nat /\ f >= 1
      BY <1>4, <3>1
    <3>4. b \in Nat /\ b >= 1 /\ k \in Nat /\ k >= 1
      BY <3>1, <3>2, FunctionFacts
    <3>5. at'.f = 1 /\ at'.b = 1 /\ at'.k = 1
      BY <1>3
    <3>6. PICK fa, ba, ka : fa = at'.f /\ ba = at'.b /\ ka = at'.k
      OBVIOUS
    <3>7. Behind(f, b, k)' <=> f < fa \/ (f = fa /\ (b < ba \/ (b = ba /\ k < ka)))
      BY <3>6 DEF Behind
    <3>8. fa = 1 /\ ba = 1 /\ ka = 1
      BY <3>5, <3>6
    <3> QED
      BY <3>3, <3>4, <3>7, <3>8
  <2>9. \A f \in Originals' : fns'[f] = start'[f]
    BY <1>2, <1>7, <1>10, <2>0 DEF Calm
  <2> QED
    BY <2>6, <2>7, <2>8, <2>9, PrimedCalm
<1>23. OldsInv' /\ StageInv'
  <2>1. ToSet(olds') = {f1, f2}
    BY <1>13 DEF ToSet
  <2>2. n + 1 # f1 /\ n + 1 # f2
    BY <1>4, <1>5
  <2> QED
    BY <1>3, <1>11, <1>18, <1>20, <2>1, <2>2 DEF OldsInv, StageInv
<1>21. PairsInv'
  <2> SUFFICES ASSUME NEW p \in DOMAIN w, NEW q \in DOMAIN w, p < q,
                      w[q] <= Len(start), p < i \/ (p = i /\ q < i + 1)
               PROVE  ~Similar(gs[w[p]], gs[w[q]])
    BY <1>2, <1>3, <1>7, <1>13 DEF PairsInv
  <2>1. p \in 1..(m - 1) /\ q \in 1..(m - 1) /\ p < i
    BY <1>4, <1>15
  <2>2. Len(start) \in Nat /\ Len(start) <= n
    BY <1>1, <1>2, VectorFacts DEF MergeTyped
  <2>3. w[q] # n + 1
    BY <1>4, <2>2
  <2>4. PICK r \in 1..m : q <= r /\ w[q] = v[r]
    BY <1>16, <2>1, <2>3
  <2>5. p \in 1..(m - 2) /\ w[p] = v[p] /\ p \in 1..m /\ p < r
    <3>1. p \in 1..(m - 2) /\ p \in 1..m /\ p < r
      BY <1>4, <2>1, <2>4
    <3> QED
      BY <1>15, <2>1, <3>1
  <2>6. ~Similar(fs[v[p]], fs[v[r]])
    <3>1. p \in DOMAIN functions /\ r \in DOMAIN functions /\ functions[r] <= Len(start) /\ p < first
      BY <1>2, <1>4, <2>1, <2>4, <2>5
    <3>2. ~Similar(fns[functions[p]], fns[functions[r]])
      BY <1>1, <2>5, <3>1 DEF PairsInv
    <3> QED
      BY <1>2, <3>2
  <2>7. gs[v[p]] = fs[v[p]] /\ gs[v[r]] = fs[v[r]]
    BY <1>4, <1>10, <2>4, <2>5
  <2> QED
    BY <2>4, <2>5, <2>6, <2>7
<1>22. OwnInv'
  <2>1. IsFiniteSet(Own(fs, V)) /\ Cardinality(Own(fs, V)) = Cardinality(Own(start, Originals))
    BY <1>1, <1>2, <1>18 DEF OwnInv, CodeKept
  <2>2. V \in SUBSET (1..n) /\ f1 # f2
    BY <1>4, <1>5, <1>18
  <2>3. IsFiniteSet(Own(gs, W)) /\ Cardinality(Own(gs, W)) = Cardinality(Own(fs, V))
    <3>1. n \in Nat /\ f1 \in V /\ f2 \in V /\ W = (V \ {f1, f2}) \cup {n + 1}
      BY <1>4, <1>18
    <3>2. IsFiniteSet(Own(fs, V))
      BY <2>1
    <3>3. AsMuch(gs, W, fs, V)
      BY <1>9, <2>2, <3>1, <3>2, MergedOwn
    <3> QED
      BY <3>3 DEF AsMuch
  <2>4. Originals' = Originals
    BY <1>3 DEF Originals
  <2> QED
    BY <1>3, <1>7, <1>18, <2>1, <2>3, <2>4 DEF OwnInv, CodeKept
<1> QED
  BY <1>19, <1>21, <1>22, <1>23 DEF MergeInv

LEMMA FiniteOwn ==
  ASSUME NEW fs, IsFunctions(fs), NEW of \in SUBSET DOMAIN fs
  PROVE  IsFiniteSet(Own(fs, of))
<1> DEFINE box == [f \in DOMAIN fs |-> {f} \X Places(fs[f].blocks)]
           T == {box[f] : f \in DOMAIN fs}
<1>1. IsFiniteSet(DOMAIN fs)
  <2>1. Len(fs) \in Nat /\ DOMAIN fs = 1..Len(fs)
    BY FunctionsFacts
  <2> QED
    BY <2>1, FS_Interval
<1>2. box \in Surjection(DOMAIN fs, T)
  BY DEF Surjection
<1>3. IsFiniteSet(T)
  BY <1>1, <1>2, FS_Surjection
<1>4. ASSUME NEW t \in T PROVE IsFiniteSet(t)
  <2>1. PICK f \in DOMAIN fs : t = {f} \X Places(fs[f].blocks)
    BY <1>4
  <2>2. fs[f] \in Functions(Len(fs)) /\ Len(fs) \in Nat
    BY FunctionsFacts
  <2>3. fs[f].blocks \in Bodies
    BY <2>2, FunctionFacts
  <2>4. IsFiniteSet(Places(fs[f].blocks)) /\ IsFiniteSet({f})
    BY <2>3, FiniteMatches, FS_Singleton
  <2> QED
    BY <2>1, <2>4, FS_Product
<1>5. IsFiniteSet(UNION T)
  <2> HIDE DEF T
  <2> QED
    BY <1>3, <1>4, FS_UNION
<1>6. Own(fs, of) \subseteq UNION T
  <2> SUFFICES ASSUME NEW e \in Own(fs, of) PROVE e \in UNION T
    OBVIOUS
  <2>1. PICK f \in of : \E p \in Places(fs[f].blocks) :
                           OpAt(fs[f].blocks, p) \in {"op", "ret"} /\ e = <<f, p>>
    BY OwnIn
  <2>2. f \in DOMAIN fs /\ e \in box[f]
    BY <2>1
  <2> QED
    BY <2>2
<1> HIDE DEF T
<1> QED
  BY <1>5, <1>6, FS_Subset

LEMMA MergeStart == MergeInit => MergeInv
<1> SUFFICES ASSUME MergeInit PROVE MergeInv
  OBVIOUS
<1>1. /\ IsProgram(fns) /\ IsFunctions(fns) /\ start = fns /\ functions = [f \in DOMAIN fns |-> f]
      /\ first = 1 /\ second = 2 /\ merged = 0 /\ olds = <<>>
      /\ at = [f |-> 1, b |-> 1, k |-> 1] /\ stage = "compare"
  BY InputsAssumption DEF MergeInit, IsProgram
<1>2. Len(fns) \in Nat /\ DOMAIN fns = 1..Len(fns) /\ fns \in Seq(Functions(Len(fns)))
  BY <1>1, FunctionsFacts
<1>3. /\ functions \in Seq(1..Len(fns)) /\ Len(functions) = Len(fns) /\ DOMAIN functions = 1..Len(fns)
      /\ \A p \in 1..Len(fns) : functions[p] = p
  BY <1>1, <1>2
<1>4. MergeTyped
  <2>1. Ascending(functions)
    BY <1>3 DEF Ascending
  <2>2. olds \in Seq(1..Len(fns)) /\ merged \in Nat
    BY <1>1
  <2>3. first \in 1..(Len(functions) + 1) /\ second \in Nat /\ first < second
    BY <1>1, <1>2, <1>3
  <2>4. at \in [f : Nat \ {0}, b : Nat \ {0}, k : Nat \ {0}]
    BY <1>1
  <2>5. Len(start) <= Len(fns)
    BY <1>1, <1>2
  <2> QED
    BY <1>1, <1>3, <2>1, <2>2, <2>3, <2>4, <2>5 DEF MergeTyped
<1>5. InVector = 1..Len(fns) /\ Originals = InVector
  BY <1>1, <1>3 DEF InVector, ToSet, Originals
<1>6. CallsInv
  <2> SUFFICES ASSUME NEW f, NEW b, NEW k, NEW g, CallAt(f, b, k, g)
               PROVE  /\ g \in Originals /\ HasCall(start[g]) /\ (f \in Originals => f = g)
                      /\ g \in InVector
                      /\ fns[f].blocks[b][k].callee \in Originals
    BY DEF CallsInv
  <2>1. /\ f \in DOMAIN fns /\ b \in DOMAIN fns[f].blocks /\ k \in DOMAIN fns[f].blocks[b]
        /\ fns[f].blocks[b][k].op = "call" /\ fns[f].blocks[b][k].home = g
    BY DEF CallAt
  <2>2. fns[f].blocks[b] \in Seq(Instruction(Len(fns)))
    BY <1>4, <2>1, BodyFacts
  <2>3. PICK in : in = fns[f].blocks[b][k]
    OBVIOUS
  <2>4. in \in Instruction(Len(fns)) /\ in \in ToSet(fns[f].blocks[b])
    BY <2>1, <2>2, <2>3 DEF ToSet
  <2>5. f = g
    BY <1>1, <2>1, <2>3, <2>4 DEF IsProgram
  <2>6. in.callee \in 1..Len(fns)
    BY <1>2, <2>1, <2>3, <2>4 DEF Instruction
  <2>7. HasCall(start[f])
    BY <1>1, <2>1, <2>3, <2>4 DEF HasCall
  <2> QED
    BY <1>2, <1>5, <2>1, <2>3, <2>5, <2>6, <2>7
<1>9. OldsInv /\ StageInv
  BY <1>1, <1>6 DEF OldsInv, StageInv, Calm
<1>7. PairsInv
  <2> SUFFICES ASSUME NEW p \in DOMAIN functions, NEW q \in DOMAIN functions, p < q,
                      p < first \/ (p = first /\ q < second)
               PROVE  FALSE
    BY DEF PairsInv
  <2> QED
    BY <1>1, <1>2, <1>3
<1>8. OwnInv
  <2>1. IsFiniteSet(Own(fns, InVector))
    BY <1>1, <1>2, <1>5, FiniteOwn
  <2> QED
    BY <1>1, <1>5, <2>1 DEF OwnInv, CodeKept
<1> QED
  BY <1>4, <1>7, <1>8, <1>9 DEF MergeInv

LEMMA MergeStays == ASSUME MergeInv, UNCHANGED merging PROVE MergeInv'
<1>1. UNCHANGED <<fns, functions, first, second, merged, olds, at, stage, start>>
  BY DEF merging
<1>2. MergeTyped /\ OldsInv /\ StageInv /\ PairsInv /\ OwnInv
  BY DEF MergeInv
<1>3. MergeTyped'
  BY <1>1, <1>2 DEF MergeTyped
<1>4. Hit => Hit'
  BY <1>1 DEF Hit, Old, CallAt, InVector, Originals
<1>5. StageInv'
  BY <1>1, <1>2, <1>4, SameCalm DEF StageInv, InVector, Originals
<1> QED
  BY <1>1, <1>2, <1>3, <1>5, SameOwn, SameOlds, SamePairs DEF MergeInv

LEMMA MergeAlways == MergeSpec => []MergeInv
<1>1. MergeInv /\ [MergeNext]_merging => MergeInv'
  <2> SUFFICES ASSUME MergeInv, [MergeNext]_merging PROVE MergeInv'
    OBVIOUS
  <2>1. CASE CompareNext
    BY <2>1, CompareStep
  <2>2. CASE MergePair
    BY <2>2, MergeStep
  <2>3. CASE AllCompared
    BY <2>3, ComparedStep
  <2>4. CASE SkipInstr
    BY <2>4, SkipStep
  <2>5. CASE ReplaceCall
    BY <2>5, ReplaceStep
  <2>6. CASE NextBlock
    BY <2>6, BlockStep
  <2>7. CASE NextOld
    BY <2>7, OldStep
  <2>8. CASE MergeFinished
    BY <2>8, MergeStays DEF MergeFinished
  <2>9. CASE UNCHANGED merging
    BY <2>9, MergeStays
  <2> QED
    BY <2>1, <2>2, <2>3, <2>4, <2>5, <2>6, <2>7, <2>8, <2>9 DEF MergeNext
<1> QED
  BY <1>1, MergeStart, PTL DEF MergeSpec

LEMMA MergeInvSound == MergeInv => MergeSound
<1> SUFFICES ASSUME MergeInv PROVE MergeSound
  OBVIOUS
<1>1. MergeTyped /\ OldsInv /\ StageInv /\ PairsInv /\ OwnInv
  BY DEF MergeInv
<1>2. PICK v, m : v = functions /\ m = Len(functions)
  OBVIOUS
<1>3. /\ m \in Nat /\ DOMAIN v = 1..m /\ \A p, q \in 1..m : p < q => v[p] < v[q]
      /\ \A p \in 1..m : v[p] \in Nat
  <2>1. m \in Nat /\ DOMAIN v = 1..m /\ Ascending(v)
    BY <1>1, <1>2, VectorFacts DEF MergeTyped
  <2>2. \A p \in 1..m : v[p] \in 1..Len(fns)
    BY <1>1, <1>2, <2>1, VectorFacts
  <2>3. \A p \in 1..m : v[p] \in Nat
    BY <2>2
  <2>4. \A p, q \in 1..m : p < q => v[p] < v[q]
    BY Zenon, <2>1 DEF Ascending
  <2> QED
    BY <2>1, <2>3, <2>4
<1>4. \A p, q \in 1..m : v[p] < v[q] => p < q
  <2> SUFFICES ASSUME NEW p \in 1..m, NEW q \in 1..m, v[p] < v[q], ~(p < q) PROVE FALSE
    OBVIOUS
  <2>1. p = q \/ q < p
    OBVIOUS
  <2>2. PICK x, y : x = v[p] /\ y = v[q]
    OBVIOUS
  <2>3. x \in Nat /\ y \in Nat /\ x < y /\ (x = y \/ y < x)
    BY <1>3, <2>1, <2>2
  <2> QED
    BY <2>3
<1>5. IsInjective(v)
  <2> SUFFICES ASSUME NEW p \in 1..m, NEW q \in 1..m, v[p] = v[q], p # q PROVE FALSE
    BY <1>3 DEF IsInjective
  <2>1. p < q \/ q < p
    OBVIOUS
  <2>2. PICK x, y : x = v[p] /\ y = v[q]
    OBVIOUS
  <2>3. x \in Nat /\ x = y /\ (x < y \/ y < x)
    BY <1>3, <2>1, <2>2
  <2> QED
    BY <2>3
<1>6. MergeTypeOK
  BY <1>1, <1>2, <1>5, VectorFacts DEF MergeTyped, MergeTypeOK
<1>7. Undisturbed
  <2> SUFFICES ASSUME stage \in {"compare", "done"}
               PROVE  (\A f \in Originals : fns[f] = start[f]) /\ Callees(fns) \subseteq Originals
    BY DEF Undisturbed
  <2>1. Calm
    BY <1>1 DEF StageInv
  <2>2. ASSUME NEW g \in Callees(fns) PROVE g \in Originals
    <3>1. PICK f \in DOMAIN fns : \E b \in DOMAIN fns[f].blocks :
                 \E in \in ToSet(fns[f].blocks[b]) : in.op = "call" /\ g = in.callee
      BY DEF Callees
    <3>2. PICK b \in DOMAIN fns[f].blocks :
                 \E in \in ToSet(fns[f].blocks[b]) : in.op = "call" /\ g = in.callee
      BY <3>1
    <3>3. PICK k \in DOMAIN fns[f].blocks[b] :
                 fns[f].blocks[b][k].op = "call" /\ g = fns[f].blocks[b][k].callee
      BY <3>2 DEF ToSet
    <3>4. PICK h : h = fns[f].blocks[b][k].home
      OBVIOUS
    <3>5. CallAt(f, b, k, h)
      BY <3>3, <3>4 DEF CallAt
    <3> QED
      BY <2>1, <3>3, <3>5 DEF Calm, CallsInv
  <2> QED
    BY <2>1, <2>2 DEF Calm
<1>9. FatalCalls
  <2>1. ASSUME stage = "done", NEW f \in Originals \ InVector PROVE ~HasCall(start[f])
    <3> SUFFICES ASSUME HasCall(start[f]) PROVE FALSE
      OBVIOUS
    <3>1. Calm /\ ToSet(olds) = {}
      BY <1>1, <2>1 DEF StageInv, MergeTyped, ToSet
    <3>2. f \in DOMAIN fns
      BY <1>1, VectorFacts DEF MergeTyped, Originals
    <3>3. PICK b \in DOMAIN fns[f].blocks : \E in \in ToSet(fns[f].blocks[b]) : in.op = "call"
      BY <3>1 DEF Calm, HasCall
    <3>4. PICK k \in DOMAIN fns[f].blocks[b] : fns[f].blocks[b][k].op = "call"
      BY <3>3 DEF ToSet
    <3>5. PICK h : h = fns[f].blocks[b][k].home
      OBVIOUS
    <3>6. CallAt(f, b, k, h)
      BY <3>2, <3>4, <3>5 DEF CallAt
    <3> QED
      BY <3>1, <3>6 DEF Calm, CallsInv
  <2> QED
    BY <1>1, <2>1 DEF FatalCalls, StageInv
<1>8. NoneOverlooked
  <2> SUFFICES ASSUME stage = "done", NEW f \in Originals \cap InVector, NEW g \in Originals \cap InVector, f < g
               PROVE  ~Similar(fns[f], fns[g])
    BY DEF NoneOverlooked
  <2>1. PICK p \in 1..m : v[p] = f
    BY <1>2, <1>3 DEF InVector, ToSet
  <2>2. PICK q \in 1..m : v[q] = g
    BY <1>2, <1>3 DEF InVector, ToSet
  <2>3. p < q /\ p < first
    <3>1. first > m /\ first \in Nat
      <4>1. first > Len(functions) /\ first \in 1..(Len(functions) + 1)
        BY <1>1 DEF MergeTyped
      <4> QED
        BY <1>2, <1>3, <4>1
    <3>2. p < q
      BY <1>4, <2>1, <2>2
    <3> QED
      BY <1>3, <3>1, <3>2
  <2>4. g <= Len(start)
    BY DEF Originals
  <2> QED
    BY <1>1, <1>2, <1>3, <2>1, <2>2, <2>3, <2>4 DEF PairsInv
<1> QED
  BY <1>1, <1>6, <1>7, <1>8, <1>9 DEF MergeSound, OwnInv

\* merge_similar_functions copies the code of similar functions once, and where
\* it ends the program calls what it called and the functions are as they were;
\* a function that is merged and has a call keeps the walk from ending, or ends
\* the program, the first call that is redirected being in that function
\* itself; and every pair of functions that stay was compared, although two
\* members of the vector are erased under the loops over it.
THEOREM MergingIsSound == MergeSpec => []MergeSound
<1> QED
  BY MergeAlways, MergeInvSound, PTL
=============================================================================
