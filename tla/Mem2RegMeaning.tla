--------------------------- MODULE Mem2RegMeaning ---------------------------
(***************************************************************************)
(* The function Mem2Reg was given and the one it leaves, run side by side: *)
(* the first with a memory for its local variables, the second on values,  *)
(* its phis taken in parallel (doc/SysYFIR.md, "Phi").  A step is one      *)
(* block, every path is taken, and every call of any block may return any  *)
(* datum each time.                                                        *)
(***************************************************************************)
EXTENDS Mem2Reg

CONSTANTS
  Datum,    \* what a call may return; two tell any two values apart
  Undef     \* a variable before its first store, a value not computed

ASSUME DatumAssumption == Undef \notin Datum

VARIABLES
  at_block, \* the block run last
  memory,   \* of the function as it was given: by variable
  env,      \* of the function as it is left: by value
  seen      \* the operands that the block's uses saw, in each of the two

run == <<at_block, memory, env, seen>>

Calls(b) == {k \in DOMAIN code[b] : code[b][k].op = "call"}
Outs(b)  == {k \in DOMAIN code[b] : code[b][k].op = "out"}

Names == Phi \cup UNION {{<<b, k>> : k \in Calls(b)} : b \in Block}

InitRun ==
  /\ Init
  /\ at_block = Null
  /\ memory = [v \in Var |-> Undef]
  /\ env = [x \in Names |-> Undef]
  /\ seen = {}

\* With memory.  The last store of v before place k of block b, the place whose
\* value it stores, and the values of the block's calls and loads.
LastStore(b, k, v) ==
  CHOOSE m \in DOMAIN code[b] :
    /\ m < k /\ code[b][m].op = "store" /\ code[b][m].var = v
    /\ \A n \in (m + 1)..(k - 1) : ~(code[b][n].op = "store" /\ code[b][n].var = v)

StoredPlace(b, k, v) == code[b][LastStore(b, k, v)].val[2]

Registers(b, result) ==
  LET reg[k \in DOMAIN code[b]] ==
        LET v == code[b][k].var IN
        CASE code[b][k].op = "call" -> result[k]
          [] code[b][k].op \in {"store", "out"} -> Undef
          [] OTHER -> IF StoreBefore(source, b, k, v) THEN reg[StoredPlace(b, k, v)] ELSE memory[v]
  IN  reg

\* On values.  The value a phi has after a step from block a; undef without a
\* pair (Instruction.cpp:780-788).
PhiValue(p, a) ==
  IF \E q \in pairs[p] : q[2] = a
  THEN LET x == (CHOOSE q \in pairs[p] : q[2] = a)[1] IN IF x \in Names THEN env[x] ELSE Undef
  ELSE Undef

\* The values at place k of block b, which the function enters from at_block;
\* a call that is no longer there computes nothing.
ValuesAt(b, k, result) ==
  [x \in Names |-> IF x \in Phis /\ x[1] = b THEN PhiValue(x, at_block)
                   ELSE IF x \in {<<b, m>> : m \in Calls(b) \cap Listed(b)} /\ x[2] < k THEN result[x[2]]
                   ELSE env[x]]

\* What the use at place k sees; Undef when it is gone.
Sees(b, k, result) ==
  IF k \in Listed(b) /\ operand[b][k] \in Names THEN ValuesAt(b, k, result)[operand[b][k]] ELSE Undef

Execute ==
  /\ pc = "done"
  /\ \E b \in IF at_block = Null THEN {Root} ELSE succ(at_block) :
     \E result \in [Calls(b) -> Datum] :
       LET end == Len(code[b]) + 1
           reg == Registers(b, result)
       IN  /\ at_block' = b
           /\ memory' = [v \in Var |-> IF StoreIn(source, b, v) THEN reg[StoredPlace(b, end, v)] ELSE memory[v]]
           /\ env' = ValuesAt(b, end, result)
           /\ seen' = {<<k, reg[code[b][k].val[2]], Sees(b, k, result)>> : k \in Outs(b)}
  /\ UNCHANGED vars

Halt ==
  /\ pc = "done"
  /\ at_block # Null /\ succ(at_block) = {}
  /\ UNCHANGED <<vars, run>>

NextRun ==
  \/ Pass /\ UNCHANGED run
  \/ Execute
  \/ Halt

\* The pass runs on, the programs it is compared on need not: weak fairness of
\* Pass, which is enabled until the pass is done.
PassRuns == []<>(pc = "done") \/ []<><<TRUE>>_vars

SpecRun == InitRun /\ [][NextRun]_<<vars, run>> /\ PassRuns

\* On every path and for all data, a use that sees a defined value in the
\* given function sees the same value in the one that Mem2Reg leaves.
SameMeaning == \A o \in seen : o[2] # Undef => o[3] = o[2]
=============================================================================
