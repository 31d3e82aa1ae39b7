------------------------------- MODULE UseDef -------------------------------
(***************************************************************************)
(* The use-def graph of the IR: every User keeps a vector of weak pointers *)
(* to its operands, every Value a list of the operand slots that use it,   *)
(* and the passes keep the two in step only through the calls modelled     *)
(* here (SysYFIR/User.cpp, Value.cpp, BasicBlock.cpp).  One pass does not   *)
(* keep them in step: CodeSizeOptimizer deletes calls that are still used. *)
(*                                                                         *)
(* Operand numbers start at 1 here and at 0 in the code.  A use list is    *)
(* abstracted to the set of its (user, operand number) entries: no caller  *)
(* depends on their order.                                                 *)
(*                                                                         *)
(* Definitions marked "Mutant" are no part of the specification: each is a *)
(* plausible slip in the definition below it, and shows that the property  *)
(* PROJECT.json pairs it with would notice.                                *)
(***************************************************************************)
EXTENDS Naturals, Sequences

CONSTANTS
  Const,    \* constants, arguments, globals and functions: values without operands
  Block,    \* basic blocks, which are values too (operands of br and phi)
  Instr,    \* instructions that may be created: users, and values
  MaxOps    \* bound on the operands of an instruction, but for a redirected call

ASSUME ConstantsDisjoint ==
  /\ Const \cap Block = {}
  /\ Instr \cap (Const \cup Block) = {}
ASSUME MaxOpsNat == MaxOps \in Nat

VARIABLES
  life,         \* of an instruction object, see Status
  phi,          \* the instructions made by PhiInst::create_phi
  operands,     \* User::operands_
  use_list,     \* Value::use_list_
  delete_list,  \* values a pass has replaced and is going to delete
  redirected,   \* history: the calls that were deleted under their users
  crashed       \* an expired operand has been used

vars == <<life, phi, operands, use_list, delete_list, redirected, crashed>>

Leaf  == Const \cup Block
Value == Leaf \cup Instr
Use   == Instr \X Nat

\* "detached": constructed, not yet in a block; "linked": in the instr_list_
\* of a block; "deleted": out of the list, while a pass, or the merged function
\* that shares a call, still holds the pointer; "freed": the last shared
\* pointer is gone, and weak pointers lock to null.
Status == {"unborn", "detached", "linked", "deleted", "freed"}

Live == {i \in Instr : life[i] \in {"detached", "linked"}}

\* What a pass may still name as an operand.
Usable == Leaf \cup {i \in Instr : life[i] = "linked" /\ i \notin delete_list}

Operands(i) == {operands[i][k] : k \in DOMAIN operands[i]}

Init ==
  /\ life = [i \in Instr |-> "unborn"]
  /\ phi = {}
  /\ operands = [i \in Instr |-> <<>>]
  /\ use_list = [v \in Value |-> {}]
  /\ delete_list = {}
  /\ redirected = {}
  /\ crashed = FALSE

-----------------------------------------------------------------------------
(* Constructors.                                                           *)

\* Instruction::init puts the instruction at the end of its block, and the
\* init of its class calls set_operand on every slot.
CreateInstruction(i, ops) ==
  /\ life[i] = "unborn"
  /\ life' = [life EXCEPT ![i] = "linked"]
  /\ operands' = [operands EXCEPT ![i] = ops]
  /\ use_list' = [v \in Value |->
                    use_list[v] \cup {<<i, k>> : k \in {j \in DOMAIN ops : ops[j] = v}}]
  /\ UNCHANGED <<phi, delete_list, redirected, crashed>>

\* PhiInst::create_phi makes a phi without operands, in no block's list.
CreatePhi(i) ==
  /\ life[i] = "unborn"
  /\ life' = [life EXCEPT ![i] = "detached"]
  /\ phi' = phi \cup {i}
  /\ UNCHANGED <<operands, use_list, delete_list, redirected, crashed>>

AddInstrBegin(i) ==
  /\ life[i] = "detached"
  /\ life' = [life EXCEPT ![i] = "linked"]
  /\ UNCHANGED <<phi, operands, use_list, delete_list, redirected, crashed>>

-----------------------------------------------------------------------------
(* Edits.                                                                  *)

\* Mutant: a set_operand that registers the use under the wrong operand number, as an
\* add_operand that increments num_ops_ before it calls add_use would.
AddPhiPairOffByOne(i, v, b) ==
  LET n == Len(operands[i]) IN
  /\ i \in phi \cap Live
  /\ i \notin delete_list
  /\ n + 2 <= MaxOps
  /\ operands' = [operands EXCEPT ![i] = @ \o <<v, b>>]
  /\ use_list' = [use_list EXCEPT ![v] = @ \cup {<<i, n + 2>>},
                                  ![b] = @ \cup {<<i, n + 2>>}]
  /\ UNCHANGED <<life, phi, delete_list, redirected, crashed>>

\* add_phi_pair_operand: add_operand(val), then add_operand(pre_bb).
AddPhiPairOperand(i, v, b) ==
  LET n == Len(operands[i]) IN
  /\ i \in phi \cap Live
  /\ i \notin delete_list
  /\ n + 2 <= MaxOps
  /\ operands' = [operands EXCEPT ![i] = @ \o <<v, b>>]
  /\ use_list' = [use_list EXCEPT ![v] = @ \cup {<<i, n + 1>>},
                                  ![b] = @ \cup {<<i, n + 2>>}]
  /\ UNCHANGED <<life, phi, delete_list, redirected, crashed>>

\* Mutant: set_operand that forgets to call add_use.
ReplaceWithoutAddUse(old, new) ==
  /\ old \in Usable \cap Instr
  /\ new # old
  /\ operands' = [i \in Instr |->
                    [k \in DOMAIN operands[i] |->
                       IF <<i, k>> \in use_list[old] THEN new ELSE operands[i][k]]]
  /\ delete_list' = delete_list \cup {old}
  /\ UNCHANGED <<life, phi, use_list, redirected, crashed>>

\* replace_all_use_with: set_operand for every entry of the old value's list.
\* set_operand adds an entry to the new value and leaves the old value's list
\* as it was.  The pass that replaces a value deletes it later.
ReplaceAllUseWith(old, new) ==
  /\ old \in Usable \cap Instr
  /\ new # old
  /\ operands' = [i \in Instr |->
                    [k \in DOMAIN operands[i] |->
                       IF <<i, k>> \in use_list[old] THEN new ELSE operands[i][k]]]
  /\ use_list' = [use_list EXCEPT ![new] = @ \cup use_list[old]]
  /\ delete_list' = delete_list \cup {old}
  /\ UNCHANGED <<life, phi, redirected, crashed>>

\* User::remove_use_of_ops: each operand drops every entry of this user.
RemoveUseOfOps(i) ==
  use_list' = [v \in Value |->
                 IF v \in Operands(i) THEN {u \in use_list[v] : u[1] # i}
                                      ELSE use_list[v]]

Expired(i) == \E v \in Operands(i) \cap Instr : life[v] = "freed"

\* BasicBlock::delete_instr.  The passes call it on values they have replaced,
\* and on stores and allocas that nothing uses.
DeleteInstr(i) ==
  /\ life[i] = "linked"
  /\ i \in delete_list \/ use_list[i] = {}
  /\ ~Expired(i)
  /\ life' = [life EXCEPT ![i] = "deleted"]
  /\ RemoveUseOfOps(i)
  /\ UNCHANGED <<phi, operands, delete_list, redirected, crashed>>

\* CodeSizeOptimizer replaces the call i by the call n of the function f: its
\* arguments are all the operands of i, the function it called included, and
\* the discriminator d.  replace_all_uses_with sets the entries of a copy of
\* the use list, so i is deleted with every user still holding it.  The passes
\* before have deleted what they replaced.
Redirect(i, n, f, d) ==
  LET ops == <<f>> \o operands[i] \o <<d>> IN
  /\ life[i] = "linked" /\ i \notin phi
  /\ \A j \in delete_list : life[j] # "linked"
  /\ operands[i] # <<>> /\ Head(operands[i]) \in Const
  /\ ~Expired(i)
  /\ life[n] = "unborn"
  /\ Len(operands[i]) <= MaxOps
  /\ life' = [life EXCEPT ![i] = "deleted", ![n] = "linked"]
  /\ operands' = [operands EXCEPT ![n] = ops]
  /\ use_list' = [v \in Value |->
                    (IF v \in Operands(i) THEN {u \in use_list[v] : u[1] # i} ELSE use_list[v])
                      \cup {<<n, k>> : k \in {j \in DOMAIN ops : ops[j] = v}}]
  /\ redirected' = redirected \cup {i}
  /\ UNCHANGED <<phi, delete_list, crashed>>

\* remove_use_of_ops, Check and the passes lock operands without asking.
LockExpired(i) ==
  /\ life[i] = "linked" /\ Expired(i)
  /\ crashed' = TRUE
  /\ UNCHANGED <<life, phi, operands, use_list, delete_list, redirected>>

\* The list of the pass goes out of scope, or the merged function loses the
\* call, too, and the object is destroyed, with its operands.
Free(i) ==
  /\ life[i] = "deleted"
  /\ life' = [life EXCEPT ![i] = "freed"]
  /\ operands' = [operands EXCEPT ![i] = <<>>]
  /\ UNCHANGED <<phi, use_list, delete_list, redirected, crashed>>

Next ==
  /\ ~crashed
  /\ \/ \E i \in Instr, n \in 0..MaxOps : \E ops \in [1..n -> Usable] :
          CreateInstruction(i, ops)
     \/ \E i \in Instr : CreatePhi(i)
     \/ \E i \in Instr : AddInstrBegin(i)
     \/ \E i \in Instr, v \in Usable, b \in Block : AddPhiPairOperand(i, v, b)
     \/ \E old \in Instr, new \in Usable : ReplaceAllUseWith(old, new)
     \/ \E i \in Instr : DeleteInstr(i)
     \/ \E i, n \in Instr, f, d \in Const : Redirect(i, n, f, d)
     \/ \E i \in Instr : LockExpired(i)
     \/ \E i \in Instr : Free(i)

Spec == Init /\ [][Next]_vars

-----------------------------------------------------------------------------
(* Properties.                                                             *)

TypeOK ==
  /\ life \in [Instr -> Status]
  /\ phi \subseteq Instr
  /\ operands \in [Instr -> Seq(Value)]
  /\ use_list \in [Value -> SUBSET Use]
  /\ delete_list \subseteq Instr
  /\ redirected \subseteq Instr
  /\ crashed \in BOOLEAN

\* The use-def check of Check::execute: every operand of an instruction in a
\* block has this use in its list.  A missing entry is a use that the next
\* replacement forgets.
OperandsBacked ==
  \A i \in Live : \A k \in DOMAIN operands[i] :
    <<i, k>> \in use_list[operands[i][k]]

\* Until a value is replaced, its use list names slots of instructions that
\* still exist and hold exactly this value, so replace_all_use_with neither
\* locks an expired user nor overwrites a slot that holds another value.
UsesExact ==
  \A v \in Usable : \A u \in use_list[v] :
    /\ u[1] \in Live
    /\ u[2] \in DOMAIN operands[u[1]]
    /\ operands[u[1]][u[2]] = v

\* No instruction that exists holds a replaced or a deleted value, calls that
\* CodeSizeOptimizer deleted apart.
OperandsUsable ==
  \A i \in Live : Operands(i) \subseteq Usable \cup redirected

\* An expired operand is used only if such a call was destroyed.
CrashExplained ==
  crashed => \E v \in redirected : life[v] = "freed"

\* What set_operand, replace_all_use_with and delete_instr must keep between
\* them, whatever the order of the calls: use lists and operands of usable
\* values say the same, and only a call that CodeSizeOptimizer redirected may
\* be missing where it is used, or end the program.
UseDefSound == TypeOK /\ OperandsBacked /\ UsesExact /\ OperandsUsable /\ CrashExplained

\* A slot changes only when the value it held is being replaced.
OnlyHoldersChange ==
  [][\A i \in Live : \A k \in DOMAIN operands[i] :
       operands'[i][k] # operands[i][k] => operands[i][k] \in delete_list' \ delete_list]_vars
=============================================================================
