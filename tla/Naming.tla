------------------------------- MODULE Naming -------------------------------
(***************************************************************************)
(* The names of the values of one function (Function::set_instr_name,      *)
(* Value::set_name).  A value without a name gets a number; the function   *)
(* keeps how many it has given.  Naming runs again and again: before the   *)
(* passes, in LiveVar, after the passes and in print, and in between the   *)
(* passes create and delete values.                                        *)
(*                                                                         *)
(* A name is its number: arguments, blocks and instructions are told apart *)
(* by a prefix as well, and the entry block, which has a name from the     *)
(* start, needs none.                                                      *)
(*                                                                         *)
(* Definitions marked "Mutant" are no part of the specification.           *)
(***************************************************************************)
EXTENDS Naturals, Sequences

CONSTANTS
  Val,    \* the arguments, blocks and instructions that ever exist
  Void,   \* those without a value: stores, branches, void calls
  None

ASSUME ValAssumption == Void \subseteq Val
ASSUME NoneAssumption == None \notin Nat

VARIABLES
  list,      \* what is in the function, in the order of set_instr_name
  created,   \* what has been in the function
  name,
  seq_cnt,
  size,      \* of the map seq of the current call
  next,
  pc,        \* "pass", "naming", "print"
  printing   \* the current call comes from print

naming == <<list, created, name, seq_cnt, size, next, pc, printing>>

NamingInit ==
  /\ list = <<>>
  /\ created = {}
  /\ name = [v \in Val |-> None]
  /\ seq_cnt = 0
  /\ size = 0
  /\ next = 1
  /\ pc = "pass"
  /\ printing = FALSE

-----------------------------------------------------------------------------

\* IRBuilder or a pass puts a new value anywhere, or deletes one.
Create(v, k) ==
  /\ pc = "pass"
  /\ v \notin created
  /\ list' = SubSeq(list, 1, k) \o <<v>> \o SubSeq(list, k + 1, Len(list))
  /\ created' = created \cup {v}
  /\ UNCHANGED <<name, seq_cnt, size, next, pc, printing>>

Delete(k) ==
  /\ pc = "pass"
  /\ list' = SubSeq(list, 1, k - 1) \o SubSeq(list, k + 1, Len(list))
  /\ UNCHANGED <<created, name, seq_cnt, size, next, pc, printing>>

SetInstrName ==
  /\ pc = "pass"
  /\ pc' = "naming"
  /\ size' = 0
  /\ next' = 1
  /\ printing' \in BOOLEAN
  /\ UNCHANGED <<list, created, name, seq_cnt>>

\* Mutant: a value gets a name again.
NameAgain ==
  /\ pc = "naming"
  /\ next <= Len(list)
  /\ LET v == list[next] IN
     IF v \in Void
     THEN UNCHANGED <<name, size>>
     ELSE name' = [name EXCEPT ![v] = seq_cnt + size] /\ size' = size + 1
  /\ next' = next + 1
  /\ UNCHANGED <<list, created, seq_cnt, pc, printing>>

\* One value; set_name leaves a name that is there, and then the number is free
\* for the next value.
NameNext ==
  /\ pc = "naming"
  /\ next <= Len(list)
  /\ LET v == list[next] IN
     IF v \in Void \/ name[v] # None
     THEN UNCHANGED <<name, size>>
     ELSE name' = [name EXCEPT ![v] = seq_cnt + size] /\ size' = size + 1
  /\ next' = next + 1
  /\ UNCHANGED <<list, created, seq_cnt, pc, printing>>

\* Mutant: the numbers given are not counted.
NamingDoneForgets ==
  /\ pc = "naming"
  /\ next > Len(list)
  /\ pc' = IF printing THEN "print" ELSE "pass"
  /\ UNCHANGED <<list, created, name, seq_cnt, size, next, printing>>

NamingDone ==
  /\ pc = "naming"
  /\ next > Len(list)
  /\ seq_cnt' = seq_cnt + size
  /\ pc' = IF printing THEN "print" ELSE "pass"
  /\ UNCHANGED <<list, created, name, size, next, printing>>

Printed ==
  /\ pc = "print"
  /\ pc' = "pass"
  /\ UNCHANGED <<list, created, name, seq_cnt, size, next, printing>>

NamingNext ==
  \/ \E v \in Val, k \in 0..Len(list) : Create(v, k)
  \/ \E k \in 1..Len(list) : Delete(k)
  \/ SetInstrName \/ NameNext \/ NamingDone \/ Printed

\* A call of set_instr_name runs to its end.
NamingSpec == NamingInit /\ [][NamingNext]_naming /\ WF_naming(NameNext \/ NamingDone)

-----------------------------------------------------------------------------
(* Properties.                                                             *)

NamingTypeOK ==
  /\ list \in Seq(Val) /\ created \subseteq Val
  /\ name \in [Val -> Nat \cup {None}]
  /\ seq_cnt \in Nat /\ size \in Nat /\ next \in Nat \ {0}
  /\ pc \in {"pass", "naming", "print"} /\ printing \in BOOLEAN

\* No two values ever have the same name, those that were named in different
\* calls, with values created and deleted in between, included.
NamesUnique == \A v, w \in Val : name[v] # None /\ name[v] = name[w] => v = w

\* What print writes has a name: every value, wherever a pass has put it.
PrintsNamed ==
  pc = "print" => \A k \in 1..Len(list) : list[k] \notin Void => name[list[k]] # None

\* What print, and LiveVar with its tables by name, rely on.
NamesSound == NamingTypeOK /\ NamesUnique /\ PrintsNamed

\* A value keeps its name: LiveVar's tables are keyed by it.
NamesKept == [][\A v \in Val : name[v] # None => name'[v] = name[v]]_naming

=============================================================================
