-------------------------- MODULE CodeSizeOptimizer --------------------------
(***************************************************************************)
(* The merging of similar functions (Optimize/CodeSizeOptimizer.cpp): two  *)
(* functions of the same signature whose instructions are of similar kinds *)
(* are copied into a new one, which chooses between the two bodies by an   *)
(* additional argument, and calls are redirected to it: not those of the   *)
(* two functions but those in them, since get_function() of an instruction *)
(* is the function it was created in (Instruction.cpp:37-40).              *)
(*                                                                         *)
(* The loop half of the pass acts on a block that branches to itself;      *)
(* IRBuilder makes none (LoopsReducible of IRBuilder), so it never         *)
(* runs.                                                                   *)
(*                                                                         *)
(* Functions are numbered in the order of the module.  An instruction is   *)
(* its kind and, for a call, its home, the function it was created in, and *)
(* its callee.  A merged function shares the instructions of the two, and  *)
(* add_instruction leaves their home as it is; a call that stands in two   *)
(* functions is handled in each, so its identity does not matter here.     *)
(*                                                                         *)
(* Definitions marked "Mutant" are no part of the specification.           *)
(***************************************************************************)
EXTENDS Naturals, Sequences, FiniteSets, SequencesExt

CONSTANTS
  Inputs,         \* the modules at the start: sequences of functions
  MaxFunctions    \* bound on the functions of a module, a number

Instruction(n) ==
  {in \in [op : {"op", "cmp", "br", "ret", "call"}, home : 0..n, callee : 0..n] :
     (in.op = "call" <=> in.home # 0) /\ (in.op = "call" <=> in.callee # 0)}

IsFunctions(fs) ==
  fs \in Seq([ret : {"int", "float", "void"}, args : Nat,
              blocks : Seq(Seq(Instruction(Len(fs))))])

\* What the pass may be given: functions of any number of blocks, with calls
\* of functions of the module, each in the function it was created in.
IsProgram(fs) ==
  /\ IsFunctions(fs)
  /\ \A f \in DOMAIN fs : \A b \in DOMAIN fs[f].blocks :
       \A in \in ToSet(fs[f].blocks[b]) : in.op = "call" => in.home = f

ASSUME InputsAssumption == \A m \in Inputs : IsProgram(m)

VARIABLES
  fns,            \* get_functions(): [ret, args, blocks], in order
  functions,      \* the vector of merge_similar_functions
  first, second,  \* i and j
  merged,         \* merged_func
  olds,           \* the old_func of the calls of replace_function_calls to come
  at,             \* [f, b, k]: the iterators of replace_function_calls
  stage,          \* "compare", "replace", "done", "crashed"
  start           \* history: the module at the start

merging == <<fns, functions, first, second, merged, olds, at, stage, start>>

MergeInit ==
  /\ fns \in Inputs
  /\ start = fns
  /\ functions = [f \in DOMAIN fns |-> f]
  /\ first = 1 /\ second = 2
  /\ merged = 0
  /\ olds = <<>>
  /\ at = [f |-> 1, b |-> 1, k |-> 1]
  /\ stage = "compare"

-----------------------------------------------------------------------------

Plain(op) == [op |-> op, home |-> 0, callee |-> 0]

\* Where the instructions of a body are: the block and the place in it.
Places(blocks) == UNION {{<<b, k>> : k \in DOMAIN blocks[b]} : b \in DOMAIN blocks}

OpAt(blocks, p) == blocks[p[1]][p[2]].op

\* How often an instruction of f1 is found in f2: once for every block that
\* has one of its kind, so the ratio may exceed 1.
Matching(f1, f2) ==
  Cardinality({q \in Places(f1.blocks) \X DOMAIN f2.blocks :
                 \E in2 \in ToSet(f2.blocks[q[2]]) : in2.op = OpAt(f1.blocks, q[1])})

\* similarity > 0.8; without instructions it is not a number, and no.
Similar(f1, f2) ==
  /\ f1.ret = f2.ret /\ f1.args = f2.args
  /\ 10 * Matching(f1, f2) > 8 * Cardinality(Places(f1.blocks))

\* create_merged_function: all the blocks of a body become one.
Merged(f1, f2) ==
  [ret    |-> f1.ret,
   args   |-> f1.args + 1,
   blocks |-> << <<Plain("cmp"), Plain("br")>>, FlattenSeq(f1.blocks), FlattenSeq(f2.blocks) >>]

\* Mutant: a j behind the end starts over with the same i.
CompareNextRestarts ==
  /\ stage = "compare"
  /\ first <= Len(functions)
  /\ IF second > Len(functions)
     THEN second' = first + 1
     ELSE /\ ~Similar(fns[functions[first]], fns[functions[second]])
          /\ second' = second + 1
  /\ UNCHANGED <<fns, functions, first, merged, olds, at, stage, start>>

\* The next pair; a j behind the end moves i on.
CompareNext ==
  /\ stage = "compare"
  /\ first <= Len(functions)
  /\ IF second > Len(functions)
     THEN first' = first + 1 /\ second' = first + 2
     ELSE /\ ~Similar(fns[functions[first]], fns[functions[second]])
          /\ second' = second + 1 /\ first' = first
  /\ UNCHANGED <<fns, functions, merged, olds, at, stage, start>>

\* Mutant: i is not set back, and the function that moves to its place is
\* left out.
MergePairSkips ==
  /\ stage = "compare"
  /\ second <= Len(functions)
  /\ Len(fns) < MaxFunctions
  /\ LET f1 == functions[first]  f2 == functions[second] IN
     /\ Similar(fns[f1], fns[f2])
     /\ fns' = Append(fns, Merged(fns[f1], fns[f2]))
     /\ merged' = Len(fns')
     /\ olds' = <<f1, f2>>
     /\ functions' = Append(RemoveAt(RemoveAt(functions, second), first), merged')
  /\ first' = first + 1
  /\ second' = first + 2
  /\ at' = [f |-> 1, b |-> 1, k |-> 1]
  /\ stage' = "replace"
  /\ UNCHANGED start

\* A similar pair gives way to its merged function, at the end of the vector;
\* i is decremented (below zero, at the first) and incremented again.
MergePair ==
  /\ stage = "compare"
  /\ second <= Len(functions)
  /\ Len(fns) < MaxFunctions
  /\ LET f1 == functions[first]  f2 == functions[second] IN
     /\ Similar(fns[f1], fns[f2])
     /\ fns' = Append(fns, Merged(fns[f1], fns[f2]))
     /\ merged' = Len(fns')
     /\ olds' = <<f1, f2>>
     /\ functions' = Append(RemoveAt(RemoveAt(functions, second), first), merged')
  /\ second' = first + 1
  /\ at' = [f |-> 1, b |-> 1, k |-> 1]
  /\ stage' = "replace"
  /\ UNCHANGED <<first, start>>

AllCompared ==
  /\ stage = "compare"
  /\ first > Len(functions)
  /\ stage' = "done"
  /\ UNCHANGED <<fns, functions, first, second, merged, olds, at, start>>

-----------------------------------------------------------------------------
(* replace_function_calls(old, merged): all blocks of all functions, the   *)
(* merged one included.                                                    *)

Old   == Head(olds)
Blocks == fns[at.f].blocks
Here  == Blocks[at.b][at.k]
InBlock == at.f <= Len(fns) /\ at.b <= Len(Blocks) /\ at.k <= Len(Blocks[at.b])

\* call->get_function() == old_func.
IsOldCall == Here.op = "call" /\ Here.home = Old

SkipInstr ==
  /\ stage = "replace" /\ olds # <<>> /\ InBlock
  /\ ~IsOldCall
  /\ at' = [at EXCEPT !.k = @ + 1]
  /\ UNCHANGED <<fns, functions, first, second, merged, olds, stage, start>>

\* CallInst::create puts the new call at the end of the block it is in.  Its
\* arguments, left out, are all the operands of the old one, with the callee,
\* and a discriminator: 1, since old_func is never new_func.
NewCall == [op |-> "call", home |-> at.f, callee |-> merged]

\* replace_all_uses_with writes to a copy of the use list, so the users keep
\* the old call (UseDef!Redirect).  delete_instr frees the list node that the
\* loop's iterator is on: the loop goes on where the node pointed to, or the
\* program ends.
ReplaceCall ==
  /\ stage = "replace" /\ olds # <<>> /\ InBlock
  /\ IsOldCall
  /\ fns' = [fns EXCEPT ![at.f].blocks[at.b] = Append(RemoveAt(@, at.k), NewCall)]
  /\ stage' \in {"replace", "crashed"}
  /\ UNCHANGED <<functions, first, second, merged, olds, at, start>>

NextBlock ==
  /\ stage = "replace" /\ olds # <<>> /\ ~InBlock
  /\ at.f <= Len(fns)
  /\ at' = IF at.b < Len(Blocks) THEN [at EXCEPT !.b = @ + 1, !.k = 1]
                                 ELSE [f |-> at.f + 1, b |-> 1, k |-> 1]
  /\ UNCHANGED <<fns, functions, first, second, merged, olds, stage, start>>

NextOld ==
  /\ stage = "replace" /\ olds # <<>>
  /\ at.f > Len(fns)
  /\ olds' = Tail(olds)
  /\ at' = [f |-> 1, b |-> 1, k |-> 1]
  /\ stage' = IF olds' = <<>> THEN "compare" ELSE "replace"
  /\ UNCHANGED <<fns, functions, first, second, merged, start>>

MergeFinished == stage \in {"done", "crashed"} /\ UNCHANGED merging

MergeNext ==
  \/ CompareNext \/ MergePair \/ AllCompared
  \/ SkipInstr \/ ReplaceCall \/ NextBlock \/ NextOld
  \/ MergeFinished

\* The pass goes on; nothing makes a freed iterator end the program.
Proceed == MergeNext /\ stage' # "crashed"

MergeSpec == MergeInit /\ [][MergeNext]_merging /\ WF_merging(Proceed)

-----------------------------------------------------------------------------
(* Properties.                                                             *)

Originals == 1..Len(start)
InVector  == ToSet(functions)

MergeTypeOK ==
  /\ IsFunctions(fns)
  /\ IsInjective(functions) /\ InVector \subseteq DOMAIN fns
  /\ first \in 1..(Len(functions) + 1)
  /\ stage \in {"compare", "replace", "done", "crashed"}

\* What the instructions of the module call.
Callees(fs) ==
  UNION {UNION {{in.callee : in \in {x \in ToSet(fs[f].blocks[b]) : x.op = "call"}} :
                  b \in DOMAIN fs[f].blocks} : f \in DOMAIN fs}

\* Between two merges and at the end the functions of the module are as they
\* were, and nothing calls a merged one: it is dead code.
Undisturbed ==
  stage \in {"compare", "done"} =>
    (\A f \in Originals : fns[f] = start[f]) /\ Callees(fns) \subseteq Originals

HasCall(f) == \E b \in DOMAIN f.blocks : \E in \in ToSet(f.blocks[b]) : in.op = "call"

\* The pass comes to its end only if none of the functions it merged has a
\* call, and ends the program only if one has.
FatalCalls ==
  /\ stage = "done" => \A f \in Originals \ InVector : ~HasCall(start[f])
  /\ stage = "crashed" => \E f \in Originals \ InVector : HasCall(start[f])

\* Where the functions of a set have instructions of their own (no calls,
\* nothing of the entry of a merged function).
Own(fs, of) ==
  UNION {{<<f, p>> : p \in {q \in Places(fs[f].blocks) : OpAt(fs[f].blocks, q) \in {"op", "ret"}}} :
           f \in of}

\* The functions of the vector have, between them, the code of all the
\* functions of the module, once.
CodeKept == Cardinality(Own(fns, InVector)) = Cardinality(Own(start, Originals))

\* No two functions that stay as they were are similar: the erasures under
\* the loops over i and j leave no pair out.
NoneOverlooked ==
  stage = "done" =>
    \A f, g \in Originals \cap InVector : f < g => ~Similar(fns[f], fns[g])

\* What the pass does to a module: it copies the code of similar functions
\* once, overlooks none, and where it ends leaves the program as it was; the
\* first call that it redirects it never gets past.
MergeSound == MergeTypeOK /\ CodeKept /\ Undisturbed /\ FatalCalls /\ NoneOverlooked

\* The walk is on the last call of a block, which is replaced by one that will
\* be replaced.
Chasing == stage = "replace" /\ InBlock /\ IsOldCall /\ at.k = Len(Blocks[at.b])

\* The pass ends, every merging making the vector shorter, or chases the calls
\* it makes.
MergeTerminates == <>(stage \in {"done", "crashed"}) \/ <>[]Chasing

\* The tests of Easy are compiled with -O2, too (test.py:93-94, :101): the pass
\* does not end the program.
MergeSurvives == stage # "crashed"
=============================================================================
