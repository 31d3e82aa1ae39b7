-------------------------------- MODULE Check --------------------------------
(***************************************************************************)
(* The check pass (Optimize/Check.cpp): four checks on every function of a *)
(* module, in order; the first that fails ends the program.  The set of    *)
(* definitions is filled from function to function.                        *)
(*                                                                         *)
(* Definitions marked "Mutant" are no part of the specification.           *)
(***************************************************************************)
EXTENDS Naturals, Sequences, SequencesExt

CONSTANT Modules   \* the modules that may be checked

VARIABLES
  module,   \* [functions: Seq of [args, blocks], pre, succ, code: by block,
            \*  ops, users: by value, void, terminators, exempt: sets of values]
  defs,
  nth,      \* the function at hand
  phase     \* "function", "edges", "last", "uses", "defs", "done", "exit", "crashed"

checking == <<module, defs, nth, phase>>

\* What the passes leave to be checked: the functions are a list, and an edge
\* joins two blocks of one function.
IsModule(m) ==
  /\ m.functions \in Seq(ToSet(m.functions))
  /\ \A f \in ToSet(m.functions) : \A b \in ToSet(f.blocks) :
       ToSet(m.pre[b]) \cup ToSet(m.succ[b]) \subseteq ToSet(f.blocks)

ASSUME ModulesAssumption == \A m \in Modules : IsModule(m)

CheckInit ==
  /\ module \in Modules
  /\ defs = {}
  /\ nth = 1
  /\ phase = "function"

Fn == module.functions[nth]
FnBlocks(f) == ToSet(f.blocks)
FnInstrs(f) == UNION {ToSet(module.code[b]) : b \in FnBlocks(f)}

Verdict(ok, then) == phase' = IF ok THEN then ELSE "exit"

-----------------------------------------------------------------------------

\* Mutant: a function without blocks ends the pass.
NextFunctionReturns ==
  /\ phase = "function"
  /\ nth <= Len(module.functions)
  /\ IF Fn.blocks = <<>> THEN phase' = "done" ELSE phase' = "edges"
  /\ UNCHANGED <<module, defs, nth>>

\* A function without blocks is left out.
NextFunction ==
  /\ phase = "function"
  /\ nth <= Len(module.functions)
  /\ IF Fn.blocks = <<>> THEN nth' = nth + 1 /\ UNCHANGED phase
                         ELSE phase' = "edges" /\ UNCHANGED nth
  /\ UNCHANGED <<module, defs>>

AllChecked ==
  /\ phase = "function"
  /\ nth > Len(module.functions)
  /\ phase' = "done"
  /\ UNCHANGED <<module, defs, nth>>

\* Every neighbour of a block knows the block.
EdgesOk(f) ==
  \A b \in FnBlocks(f) :
    /\ \A p \in ToSet(module.pre[b]) : b \in ToSet(module.succ[p])
    /\ \A s \in ToSet(module.succ[b]) : b \in ToSet(module.pre[s])

CheckEdges ==
  /\ phase = "edges"
  /\ Verdict(EdgesOk(Fn), "last")
  /\ UNCHANGED <<module, defs, nth>>

LastOk(f) == \A b \in FnBlocks(f) : Last(module.code[b]) \in module.terminators

\* back() of an empty list is undefined: what is found there ends the program,
\* in one way or the other.
CheckLast ==
  /\ phase = "last"
  /\ IF \E b \in FnBlocks(Fn) : module.code[b] = <<>>
     THEN phase' \in {"exit", "crashed"}
     ELSE Verdict(LastOk(Fn), "uses")
  /\ UNCHANGED <<module, defs, nth>>

\* Every operand knows its user.
UsesOk(f) == \A in \in FnInstrs(f) : \A o \in ToSet(module.ops[in]) : in \in module.users[o]

CheckUses ==
  /\ phase = "uses"
  /\ Verdict(UsesOk(Fn), "defs")
  /\ UNCHANGED <<module, defs, nth>>

DefsOf(f) == f.args \cup (FnInstrs(f) \ module.void)

\* Every operand that is not exempt (a constant, a global variable, a block or
\* a function) is among the definitions seen, those of earlier functions
\* included.
CheckDefs ==
  /\ phase = "defs"
  /\ defs' = defs \cup DefsOf(Fn)
  /\ Verdict(\A in \in FnInstrs(Fn) : ToSet(module.ops[in]) \subseteq defs' \cup module.exempt, "function")
  /\ nth' = IF phase' = "function" THEN nth + 1 ELSE nth
  /\ UNCHANGED module

Finished == phase \in {"done", "exit", "crashed"} /\ UNCHANGED checking

CheckNext ==
  \/ NextFunction \/ AllChecked
  \/ CheckEdges \/ CheckLast \/ CheckUses \/ CheckDefs
  \/ Finished

CheckSpec == CheckInit /\ [][CheckNext]_checking

-----------------------------------------------------------------------------
(* Properties.                                                             *)

CheckTypeOK ==
  /\ IsModule(module)
  /\ nth \in 1..(Len(module.functions) + 1)
  /\ phase \in {"function", "edges", "last", "uses", "defs", "done", "exit", "crashed"}

Defined == {f \in ToSet(module.functions) : f.blocks # <<>>}

\* What a module must be, said of the whole module at once.
WellFormed ==
  \A f \in Defined :
    /\ \A a, b \in FnBlocks(f) : a \in ToSet(module.pre[b]) <=> b \in ToSet(module.succ[a])
    /\ \A b \in FnBlocks(f) : module.code[b] # <<>> /\ Last(module.code[b]) \in module.terminators
    /\ \A in \in FnInstrs(f) : \A o \in ToSet(module.ops[in]) :
         in \in module.users[o] /\ o \in DefsOf(f) \cup module.exempt

\* part4.md names four conventions; a module that keeps them is accepted, a
\* loop whose phi comes before its operand included.
AcceptsWellFormed == WellFormed => phase \notin {"exit", "crashed"}

\* A module that is accepted keeps them in each function, also behind one
\* without blocks: but an operand may come from any function of the module.
AcceptedIsSound ==
  phase = "done" =>
    \A f \in Defined :
      /\ EdgesOk(f)
      /\ \A b \in FnBlocks(f) : module.code[b] # <<>> /\ Last(module.code[b]) \in module.terminators
      /\ UsesOk(f)
      /\ \A in \in FnInstrs(f) : ToSet(module.ops[in]) \subseteq module.exempt \cup UNION {DefsOf(g) : g \in Defined}

\* The verdict is right, up to operands of other functions.
CheckSound == CheckTypeOK /\ AcceptsWellFormed /\ AcceptedIsSound
=============================================================================
