------------------------------- MODULE LiveVar -------------------------------
(***************************************************************************)
(* The pass LiveVar on one function in SSA form (Optimize/LiveVar.cpp):    *)
(* passes over the list of blocks compute live_in and live_out until one   *)
(* changes nothing.  A phi makes its operand live only on the edge the     *)
(* pair names, and the table wherefrom remembers for which edges: it maps  *)
(* a value that is live into a block to the predecessors whose phis ask    *)
(* for it, and to the block itself when every predecessor must supply it.  *)
(*                                                                         *)
(* An instruction is [id, phi, ops]: the value it defines, or Null; ops    *)
(* are the operands that the pass does not skip, each with the block of    *)
(* its pair if the instruction is a phi.                                   *)
(*                                                                         *)
(* Definitions marked "Mutant" are no part of the specification.           *)
(***************************************************************************)
EXTENDS Naturals, Sequences, FiniteSets, SequencesExt, Cfg

CONSTANTS
  Block,     \* the blocks of the function
  Value,     \* instructions, arguments, and constants of type float
  Unnamed,   \* the constants among them: the only ones without a name
  Null,
  Programs   \* the functions the pass may be given, see Function

Operand == [val : Value, from : Block \cup {Null}]

\* Blocks in list order, distinct successors, no block its own successor
\* (IRBuilder!LoopsReducible); phis name predecessors, other instructions no
\* block, and a block that defines a value uses it only behind the definition.
Function(p) ==
  /\ p.blocks \in Seq(Block) /\ ToSet(p.blocks) = Block
  /\ p.succ \in [Block -> SUBSET Block]
  /\ \A b \in Block :
       /\ b \notin p.succ[b]
       /\ p.code[b] \in Seq([id : (Value \ Unnamed) \cup {Null}, phi : BOOLEAN, ops : Seq(Operand)])
       /\ \A i \in ToSet(p.code[b]) : \A o \in ToSet(i.ops) :
            /\ i.phi <=> o.from # Null
            /\ i.phi => b \in p.succ[o.from]
       /\ \A k, m \in DOMAIN p.code[b] : \A o \in ToSet(p.code[b][k].ops) :
            ~p.code[b][k].phi /\ p.code[b][m].id = o.val => m < k

ASSUME ValuesNamed == Unnamed \subseteq Value /\ Null \notin Value \cup Block
ASSUME BlocksFinite == IsFiniteSet(Block)
ASSUME ProgramsAssumption == \A p \in Programs : Function(p)

\* wherefrom is keyed by name: all unnamed values share one entry.
Key(v) == IF v \in Unnamed THEN Null ELSE v
Keys == (Value \ Unnamed) \cup {Null}

VARIABLES
  program,
  pc,                  \* "scan", then "done"
  next,                \* position in the list of blocks
  changed,
  live_in, live_out,   \* members of the blocks, the result
  wherefrom

vars == <<program, pc, next, changed, live_in, live_out, wherefrom>>

Init ==
  /\ program \in Programs
  /\ pc = "scan"
  /\ next = 1
  /\ changed = FALSE
  /\ live_in = [b \in Block |-> {}]
  /\ live_out = [b \in Block |-> {}]
  /\ wherefrom = [b \in Block |-> [n \in Keys |-> {}]]

-----------------------------------------------------------------------------

\* def_set after the first k instructions of block b, and after all.
DefsUpTo(b, k) == {program.code[b][m].id : m \in 1..k} \ {Null}
def_set(b) == DefsUpTo(b, Len(program.code[b]))

\* What the operands of block b make live into it, each with its source: the
\* block of the pair for a phi, else b itself.
\* Mutant: a phi counts as a use in its own block.
PlainUses(b) ==
  UNION {{[val |-> o.val, from |-> b] :
            o \in {o \in ToSet(program.code[b][k].ops) :
                     program.code[b][k].phi \/ o.val \notin DefsUpTo(b, k - 1)}}
           : k \in DOMAIN program.code[b]}

Uses(b) ==
  UNION {{[val |-> o.val, from |-> IF program.code[b][k].phi THEN o.from ELSE b] :
            o \in {o \in ToSet(program.code[b][k].ops) :
                     program.code[b][k].phi \/ o.val \notin DefsUpTo(b, k - 1)}}
           : k \in DOMAIN program.code[b]}

Through(b) == live_out[b] \ def_set(b)

NewIn(b) == {u.val : u \in Uses(b)} \cup Through(b)

\* wherefrom[b] once the values of live_in are known.
\* Mutant: a source is recorded only for what was live into b before.
SourcesLate(b) ==
  [n \in Keys |-> wherefrom[b][n] \cup {u.from : u \in {u \in Uses(b) : Key(u.val) = n /\ u.val \in live_in[b]}}
                  \cup (IF \E v \in Through(b) : Key(v) = n THEN {b} ELSE {})]

Sources(b) ==
  [n \in Keys |-> wherefrom[b][n] \cup {u.from : u \in {u \in Uses(b) : Key(u.val) = n}}
                  \cup (IF \E v \in Through(b) : Key(v) = n THEN {b} ELSE {})]

\* What is live into s and must come from b.
Needs(s, b) ==
  {v \in live_in[s] : wherefrom[s][Key(v)] = {} \/ wherefrom[s][Key(v)] \cap {b, s} # {}}

\* Mutant: only what was not live out before.
NewOutFresh(b) == (UNION {Needs(s, b) : s \in program.succ[b]}) \ live_out[b]

NewOut(b) == UNION {Needs(s, b) : s \in program.succ[b]}

\* One block of a pass.
\* Mutant: changed is what the last block says.
ScanForgetsChange ==
  /\ pc = "scan"
  /\ next <= Len(program.blocks)
  /\ LET b == program.blocks[next] IN
     /\ live_in' = [live_in EXCEPT ![b] = NewIn(b)]
     /\ live_out' = [live_out EXCEPT ![b] = NewOut(b)]
     /\ wherefrom' = [wherefrom EXCEPT ![b] =
          [n \in Keys |-> Sources(b)[n] \cup (IF \E v \in NewOut(b) \ def_set(b) : Key(v) = n THEN {b} ELSE {})]]
     /\ changed' = (live_in[b] # NewIn(b) \/ live_out[b] # NewOut(b))
  /\ next' = next + 1
  /\ UNCHANGED <<program, pc>>

ScanBlock ==
  /\ pc = "scan"
  /\ next <= Len(program.blocks)
  /\ LET b == program.blocks[next] IN
     /\ live_in' = [live_in EXCEPT ![b] = NewIn(b)]
     /\ live_out' = [live_out EXCEPT ![b] = NewOut(b)]
     /\ wherefrom' = [wherefrom EXCEPT ![b] =
          [n \in Keys |-> Sources(b)[n] \cup (IF \E v \in NewOut(b) \ def_set(b) : Key(v) = n THEN {b} ELSE {})]]
     /\ changed' = (changed \/ live_in[b] # NewIn(b) \/ live_out[b] # NewOut(b))
  /\ next' = next + 1
  /\ UNCHANGED <<program, pc>>

\* The end of a pass: another one if something changed.
PassDone ==
  /\ pc = "scan"
  /\ next > Len(program.blocks)
  /\ IF changed THEN next' = 1 /\ UNCHANGED pc ELSE pc' = "done" /\ UNCHANGED next
  /\ changed' = FALSE
  /\ UNCHANGED <<program, live_in, live_out, wherefrom>>

\* What dump writes for a set: only values that have a name.
dump(S) == S \ Unnamed

Finished == pc = "done" /\ UNCHANGED vars

Next == ScanBlock \/ PassDone \/ Finished

\* The compiler is one sequential process that runs on.
Spec == Init /\ [][Next]_vars /\ WF_vars(Next)

-----------------------------------------------------------------------------
(* Properties.                                                             *)

TypeOK ==
  /\ Function(program)
  /\ pc \in {"scan", "done"}
  /\ next \in 1..(Len(program.blocks) + 1)
  /\ changed \in BOOLEAN
  /\ live_in \in [Block -> SUBSET Value]
  /\ live_out \in [Block -> SUBSET Value]
  /\ wherefrom \in [Block -> [Keys -> SUBSET Block]]

\* The reference, by paths: v is needed at the end of b if b is the block of a
\* pair with v in a successor's phi, or if from a successor of b some path
\* through blocks that do not define v comes to a plain use of v, or to the end
\* of a block that is the block of such a pair.
OnEdge(v) == {b \in Block : \E s \in program.succ[b] : \E i \in ToSet(program.code[s]) :
                              i.phi /\ \E o \in ToSet(i.ops) : o.val = v /\ o.from = b}
Defines(v) == {b \in Block : v \in def_set(b)}
PlainUse(v) == {b \in Block \ Defines(v) : \E i \in ToSet(program.code[b]) :
                              ~i.phi /\ \E o \in ToSet(i.ops) : o.val = v}
NeededIn(v) ==
  LET goal  == PlainUse(v) \cup (OnEdge(v) \ Defines(v))
      clear == Block \ Defines(v)
  IN  {b \in clear : ReachIn(clear, program.succ, b) \cap goal # {}}
NeededOut(v) == OnEdge(v) \cup {b \in Block : program.succ[b] \cap NeededIn(v) # {}}
PhiUse(v) == {b \in Block : \E i \in ToSet(program.code[b]) :
                              i.phi /\ \E o \in ToSet(i.ops) : o.val = v}

\* At no time is a value with a name live where no path needs it: the operand
\* of a phi never spreads to the other predecessors, through loops or through
\* the file of sources, which only grows (part3.md:33-34).  The set of a block
\* with the phi holds all the operands of the phi.
NeverTooMuch ==
  \A v \in Value \ Unnamed :
    /\ {b \in Block : v \in live_in[b]} \subseteq NeededIn(v) \cup PhiUse(v)
    /\ {b \in Block : v \in live_out[b]} \subseteq NeededOut(v)

\* When the pass ends it has written every value that some path needs, the
\* values carried round loops included: it does not stop early.
DumpExact ==
  pc = "done" =>
    \A v \in Value : \A b \in Block :
      /\ v \in dump(live_in[b]) <=> v \notin Unnamed /\ b \in NeededIn(v) \cup PhiUse(v)
      /\ v \in dump(live_out[b]) <=> v \notin Unnamed /\ b \in NeededOut(v)

\* The sets are right all along the way and at its end.
LiveExact == TypeOK /\ NeverTooMuch /\ DumpExact

\* When the pass ends, both data-flow equations hold in every block, for the
\* sources as they are then: no block was left with sets older than those of
\* its successors, and no source was added that a predecessor has not seen.
EquationsHold ==
  pc = "done" => \A b \in Block : live_in[b] = NewIn(b) /\ live_out[b] = NewOut(b)

\* No iteration takes a value out of a set again, so the passes come to an end:
\* the code has no bound on their number.
SetsOnlyGrow ==
  [][\A b \in Block : live_in[b] \subseteq live_in'[b] /\ live_out[b] \subseteq live_out'[b]]_vars

\* The loop of the passes ends.
Terminates == <>(pc = "done")
=============================================================================
