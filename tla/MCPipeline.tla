----------------------------- MODULE MCPipeline -----------------------------
(* The compiler as it is called, the pass that has the last word on what   *)
(* it writes, and the use lists that all the passes work on.  An execution *)
(* goes through a command line, or the check of a module, or the calls of  *)
(* passes on a few instructions.                                           *)
EXTENDS Check, Pipeline, UseDef, TLC

CONSTANTS
  Entry, Cond, Body, Exit, Only, Ret,              \* blocks, to be checked
  br1, ph, cbr, br2, ret1, br3, ret2, a, k, x     \* and their values

-----------------------------------------------------------------------------
(* A loop, a declaration and a small function in every order, undamaged or *)
(* damaged in up to two places.                                            *)

Loop  == [args |-> {a}, blocks |-> <<Entry, Exit, Cond, Body>>]
Decl  == [args |-> {}, blocks |-> <<>>]
Small == [args |-> {x}, blocks |-> <<Only, Ret>>]

Code == Entry :> <<br1>> @@ Cond :> <<ph, cbr>> @@ Body :> <<br2>> @@ Exit :> <<ret1>>
          @@ Only :> <<br3>> @@ Ret :> <<ret2>>

Succ == Entry :> <<Cond>> @@ Cond :> <<Body, Exit>> @@ Body :> <<Cond>> @@ Exit :> <<>>
          @@ Only :> <<Ret>> @@ Ret :> <<>>

Pre  == Entry :> <<>> @@ Cond :> <<Entry, Body>> @@ Body :> <<Cond>> @@ Exit :> <<Cond>>
          @@ Only :> <<>> @@ Ret :> <<Only>>

Values == {br1, ph, cbr, br2, ret1, br3, ret2, a, k, x} \cup DOMAIN Code

Base ==
  LET ops == [v \in Values |->
                CASE v \in {br1, br2} -> <<Cond>> [] v = ph -> <<a, Entry, ph, Body>>
                  [] v = cbr -> <<ph, Body, Exit>> [] v = ret1 -> <<ph>>
                  [] v = br3 -> <<Ret>> [] v = ret2 -> <<x>> [] OTHER -> <<>>]
      jumps == {br1, cbr, br2, ret1, br3, ret2}
  IN  [functions |-> <<>>, pre |-> Pre, succ |-> Succ, code |-> Code, ops |-> ops,
       users |-> [v \in Values |-> {u \in Values : v \in ToSet(ops[u])}], void |-> jumps, terminators |-> jumps,
       exempt |-> {k} \cup DOMAIN Code]

\* An edge recorded on one side only, a last instruction or a use that is
\* missing, an operand of another function.
Damaged(m) ==
  {m} \cup {[m EXCEPT !.pre[b] = Tail(@)] : b \in {d \in DOMAIN Code : m.pre[d] # <<>>}}
      \cup {[m EXCEPT !.succ[b] = Tail(@)] : b \in {d \in DOMAIN Code : m.succ[d] # <<>>}}
      \cup {[m EXCEPT !.code[b] = Front(@)] : b \in {d \in DOMAIN Code : m.code[d] # <<>>}}
      \cup {[m EXCEPT !.users[v] = @ \ {u}] : v \in {a, ph, x, Cond}, u \in {br1, ph, cbr, ret1, ret2}}
      \cup {[m EXCEPT !.ops[ret2] = <<v>>, !.users[v] = @ \cup {ret2}] : v \in {a, k, ph}}
      \cup {[m EXCEPT !.ops[ret1] = <<v>>, !.users[v] = @ \cup {ret1}] : v \in {x, cbr}}

Orders == {s \in [1..3 -> {Loop, Decl, Small}] : IsInjective(s)}

DamagedModules ==
  UNION {UNION {Damaged(m) : m \in Damaged([Base EXCEPT !.functions = s])} : s \in Orders}

-----------------------------------------------------------------------------

\* A file, the options, -o and -h.
MCWords == {"a.sy", "-emit-ast", "-emit-ir", "-check", "-O2", "-O", "-lv", "-cse", "-optimize-size",
            "-o", "-h"}

NoCheck == module = [functions |-> <<>>] /\ defs = {} /\ nth = 1 /\ phase = "done"
NoCommand ==
  /\ argv = <<>> /\ word = 1 /\ flags = {} /\ filename = "-" /\ target = "-" /\ content = "?"
  /\ todo = <<>> /\ done = <<>> /\ broken = FALSE /\ output = "none" /\ status = "exit"

\* Instructions are interchangeable.
Symmetry == Permutations(Instr)

MCInit == Init /\ ((CheckInit /\ NoCommand) \/ (NoCheck /\ MainInit) \/ (NoCheck /\ NoCommand))

\* A command line never ends in the state NoCommand.  A pass may stop calling.
MCNext ==
  \/ ~NoCheck /\ CheckNext /\ UNCHANGED <<command, vars>>
  \/ NoCheck /\ ~NoCommand /\ MainNext /\ UNCHANGED <<checking, vars>>
  \/ NoCheck /\ NoCommand /\ [Next]_vars /\ UNCHANGED <<checking, command>>

MCSpec == MCInit /\ [][MCNext]_<<checking, command, vars>>
=============================================================================
