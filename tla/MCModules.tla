------------------------------ MODULE MCModules ------------------------------
(* Two parts of the compiler, each on modules of its own: the naming of       *)
(* values and the merging of functions.  An execution runs one of them.       *)
EXTENDS Naming, CodeSizeOptimizer

CONSTANTS
  n1, n2, n3, n4,                                  \* the values that are named
  N                                                \* functions, to be merged

VARIABLE part    \* "name", "merge"

-----------------------------------------------------------------------------
(* Four values, one of them without a value.                               *)

MCVal == {n1, n2, n3, n4}
MCVoid == {n4}

-----------------------------------------------------------------------------
(* Functions that call the first two of their module or not, declarations  *)
(* among them.                                                             *)

Op == Plain("op")
Br == Plain("br")
Rt == Plain("ret")

Args(f, sig) == IF f \in sig THEN 1 ELSE 0

Call(f, g) == [op |-> "call", home |-> f, callee |-> g]

Shapes ==
  {<<>>, << <<Rt>> >>, << <<Op, Op, Br>>, <<Rt>> >>}
    \cup {<< <<Call(1, g), Rt>> >> : g \in {1, 2}}
    \cup {<< <<Call(1, g), Op, Br>>, <<Call(1, 3 - g), Rt>> >> : g \in {1, 2}}

\* A body of that shape, of the function f.
BodyOf(f, shape) ==
  [b \in DOMAIN shape |-> [k \in DOMAIN shape[b] |->
     IF shape[b][k].op = "call" THEN [shape[b][k] EXCEPT !.home = f] ELSE shape[b][k]]]

\* sig: the functions that have an argument.
MergeModules ==
  UNION {{[f \in 1..N |-> [ret |-> "int", args |-> Args(f, sig), blocks |-> BodyOf(f, shape[f])]] :
             shape \in [1..N -> Shapes]} : sig \in {{}, {1}}}

\* Test/Easy/08_var_defn_func.sy, behind a function of the library.
OneCall ==
  LET IntFunction(body) == [ret |-> "int", args |-> 0, blocks |-> body] IN
  {<<IntFunction(<<>>), IntFunction(<< <<Br>>, <<Rt>> >>),
     IntFunction(<< <<Call(3, 2), Br>>, <<Rt>> >>)>>}

-----------------------------------------------------------------------------

MergeIdle ==
  /\ fns = <<>> /\ functions = <<>> /\ first = 1 /\ second = 1 /\ merged = 0 /\ olds = <<>>
  /\ at = [f |-> 1, b |-> 1, k |-> 1] /\ stage = "done" /\ start = <<>>

MCInit ==
  /\ NamingInit
  /\ \/ part = "name" /\ MergeIdle
     \/ part = "merge" /\ MergeInit

MCNext ==
  /\ \/ part = "name" /\ NamingNext /\ UNCHANGED merging
     \/ part = "merge" /\ MergeNext /\ UNCHANGED naming
  /\ UNCHANGED part

MCSpec == MCInit /\ [][MCNext]_<<part, naming, merging>> /\ WF_merging(MCNext /\ Proceed)

\* The merging ends, or chases the calls it makes.
PassesEnd == MergeTerminates
=============================================================================
