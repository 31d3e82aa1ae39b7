----------------------------- MODULE MCFrontEnd -----------------------------
(* The two sides of the walks over the syntax tree, for TLC: an execution  *)
(* visits the names of a program, or the values of an expression.          *)
EXTENDS Expressions, Scopes

(* Words of three bits; the least word, 0, -1 and a positive number meet   *)
(* every edge of the integer operations.  -1.5 truncates to -1, and 4.0    *)
(* does not fit into an int.                                               *)
MCInts == {-4, -1, 0, 3}
MCFloats == {-3, 8}

-----------------------------------------------------------------------------
(* Two identifiers, one of which is also used for functions, and one       *)
(* library function without arguments.  The long programs use a variable   *)
(* x, and f indexed by x; the short ones every expression.                 *)
MCNames == {"x", "f"}
MCLibrary == [g \in {"getint"} |-> 0]
FewExprs == {Lit, [name |-> "x", index |-> ""], [name |-> "f", index |-> "x"]}
EveryExpr == {Lit} \cup [name : MCNames, index : {"", "0"} \cup MCNames]
EveryKind == {"const", "constarray", "var", "array"}

(* Nothing more is to be seen behind the first fault of the builder, nor    *)
(* once the checker has stopped: the properties speak of programs that it  *)
(* accepts.                                                                *)
UntilFault == built = "ok" /\ verdict = "accepted"

-----------------------------------------------------------------------------

MCInit == Init /\ WalkInit

MCNext ==
    \/ visits = 0 /\ WalkNext /\ UNCHANGED vars
    \/ nodes = 0 /\ Next /\ UNCHANGED walk

MCSpec == MCInit /\ [][MCNext]_<<vars, walk>>
=============================================================================
