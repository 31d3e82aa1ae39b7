--------------------------- MODULE MCComSubExprEli ---------------------------
(* Instances of ComSubExprEli for TLC: reducible graphs without && and ||     *)
(* with expressions in every combination of blocks, and one condition with    *)
(* both.  The blocks are 1..Size, block 1 is the entry.                       *)
EXTENDS ComSubExprEli, MCFlowGraphs

CONSTANTS x, y, c   \* two values of the function and a constant

Ids(n) == MCBlock \X (1..n)
MCConst == {c}
MCValue == {x, y, c} \cup Ids(6) \cup {<<0, 0>>}
MCExpr == {"add", "gep"}
MCCommutative == {"add"}

\* The k-th expression of block b, followed by a use of it.
Computed(b, k, op, args) ==
  <<[id |-> <<b, 2 * k - 1>>, op |-> op, args |-> args, from |-> <<>>],
    [id |-> <<b, 2 * k>>, op |-> "use", args |-> <<<<b, 2 * k - 1>>>>, from |-> <<>>]>>

\* An expression of another function on operands that this one can have too.
Foreign == [id |-> <<0, 0>>, op |-> "gep", args |-> <<c, c>>, from |-> <<>>]

Built == {s \in CanonicalSuccs : OneExit(s) /\ Reducible(MCBlock, [b \in MCBlock |-> ToSet(s[b])], 1)}

Program(s, up, list, body) ==
  LET pre == [t \in MCBlock |-> SetToSortSeq(Preds(s, t), <)]
  IN  [blocks |-> list, pre |-> IF up THEN pre ELSE [t \in MCBlock |-> Reverse(pre[t])],
       code |-> body, foreign |-> {Foreign}]

Bodies(b) ==
  {<<>>,
   Computed(b, 1, "add", <<x, y>>),
   Computed(b, 1, "gep", <<c, c>>) \o Computed(b, 2, "add", <<x, y>>) \o Computed(b, 3, "add", <<x, y>>)}

Few(b) == {<<>>, Computed(b, 1, "add", <<x, c>>), Computed(b, 1, "add", <<c, x>>),
           Computed(b, 1, "gep", <<x, c>>) \o Computed(b, 2, "gep", <<c, x>>)}

\* Without && and ||, a branch whose target has other predecessors dominates it.
PlainConditions(s) ==
  \A b \in MCBlock : Len(s[b]) > 1 =>
    \A t \in ToSet(s[b]) : Preds(s, t) = {b} \/ Dominates(MCBlock, [a \in MCBlock |-> ToSet(s[a])], 1, b, t)

Lists == {<<1>> \o [k \in 1..(Size - 1) |-> k + 1], <<1>> \o [k \in 1..(Size - 1) |-> Size + 1 - k]}

BodiesOf(set(_)) == {f \in [MCBlock -> UNION {set(b) : b \in MCBlock}] : \A b \in MCBlock : f[b] \in set(b)}

MCPrograms ==
  {Program(s, list[2] = 2, list, body) : s \in {s \in Built : PlainConditions(s)}, list \in Lists,
                                          body \in BodiesOf(Bodies) \cup BodiesOf(Few)}

\* if ((a && e > 0) || e > 1) with e in no other place but behind the if.
ShortCircuit == <<<<2, 3>>, <<4, 3>>, <<4, 5>>, <<5>>, <<>>>>
MCShortCircuit ==
  {Program(ShortCircuit, up, [b \in MCBlock |-> b],
           [b \in MCBlock |-> IF b \in {2, 3, 5} THEN Computed(b, 1, "add", <<x, y>>) ELSE <<>>]) : up \in BOOLEAN}
=============================================================================
