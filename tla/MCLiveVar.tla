------------------------------ MODULE MCLiveVar ------------------------------
(* Instances of LiveVar for TLC: reducible graphs with one exit; a value x,  *)
(* two phis p and q of one join block, and a float constant f.               *)
EXTENDS LiveVar, MCFlowGraphs

CONSTANTS x, p, q, f

MCValue == {x, p, q, f}
MCUnnamed == {f}

\* The pass does not look at the order of the successors.
Graphs == {s \in CanonicalSuccs : /\ \A b \in MCBlock : s[b] = SetToSortSeq(ToSet(s[b]), <)
                                  /\ OneExit(s)
                                  /\ Reducible(MCBlock, [b \in MCBlock |-> ToSet(s[b])], 1)}

\* Operand lists of a phi with predecessors preds: for each one value or none
\* that is available at its end.  Mem2Reg leaves out a pair without a value.
PairsOf(preds, avail) ==
  FoldLeft(LAMBDA acc, b : acc \cup {Append(l, [val |-> v, from |-> b]) : l \in acc, v \in avail[b]},
           {<<>>}, preds)

PhiOf(id, ops) == [id |-> id, phi |-> TRUE, ops |-> ops]
PlainUseOf(v) == [id |-> Null, phi |-> FALSE, ops |-> <<[val |-> v, from |-> Null]>>]
DefOf(v) == [id |-> v, phi |-> FALSE, ops |-> <<>>]

\* x is set in block d and used in the blocks of ux, the phi p in block up.
Code(d, j, pops, qops, ux, up) ==
  [b \in MCBlock |->
     (IF b = j THEN <<PhiOf(p, pops)>> \o (IF qops = <<>> THEN <<>> ELSE <<PhiOf(q, qops)>>) ELSE <<>>)
     \o (IF b = d THEN <<DefOf(x)>> ELSE <<>>)
     \o (IF b \in ux THEN <<PlainUseOf(x)>> ELSE <<>>)
     \o (IF b = up THEN <<PlainUseOf(p)>> ELSE <<>>)]

\* The list of blocks in the order of the walk, or in the opposite one.
Orders == {[b \in MCBlock |-> b], [b \in MCBlock |-> Size + 1 - b]}

ProgramsOf(s, j, d) ==
  LET succ     == [b \in MCBlock |-> ToSet(s[b])]
      below(a) == DominatedBy(MCBlock, succ, 1, a)
      preds    == SetToSortSeq(Preds(s, j), <)
  IN  {[blocks |-> o, succ |-> succ, code |-> Code(d, j, pops, qops, ux, up)] :
         o \in Orders,
         pops \in PairsOf(preds, [b \in MCBlock |-> {v \in {x, q} : b \in below(IF v = x THEN d ELSE j)}]) \ {<<>>},
         qops \in {l \in PairsOf(preds, [b \in MCBlock |-> {f} \cup {v \in {p} : b \in below(j)}]) :
                    Len(l) \in {0, Len(preds)}},
         ux \in {u \in SUBSET below(d) : Cardinality(u) <= 1},
         up \in {Max(below(j))}}

MCPrograms ==
  UNION {UNION {ProgramsOf(s, j, d) : j \in {j \in MCBlock : Cardinality(Preds(s, j)) > 1}, d \in MCBlock}
           : s \in Graphs}
=============================================================================
