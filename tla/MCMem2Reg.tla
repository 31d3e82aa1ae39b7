------------------------------ MODULE MCMem2Reg ------------------------------
(* Instances of Mem2Reg for TLC: the blocks are 1..Size, block 1 is the     *)
(* entry.                                                                   *)
EXTENDS Mem2RegMeaning, MCFlowGraphs

CONSTANTS
  MaxStmts,     \* bound on the statements of a small function
  va, vb, vt    \* the variables

MCVar == {va, vb, vt}

\* Statements, as lists of instructions to be placed after n others of block b.
Read(b, n, v) == <<[op |-> "load", var |-> v, val |-> Null], [op |-> "out", var |-> Null, val |-> <<b, n + 1>>]>>
Get(b, n, v) == <<[op |-> "call", var |-> Null, val |-> Null], [op |-> "store", var |-> v, val |-> <<b, n + 1>>]>>
Copy(b, n, v, w) == <<[op |-> "load", var |-> w, val |-> Null], [op |-> "store", var |-> v, val |-> <<b, n + 1>>]>>

Stmts == [op : {"read", "get"}, var : {va}]

Instrs(b, n, s) == CASE s.op = "read" -> Read(b, n, s.var)
                     [] s.op = "get"  -> Get(b, n, s.var)
                     [] s.op = "copy" -> Copy(b, n, s.var, s.from)

Code(b, stmts) == FoldLeft(LAMBDA acc, s : acc \o Instrs(b, Len(acc), s), <<>>, stmts)

\* All ways to give each block but the first some statements, MaxStmts together.
ShortLists == BoundedSeq(Stmts, MaxStmts)
Bodies ==
  LET total(f) == FoldLeft(LAMBDA n, l : n + Len(l), 0, f)
  IN  FoldLeft(LAMBDA acc, b : {f \in {Append(f, l) : f \in acc, l \in ShortLists} : total(f) <= MaxStmts},
               {<<>>}, [b \in 1..(Size - 1) |-> b])

\* As IRBuilder builds them: one ret block, and loops with one entry.  The
\* small functions have an empty entry block before a graph of four blocks.
Graphs == {s \in CanonicalSuccs : OneExit(s) /\ Reducible(MCBlock, [b \in MCBlock |-> ToSet(s[b])], 1)}
SmallGraphs == {s \in Graphs : s[1] = <<2>> /\ Preds(s, 2) = {1}}

MCBlocks == [b \in 1..Size |-> b]

SmallPrograms ==
  {p \in {[blocks |-> MCBlocks, succ |-> s, code |-> [b \in MCBlock |-> IF b = 1 THEN <<>> ELSE Code(b, f[b - 1])]]
             : s \in SmallGraphs, f \in Bodies} :
     Function(p) /\ \E b \in MCBlock : \E k \in DOMAIN p.code[b] : p.code[b][k].op = "load"}

\* Loops: a while in a while, a while with an if, a while with a break; and the
\* same with every branch turned round.
Loops ==
  LET turned(s) == [b \in DOMAIN s |-> Reverse(s[b])]
      graphs == {<<<<2>>, <<3, 5>>, <<4, 2>>, <<3>>, <<>>>>,
                 <<<<2>>, <<3, 5>>, <<4, 2>>, <<2>>, <<>>>>,
                 <<<<2>>, <<3, 5>>, <<4, 2>>, <<5>>, <<>>>>}
  IN  graphs \cup {turned(s) : s \in graphs}

\* Of the variables x, y, t: x and y get a value in the entry block and are
\* read in the last one; in between they are read, set, copied, exchanged.
CopyOf(v, w) == [op |-> "copy", var |-> v, from |-> w]
StmtOf(o, v) == [op |-> o, var |-> v]

LoopBodies(x, y, t) ==
  {<<>>, <<StmtOf("read", x)>>, <<StmtOf("get", x)>>, <<CopyOf(y, x)>>,
   <<CopyOf(t, x), CopyOf(x, y), CopyOf(y, t), StmtOf("read", y)>>}

LoopPrograms(x, y, t) ==
  {[blocks |-> MCBlocks, succ |-> s,
    code |-> [b \in MCBlock |->
      Code(b, CASE b = 1    -> <<StmtOf("get", x), StmtOf("get", y)>>
                [] b = Size -> <<StmtOf("read", x), StmtOf("read", y)>>
                [] OTHER    -> f[b])]]
     : s \in Loops, f \in [2..(Size - 1) -> LoopBodies(x, y, t)]}

MCPrograms == SmallPrograms \cup LoopPrograms(va, vb, vt)
=============================================================================
