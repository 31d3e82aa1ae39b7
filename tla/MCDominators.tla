---------------------------- MODULE MCDominators ----------------------------
(* The two dominance passes on one function, one after the other as PassMgr   *)
(* runs them: DominateTree, then RDominateTree on a module that holds the     *)
(* function beside a declaration or a loop.  The blocks of the function are   *)
(* 1..Size, block 1 is the entry.                                             *)
EXTENDS DominateTree, MCFlowGraphs

VARIABLES functions, f, rpc, exit_block, rcalls, rvisited, rpost_order, rbb2int, rdoms, rchanged, ri,
          rdom_frontier, rdom

rvars == <<functions, f, rpc, exit_block, rcalls, rvisited, rpost_order, rbb2int, rdoms, rchanged, ri,
           rdom_frontier, rdom>>

\* A while loop: entry, condition, body, next.
Shifted(n, lists) == [b \in (n + 1)..(n + 4) |-> [k \in DOMAIN lists[b - n] |-> n + lists[b - n][k]]]
Loop(n) ==
  [blocks |-> <<n + 1, n + 2, n + 3, n + 4>>,
   succ |-> Shifted(n, <<<<2>>, <<3, 4>>, <<2>>, <<>>>>),
   pre |-> Shifted(n, <<<<>>, <<1, 3>>, <<2>>, <<2>>>>)]

Declaration == [blocks |-> <<>>, succ |-> <<>>, pre |-> <<>>]

\* The predecessors in the order of their names or in the opposite one.
MCGraphs ==
  UNION {LET up == [t \in MCBlock |-> SetToSortSeq(Preds(s, t), <)]
         IN  {[blocks |-> [b \in MCBlock |-> b], succ |-> s, pre |-> p]
                : p \in {up, [t \in MCBlock |-> Reverse(up[t])]}}
           : s \in {s \in CanonicalSuccs : OneExit(s)}}

MCModules == UNION {{<<Declaration, g, Loop(Size)>>, <<Loop(Size), g>>} : g \in MCGraphs}

Post == INSTANCE RDominateTree WITH
  Block <- 1..(Size + 4), Modules <- MCModules, pc <- rpc, calls <- rcalls, visited <- rvisited,
  post_order <- rpost_order, bb2int <- rbb2int, changed <- rchanged, i <- ri

\* With the predecessors in one order the function stands between two others
\* and its blocks are new; in the other it is the last one, and its blocks hold
\* what an earlier execution of RDominateTree left.
Upwards(g) == [g EXCEPT !.pre = [t \in MCBlock |-> SetToSortSeq(ToSet(@[t]), <)]]

MCInit ==
  /\ Init
  /\ Post!Start
  /\ \/ graph = Upwards(graph) /\ functions = <<Declaration, graph, Loop(Size)>> /\ rdom[1] = {}
     \/ graph # Upwards(graph) /\ functions = <<Loop(Size), graph>> /\ rdom[1] # {}

MCNext ==
  \/ pc # "done" /\ Next /\ UNCHANGED rvars
  \/ pc = "done" /\ Post!Next /\ UNCHANGED vars

MCSpec == MCInit /\ [][MCNext]_<<vars, rvars>> /\ WF_<<vars, rvars>>(MCNext)

\* RDominateTree!TablesSound, ResultExact and Terminates.
PostTablesSound == Post!TablesSound
PostResultExact == Post!ResultExact
PassesEnd == Post!Terminates
=============================================================================
