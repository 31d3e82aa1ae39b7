------------------------------ MODULE Pipeline ------------------------------
(***************************************************************************)
(* The compiler as it is called (main.cpp, Pass.h, SysYFDriver.cpp): the    *)
(* words of the command line, the passes they ask for, the steps from the  *)
(* source file to the output, and the ways to stop before.  What a pass    *)
(* does to the module is one fact: whether Check would refuse it.          *)
(*                                                                         *)
(* Definitions marked "Mutant" are no part of the specification.           *)
(***************************************************************************)
EXTENDS Naturals, Sequences, SequencesExt

CONSTANTS
  Words,      \* what may be written on the command line
  MaxWords    \* bound: its length

ASSUME MaxWordsAssumption == MaxWords \in Nat

\* "none" stands for no output, and for no word.
ASSUME WordsAssumption == "none" \notin Words

VARIABLES
  argv,
  word,       \* i of the loop over argv
  flags,      \* the options that are set
  filename,
  target,     \* output_llvm_file
  content,    \* what the source file holds: "?", "correct", "misused", "syntax"
  todo,       \* what is left of pass_list
  done,       \* the passes executed
  broken,     \* Check would refuse the module
  output,     \* where the module was written, or "none"
  status      \* "words", "parse", "check", "build", "passes", "exit", "failed", "crashed"

command == <<argv, word, flags, filename, target, content, todo, done, broken, output, status>>

Stopped == {"exit", "failed", "crashed"}

MainInit ==
  /\ argv \in UNION {[1..n -> Words] : n \in 0..MaxWords}
  /\ word = 1
  /\ flags = {}
  /\ filename = "-" /\ target = "-"
  /\ content = "?"
  /\ todo = <<>> /\ done = <<>>
  /\ broken = FALSE
  /\ output = "none"
  /\ status = "words"

-----------------------------------------------------------------------------
(* The words of the command line.                                          *)

Options == {"-emit-ast", "-emit-ir", "-check", "-O2", "-O", "-lv", "-cse", "-optimize-size"}

Sets(w) ==
  CASE w = "-O2"            -> {"optimize_all", "optimize"}
    [] w = "-O"             -> {"optimize"}
    [] w = "-lv"            -> {"optimize", "lv"}
    [] w = "-cse"           -> {"optimize", "cse"}
    [] w = "-optimize-size" -> {"optimize", "optimize_size"}
    [] w = "-check"         -> {"check"}
    [] w = "-emit-ast"      -> {"print_ast"}
    [] w = "-emit-ir"       -> {"emit_ir"}

Help ==
  /\ status = "words" /\ word <= Len(argv) /\ argv[word] = "-h"
  /\ status' = "exit"
  /\ UNCHANGED <<argv, word, flags, filename, target, content, todo, done, broken, output>>

\* Behind the last word stands a null pointer, of which no string is made.
OutputFile ==
  /\ status = "words" /\ word <= Len(argv) /\ argv[word] = "-o"
  /\ IF word = Len(argv)
     THEN status' = "crashed" /\ UNCHANGED <<word, target>>
     ELSE target' = argv[word + 1] /\ word' = word + 2 /\ UNCHANGED status
  /\ UNCHANGED <<argv, flags, filename, content, todo, done, broken, output>>

Option ==
  /\ status = "words" /\ word <= Len(argv) /\ argv[word] \in Options
  /\ flags' = flags \cup Sets(argv[word])
  /\ word' = word + 1
  /\ UNCHANGED <<argv, filename, target, content, todo, done, broken, output, status>>

InputFile ==
  /\ status = "words" /\ word <= Len(argv) /\ argv[word] \notin Options \cup {"-h", "-o"}
  /\ filename' = argv[word]
  /\ word' = word + 1
  /\ UNCHANGED <<argv, flags, target, content, todo, done, broken, output, status>>

AllRead ==
  /\ status = "words" /\ word > Len(argv)
  /\ status' = "parse"
  /\ UNCHANGED <<argv, word, flags, filename, target, content, todo, done, broken, output>>

-----------------------------------------------------------------------------
(* From the source to the output.                                          *)

\* Standard input is always there, a file may not be.
Missing ==
  /\ status = "parse" /\ filename # "-"
  /\ status' = "failed"
  /\ UNCHANGED <<argv, word, flags, filename, target, content, todo, done, broken, output>>

\* A syntax error is reported and leaves no tree.  The value of a literal that
\* is out of range is an exception that nothing handles.
Parse ==
  /\ status = "parse"
  /\ content' \in {"correct", "misused", "syntax"}
  /\ status' \in {"check", "crashed"}
  /\ UNCHANGED <<argv, word, flags, filename, target, todo, done, broken, output>>

\* The printer and the checker, if asked for.  Either needs a tree; the checker
\* ends the program at `return;', before or behind a misuse.
VisitTree ==
  /\ status = "check"
  /\ status' \in
       IF flags \cap {"print_ast", "check"} # {} /\ content = "syntax" THEN {"crashed"}
       ELSE IF "check" \notin flags THEN {"build"}
       ELSE {"crashed", IF content = "misused" THEN "failed" ELSE "build"}
  /\ UNCHANGED <<argv, word, flags, filename, target, content, todo, done, broken, output>>

\* Mutant: the check belongs to the branches of the options.
PassListUnchecked(fs) ==
  IF "optimize" \notin fs THEN <<>>
  ELSE <<"DominateTree", "Mem2Reg">> \o
    IF "optimize_all" \in fs THEN <<"LiveVar", "ComSubExprEli", "CodeSizeOptimizer", "Check">>
    ELSE (IF "lv" \in fs THEN <<"LiveVar", "Check">> ELSE <<>>)
      \o (IF "cse" \in fs THEN <<"ComSubExprEli", "Check">> ELSE <<>>)
      \o (IF "optimize_size" \in fs THEN <<"CodeSizeOptimizer", "Check">> ELSE <<>>)

\* Mutant: the options exclude each other.
PassListExclusive(fs) ==
  IF "optimize" \notin fs THEN <<>>
  ELSE <<"DominateTree", "Mem2Reg">> \o
    IF "optimize_all" \in fs THEN <<"LiveVar", "ComSubExprEli", "CodeSizeOptimizer", "Check">>
    ELSE IF "lv" \in fs THEN <<"LiveVar", "Check">>
    ELSE IF "cse" \in fs THEN <<"ComSubExprEli", "Check">>
    ELSE IF "optimize_size" \in fs THEN <<"CodeSizeOptimizer", "Check">> ELSE <<"Check">>

PassList(fs) ==
  IF "optimize" \notin fs THEN <<>>
  ELSE <<"DominateTree", "Mem2Reg">> \o
    IF "optimize_all" \in fs THEN <<"LiveVar", "ComSubExprEli", "CodeSizeOptimizer", "Check">>
    ELSE (IF "lv" \in fs THEN <<"LiveVar", "Check">> ELSE <<>>)
      \o (IF "cse" \in fs THEN <<"ComSubExprEli", "Check">> ELSE <<>>)
      \o (IF "optimize_size" \in fs THEN <<"CodeSizeOptimizer", "Check">> ELSE <<"Check">>)

\* Without -emit-ir the program ends here.  What has a tree may be translated,
\* a misuse that no checker was asked about included; the builder gives up on
\* what it cannot represent, and what it folds or dereferences may end it.
Build ==
  /\ status = "build"
  /\ status' \in
       IF "emit_ir" \notin flags THEN {"exit"}
       ELSE IF content = "syntax" THEN {"crashed"}
       ELSE {"passes", "failed", "crashed"}
  /\ todo' = PassList(flags)
  /\ UNCHANGED <<argv, word, flags, filename, target, content, done, broken, output>>

Rewriting == {"Mem2Reg", "ComSubExprEli", "CodeSizeOptimizer"}

\* A pass that rewrites the module may leave it in a state that Check refuses.
Execute ==
  /\ status = "passes" /\ todo # <<>> /\ Head(todo) # "Check"
  /\ broken' \in {broken} \cup (IF Head(todo) \in Rewriting THEN {TRUE} ELSE {})
  /\ done' = Append(done, Head(todo))
  /\ todo' = Tail(todo)
  /\ UNCHANGED <<argv, word, flags, filename, target, content, output, status>>

\* Mem2Reg looks behind the end of a stack of definitions, CodeSizeOptimizer
\* goes on from an instruction it has freed, and any of them locks an operand
\* that is gone.
PassCrashes ==
  /\ status = "passes" /\ todo # <<>> /\ Head(todo) # "Check"
  /\ Head(todo) \in Rewriting \/ broken
  /\ status' = "crashed"
  /\ UNCHANGED <<argv, word, flags, filename, target, content, todo, done, broken, output>>

\* Check ends the program with the status of success, or is ended by an operand
\* that is gone.
ExecuteCheck ==
  /\ status = "passes" /\ todo # <<>> /\ Head(todo) = "Check"
  /\ IF broken THEN status' \in {"exit", "crashed"} ELSE UNCHANGED status
  /\ done' = Append(done, "Check")
  /\ todo' = Tail(todo)
  /\ UNCHANGED <<argv, word, flags, filename, target, content, broken, output>>

WriteModule ==
  /\ status = "passes" /\ todo = <<>>
  /\ output' = target
  /\ status' = "exit"
  /\ UNCHANGED <<argv, word, flags, filename, target, content, todo, done, broken>>

Ended == status \in Stopped /\ UNCHANGED command

MainNext ==
  \/ Help \/ OutputFile \/ Option \/ InputFile \/ AllRead
  \/ Missing \/ Parse \/ VisitTree \/ Build
  \/ Execute \/ PassCrashes \/ ExecuteCheck \/ WriteModule
  \/ Ended

MainSpec == MainInit /\ [][MainNext]_command

-----------------------------------------------------------------------------
(* Properties.                                                             *)

Passes == {"DominateTree", "Mem2Reg", "LiveVar", "ComSubExprEli", "CodeSizeOptimizer", "Check"}

\* The variables have their types.
CommandTypeOK ==
  /\ word \in 1..MaxWords + 1
  /\ filename \in Words \cup {"-"} /\ target \in Words \cup {"-"}
  /\ content \in {"?", "correct", "misused", "syntax"}
  /\ todo \in Seq(Passes) /\ done \in Seq(Passes)
  /\ broken \in BOOLEAN
  /\ output \in Words \cup {"none", "-"}
  /\ status \in Stopped \cup {"words", "parse", "check", "build", "passes"}

\* The word behind an odd number of -o in a row is the operand of the last.
IsOperand(words, j) ==
  \E k \in 1..(j - 1) :
    /\ (j - k) % 2 = 1
    /\ \A i \in k..(j - 1) : words[i] = "-o"
    /\ k > 1 => words[k - 1] # "-o"

Given(w) == \E j \in DOMAIN argv : argv[j] = w /\ ~IsOperand(argv, j)
Once(p) == \E j \in DOMAIN done : \A i \in DOMAIN done : done[i] = p <=> i = j
Never(p) == \A i \in DOMAIN done : done[i] # p

Asked == \E w \in {"-O2", "-O", "-lv", "-cse", "-optimize-size"} : Given(w)
AskedFor(p) ==
  \/ Given("-O2")
  \/ p = "LiveVar" /\ Given("-lv")
  \/ p = "ComSubExprEli" /\ Given("-cse")
  \/ p = "CodeSizeOptimizer" /\ Given("-optimize-size")

\* What was asked for was done when the module is written, whatever the order
\* and the combination of the options: the analysis once and before anything
\* else, each optimisation once, and none that nobody asked for (part0.md:29).
AsAsked ==
  output # "none" =>
    /\ Given("-emit-ir") /\ ~Given("-h")
    /\ Given(filename) \/ filename = "-"
    /\ IF Asked THEN /\ Len(done) >= 2 /\ done[1] = "DominateTree" /\ done[2] = "Mem2Reg"
                     /\ Once("DominateTree") /\ Once("Mem2Reg")
                ELSE done = <<>>
    /\ \A p \in {"LiveVar", "ComSubExprEli", "CodeSizeOptimizer"} : IF AskedFor(p) THEN Once(p) ELSE Never(p)

\* The status of success without a module means that none was asked for, or
\* that Check refused it: every other way to stop can be told from outside.
SilentExits ==
  status = "exit" /\ output = "none" =>
    \/ Given("-h") \/ ~Given("-emit-ir")
    \/ broken /\ done # <<>> /\ Last(done) = "Check"

\* At the end of every step.
RunSound == CommandTypeOK /\ AsAsked /\ SilentExits

\* Nothing is written for a file that does not parse, that the checker was
\* asked about and refused, or whose module no Check has seen since the last
\* pass that rewrote it.
OutputJustified ==
  output # "none" =>
    /\ content # "syntax"
    /\ Given("-check") => content = "correct"
    /\ ~broken
    /\ \A j \in DOMAIN done : done[j] \in Rewriting => \E k \in j..Len(done) : done[k] = "Check"
=============================================================================
