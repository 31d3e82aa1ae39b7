# A verification development of the SysYF compiler

The compiler under `src/finallab2` translates SysYF (a C subset with `int`,
`float`, one-dimensional arrays, functions, `if`, `while`, `break`,
`continue`) to an SSA intermediate representation and optimises it. It is one
sequential process. What is hard in it is not concurrency but long chains of
calls that must leave several redundant structures in agreement: use lists
and operands, predecessor and successor lists, the code of a block and its
edges, the positions a recursive visitor keeps in variables of the file, and
fixpoints computed on partly filled tables.

This directory holds TLA+ modules that model it from the scanner to the last
pass, TLC configurations that check them on small instances, and proofs.

## 1. Inventory

    source --> SysYFScanner/SysYFParser --> syntax tree --> [SyntaxTreeChecker]
           --> IRBuilder --> Module/Function/BasicBlock/Instruction
           --> PassMgr: DominateTree, Mem2Reg, {LiveVar, ComSubExprEli,
               CodeSizeOptimizer, Check} --> print

| component | state it keeps | operations | how it can go wrong |
|---|---|---|---|
| Use-def graph (`User`, `Value`, `Instruction`, `BasicBlock::delete_instr`) | `operands_` of each user, `use_list_` of each value, life of the objects (weak pointers between them) | constructors, `add_phi_pair_operand`, `replace_all_use_with`, `delete_instr`, destruction | a use that is not registered, or registered and stale; an operand destroyed before its user |
| Blocks and edges (`BasicBlock`, `Function`, `BranchInst`) | `basic_blocks_`, `pre_bbs_`, `succ_bbs_`, `instr_list_` | `create`, `create_br`, `create_cond_br`, `erase_from_parent`, `get_terminator` | lists of neighbours that disagree, branches to erased blocks, two terminators |
| `IRBuilder` | insert point, `cur_basic_block_list`, `While_Stack`, `IF_While_Or_Cond_Stack`, `pre_enter_scope`, `ret_BB`, `ret_addr`, `Scope` | one visitor per kind of syntax node | the shared variables out of step with the recursion; code behind a jump; wrong jump targets |
| `DominateTree` | `reverse_post_order`, `bb2int`, `doms`, per block `idom_`, `dom_frontier_` | numbering, fixpoint, `intersect`, frontiers | null while `doms` is partly filled, no termination, wrong dominators |
| `RDominateTree` | the same on the reversed graph, `exit_block`, `rdoms_` | the same, and the sets of post-dominators | `exit_block` of an earlier function; blocks that do not reach the exit |
| `Mem2Reg` | `value_status`, `visited` (file level), `bb_phi_list`, `define_var` | forwarding inside a block, phi placement, renaming walk, removal of allocas | walk order, chains of copies, stacks that are not popped exactly, reads of an undefined local |
| `LiveVar` | `live_in`, `live_out`, per block def/use sets | backward fixpoint | early end; phi uses on the wrong edge |
| `ComSubExprEli` | gen/in/out sets of expressions, kept from function to function | fixpoint, search for the definition, replacement | keys that change inside a set; a definition that does not reach |
| `CodeSizeOptimizer` | vector of functions, iterators over the code | merging of similar functions, redirection of calls; loop-invariant motion | functions and instructions erased under the loops that index them |
| `Check` | defs seen | four assertions on the IR | set not cleared between functions |
| Names (`set_instr_name`, `set_name`) | `seq_cnt_` of the function, `name_` of the values | naming before, between and after the passes and at printing | two values with one name, a printed one without |
| `PassMgr`, `main` | options, list of passes | command line, passes in order, output | options that hide each other, output of a refused module |
| `SyntaxTreeChecker`, `Scope` | stacks of name tables | enter, exit, push, find | checker and builder disagree on a name |
| Expressions in checker and builder | `tmp_int`, `tmp_float`, `tmp_val`, `Expr_int` | folding, conversion, code for operators | wrong value, two operands of different types, a crash in the compiler |
| Scanner | buffer, place in it, state of the automaton | `yylex`, `yy_get_next_buffer` | a word across the end of the buffer |
| Parser | stack of states and values, token read ahead | shift, reduce, error | a wrong table entry: wrong tree, value of another type |
| Syntax tree printer | none | one visitor per kind of node | two trees that print alike |
| types, constants, IR printer, log | interning tables | | not modelled, see section 6 |

The components meet in three ways: by shared data (every pass edits the one
IR graph in place), by order (a pass reads what the one before left in the
blocks, `idom_`, `dom_frontier_`, `live_out`), and by recursion (visitors
that hand results over in variables of the file). There is no concurrency,
no message and nothing persistent; the hazards are therefore of sequence,
order, staleness, boundary and termination. `PROJECT.json` lists them at
their lines.

## 2. Modules

| module | models | proofs |
|---|---|---|
| `ScannerTables`, `Scanner` | the generated scanner: its tables, its automaton, its buffer | |
| `Lexemes` | the words of the language, from `SysYFScanner.ll`; for reference | |
| `ParserTables`, `Parser` | the generated parser: its tables, its stack, the actions of the rules | |
| `Grammar` | the rules of `SysYFParser.yy`, syntax trees, and a second reading of the language by recursive descent; for reference | |
| `Printer` | what the syntax tree printer writes, as tokens | |
| `Scopes` | the checker and the builder, side by side, on the names of a program | `FrontEndProofs` |
| `Expressions` | the checker and the builder on the types and values of an expression | `FrontEndProofs` |
| `IRBuilder` | the visitor of one function and the graph it builds | `IRBuilderProofs` |
| `UseDef` | the use-def graph under any sequence of edits by passes | `SmallProofs` |
| `Naming` | the naming of a function's values, again and again | `SmallProofs` |
| `DominateTree` | the dominator pass on one function, loop iteration by loop iteration | `DominateTreeProofs` |
| `Dominance` | what that pass promises, in three actions; abstract | `DominateTreeProofs` |
| `RDominateTree` | the pass on the reversed graphs of all functions of a module | |
| `Mem2Reg` | the pass that turns local variables into SSA values, on one function | `Mem2RegProofs` |
| `Mem2RegMeaning` | the function before and after `Mem2Reg`, run side by side | `Mem2RegProofs` |
| `LiveVar` | the backward fixpoint of live variables, on one function | `LiveVarProofs` |
| `ComSubExprEli` | the elimination of common subexpressions, on one function | `ComSubExprEliProofs`, its fixpoint |
| `CodeSizeOptimizer` | the merging of similar functions of a module | `SmallProofs` |
| `Check` | the four checks on the functions of a module | `SmallProofs` |
| `Pipeline` | command line, list of passes, output, ends of the program | `SmallProofs` |
| `Cfg` | reference definitions on graphs: reachability, dominance, immediate dominator, frontier, reducibility; no code | `CfgProofs` |
| `MC...` | instances for TLC; `MCFlowGraphs` enumerates graphs | |

Definitions marked "Mutant" in a module are not used by its specification.
Each is a plausible slip in the definition after it; `PROJECT.json` pairs it
with the property that notices it.

Some instances put components together. `MCDominators` runs the two dominance
passes one after the other on the same function. `MCModules`, `MCFrontEnd`,
`MCPipeline` and `MCReading` hold parts that share no state in their models; an
execution is one of them (`part`, or whichever moves first): `MCPipeline` goes
through a command line, a check, or calls of `UseDef`. An instance extends the
module whose properties are also proved, so that run and theorem name the same
definition, and instantiates the other. The other components meet through what
their inputs assume: the graphs the passes are given are those that `IRBuilder`
is shown to leave, `Mem2Reg` takes its frontiers from `Cfg`, which
`DominateTree` is shown to compute, and `ComSubExprEli` takes SSA form.

### Scanner, Lexemes

`Scanner` has the buffer of the generated scanner with its two NULs, the place
up to which it has been scanned, the start of the word in hand, the character
that the NUL behind it hides, and the place of the last accepting state. `Scan`
runs the automaton over its compressed tables, `Act` is the action of a rule,
`Nul` the rule for a NUL in the text or at the end of the buffer; the others
are the outcomes of `yy_get_next_buffer`: `ReadOn` (the text is moved to the
front, the buffer grows if need be, and more is read), `LastMatch`,
`EndOfFile`. A character is sent to its class by the table `yy_ec`. `Lexemes`
states which texts are words, from the expressions in the grammar file, and
takes the longest, and of those the rule listed first. Tokens are kinds, and
integers with their values at `Width` bits.

Left out: locations, tracing, the value of a float. Not called by anything:
`yyunput`, `yyinput`, the functions on stacks of buffers.

### Parser, Grammar, Printer

`Parser` has the stack of states and values, the token read ahead, and one
action for each thing `parse` does: `ReadToken`, `Shift`, `Reduce`, `Accept`,
`SyntaxError`. The tables are those of the generated file. What a rule makes of
the values of its right-hand side is `Value` with its parts (`Units` to
`Number`), one for each group of rules. No state shifts the error token
(`NoRecovery`, which TLC evaluates), so an error pops the whole stack. Tokens
are chosen when they are asked for, from a context that begins and ends the
text.

`Grammar` has the rules and, independent of any table, a recursive descent
that reads the same language with the precedences and the dangling `else` as
they are meant; a program that is none is refused at a definite token.
`Printer` is each visitor of `SyntaxTreePrinter` as tokens; `ReadsBack` says
that the text it writes is read as the same tree, or, if a condition compares,
is refused: it is printed in parentheses, where the grammar has no comparison.

Left out: locations, error texts and tracing; blanks and the writing of numbers.
Negative integers and floats without a fraction, which only later stages make
or which print like integers, are not in the printer's input.

### Scopes, Expressions

The checker and `IRBuilder` walk one tree and each keeps its own scopes.
`Scopes` chooses the tree statement by statement and lets both walk it side by
side: `variables` and `functions` are the checker's, `name2var`, `name2func`
and `ret_addr` the builder's, `frames` the bodies both are in, `term` whether
the builder's block has ended and it skips what follows. `verdict` is what the
checker answers, `built` where the builder would read something that is not
there (an unknown name, a slot of another function, `back()` of an empty
stack).

`Expressions` visits a tree bottom up: `stack` holds finished subexpressions
with the builder's value (a constant, or an instruction with its type and
the value it computes), the checker's type and the value the source means.
Integers are words of `Width` bits, at least two, so that the 1 of a comparison
is a word (`Parameters`); floats are numbers of halves, enough to tell
truncation, comparison and conversion apart. `errors` records what a visit
ends in: the checker rejects, the compiler exits or crashes (`INT_MIN / -1`).

Left out: initialisers of arrays, addresses of elements, void calls as operands.

### UseDef

`operands` is `User::operands_`, `use_list` is `Value::use_list_` (as a set of
user and operand number; numbers start at 1), `life` the life of an
instruction: constructed, in a block, taken out of it by `delete_instr`,
destroyed. `delete_list` stands for the lists a pass keeps of values that it
has replaced and will delete. Each action is one call with all it does:
`CreateInstruction` is a constructor with its `set_operand` on every slot,
`AddPhiPairOperand` two `add_operand`, `ReplaceAllUseWith` the loop of
`set_operand` over the use list, `DeleteInstr` the removal from the list of
instructions with `remove_use_of_ops`, `Free` the end of the last shared
pointer. `Mem2Reg` and `ComSubExprEli` use the calls as the guards say: operands
of new instructions and replacements are values that are in a block and not
replaced themselves, and what is deleted was replaced before or is used by
nobody.

`CodeSizeOptimizer` does not, and has an action of its own. `Redirect` is
`CodeSizeOptimizer.cpp:238-248`: a new call with the operands of the old one and
a discriminator, then `replace_all_uses_with` (lines 125-130), which copies the
use list and writes to the copies, then `delete_instr` of a call that its users
still hold. They keep a deleted operand, and an expired one as soon as `Free`
takes it. The old call is still in the block of the merged function, so the
program holds it until the list of that block goes; `Free` may come at any time,
which is more than the program does. Whatever then locks the operand without
asking (`remove_use_of_ops`, `Check`, a pass) ends the program: `LockExpired`,
`crashed`. `UseDefSound` says that these calls (`redirected`) are the only
exception, that use lists and operands agree in spite of them, and that nothing
else can crash so. `DeleteInstr` is not enabled on a user of an expired operand,
where `LockExpired` is what happens.

The point that is easy to overlook is `set_operand` (`User.cpp:32`): it adds
the use to the new value and leaves the entry in the old value's list. Use
lists are exact only for values that have not been replaced. `UsesExact`
states that; the plain reading of the comment in `Value.h:63` ("who use this
value") is not what the code maintains.

### IRBuilder

The visitor is recursive; `calls` is its stack, a frame for each unfinished
visit with its local variables (`trueBB`, `falseBB`, `nextBB`,
`need_exit_scope`), and an action is the code between two `accept` calls: for
example `IfStmt`, `IfCondDone`, `IfThenDone` and `IfElseDone` are the four
pieces of `visit(IfStmt)`. The variables of the file are variables of the
module with the source's names. The syntax tree is chosen while it is visited:
a pending `Stmt` may turn into any statement the grammar allows there (a
declaration only among the items of a block), a pending `Cond` into an
operator of the level the grammar allows (`||` over `&&` over comparisons,
left associative, no parentheses). The blocks of a function are a set: of
the list `basic_blocks_` the visitors read only the first, the entry, which is
created first and never erased.

Left out here: what expressions compute (`op` stands for a run of instructions;
see `Expressions`), the scope's names (only its depth is kept; see `Scopes`),
parameters (more locals of the entry block), global definitions, and
`IF_While_And_Cond_Stack`, which the code pushes and pops but never reads.
Programs are legal SysYF: `break` and `continue` stand in a loop, and a `void`
function returns no value.

### DominateTree, Dominance

`DominateTree` follows `DominateTree.cpp`: `Child` and `Number` are
`get_post_order` with its call stack, `StartIdom` to `PassDone` are
`get_bb_idom` and `intersect`, one action for one iteration of each loop,
`StartRunner`, `Run` and `NextJoin` are `get_bb_dom_front`. `doms` is indexed
by number as in the code, and the look-up of a null pointer gives number 0 as
`operator[]` does. The functions given to the pass are the constant `Graphs`:
any rooted graphs in which every block is reachable and the entry has no
predecessor. That is what `IRBuilder` leaves (`AllReachable`); `IRBuilder`
makes only reducible ones (`LoopsReducible`), and the pass is checked on
irreducible ones too because nothing in it, or in the paper it cites, relies
on that.

`Dominance` is the promise: the immediate dominators are set, blocks are added
to the frontiers they belong to until none is missing, then the pass returns.
Its `Spec` is these steps (`Safety`) and that it does return.
`ImplementsDominance` (`Promise!Spec`) is the refinement: `succ` is the set
of successors, `done` is the end of the pass, `idom` and `dom_frontier` are the
same; all the numbering and iterating is stuttering.

### Mem2Reg, Mem2RegMeaning

A function is a graph with lists of four kinds of instruction: a load or store
of a local, a call (any value that is not such a load), and a use of a value.
`ScanStore`, `ScanLoad`, `ScanOther` and `ForwardBlock` are the loop of
`insideBlockForwarding`, one action for one instruction and one for what
happens behind the last; its four containers are variables. `CollectGlobals`,
`StartVar` and `PlacePhis` are `genPhi`, one action for one block of the
worklist. `StartRenaming` to `Return` are `valueForwarding` with its call stack:
`RenameLoad`, `RenameStore` and `RenameOther` go through the instructions of a
block, `FillPhis` gives the phis of its successors their pairs, `Descend` is
the call on a successor, `Return` the popping and deletion at the end. A
phi is named by its block and variable, since the pass makes at most one of
each; it is used for `value_status` and `pairs` like any other value. The
dominance frontiers are the reference ones of `Cfg`: `ImplementsDominance`
shows that they are what `DominateTree` leaves. Left out: types of variables,
arrays (reached through `getelementptr`, which `isLocalVarOp` excludes),
`set_print_name` in the middle, and `lvalue_connection`, `no_union_set`, which
nothing reads. The functions are those `IRBuilder` can build, and in which some
store reaches every load: where none does, lines 101 and 172 dereference the
end of a container and nothing can be said. That a value is used in the block of
its load is a part of `Function` too: `IRBuilder` emits an expression into one
block.

`Mem2RegMeaning` adds what the IR means. After the pass, each step runs one
block twice: as it was given, with a memory, and as it was left, with values and
parallel phis. Calls return any datum, every path is taken. A use that sees a
defined value before must see the same one after (`SameMeaning`); a variable
read before its first store may become anything, as `undef` does.

### RDominateTree

The same fixpoint as `DominateTree`'s on the reversed graph, with the tables
the code shares between functions (`exit_block`, `bb2int`, `rdoms`) and the
lists of functions it is given. `IRBuilder` leaves functions in which every
block reaches the one `ret` block (`AllReachable`); others are not given to the
pass. `main` never adds this pass.

### LiveVar

`ScanBlock` is one block of the loop: what the block uses, what is live
through it, its sources in `wherefrom`, and the two sets. `PassDone` is the end
of a round, `dump` what the pass writes (a value without a name is left out).
`wherefrom` is keyed by the name of a value, so all unnamed ones share an
entry, as in the code. `Function` says which functions the pass is given: those
in SSA form, where a phi names predecessors of its block and a plain use of a
value that its own block defines stands behind the definition. The phis'
operands are values, unnamed constants or the phis themselves.

### ComSubExprEli

`bb_gen`, `bb_in`, `bb_out` are sets of expressions up to `cmp_expr` (`Key`), so
exchanged operands are equal only if one is a constant. The fixpoint goes
block by block in list order; the search for a definition has its call stack
(`calls`) and the set of blocks that all its branches share (`bb_vis`), and
makes phis on the way back; then replacement and deletion. `availableExprs`
begins with expressions of other functions. A replaced operand disturbs the
order of sets that hold its user: from then on a lookup may miss (`MayMiss`).

### Naming

`Create` and `Delete` are what passes do between namings; `SetInstrName`,
`NameNext` and `NamingDone` are `set_instr_name`, with the map `seq` of one
call as its size and `seq_cnt` what the function keeps. A print names first.
A value is taken to belong to one function; the merging of functions, which
leaves values in two, is outside this module.

### CodeSizeOptimizer, Check, Pipeline

`CodeSizeOptimizer` has the vector, the two indices and the iterators of the
replacement as they are stepped; `Inputs` are the modules it may be given,
functions that call functions of the module, each call in the function that it
was created in (`IsProgram`). What the code does is not what its names say:

- `call->get_function() == old_func` (line 237) asks for the function that the
  call was created in (`Instruction.cpp:37-40`), not the one it calls. The calls
  that are redirected are those *in* `f1` and `f2`, and in the copies of their
  code, so a call has a `home` and a `callee`.
- The new call gets all the operands of the old one as arguments, the old callee
  first, and a discriminator that is always 1: `old_func == new_func ? 0 : 1`
  (line 243) compares two different functions, so every redirected call, also one
  for `f1`, would run the second body. `NewCall` leaves the arguments out, `Redirect`
  of `UseDef` has them.
- `replace_all_uses_with` (line 247) has no effect, see `UseDef`.
- `delete_instr` (line 248) frees the list node the loop's iterator stands on.
  `ReplaceCall` goes on where the node pointed to or ends the program (`stage =
  "crashed"`). If it goes on, the call it has appended to this block is one of
  `old_func` again, and the walk replaces it, and the next, for ever (`Chasing`).
  The compiler as it is built ends with a segmentation fault.

So past the first redirected call the pass never comes, and where it ends no
merged function had a call (`FatalCalls`), the functions are as they were, and
the merged ones, which nothing calls, are dead code (`Undisturbed`). That is what
`MergeSound` says besides the bookkeeping of the loops (`CodeKept`,
`NoneOverlooked`): it does not say that a merging is right or of use.
The other half of the pass moves code out of a loop only if a block is its own
successor; `IRBuilder` makes none (`LoopsReducible`), so that half never acts.

`Check` is given any modules whose edges stay inside a function (`IsModule`);
its loops go over lists that it does not change, so its end is not a property.
For TLC they have up to two damages. Its set of definitions is not
cleared between functions, and `CheckSound` says what the verdict is worth with
that. Operands are values that are there; that an expired one ends the check
(`Check.cpp:95`) is in `UseDef` and `Pipeline`.

`Pipeline` goes through the words of the command line, makes the list of
passes, parses, checks, builds, runs and writes; what a pass does to the module
is the one fact whether `Check` would refuse it. Each stage has the outcomes that
the other modules find for it: `Parse` may be ended by a literal out of range,
`VisitTree` by `return;`, `Build` by what it folds or dereferences, a rewriting
pass or one that works on a broken module by `PassCrashes`, `ExecuteCheck` by an
expired operand. `RunSound` says that what is written was made as it was asked
for (`AsAsked`), and that the status of success without a module has only the
known causes (`SilentExits`): the help, no `-emit-ir`, or `Check`. The constant
`Words` is any set without the word that stands for no output
(`WordsAssumption`).

## 3. Runs

| run | instance | shows |
|---|---|---|
| `reading` | scanner: texts of up to 4 of 14 fragments, and of 2 of all fixed words, in a buffer of 4 read by 2; parser: an initial value of up to 5 tokens, a condition of up to 7, any two of 14 operators, a function body of up to 5 chunks, a program of up to 7 chunks | the words of a file are the longest ones wherever the buffer ends (`TokensExact`); a reduction pops its rule's right-hand side (`StackSound`); a text is accepted exactly if it is a program, with the tree it means, refused at the first token that cannot follow, and printed so that it is read again (`TreesExact`); both end (`ReadsEnd`) |
| `front_end` | programs of up to 5 statements with 2 names, variables and constants, 3 expressions; expressions of up to 4 visits at 3 bits | a name means the same declaration to checker and builder at every place of an accepted program (`NamesAgree`); the builder finds what the checker let pass, and closes the scopes it opened (`BuilderFollows`); values folded, converted or computed are those the source means, with operands of one type (`ValuesSound`); the compiler stops or crashes in folding only where the program has no meaning or the checker has rejected it, and the checker never takes a float for an int (`StopsSound`) |
| `front_end_return` | programs of up to 4 statements, all kinds of declaration | a violation: `return;` crashes the checker |
| `irbuilder` | functions of 4 statements with plain conditions, and of 2 statements with 3 connectives (`Bounds`) | predecessors and successors agree with each other and with the terminators, one terminator a block, visits in an open block, allocas in the entry (`GraphInStep`); all blocks terminated, reachable, reaching the one `ret`, loops with one entry (`WellFormed`); the shared variables restored (`StateRestored`); `break` and `continue` belong to the innermost loop (`JumpsInnermost`); the branches evaluate what the source's short circuit evaluates, in its order (`ShortCircuit`) |
| `dominators` | graphs of 5 blocks with one exit that every block reaches, any order of successors, two orders of predecessors; for `RDominateTree` between a declaration and a loop, or behind a loop with old tables | numbers are exact, no null pointer is dereferenced, known dominators have higher numbers, all true dominators stay on the chain (`TablesSound`); `doms` changes only to a proper ancestor (`DomsOnlyRise`); the pass implements `Dominance`, its end included (`ImplementsDominance`); the tables of `RDominateTree` are the function's own and its climbs end (`PostTablesSound`), its results are the post-dominators and frontiers (`PostResultExact`), it ends (`PassesEnd`) |
| `mem2reg` | all reducible graphs of 4 blocks behind an empty entry with one exit, one variable, every placement of 3 reads and stores in which a store reaches each read; and loops of 5 blocks with 3 variables that are read, set, copied and exchanged; data 0 and 1 | stacks balanced, no operand without a value, no local left (`StateSound`); complete phis, definitions dominate uses (`SSAForm`); the same values at every use on every path (`SameMeaning`); an end (`Terminates`); the graphs and programs are samples of what the theorems are about |
| `live_variables` | reducible graphs of 4 blocks with one exit, a value, two phis of one join block, an unnamed constant, two orders of blocks | a value is never live where no path needs it, and what is written at the end is exactly what some path needs (`LiveExact`); the end solves the equations (`EquationsHold`); sets only grow (`SetsOnlyGrow`); an end (`Terminates`) |
| `common_expressions` | reducible graphs of 4 blocks without `&&` and `\|\|`, two orders of blocks, equal and exchanged expressions in every combination of blocks, a foreign expression | available sets are exact when the fixpoint ends (`AvailExact`); types, SSA form, the same expression behind every use, no common one left (`ResultSound`); `out` only shrinks (`OutOnlyShrinks`); an end (`Terminates`) |
| `common_expressions_and_or` | one function of 5 blocks, `if ((a && e) \|\| e)` | a violation: a phi names a value that is not computed on its path |
| `modules` | 4 values, one of them without a result, named any number of times; 4 functions to merge | unique names, none missing in print (`NamesSound`), which stay (`NamesKept`); the code of merged functions is copied once, no similar pair is overlooked, where the pass ends the program is as it was, and it neither ends nor crashes but as the calls in merged functions say (`MergeSound`); it ends, or chases the calls it makes (`PassesEnd`) |
| `modules_calls` | 3 functions, a declaration and those of `Test/Easy/08_var_defn_func.sy` | a violation: the pass may end the program, as `main` has the signature of the function it calls |
| `pipeline` | every command line of up to 4 of 11 words; 3 functions with up to two damages to check; 1 constant, 1 block, 3 interchangeable instructions with 2 operands, or 4 in a redirected call | each asked pass once and in order, the analyses first, whatever the options' order, and success without a module only for the known causes (`RunSound`); no output of a file that does not parse, that the checker refused, or whose module no `Check` has seen since the last rewriting (`OutputJustified`); `Check` rejects all damages but an operand of another function, and nothing sound (`CheckSound`); operands of live instructions are in use lists, use lists of values that are not replaced are exact, no live instruction holds a replaced, deleted or destroyed value but a redirected call (`UseDefSound`); a slot changes only when its value is replaced (`OnlyHoldersChange`) |

Many properties are conjunctions; the modules state and explain the parts.

Why the bounds are enough. `irbuilder`: four statements hold a loop in a
loop or an `if` with two bodies that jump, and a statement after them; every
piece of every visitor runs with the insert point moved and not moved by its
children; three connectives give each nesting of `&&` under `||` and `||` under
`||`, under `if`, `if else` and `while`. `dominators`: five blocks hold a loop
with two entries below a branch or around another loop; such a loop needs a
third pass of the fixpoint, and no graph needs a fourth. Graphs are taken up to
the names of the blocks, which no pass looks at. `mem2reg`: one variable
suffices where variables do not meet; where they do, by copies, there are
three, since an exchange needs two and a helper, and gives phis of one block
that name each other. Two data tell any two values apart on some run.
`live_variables`: a value that goes round a loop through a phi needs two phis
of one block, of which one may be the other's operand. `common_expressions`:
four blocks hold a diamond and a loop, the places where an expression is
available on one path, on both, or only round the loop. `modules`: three
functions show a merged one merged again, the fourth a pair behind it.
`front_end`: two names make one hide the other, and five statements make a
function, a body in it, a declaration on each side and a use; four visits make
an operator over an operator, and a condition, store or argument of a result;
all larger trees are in the theorem's reach, not TLC's; three bits have the
least integer, whose quotient by -1 overflows. `CONSTRAINT UntilFault` ends an
execution at the first fault or rejection: the properties speak of accepted
programs. `reading`: a buffer of four characters makes every word of three or
more fall across its end at each of its places, and grow it; the parser's
contexts reach every rule, every pair of operators, and every `if` in an `if`
with and without `else`. `pipeline`: four words hold two options that
interfere, and `-o` with its operand, in any order; two damages of a module
hide each other if they can; for the use lists, the shortest failure of every
slip needs three instructions at most (a value, its replacement, a user, or a
call, its successor, a user), and a phi with one pair has both kinds of operand.

Deadlock is not checked in `modules`, `front_end` and the violations on the same
instances, where the environment may have nothing left to do. In `pipeline` the
passes may also stop calling `UseDef`. The other models have a `Finished`
step for the end.

Fairness: each pass but `Check` has weak fairness on its next step, since the
compiler is one process that does not stop in the middle of a pass; nothing else
is assumed, and the safety properties use none. Of `CodeSizeOptimizer` it is the
step that goes on (`Proceed`): nothing makes a freed iterator end the program.
`Mem2RegMeaning` and `MCReading` state it as "infinitely often finished or
infinitely often a step" (`PassRuns`, `Reads`), which is the same for a step
that is enabled until the end. In `Naming` the environment's steps have no
fairness.

## 4. What disagrees

Three findings, kept as runs that end in a violation:

- `common_expressions_and_or`: `find_definition_expr` shares `bb_vis` among the
  branches of its search (`ComSubExprEli.cpp:170`). Behind `if ((a && e > 0) ||
  e > 1)` the then-block finds the first `e` only, and its phi names it for the
  path over the second condition, where it was not computed.
- `front_end_return`: `visit(ReturnStmt)` of the checker calls
  `node.ret->accept` although `ret` is null for `return;`
  (`SyntaxTreeChecker.cpp:57`), which `Test/Easy/09_void_func.sy` has.
- `modules_calls`: `replace_function_calls` deletes the call that its range-for
  stands on (`CodeSizeOptimizer.cpp:248`). With `-O2`, which `test.py:101` offers
  for the programs of `Test/Easy`, the compiler dies on `08_var_defn_func.sy`,
  as it does wherever two functions of one signature are merged and one has a
  call.

Other places where text and code differ, or where the models go no further
because the code's behaviour is not defined:

- use lists keep stale entries of replaced values (`Value.h:63`).
- The renaming walk of `Mem2Reg` follows successors, not the dominator tree
  (`B2.md:202`); the result is right nevertheless (`SameMeaning`). A local that
  is read and that no store reaches is undefined behaviour (`Mem2Reg.cpp:101`).
- The operands of a phi are live into the phi's block (`B3.md:88`).
- `x + y` and `y + x` may both stay although `B4.md:5` calls them equal:
  `cmp_expr` exchanges operands by their kind only, so two values keep their
  order. An expression that is an operand of another common one can leave a use
  of a deleted value (`B4.md:15`); the instances have none.
- The merging is meant, by the names in it, to redirect the calls *of* the
  functions it merges, to choose the body by a discriminator, and to replace the
  uses; it does none of this (`CodeSizeOptimizer.cpp:237`, `:243`, `:247`; see
  section 2). The new call stands behind the terminator of its block, where
  `part4.md:35` wants the terminator last, and has one argument more than
  the merged function (`Instruction.cpp:222`).
- `Check` accepts an operand of another function (`Check.cpp:24`), and ends the
  program with status 0, which `test.py:38` takes for success.
- The checker accepts some names it should not, an unknown index among them
  (`part0.md:25`), `break` outside a loop, and rejects calls of library
  functions (`Test/Easy/15_getint.sy`) and `7 % !1.5`.
- Constant arrays of sibling blocks get one global name (`IRBuilder.cpp:313`).
- The scanner: `//` at the end of a file without a line end is two `/`; a CRLF
  counts two lines; `std::stod` throws on `1e999`.
- The parser leaves its stack on acceptance, and a null `root` on refusal.
- The printer puts comparisons in parentheses, which the grammar does not read.

## 5. Proofs

Proved for all values of the constants with tlapm (SMT, Zenon, PTL). The
assumptions are named in the modules they speak of, and TLC evaluates them in
every run.

| module | theorem | states | for |
|---|---|---|---|
| `CfgProofs` | `ReachClosed`, `ReachLeast` | `ReachIn` is the least set that holds the start and that no edge leaves | every finite graph |
| `IRBuilderProofs` | `AlwaysInStep` | `[]GraphInStep` | every function, whatever is nested in what |
| | `FunctionsWellFormed` | `[]WellFormed` | |
| | `VariablesRestored` | `[]StateRestored` | |
| | `InnermostTargets` | `JumpsInnermost` | |
| `DominateTreeProofs` | `TablesAlwaysSound` | `[]TablesSound` | every rooted graph whose blocks are all reachable |
| | `OnlyRise` | `DomsOnlyRise` | |
| | `Implements` | `ImplementsDominance`, if the pass ends | |
| `Mem2RegProofs` | `RenamingSound` | `[]StateSound` | every function (`Function`), reducible or not, any variables |
| | `ResultInSSA` | `[]SSAForm` | |
| | `MeaningKept` | `[]SameMeaning` | every path, any data |
| `LiveVarProofs` | `TypeCorrect`, `LiveSetsGrow`, `SolvesEquations`, `ComputesLiveness` | `[]TypeOK`, `SetsOnlyGrow`, `[]EquationsHold`, `[]LiveExact` | every function in SSA form (`Function`) |
| `ComSubExprEliProofs` | `AvailableExact`, `OutShrinks` | `[]AvailExact`, `OutOnlyShrinks` | every function, every order of its blocks |
| `FrontEndProofs` | `ValuesAreMeant`, `StopsAreRight` | `[]ValuesSound`, `[]StopsSound` | every expression, words of any width |
| | `SameDeclarations`, `AcceptedIsBuilt` | `[]NamesAgree`, `[]BuilderFollows` | every program, any names |
| `SmallProofs` | `TypeCorrect`, `UseDefSafe`, `SlotsStable` | `[]TypeOK`, `[]UseDefSound`, `OnlyHoldersChange` | any values, any number of operands |
| | `NamingTypeCorrect`, `NamesSafe`, `NamesStay` | `[]NamingTypeOK`, `[]NamesSound`, `NamesKept` | any values |
| | `VerdictRight` | `[]CheckSound` | every module |
| | `PassesAsAsked`, `OnlyJustified` | `[]RunSound`, `[]OutputJustified` | every command line |
| | `MergingIsSound` | `[]MergeSound` | every module, any number of functions |

`CfgProofs`. `ReachIn` is defined by rounds, as many as there are nodes. The
rounds grow until one adds nothing, and a growing chain of sets can be no
longer than its bound, so the last round is closed (`ReachClosed`); and by
induction on the rounds nothing is in it that a closed set lacks
(`ReachLeast`). These two facts replace paths in all proofs about graphs: to
show that something is reachable, or that nothing else is, name a closed set.

`IRBuilderProofs`. The properties say nothing of a graph that is being built,
nor of the calls that still hold blocks, so the invariant has two halves.
`Sound` is about a function, its insert block, the blocks created but not begun
(`P`), the heads of the open loops and the blocks they dominate; it knows
nothing of visitors. Edges and code agree (`CodeSound`, `Symmetric`), every
block but the insert block and those in `P` is complete (`Working`), every
block not in `P` is reachable (`Forward`) and leads to the ret block, the
insert block or a block of `P` (`Backward`, `Repeats`), and each set of blocks
has a member from which only edges to a dominator lead back into the set
(`Structured`, `Entered`), which is why the loops are reducible. One lemma for
each operation on the graph (a new block, an instruction, a branch, a
conditional branch, a move of the insert point, the removal of a block) says
what of `Sound` it preserves. The other half, `Agrees`, is about the stack of
calls: which frame may stand on which (`Shape`), which blocks each frame holds
and how far it has come with them (`Fits`, `Open`), and that the four shared
variables are a function of the frames (`Matches`, `ListMatches`): each stack
of targets is the open loops or conditions with their blocks, the scope the
number of open ones. Each of the 24 actions has a lemma that combines graph
lemmas with the change of the stack. The properties follow at the bottom of the
stack, where no frame and no pending block is left. `Within` counts blocks
against what is left to visit, which keeps them inside `MaxBlocks`. Assumed:
`Bounds` is a finite set of pairs of natural numbers (`BoundsNat`), of any
size; it bounds the functions, since `BlockIds` has to hold their blocks, and
no proof depends on its value.

`DominateTreeProofs`. The walk that numbers (`Numbering`): each block on the
stack or numbered once, the stack is a path, and each numbered block was entered
from one with a higher number or one that is still on the stack. So at its end
the numbers are a bijection and every block but the root has a predecessor
above it (`Numbered`). The fixpoint (`Iteration`): known dominators lie above
(`Climbs`), so the climbs of `intersect` end at the root at the latest; in the
first pass exactly the processed blocks are known (`Filling`), which with the
predecessor above makes every look-up find something. `NoneSkipped` and
`HoldsCommon` say that no true dominator, and nothing that all chains of the
predecessors share, is ever lost. That entries only rise needs the opposite
bound, `FollowsAbove`: what is above the block at hand is on the chains of the
predecessors above. When a pass changes nothing, the equation is solved
(`SolvedSoFar`); what is on the chains then dominates, by `ReachLeast`.
`Meeting` is the same during one intersection, `Frontiers` the bookkeeping of
the last loops. `Implements` maps every step to one of `Dominance` or to a
stutter; that the pass ends is its hypothesis, and TLC checks it
(`ImplementsDominance` includes it). Assumed: finitely many blocks, the null
pointer is not one, and the graphs are flow graphs (`FlowGraph`), which is what
`AlwaysInStep` and `FunctionsWellFormed` say of the builder.

`LiveVarProofs`. The sets grow because the table of sources does: scanning a
block again would lose nothing (`Growing`), and each value that is live into a
block has a source there (`SourcesKnown`), so the branch of
`LiveVar.cpp:110-111` is never taken. For the equations, a block that has been
scanned has recorded its sources (`Recorded`), and in a round that has changed
nothing so far, the blocks behind are stable (`StableBehind`); the last round
changes nothing and ends behind all blocks. For exactness, the sources of a
value in a block are the block itself only if the value is needed at its
beginning, and else predecessors on whose edge a phi uses it
(`SourcesRight`), so that no set exceeds what paths need; and the equations
make the blocks where a value is live a set that is closed backwards, which
holds the least one.

`Mem2RegProofs`. The invariant `Inv` has a part for each loop of the pass.
While `insideBlockForwarding` scans, `ScanInv` says what its containers know of
the places behind: whatever is forwarded is a value the block keeps, so chains
of copies are resolved. `PlacingInv` is the worklist of `genPhi`: a definition
has phis on its frontier or is still queued (`PhiClosed`), and a phi has a
predecessor that a store reaches (`Justified`). Of the renaming, `Lists` says
which instructions are gone, `OperandsOK` that an operand is a definition whose
block dominates, or a load not renamed yet, `PairsInv` that a phi has exactly
the pairs of the blocks that are done, and `StackInv` that the height of a stack
is the number of definitions in the open calls and that each of its values is at
hand in its call. The last is what the walk makes doubtful: it enters a block
from any predecessor, and the open calls are a path, not a chain of dominators.
The argument is `TopLevel`: the frontier of every definition has a phi, so along
a path from a definition to where its value is on top, nothing leaves what the
definition dominates without passing a phi (`FrontierStep`, `PathDominators`).
It needs no reducible graph. `Available` gives each load a value, since some
store reaches it.

For the meaning, `Meaning` says what each operand denotes in the function that
was given: the value of the nearest definition above (`Nearest`, `AtStart`,
`AtEnd`), where the definition of a block is its last store or else its phi.
`ScanMeans` holds while a block is scanned, `OperandsMean` for operands that
wait, stayed in the block or have been renamed, `LastPushed` for the stacks and
`PairsMean` for the pairs. The run then has `RunInv`: wherever the memory has a
value behind a block, the value that `AtEnd` denotes is the same (`MemoryMeans`).
A step keeps it (`StartValues`, `RegistersMean`, `MemoryStep`): phis take
what their predecessor ends with, a load behind a store takes the store's, by
induction on its place. `Registers` is a recursive function, so its existence is
a lemma of its own (`RegistersExist`). Variables that nobody loads across blocks
have no phis, and `MemoryMeans` says nothing of them (`ClosedPhis`).

Assumed: finite sets of blocks and variables, the null pointer is neither value,
variable nor block, variables are not numbers (a phi is no instruction), the
functions are those of `Function`.

`ComSubExprEliProofs`. A visit never finds more than the last one left
(`Shrinking`), so `out` only shrinks; what every path computes is never taken
out (`KeepsAvailable`); and in a round that has changed nothing the blocks
behind solve the equations (`SettledBehind`), so the last round ends at a
solution, which is below the reference by `ReachLeast`.

`FrontEndProofs`. Expressions: the invariant says of each stack entry that its
value has the type of its meaning and is the same wherever that is defined
(`Means`), that what the checker calls an int is one, and that a condition is an
`i1`. The lemmas are about words: wrapping is a homomorphism, a quotient is a
word unless it traps, a conversion that is taken is exact. Assumed: a word holds
1 (`Parameters`). Scopes: the builder is in the first `k` of the bodies the
checker is in (`InStep(k)`), either all, or it has left the last of them because
of a jump; it then has as many scopes, with the same declarations in all but
that one. `FunctionsKnown` says that the builder knows what the checker does and
the library, and the slot for the return value belongs to the function at hand
unless that is void (`WalkInv`).

`SmallProofs`. Check: `Progress` says what each check has established of the
function at hand and what all four have of those before it; `defs` holds nothing
but definitions of the module.

Pipeline: `PassListSound` is about the list of passes for any flags; whether a
word is the operand of a `-o` is the parity of the run of `-o` before it
(`OperandNext`). `WordsRead` relates the flags to the words that have been read
and are no operands, `StepsTaken` what has been decided to the stage, and that
what is done and what is left are the list (`Splits`). `Quiet` is `SilentExits`
said of the flags, and needs only the step that exits.

UseDef: the properties are not inductive, since nothing in them keeps an
instruction that does not exist yet from being in somebody's use list.
`UseDefInv` adds `Fresh`, which says that, and the type invariant. The heart is
`ReplaceAllUseWith`: `UsesExact` of the old value says its list names slots
that hold it, so nothing else is overwritten; `OperandsBacked` says that all
slots that hold it are named, so none is left. The stale entries stay on a
value that is from then on in `delete_list`, about which `UsesExact` is silent.
`Redirect` takes every entry of the old call out of the lists of its operands and
enters those of the new one, which `Fresh` says were empty; who holds the old call
keeps it, but it is no longer usable. `Casualties` says that redirected calls stay
out of the blocks, so an expired operand can only be one of them.
Assumed: constants, blocks and instructions are disjoint (an object has one
class), the bound on operands is a natural number.

Naming: the invariant adds that all numbers given are below the next one
(`NamesBelow`) and that what the loop has passed is named (`NamedBehind`).

Merging (`MergeInv`): the vector stays ascending, since what is appended to it
is the newest function, so no function is in it twice. The walk is in one of two
conditions (`StageInv`). While it is `Calm` nothing has been redirected: the
originals are as they were, every call has its home in a function of the vector
or in one that is being replaced, and none with the home that is looked for is
behind the iterators (`CallsInv`), so if the walk gets through, that home has no
call. Otherwise it has a `Hit`: it stands in a block of the function that is
replaced, in front of a call of that home. The first redirection is one
(`FirstHit`): copies of the calls of an original stand only in merged functions,
which come later in the module. A further one appends such a call again, and no
step leaves a `Hit` but the end of the program. The pairs behind the two indices
are not similar if the second is an original (`PairsInv`); an erasure only moves
members to the front, so the pairs behind the indices are then among those that
were behind them before. That they are not similar survives the replacement of
calls because a block keeps the kinds of its instructions, if in another order
(`MatchesKept`), and the code survives because a body and the block made of it
are in bijection (`Flattening`). `FlattenSeq` is a recursive function that the
library defines by a choice; `FlatExists` shows that there is one, and the least
counterexample (`UpTo`) takes the place of an induction. Assumed of the modules
(`InputsAssumption`): calls go to functions of the module and stand in the
function they were created in (`IsProgram`).

Only model-checked, and why:

- All liveness, since the prover cannot reason about fairness: that the passes
  end. `DomsOnlyRise`, `SetsOnlyGrow` and `OutOnlyShrinks` are the variants of
  three of them.
- `ShortCircuit` of `IRBuilder`, and the agreement of scanner and parser with
  `Lexemes` and `Grammar` (`TokensExact`, `TreesExact`, `StackSound`): what a
  recursive definition computes on a tree or text of any size needs induction
  over data. `Scanner`, `Lexemes`, `Grammar` and `Printer` also declare
  recursive operators, and `Parser` extends the last two.
- `ResultSound` of `ComSubExprEli`: it does not hold of every function, as the
  run `common_expressions_and_or` shows, so a theorem would have to say which
  graphs its shared `bb_vis` serves right; TLC takes those without `&&` and `||`.
- `PostTablesSound` and `PostResultExact` of `RDominateTree`, a pass that
  `main` never adds: its steps use folds of the community modules with operator
  parameters and a recursive `intersect`, about which the prover has no facts.
  The argument is that of `DominateTreeProofs` on the reversed graph.

## 6. Not modelled, and the plan

Not modelled, and why:

- Type and constant tables, the module, logging: interning and output without
  a state that a later step depends on.
- The printers of the IR: text of what the models hold.
- `User::remove_operands` and other code that nothing calls.
- `require_lvalue`, by which `visit(LVal)` tells an address from the value in it
  (`IRBuilder.cpp:453`): `Expressions` begins with values.
- Initialisers of arrays, addresses of elements, void calls as operands.
- The loop half of `CodeSizeOptimizer`, which never acts.
- Locations and error texts of scanner and parser, and what no one calls there.
- `dom_frontier_` is never cleared (`DominateTree.cpp:93`): `main` runs the
  pass once, so nothing old is ever there.

What is left to do. The theorems leave open the second half of
`ComSubExprEli`, for the graphs on which it is right, and the reverse
dominators; and of `IRBuilder`, `ShortCircuit` for a single
connective, the step of the induction that is out of reach.
