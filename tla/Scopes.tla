------------------------------- MODULE Scopes -------------------------------
(***************************************************************************)
(* The two walks over one syntax tree that resolve its names: the static   *)
(* checker (SyntaxTreeChecker) and the builder of the code (IRBuilder with *)
(* its Scope).  The program runs them one after the other; here they go    *)
(* side by side over a program that is chosen statement by statement, so   *)
(* that what they know of the same place can be compared.  The checker     *)
(* stops the process at the first error; the builder goes on into a null   *)
(* pointer, which is recorded in built.                                    *)
(*                                                                         *)
(* An expression is a literal or a name, with or without an index that is  *)
(* again a literal or a name; operators only combine them.  Types of       *)
(* expressions are the subject of module Expressions.                      *)
(***************************************************************************)
EXTENDS Naturals, SequencesExt

CONSTANTS
    Names,      \* identifiers of the source program
    Library,    \* the functions the builder knows beforehand: name -> number of arguments
    Exprs,      \* expressions of the program: see AllExprs
    Kinds,      \* of declarations: "const", "constarray", "var", "array"
    MaxNodes    \* bound on the length of a program

VARIABLES
    variables, functions,   \* checker: scopes of variables, functions by name
    verdict,                \* checker: "accepted" or the error it stops with
    name2var, name2func,    \* builder: Scope
    ret_addr,               \* builder: the function whose return slot it holds, 0 for none
    globals, redefined,     \* names of the module's globals, those defined twice
    built,                  \* builder: "ok" or where it went wrong
    frames,                 \* the bodies being visited, outermost first
    term,                   \* the builder's insertion block has a terminator
    fun,                    \* the function being built: its number, name and type
    nodes                   \* nodes visited so far, which also number declarations

checker == <<variables, functions, verdict>>
builder == <<name2var, name2func, ret_addr, globals, redefined, built, term>>
walk == <<variables, functions, verdict, name2var, name2func, ret_addr, globals,
          redefined, built, frames, term, fun, nodes>>

Lit == [name |-> "", index |-> ""]
Indices == {"", "0"} \cup Names      \* no index, a literal, a name
AllExprs == {Lit} \cup [name : Names, index : Indices]

ASSUME InputsAssumption == Exprs \subseteq AllExprs /\ Lit \in Exprs /\ MaxNodes \in Nat

EmptyScope == [var |-> << >>, arr |-> {}]
Unknown == [id |-> 0, kind |-> "none"]

(* find and lookup_variable: the innermost scope that has the name. *)
Resolve(scopes, n) ==
    LET in == {i \in DOMAIN scopes : n \in DOMAIN scopes[i].var}
    IN  IF in = {} THEN Unknown ELSE scopes[Max(in)].var[n]

(* insert keeps the entry that is there. *)
Inserted(f, S, d) == [x \in DOMAIN f \cup S |-> IF x \in DOMAIN f THEN f[x] ELSE d]
Bind(scopes, S, d) == [scopes EXCEPT ![Len(scopes)].var = Inserted(@, S, d)]

Enter(scopes, k) == scopes \o [i \in 1 .. k |-> EmptyScope]
Exit(scopes, k) == SubSeq(scopes, 1, Len(scopes) - k)

(* The builder leaves a BlockStmt after a statement that ends the block of *)
(* code; what follows in that BlockStmt is visited by the checker only.    *)
Building == built = "ok" /\ \A i \in DOMAIN frames : ~frames[i].left

-----------------------------------------------------------------------------

(* The checker.  Only the name of an LVal is looked up, never its index.   *)
Knows(e) == e = Lit \/ Resolve(variables, e.name) # Unknown

\* Mutant: BlockStmt among statements opens no scope.
CheckerScopesNoBlock(kind) == IF kind \in {"Func", "If", "Else", "While"} THEN 1 ELSE 0

(* Scopes the checker opens for a body: FuncDef, IfStmt and WhileStmt open *)
(* one each, BlockStmt opens one for a BlockStmt among its statements.     *)
CheckerScopes(kind) == IF kind \in {"Func", "If", "Else", "While", "Block"} THEN 1 ELSE 0

-----------------------------------------------------------------------------
\* Mutant: need_exit_scope is computed after pre_enter_scope is cleared.
NeedExitScopeLate(f) == IF f.block THEN 1 ELSE 0

(* The builder.  FuncDef, and a branch whose body is no BlockStmt, open a  *)
(* scope around the body; a BlockStmt opens its own, except the body of a  *)
(* function, for which pre_enter_scope is set.                             *)
OuterScope(f) == IF f.kind = "Func" \/ ~f.block THEN 1 ELSE 0
BlockScope(f) == IF f.block /\ f.kind # "Func" THEN 1 ELSE 0
NeedExitScope(f) == IF f.block /\ f.kind # "Func" THEN 1 ELSE 0

(* Expressions the builder reduces to a Constant.                          *)
Const(e) == \/ e = Lit
            \/ e.index = "" /\ Resolve(name2var, e.name).kind = "const"
            \/ /\ Resolve(name2var, e.name).kind = "constarray"
               /\ \/ e.index = "0"
                  \/ e.index # "" /\ Resolve(name2var, e.index).kind = "const"

(* Where the visit of an expression dereferences null, "ok" if nowhere.  A *)
(* constant scalar has no address: it can only be read, without an index.  *)
Fault(e, lvalue) ==
    IF e = Lit THEN "ok"
    ELSE IF e.index \in Names /\ Resolve(name2var, e.index) = Unknown THEN "index"
    ELSE IF Resolve(name2var, e.name) = Unknown THEN "name"
    ELSE IF Resolve(name2var, e.name).kind = "const" /\ (lvalue \/ e.index # "") THEN "constant"
    ELSE "ok"

First(faults) ==
    LET bad == {i \in DOMAIN faults : faults[i] # "ok"}
    IN  IF bad = {} THEN "ok" ELSE faults[Min(bad)]

(* A global of the module, by the name it is printed with.                 *)
Define(names) ==
    /\ redefined' = redefined \cup (globals \cap names)
    /\ globals' = globals \cup names

(* The constant array of a function is also a global; its name gets the    *)
(* first suffix that is not in use in a scope that is still open.          *)
ConstName(n) ==
    LET Used(k) == \E i \in DOMAIN name2var : <<fun.id, n, k>> \in name2var[i].arr
        k == CHOOSE j \in 0 .. nodes : ~Used(j) /\ \A m \in 0 .. j - 1 : Used(m)
    IN  <<fun.id, n, k>>

-----------------------------------------------------------------------------
WalkInit == /\ variables = <<EmptyScope>> /\ functions = << >> /\ verdict = "accepted"
            /\ name2var = <<EmptyScope>> /\ name2func = Library
            /\ ret_addr = 0 /\ globals = {} /\ redefined = {} /\ built = "ok"
            /\ frames = << >> /\ term = FALSE
            /\ fun = [id |-> 0, void |-> FALSE] /\ nodes = 0

VisitNode == verdict = "accepted" /\ nodes < MaxNodes /\ nodes' = nodes + 1

Top == frames[Len(frames)]

(* A statement may follow: in a block any number, in a branch one.         *)
WantsStmt == frames # << >> /\ (Top.block \/ ~Top.done)
WantsItem == frames # << >> /\ Top.block

(* The statement just visited leaves the builder's block ended or not.     *)
Finished(fs, ended) ==
    IF fs = << >> THEN fs
    ELSE [fs EXCEPT ![Len(fs)].done = ~fs[Len(fs)].block,
                    ![Len(fs)].left = @ \/ (fs[Len(fs)].block /\ ended)]

(* A statement without a body: what the checker and the builder make of    *)
(* it, and whether it ends the block.                                      *)
Simple(error, fault, ends) ==
    /\ VisitNode
    /\ verdict' = error
    /\ built' = IF Building THEN fault ELSE built
    /\ term' = IF Building THEN ends ELSE term
    /\ frames' = Finished(frames, Building /\ ends)
    /\ UNCHANGED fun

(* VarDef, in a function or between functions.                             *)
Arrays == {"constarray", "array"}

VarDefFault(kind, len, init) ==
    First(<<IF kind \in Arrays /\ ~(Fault(len, FALSE) = "ok" /\ Const(len)) THEN "length" ELSE "ok",
            Fault(init, FALSE),
            IF (kind # "var" \/ frames = << >>) /\ ~Const(init) THEN "initializer" ELSE "ok">>)

VarDef(n, kind, len, init) ==
    LET d == [id |-> nodes + 1, kind |-> kind]
        fault == VarDefFault(kind, len, init)
        error == IF ~Knows(init) THEN "VarUnknown"
                 ELSE IF n \in DOMAIN variables[Len(variables)].var THEN "VarDuplicated"
                 ELSE "accepted"
        local == frames # << >>
    IN  /\ ~local \/ WantsItem
        /\ Simple(error, fault, FALSE)
        /\ variables' = IF error = "accepted" THEN Bind(variables, {n}, d) ELSE variables
        /\ UNCHANGED <<functions, name2func, ret_addr>>
        /\ IF ~Building \/ fault # "ok" THEN UNCHANGED <<name2var, globals, redefined>>
           ELSE IF local /\ kind = "constarray"
           THEN /\ name2var' = [Bind(name2var, {n}, d) EXCEPT ![Len(name2var)].arr = @ \cup {ConstName(n)}]
                /\ Define({ConstName(n)})
           ELSE /\ name2var' = Bind(name2var, {n}, d)
                /\ Define(IF local \/ kind = "const" THEN {} ELSE {<<n>>})

KeepScopes == UNCHANGED <<variables, functions, name2var, name2func, ret_addr, globals, redefined>>

AssignStmt(target, value) ==
    /\ WantsStmt /\ target # Lit
    /\ Simple(IF Knows(target) /\ Knows(value) THEN "accepted" ELSE "VarUnknown",
              First(<<Fault(value, FALSE), Fault(target, TRUE)>>), FALSE)
    /\ KeepScopes

(* A call as a statement.  The checker has no library functions.           *)
CallStmt(f, args) ==
    /\ WantsStmt
    /\ Simple(IF \E i \in DOMAIN args : ~Knows(args[i]) THEN "VarUnknown"
              ELSE IF f \notin DOMAIN functions THEN "FuncUnknown"
              ELSE IF functions[f] # Len(args) THEN "FuncParams"
              ELSE "accepted",
              IF f \notin DOMAIN name2func THEN "function"
              ELSE IF name2func[f] # Len(args) THEN "arguments"
              ELSE First([i \in DOMAIN args |-> Fault(args[i], FALSE)]), FALSE)
    /\ KeepScopes

(* return e, or, void, return alone: then node.ret is null.                *)
ReturnStmt(e, void) ==
    /\ WantsStmt
    /\ Simple(IF void THEN "crashed" ELSE IF Knows(e) THEN "accepted" ELSE "VarUnknown",
              IF void THEN "ok"
              ELSE First(<<Fault(e, FALSE), IF ret_addr # fun.id THEN "return" ELSE "ok">>), TRUE)
    /\ KeepScopes

(* break and continue: While_Stack has an entry in a loop.                 *)
BreakOrContinue ==
    /\ WantsStmt
    /\ Simple("accepted",
              IF \E i \in DOMAIN frames : frames[i].kind = "While" THEN "ok" ELSE "break", TRUE)
    /\ KeepScopes

-----------------------------------------------------------------------------
(* Bodies.                                                                 *)
Body(kind, block) ==
    [kind |-> kind, block |-> block, done |-> FALSE, left |-> FALSE,
     ended |-> FALSE, building |-> Building]

OpenScopes(f) ==
    /\ variables' = Enter(variables, CheckerScopes(f.kind))
    /\ name2var' = IF Building THEN Enter(name2var, OuterScope(f) + BlockScope(f)) ELSE name2var

FuncDef(n, void, params) ==
    LET f == Body("Func", TRUE)
        Declare(scopes) == Bind(scopes, ToSet(params), [id |-> nodes + 1, kind |-> "var"])
    IN  /\ frames = << >>
        /\ VisitNode
        /\ verdict' = IF n \in DOMAIN functions THEN "FuncDuplicated"
                      ELSE IF ~IsInjective(params) THEN "VarDuplicated" ELSE "accepted"
        /\ functions' = Inserted(functions, {n}, Len(params))
        /\ variables' = Declare(Enter(variables, CheckerScopes("Func")))
        /\ fun' = IF Building THEN [id |-> nodes + 1, void |-> void] ELSE fun
        /\ IF Building
           THEN /\ name2func' = Inserted(name2func, {n}, Len(params))
                /\ name2var' = Declare(Enter(name2var, OuterScope(f) + BlockScope(f)))
                /\ ret_addr' = IF void THEN ret_addr ELSE nodes + 1
                /\ term' = FALSE
                /\ Define({<<n>>})
           ELSE UNCHANGED <<name2func, name2var, ret_addr, term, globals, redefined>>
        /\ frames' = <<f>>
        /\ UNCHANGED built

(* A BlockStmt among the statements of a block.                            *)
BlockStmt ==
    /\ WantsItem /\ VisitNode
    /\ OpenScopes(Body("Block", TRUE))
    /\ frames' = Append(frames, Body("Block", TRUE))
    /\ UNCHANGED <<functions, verdict, name2func, ret_addr, globals, redefined, built, term, fun>>

(* The condition of an IfStmt or WhileStmt, and its body opens.            *)
IfOrWhile(kind, cond, block) ==
    LET fault == IF Building THEN Fault(cond, FALSE) ELSE built
    IN  /\ WantsStmt /\ VisitNode
        /\ verdict' = IF Knows(cond) THEN "accepted" ELSE "VarUnknown"
        /\ built' = fault
        /\ term' = IF Building THEN FALSE ELSE term
        /\ frames' = Append(frames, Body(kind, block))
        /\ OpenScopes(Body(kind, block))
        /\ UNCHANGED <<functions, name2func, ret_addr, globals, redefined, fun>>

(* The end of a body.  An if without else, and a while, go on in a new     *)
(* block; an if whose branches have both ended leaves no block to go on.   *)
CloseScopes(f) ==
    /\ variables' = Exit(variables, CheckerScopes(f.kind))
    /\ name2var' = IF f.building /\ built = "ok"
                   THEN Exit(name2var, OuterScope(f) + NeedExitScope(f)) ELSE name2var

CloseBody ==
    LET f == Top
        outer == Front(frames)
        building == f.building /\ built = "ok"
        ended == /\ f.kind \in {"Block", "Else"} /\ term
                 /\ f.kind = "Else" => f.ended
    IN  /\ frames # << >> /\ (f.block \/ f.done)
        /\ verdict = "accepted"
        /\ CloseScopes(f)
        /\ term' = IF building THEN ended ELSE term
        /\ frames' = Finished(outer, building /\ ended)
        /\ UNCHANGED <<functions, verdict, name2func, ret_addr, globals, redefined, built, fun, nodes>>

ElseBranch(block) ==
    LET f == Top
        building == f.building /\ built = "ok"
        e == [Body("Else", block) EXCEPT !.ended = term, !.building = building]
    IN  /\ frames # << >> /\ f.kind = "If" /\ (f.block \/ f.done)
        /\ VisitNode
        /\ variables' = Enter(Exit(variables, CheckerScopes("If")), CheckerScopes("Else"))
        /\ name2var' = IF building
                       THEN Enter(Exit(name2var, OuterScope(f) + NeedExitScope(f)),
                                  OuterScope(e) + BlockScope(e))
                       ELSE name2var
        /\ term' = IF building THEN FALSE ELSE term
        /\ frames' = Append(Front(frames), e)
        /\ UNCHANGED <<functions, verdict, name2func, ret_addr, globals, redefined, built, fun>>

Statement ==
    \/ \E target, value \in Exprs : AssignStmt(target, value)
    \/ \E f \in Names \cup DOMAIN Library, args \in {<< >>} \cup {<<e>> : e \in Exprs} :
          CallStmt(f, args)
    \/ \E e \in Exprs : ReturnStmt(e, FALSE)
    \/ ReturnStmt(Lit, TRUE)
    \/ BreakOrContinue
    \/ BlockStmt
    \/ \E kind \in {"If", "While"}, cond \in Exprs, block \in BOOLEAN : IfOrWhile(kind, cond, block)

Definition ==
    \/ \E n \in Names \cup DOMAIN Library, void \in BOOLEAN,
          params \in {<< >>} \cup {<<p>> : p \in Names} \cup {<<p, q>> : p, q \in Names} :
          FuncDef(n, void, params)
    \/ \E n \in Names, kind \in Kinds, init \in Exprs :
          \E len \in IF kind \in Arrays THEN Exprs ELSE {Lit} : VarDef(n, kind, len, init)

WalkNext ==
    \/ Definition
    \/ Statement
    \/ CloseBody
    \/ \E block \in BOOLEAN : ElseBranch(block)

WalkSpec == WalkInit /\ [][WalkNext]_walk

-----------------------------------------------------------------------------
(* Types of the variables.                                                 *)
WalkTypeOK ==
    /\ \A i \in DOMAIN name2var : DOMAIN name2var[i].var \subseteq Names
    /\ \A i \in DOMAIN variables : DOMAIN variables[i].var \subseteq Names
    /\ verdict \in {"accepted", "VarUnknown", "VarDuplicated", "FuncUnknown",
                    "FuncDuplicated", "FuncParams", "crashed"}
    /\ built \in {"ok", "name", "index", "constant", "length", "initializer",
                  "function", "arguments", "return", "break"}
    /\ redefined \subseteq globals
    /\ \A i \in DOMAIN frames :
          /\ frames[i].kind \in {"Func", "If", "Else", "While", "Block"}
          /\ frames[i].left => frames[i].block
          /\ frames[i].done => ~frames[i].block
    /\ {ret_addr, fun.id, nodes} \subseteq 0 .. MaxNodes

(* At every place of an accepted program that the builder visits, a name   *)
(* means the same declaration to the checker and to the builder, although  *)
(* they open their scopes at different nodes (SyntaxTreeChecker 98-150,    *)
(* IRBuilder 143, 549-564, 888-912, 959-965).                              *)
NamesAgree ==
    verdict = "accepted" /\ Building =>
        \A n \in Names : Resolve(variables, n) = Resolve(name2var, n)

(* What the checker lets pass at a name that it looks up, the builder can  *)
(* build: it finds every variable and function and as many arguments as it *)
(* wants, unless the program defines a function with a library's name,     *)
(* which push (IRBuilder 138) does not accept; and a value is returned     *)
(* through another function's slot from a void function only.              *)
CheckedIsBuilt ==
    /\ verdict = "accepted" /\ DOMAIN functions \cap DOMAIN Library = {} =>
          built \notin {"name", "function", "arguments"}
    /\ built = "return" => fun.void

(* Leaving a block early (IRBuilder 558) closes as many scopes as were     *)
(* opened, so that in_global tells a global definition from a local one.   *)
ScopesBalanced ==
    verdict = "accepted" /\ built = "ok" =>
        /\ Len(name2var) = 1 + Cardinality({i \in DOMAIN frames : frames[i].building})
        /\ Len(variables) = 1 + Len(frames)

(* What the builder relies on behind the checker.                          *)
BuilderFollows == WalkTypeOK /\ CheckedIsBuilt /\ ScopesBalanced

(* The checker ends with a verdict on every program.                       *)
CheckerSurvives == verdict # "crashed"
=============================================================================
