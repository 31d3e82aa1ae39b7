------------------------------ MODULE Printer ------------------------------
(* The printer of syntax trees, src/AST/SyntaxTreePrinter.cpp: what it       *)
(* writes for a node, as the tokens a scanner would see.  Blanks, indents    *)
(* and line ends are left out; integers are not negative and floats not      *)
(* whole, which would be written as integers.                                *)
EXTENDS Grammar

RECURSIVE Expression(_)

Each(nodes, F(_)) == FlattenSeq([k \in DOMAIN nodes |-> F(nodes[k])])
Separated(texts) ==
  FlattenSeq([k \in DOMAIN texts |-> IF k < Len(texts) THEN Append(texts[k], "COMMA") ELSE texts[k]])

Brackets(index) == IF index = Null THEN <<"LRBRACKET">> ELSE <<"LBRACKET">> \o Expression(index) \o <<"RBRACKET">>
InParens(text) == <<"LPARENTHESE">> \o text \o <<"RPARENTHESE">>

\* Mutant: no parentheses.
OperationBare(n) ==
  IF Len(n.kids) = 1 THEN <<n.tag>> \o Expression(n.kids[1])
  ELSE Expression(n.kids[1]) \o <<n.tag>> \o Expression(n.kids[2])

(* BinaryExpr, BinaryCondExpr, UnaryExpr, UnaryCondExpr.                     *)
PrintedOperation(n) ==
  InParens(IF Len(n.kids) = 1 THEN <<n.tag>> \o Expression(n.kids[1])
           ELSE Expression(n.kids[1]) \o <<n.tag>> \o Expression(n.kids[2]))

Expression(n) ==
  CASE n.tag = "LVal" -> <<"IDENTIFIER">> \o Each(n.kids[1].kids, Brackets)
    [] n.tag \in {"INTCONST", "FLOATCONST"} -> <<n.tag>>
    [] n.tag = "FuncCallStmt" -> <<"IDENTIFIER">> \o InParens(Separated([k \in DOMAIN n.kids[1].kids |-> Expression(n.kids[1].kids[k])]))
    [] OTHER -> PrintedOperation(n)

RECURSIVE Initializer(_)
Initializer(n) ==
  IF n.tag = "InitVal" THEN Expression(n.kids[1])
  ELSE <<"LBRACE">> \o Separated([k \in DOMAIN n.kids |-> Initializer(n.kids[k])]) \o <<"RBRACE">>

Definition(n) ==
  (IF n.tag = "ConstDef" THEN <<"CONST">> ELSE <<>>) \o <<n.kids[1].tag, "IDENTIFIER">>
  \o Each(n.kids[2].kids, Brackets)
  \o (IF n.kids[3] = Null THEN <<>> ELSE <<"ASSIGN">> \o Initializer(n.kids[3]))
  \o <<"SEMICOLON">>

RECURSIVE Statement(_)
Statement(n) ==
  CASE n.tag = "BlockStmt" -> <<"LBRACE">> \o Each(n.kids, Statement) \o <<"RBRACE">>
    [] n.tag \in {"VarDef", "ConstDef"} -> Definition(n)
    [] n.tag = "AssignStmt" -> Expression(n.kids[1]) \o <<"ASSIGN">> \o Expression(n.kids[2]) \o <<"SEMICOLON">>
    [] n.tag = "ExprStmt" -> Expression(n.kids[1]) \o <<"SEMICOLON">>
    [] n.tag = "ReturnStmt" ->
         <<"RETURN">> \o (IF n.kids[1] = Null THEN <<>> ELSE Expression(n.kids[1])) \o <<"SEMICOLON">>
    [] n.tag = "EmptyStmt" -> <<"SEMICOLON">>
    [] n.tag = "BreakStmt" -> <<"BREAK", "SEMICOLON">>
    [] n.tag = "ContinueStmt" -> <<"CONTINUE", "SEMICOLON">>
    [] n.tag = "WhileStmt" -> <<"WHILE">> \o InParens(Expression(n.kids[1])) \o Statement(n.kids[2])
    [] n.tag = "IfStmt" ->
         <<"IF">> \o InParens(Expression(n.kids[1])) \o Statement(n.kids[2])
         \o (IF n.kids[3] = Null THEN <<>> ELSE <<"ELSE">> \o Statement(n.kids[3]))

Param(n) == <<n.kids[1].tag, "IDENTIFIER">> \o Each(n.kids[2].kids, Brackets)

PrintedFunction(n) ==
  <<n.kids[1].tag, "IDENTIFIER">> \o InParens(Separated([k \in DOMAIN n.kids[2].kids |-> Param(n.kids[2].kids[k])])) \o Statement(n.kids[3])

Printed(assembly) ==
  Each(assembly.kids, LAMBDA n : IF n.tag = "FuncDef" THEN PrintedFunction(n) ELSE Definition(n))

-----------------------------------------------------------------------------
(* Whether an operator that is not one of expressions occurs in the tree.    *)
RECURSIVE Compares(_)
Compares(n) == n.tag \in UNION {Levels[k] : k \in Cond .. Sum - 1} \/ \E k \in DOMAIN n.kids : Compares(n.kids[k])

(* The tree without the places its names come from.                          *)
RECURSIVE Bare(_)
Bare(n) == Node(n.tag, 0, [k \in DOMAIN n.kids |-> Bare(n.kids[k])])

(* What is printed says what the tree says: reading it gives the tree again, *)
(* whatever is nested in what.  Only a condition that compares is not read   *)
(* again, for it is printed in parentheses, where the grammar has no such    *)
(* operators.                                                                *)
ReadsBack(assembly) ==
  LET again == Reading(Append(Printed(assembly), "END")) IN
  IF Compares(assembly) THEN ~again.ok ELSE again.ok /\ Bare(again.tree) = Bare(assembly)
=============================================================================
