------------------------------- MODULE Grammar -------------------------------
(* The grammar of SysYF, for reference: the rules as grammar/SysYFParser.yy  *)
(* lists them, and a second definition of the language, which reads a        *)
(* sequence of tokens from left to right by recursive descent, with the      *)
(* precedences and the dangling else as they are meant.                      *)
EXTENDS Integers, Sequences, SequencesExt

(* A syntax tree: the class of a node, or its operator; the place in the     *)
(* input of the token that gives its name or number; its children.           *)
Node(tag, at, kids) == [tag |-> tag, at |-> at, kids |-> kids]
Leaf(tag, at) == Node(tag, at, <<>>)
List(s) == Node("list", 0, s)
Null == Leaf("nullptr", 0)
Push(n, x) == [n EXCEPT !.kids = Append(@, x)]
Join(n, m) == [n EXCEPT !.kids = @ \o m.kids]
Typed(defs, type) == [defs EXCEPT !.kids = [k \in DOMAIN @ |-> [@[k] EXCEPT !.kids[1] = type]]]

Rule(lhs, rhs) == [lhs |-> lhs, rhs |-> rhs]

Rules ==
  <<Rule("$accept", <<"Begin", "end of file">>),
    Rule("Begin", <<"CompUnit", "END">>),
    Rule("CompUnit", <<"CompUnit", "GlobalDecl">>), Rule("CompUnit", <<"GlobalDecl">>),
    Rule("GlobalDecl", <<"ConstDecl">>), Rule("GlobalDecl", <<"VarDecl">>), Rule("GlobalDecl", <<"FuncDef">>),
    Rule("ConstDecl", <<"CONST", "BType", "ConstDefList", "SEMICOLON">>),
    Rule("ConstDefList", <<"ConstDefList", "COMMA", "ConstDef">>), Rule("ConstDefList", <<"ConstDef">>),
    Rule("BType", <<"INT">>), Rule("BType", <<"FLOAT">>),
    Rule("ConstDef", <<"IDENTIFIER", "ArrayExpList", "ASSIGN", "InitVal">>),
    Rule("VarDecl", <<"BType", "VarDefList", "SEMICOLON">>),
    Rule("VarDefList", <<"VarDefList", "COMMA", "VarDef">>), Rule("VarDefList", <<"VarDef">>),
    Rule("VarDef", <<"IDENTIFIER", "ArrayExpList">>),
    Rule("VarDef", <<"IDENTIFIER", "ArrayExpList", "ASSIGN", "InitVal">>),
    Rule("ArrayExpList", <<"ArrayExpList", "LBRACKET", "Exp", "RBRACKET">>), Rule("ArrayExpList", <<>>),
    Rule("InitVal", <<"Exp">>), Rule("InitVal", <<"LBRACE", "InitValList", "RBRACE">>),
    Rule("InitValList", <<"CommaInitValList", "InitVal">>), Rule("InitValList", <<>>),
    Rule("CommaInitValList", <<"CommaInitValList", "InitVal", "COMMA">>), Rule("CommaInitValList", <<>>),
    Rule("ExpList", <<"CommaExpList", "Exp">>), Rule("ExpList", <<>>),
    Rule("CommaExpList", <<"CommaExpList", "Exp", "COMMA">>), Rule("CommaExpList", <<>>),
    Rule("FuncFParam", <<"BType", "IDENTIFIER", "ArrayExpList">>),
    Rule("FuncFParam", <<"BType", "IDENTIFIER", "LRBRACKET", "ArrayExpList">>),
    Rule("FParamList", <<"CommaFParamList", "FuncFParam">>), Rule("FParamList", <<>>),
    Rule("CommaFParamList", <<"CommaFParamList", "FuncFParam", "COMMA">>), Rule("CommaFParamList", <<>>),
    Rule("FuncDef", <<"BType", "IDENTIFIER", "LPARENTHESE", "FParamList", "RPARENTHESE", "Block">>),
    Rule("FuncDef", <<"VOID", "IDENTIFIER", "LPARENTHESE", "FParamList", "RPARENTHESE", "Block">>),
    Rule("Block", <<"LBRACE", "BlockItemList", "RBRACE">>),
    Rule("BlockItemList", <<"BlockItemList", "BlockItem">>), Rule("BlockItemList", <<>>),
    Rule("BlockItem", <<"VarDecl">>), Rule("BlockItem", <<"ConstDecl">>), Rule("BlockItem", <<"Stmt">>),
    Rule("Stmt", <<"LVal", "ASSIGN", "Exp", "SEMICOLON">>), Rule("Stmt", <<"Exp", "SEMICOLON">>),
    Rule("Stmt", <<"RETURN", "OptionRet", "SEMICOLON">>), Rule("Stmt", <<"Block">>),
    Rule("Stmt", <<"WHILE", "LPARENTHESE", "CondExp", "RPARENTHESE", "Stmt">>), Rule("Stmt", <<"IfStmt">>),
    Rule("Stmt", <<"BREAK", "SEMICOLON">>), Rule("Stmt", <<"CONTINUE", "SEMICOLON">>), Rule("Stmt", <<"SEMICOLON">>),
    Rule("IfStmt", <<"IF", "LPARENTHESE", "CondExp", "RPARENTHESE", "Stmt">>),
    Rule("IfStmt", <<"IF", "LPARENTHESE", "CondExp", "RPARENTHESE", "Stmt", "ELSE", "Stmt">>),
    Rule("OptionRet", <<"Exp">>), Rule("OptionRet", <<>>),
    Rule("LVal", <<"IDENTIFIER", "ArrayExpList">>),
    Rule("Exp", <<"PLUS", "Exp">>), Rule("Exp", <<"MINUS", "Exp">>), Rule("Exp", <<"NOT", "Exp">>),
    Rule("Exp", <<"Exp", "PLUS", "Exp">>), Rule("Exp", <<"Exp", "MINUS", "Exp">>),
    Rule("Exp", <<"Exp", "MULTIPLY", "Exp">>), Rule("Exp", <<"Exp", "DIVIDE", "Exp">>),
    Rule("Exp", <<"Exp", "MODULO", "Exp">>), Rule("Exp", <<"LPARENTHESE", "Exp", "RPARENTHESE">>),
    Rule("Exp", <<"IDENTIFIER", "LPARENTHESE", "ExpList", "RPARENTHESE">>),
    Rule("Exp", <<"LVal">>), Rule("Exp", <<"Number">>),
    Rule("RelExp", <<"RelExp", "LT", "Exp">>), Rule("RelExp", <<"RelExp", "LTE", "Exp">>),
    Rule("RelExp", <<"RelExp", "GT", "Exp">>), Rule("RelExp", <<"RelExp", "GTE", "Exp">>), Rule("RelExp", <<"Exp">>),
    Rule("EqExp", <<"EqExp", "EQ", "RelExp">>), Rule("EqExp", <<"EqExp", "NEQ", "RelExp">>),
    Rule("EqExp", <<"RelExp">>),
    Rule("LAndExp", <<"LAndExp", "LOGICAND", "EqExp">>), Rule("LAndExp", <<"EqExp">>),
    Rule("LOrExp", <<"LOrExp", "LOGICOR", "LAndExp">>), Rule("LOrExp", <<"LAndExp">>),
    Rule("CondExp", <<"LOrExp">>), Rule("Number", <<"INTCONST">>), Rule("Number", <<"FLOATCONST">>)>>

-----------------------------------------------------------------------------
(* Reading from the left.  A result is the tree of what was read and the     *)
(* place after it, or, if ok is FALSE, the place of the first token that no  *)
(* program has after the ones before it.                                     *)
Good(at, tree) == [ok |-> TRUE, at |-> at, tree |-> tree]
Wrong(at) == [ok |-> FALSE, at |-> at, tree |-> Null]

Token(s, i) == IF i <= Len(s) THEN s[i] ELSE "none"
Then(r, F(_)) == IF r.ok THEN F(r) ELSE r
Map(r, F(_)) == IF r.ok THEN Good(r.at, F(r.tree)) ELSE r
\* r, and behind it the token t.
Before(s, t, r) == IF r.ok /\ Token(s, r.at) # t THEN Wrong(r.at) ELSE IF r.ok THEN Good(r.at + 1, r.tree) ELSE r
\* The token t at i, and behind it r.
Behind(s, i, t, r) == IF Token(s, i) = t THEN r ELSE Wrong(i)

(* Operators from the loosest to the tightest.                              *)
Levels == <<{"LOGICOR"}, {"LOGICAND"}, {"EQ", "NEQ"}, {"LT", "LTE", "GT", "GTE"},
            {"PLUS", "MINUS"}, {"MULTIPLY", "DIVIDE", "MODULO"}>>
Cond == 1
Sum == 5
UnaryOps == {"PLUS", "MINUS", "NOT"}

RECURSIVE Operation(_, _, _), Operators(_, _, _), Unary(_, _), Index(_, _, _), Args(_, _, _)
\* Operands of level k + 1 with the operators of level k between them, grouped to the left.
Operation(s, i, k) ==
  IF k > Len(Levels) THEN Unary(s, i) ELSE Then(Operation(s, i, k + 1), LAMBDA l : Operators(s, l, k))
Operators(s, l, k) ==
  IF Token(s, l.at) \notin Levels[k] THEN l
  ELSE Then(Operation(s, l.at + 1, k + 1),
            LAMBDA r : Operators(s, Good(r.at, Node(s[l.at], 0, <<l.tree, r.tree>>)), k))

Exp(s, i) == Operation(s, i, Sum)

Unary(s, i) ==
  LET t == Token(s, i) IN
  CASE t \in UnaryOps -> Map(Unary(s, i + 1), LAMBDA e : Node(t, 0, <<e>>))
    [] t \in {"INTCONST", "FLOATCONST"} -> Good(i + 1, Leaf(t, i))
    [] t = "LPARENTHESE" -> Before(s, "RPARENTHESE", Exp(s, i + 1))
    [] t = "IDENTIFIER" /\ Token(s, i + 1) = "LPARENTHESE" ->
         Map(IF Token(s, i + 2) = "RPARENTHESE" THEN Good(i + 3, List(<<>>)) ELSE Args(s, i + 2, <<>>),
             LAMBDA args : Node("FuncCallStmt", i, <<args>>))
    [] t = "IDENTIFIER" /\ Token(s, i + 1) # "LPARENTHESE" ->
         Map(Index(s, i + 1, <<>>), LAMBDA index : Node("LVal", i, <<index>>))
    [] OTHER -> Wrong(i)

\* Any number of [ Exp ].
Index(s, i, read) ==
  IF Token(s, i) # "LBRACKET" THEN Good(i, List(read))
  ELSE Then(Before(s, "RBRACKET", Exp(s, i + 1)), LAMBDA e : Index(s, e.at, Append(read, e.tree)))

\* Arguments up to the ).
Args(s, i, read) ==
  Then(Exp(s, i), LAMBDA e :
    CASE Token(s, e.at) = "COMMA" -> Args(s, e.at + 1, Append(read, e.tree))
      [] Token(s, e.at) = "RPARENTHESE" -> Good(e.at + 1, List(Append(read, e.tree)))
      [] OTHER -> Wrong(e.at))

RECURSIVE InitVal(_, _), InitVals(_, _, _)
InitVal(s, i) ==
  CASE Token(s, i) # "LBRACE" -> Map(Exp(s, i), LAMBDA e : Node("InitVal", 0, <<e>>))
    [] Token(s, i + 1) = "RBRACE" -> Good(i + 2, Node("InitVals", 0, <<>>))
    [] OTHER -> InitVals(s, i + 1, <<>>)
InitVals(s, i, read) ==
  Then(InitVal(s, i), LAMBDA v :
    CASE Token(s, v.at) = "COMMA" -> InitVals(s, v.at + 1, Append(read, v.tree))
      [] Token(s, v.at) = "RBRACE" -> Good(v.at + 1, Node("InitVals", 0, Append(read, v.tree)))
      [] OTHER -> Wrong(v.at))

Types == {"INT", "FLOAT"}

\* Definitions of type, separated by commas, up to the ;.
RECURSIVE Defs(_, _, _, _, _)
Defs(s, i, const, type, read) ==
  LET def(dims, init) == Node(IF const THEN "ConstDef" ELSE "VarDef", i, <<type, dims, init>>)
      more(r) == CASE Token(s, r.at) = "COMMA" -> Defs(s, r.at + 1, const, type, Append(read, r.tree))
                   [] Token(s, r.at) = "SEMICOLON" -> Good(r.at + 1, List(Append(read, r.tree)))
                   [] OTHER -> Wrong(r.at)
  IN  Behind(s, i, "IDENTIFIER", Then(Index(s, i + 1, <<>>), LAMBDA dims :
        CASE Token(s, dims.at) = "ASSIGN" ->
               Then(Map(InitVal(s, dims.at + 1), LAMBDA init : def(dims.tree, init)), more)
          [] const -> Wrong(dims.at)
          [] OTHER -> more(Good(dims.at, def(dims.tree, Null)))))

\* A declaration at i, which starts with const or a type.
Decl(s, i) ==
  CASE Token(s, i) = "CONST" ->
         IF Token(s, i + 1) \in Types THEN Defs(s, i + 2, TRUE, Leaf(s[i + 1], 0), <<>>) ELSE Wrong(i + 1)
    [] OTHER -> Defs(s, i + 1, FALSE, Leaf(s[i], 0), <<>>)

RECURSIVE Stmt(_, _), Items(_, _, _)
Block(s, i) == Behind(s, i, "LBRACE", Items(s, i + 1, <<>>))
Items(s, i, read) ==
  CASE Token(s, i) = "RBRACE" -> Good(i + 1, Node("BlockStmt", 0, read))
    [] Token(s, i) \in Types \cup {"CONST"} -> Then(Decl(s, i), LAMBDA d : Items(s, d.at, read \o d.tree.kids))
    [] OTHER -> Then(Stmt(s, i), LAMBDA t : Items(s, t.at, Append(read, t.tree)))

\* ( condition ) statement, for if and while.
Guarded(s, i, tag) ==
  Then(Behind(s, i, "LPARENTHESE", Before(s, "RPARENTHESE", Operation(s, i + 1, Cond))), LAMBDA c :
    Map(Stmt(s, c.at), LAMBDA body : Node(tag, 0, <<c.tree, body>>)))

Stmt(s, i) ==
  LET t == Token(s, i) IN
  CASE t = "LBRACE" -> Block(s, i)
    [] t = "SEMICOLON" -> Good(i + 1, Leaf("EmptyStmt", 0))
    [] t = "BREAK" -> Before(s, "SEMICOLON", Good(i + 1, Leaf("BreakStmt", 0)))
    [] t = "CONTINUE" -> Before(s, "SEMICOLON", Good(i + 1, Leaf("ContinueStmt", 0)))
    [] t = "RETURN" /\ Token(s, i + 1) = "SEMICOLON" -> Good(i + 2, Node("ReturnStmt", 0, <<Null>>))
    [] t = "RETURN" /\ Token(s, i + 1) # "SEMICOLON" ->
         Map(Before(s, "SEMICOLON", Exp(s, i + 1)), LAMBDA e : Node("ReturnStmt", 0, <<e>>))
    [] t = "WHILE" -> Guarded(s, i + 1, "WhileStmt")
    [] t = "IF" -> Then(Guarded(s, i + 1, "IfStmt"), LAMBDA c :
         IF Token(s, c.at) = "ELSE" THEN Map(Stmt(s, c.at + 1), LAMBDA e : Push(c.tree, e))
         ELSE Good(c.at, Push(c.tree, Null)))
    [] OTHER -> Then(Exp(s, i), LAMBDA e :
         IF t = "IDENTIFIER" /\ e.tree.tag = "LVal" /\ Token(s, e.at) = "ASSIGN"
         THEN Map(Before(s, "SEMICOLON", Exp(s, e.at + 1)), LAMBDA v : Node("AssignStmt", 0, <<e.tree, v>>))
         ELSE Before(s, "SEMICOLON", Map(e, LAMBDA x : Node("ExprStmt", 0, <<x>>))))

\* Parameters up to the ).
RECURSIVE Params(_, _, _)
Params(s, i, read) ==
  LET open == Token(s, i + 2) = "LRBRACKET" IN
  CASE Token(s, i) \notin Types -> Wrong(i)
    [] Token(s, i + 1) # "IDENTIFIER" -> Wrong(i + 1)
    [] OTHER -> Then(Index(s, IF open THEN i + 3 ELSE i + 2, IF open THEN <<Null>> ELSE <<>>), LAMBDA dims :
         LET all == Append(read, Node("FuncParam", i + 1, <<Leaf(s[i], 0), dims.tree>>)) IN
         CASE Token(s, dims.at) = "COMMA" -> Params(s, dims.at + 1, all)
           [] Token(s, dims.at) = "RPARENTHESE" -> Good(dims.at + 1, List(all))
           [] OTHER -> Wrong(dims.at))

\* A function whose type stands at i and whose name and ( follow.
Function(s, i) ==
  Then(IF Token(s, i + 3) = "RPARENTHESE" THEN Good(i + 4, List(<<>>)) ELSE Params(s, i + 3, <<>>), LAMBDA ps :
    Map(Block(s, ps.at), LAMBDA body : List(<<Node("FuncDef", i + 1, <<Leaf(s[i], 0), ps.tree, body>>)>>)))

GlobalDecl(s, i) ==
  LET t == Token(s, i) IN
  CASE t = "VOID" -> Behind(s, i + 1, "IDENTIFIER", Behind(s, i + 2, "LPARENTHESE", Function(s, i)))
    [] t \in Types /\ Token(s, i + 1) = "IDENTIFIER" /\ Token(s, i + 2) = "LPARENTHESE" -> Function(s, i)
    [] t \in Types \cup {"CONST"} -> Decl(s, i)
    [] OTHER -> Wrong(i)

RECURSIVE CompUnit(_, _, _)
CompUnit(s, i, read) ==
  Then(GlobalDecl(s, i), LAMBDA d :
    IF Token(s, d.at) = "END" THEN Good(d.at + 1, List(read \o d.tree.kids))
    ELSE CompUnit(s, d.at, read \o d.tree.kids))

\* What the sequence of tokens s means, or where it stops to make sense.
Reading(s) == CompUnit(s, 1, <<>>)
=============================================================================
