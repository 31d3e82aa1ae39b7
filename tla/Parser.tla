------------------------------- MODULE Parser -------------------------------
(* The parser, src/Frontend/SysYFParser.cpp: a stack of states with values,  *)
(* a token read ahead when a state needs one, and the tables.  The tokens    *)
(* are chosen as they are asked for, from a context: those before, some of   *)
(* the chunks, at most max, and those behind them.  Locations, the wording   *)
(* of errors and the tracing are left out.                                   *)
EXTENDS ParserTables, Printer

CONSTANT Contexts

VARIABLES yystack,   \* states with the values of their symbols, the top first
          yyla,      \* the token read ahead, or NoToken
          input,     \* the tokens read
          pending,   \* those of the chunk that is being read
          left,      \* how many chunks may follow; -1 behind the last
          context,
          root,      \* driver.root
          result     \* "none", then what parse returns

vars == <<yystack, yyla, input, pending, left, context, root, result>>

NoToken == Leaf("empty", 0)
Slot(state, value) == [state |-> state, value |-> value]

-----------------------------------------------------------------------------
(* What the rules make of the values v of their right-hand sides.            *)
Units(rule, v) ==
  CASE rule = 3 -> Join(v[1], v[2])
    [] rule \in {4, 5, 6} -> v[1]
    [] rule \in {7, 10} -> List(<<v[1]>>)
    [] rule = 8 -> Typed(v[3], v[2])
    [] rule = 9 -> Push(v[1], v[3])
    [] rule \in {11, 12} -> Leaf(<<"INT", "FLOAT">>[rule - 10], 0)

Variables(rule, v) ==
  CASE rule = 13 -> Node("ConstDef", v[1].at, <<Null, v[2], v[4]>>)
    [] rule = 14 -> Typed(v[2], v[1])
    [] rule \in {15, 19} -> Push(v[1], v[3])
    [] rule = 16 -> List(<<v[1]>>)
    [] rule = 17 -> Node("VarDef", v[1].at, <<Null, v[2], Null>>)
    [] rule = 18 -> Node("VarDef", v[1].at, <<Null, v[2], v[4]>>)
    [] rule = 20 -> List(<<>>)

Initializers(rule, v) ==
  CASE rule = 21 -> Node("InitVal", 0, <<v[1]>>)
    [] rule = 22 -> v[2]
    [] rule \in {23, 25} -> Push(v[1], v[2])
    [] rule \in {24, 26} -> Node("InitVals", 0, <<>>)

Lists(rule, v) ==
  CASE rule \in {27, 29, 33, 35} -> Push(v[1], v[2])
    [] rule \in {28, 30, 34, 36} -> List(<<>>)
    [] rule = 31 -> Node("FuncParam", v[2].at, <<v[1], v[3]>>)
    [] rule = 32 -> Node("FuncParam", v[2].at, <<v[1], List(<<Null>> \o v[4].kids)>>)

Functions(rule, v) ==
  CASE rule = 37 -> Node("FuncDef", v[2].at, <<v[1], v[4], v[6]>>)
    [] rule = 38 -> Node("FuncDef", v[2].at, <<Leaf("VOID", 0), v[4], v[6]>>)
    [] rule = 39 -> Node("BlockStmt", 0, v[2].kids)
    [] rule = 40 -> Join(v[1], v[2])
    [] rule = 41 -> List(<<>>)
    [] rule \in {42, 43} -> v[1]
    [] rule = 44 -> List(<<v[1]>>)

Statements(rule, v) ==
  CASE rule = 45 -> Node("AssignStmt", 0, <<v[1], v[3]>>)
    [] rule = 46 -> Node("ExprStmt", 0, <<v[1]>>)
    [] rule = 47 -> Node("ReturnStmt", 0, <<v[2]>>)
    [] rule \in {48, 50, 56} -> v[1]
    [] rule = 49 -> Node("WhileStmt", 0, <<v[3], v[5]>>)
    [] rule = 51 -> Leaf("BreakStmt", 0)
    [] rule = 52 -> Leaf("ContinueStmt", 0)
    [] rule = 53 -> Leaf("EmptyStmt", 0)
    [] rule = 54 -> Node("IfStmt", 0, <<v[3], v[5], Null>>)
    [] rule = 55 -> Node("IfStmt", 0, <<v[3], v[5], v[7]>>)
    [] rule = 57 -> Null
    [] rule = 58 -> Node("LVal", v[1].at, <<v[2]>>)

Arithmetic(rule, v) ==
  CASE rule \in 59 .. 61 -> Node(<<"PLUS", "MINUS", "NOT">>[rule - 58], 0, <<v[2]>>)
    [] rule \in 62 .. 66 ->
         Node(<<"PLUS", "MINUS", "MULTIPLY", "DIVIDE", "MODULO">>[rule - 61], 0, <<v[1], v[3]>>)
    [] rule = 67 -> v[2]
    [] rule = 68 -> Node("FuncCallStmt", v[1].at, <<v[3]>>)
    [] rule \in {69, 70} -> v[1]

Comparison == (71 :> "LT") @@ (72 :> "LTE") @@ (73 :> "GT") @@ (74 :> "GTE") @@ (76 :> "EQ") @@ (77 :> "NEQ")
                @@ (79 :> "LOGICAND") @@ (81 :> "LOGICOR")

\* Mutant: the operands are swapped.
ConditionsSwapped(rule, v) ==
  IF rule \in DOMAIN Comparison THEN Node(Comparison[rule], 0, <<v[3], v[1]>>) ELSE v[1]

Conditions(rule, v) ==
  IF rule \in DOMAIN Comparison THEN Node(Comparison[rule], 0, <<v[1], v[3]>>) ELSE v[1]

Number(rule, v) == Leaf(<<"INTCONST", "FLOATCONST">>[rule - 83], v[1].at)

Value(rule, v) ==
  CASE rule \in  3 .. 12 -> Units(rule, v)        [] rule \in 13 .. 20 -> Variables(rule, v)
    [] rule \in 21 .. 26 -> Initializers(rule, v) [] rule \in 27 .. 36 -> Lists(rule, v)
    [] rule \in 37 .. 44 -> Functions(rule, v)    [] rule \in 45 .. 58 -> Statements(rule, v)
    [] rule \in 59 .. 70 -> Arithmetic(rule, v)   [] rule \in 71 .. 83 -> Conditions(rule, v)
    [] rule \in 84 .. 85 -> Number(rule, v)

(* The symbols with a value, which is moved with them.                       *)
Valued ==
  {"CompUnit", "GlobalDecl", "ConstDecl", "ConstDefList", "BType", "ConstDef", "VarDecl", "VarDefList", "VarDef",
   "ArrayExpList", "InitVal", "InitValList", "CommaInitValList", "ExpList", "CommaExpList", "FuncFParam",
   "FParamList", "CommaFParamList", "FuncDef", "Block", "BlockItemList", "BlockItem", "Stmt", "IfStmt", "OptionRet",
   "LVal", "Exp", "RelExp", "EqExp", "LAndExp", "LOrExp", "CondExp", "Number",
   "IDENTIFIER", "INTCONST", "FLOATCONST", "STRINGCONST"}

Moved(symbol, value) == IF symbol \in Valued THEN value ELSE Null

-----------------------------------------------------------------------------
(* The tables.                                                               *)
Kind(token) == CHOOSE k \in 0 .. YYNTOKENS - 1 : yytname[k + 1] = token

\* Whether the row of state has an entry of its own for a symbol.
Has(state, kind) ==
  LET yyn == yypact[state + 1] + kind
  IN  /\ yypact[state + 1] # yypact_ninf
      /\ yyn \in 0 .. yylast
      /\ yycheck[yyn + 1] = kind
Entry(state, kind) == yytable[yypact[state + 1] + kind + 1]

\* Mutant: an entry that belongs to another state is taken.
GotoUnchecked(state, symbol) ==
  LET yyr == yypgoto[symbol - YYNTOKENS + 1] + state
  IN  IF yyr \in 0 .. yylast THEN yytable[yyr + 1] ELSE yydefgoto[symbol - YYNTOKENS + 1]

yy_lr_goto_state(state, symbol) ==
  LET yyr == yypgoto[symbol - YYNTOKENS + 1] + state
  IN  IF yyr \in 0 .. yylast /\ yycheck[yyr + 1] = state THEN yytable[yyr + 1]
      ELSE yydefgoto[symbol - YYNTOKENS + 1]

(* No state shifts the error token: an error pops the whole stack.           *)
ShiftsError(state) == Has(state, 1) /\ Entry(state, 1) > 0
ASSUME NoRecovery == \A state \in 0 .. Len(yypact) - 1 : ~ShiftsError(state)

-----------------------------------------------------------------------------
Init ==
  /\ yystack = <<Slot(0, NoToken)>>
  /\ yyla = NoToken
  /\ input = <<>>
  /\ context \in Contexts
  /\ pending = context.before
  /\ left = context.max
  /\ root = Null
  /\ result = "none"

Top == yystack[1].state
Running == result = "none"
NeedsToken == yypact[Top + 1] # yypact_ninf /\ yyla = NoToken
Decided == Has(Top, Kind(yyla.tag))

(* The rule to reduce by, 0 for an error, -1 if the next token is shifted.   *)
Decision ==
  IF yyla # NoToken /\ Decided
  THEN LET yyn == Entry(Top, Kind(yyla.tag))
       IN  IF yyn > 0 THEN -1 ELSE IF yyn = yytable_ninf THEN 0 ELSE -yyn
  ELSE yydefact[Top + 1]

(* yylex.                                                                    *)
Take(chunk) ==
  /\ yyla' = Leaf(chunk[1], Len(input) + 1)
  /\ input' = Append(input, chunk[1])
  /\ pending' = Tail(chunk)

ReadToken ==
  /\ Running /\ NeedsToken
  /\ \/ pending # <<>> /\ Take(pending) /\ left' = left
     \/ pending = <<>> /\ left > 0 /\ left' = left - 1 /\ \E chunk \in context.chunks : Take(chunk)
     \/ pending = <<>> /\ left >= 0 /\ left' = -1 /\ Take(context.after)
  /\ UNCHANGED <<yystack, context, root, result>>

Shift ==
  /\ Running /\ ~NeedsToken
  /\ Decision = -1
  /\ yystack' = <<Slot(Entry(Top, Kind(yyla.tag)), Moved(yyla.tag, yyla))>> \o yystack
  /\ yyla' = NoToken
  /\ UNCHANGED <<input, pending, left, context, root, result>>

Popped(rule) == LET n == yyr2[rule + 1] IN [k \in 1 .. n |-> yystack[n + 1 - k]]

Reduce ==
  /\ Running /\ ~NeedsToken
  /\ Decision > 0 /\ Decision # 2
  /\ LET rule == Decision
         rest == SubSeq(yystack, yyr2[rule + 1] + 1, Len(yystack))
         v == [k \in DOMAIN Popped(rule) |-> Popped(rule)[k].value]
         symbol == yyr1[rule + 1]
     IN  yystack' = <<Slot(yy_lr_goto_state(rest[1].state, symbol), Moved(yytname[symbol + 1], Value(rule, v)))>>
                      \o rest
  /\ UNCHANGED <<yyla, input, pending, left, context, root, result>>

(* The action of rule 2 returns: its handle stays on the stack, which is     *)
(* never cleared, and yyfinal is never reached.                              *)
Accept ==
  /\ Running /\ ~NeedsToken
  /\ Decision = 2
  /\ root' = yystack[2].value
  /\ result' = "accepted"
  /\ UNCHANGED <<yystack, yyla, input, pending, left, context>>

SyntaxError ==
  /\ Running /\ ~NeedsToken
  /\ Decision = 0
  /\ yystack' = <<yystack[Len(yystack)]>>
  /\ yyla' = NoToken
  /\ result' = "aborted"
  /\ UNCHANGED <<input, pending, left, context, root>>

Next == ReadToken \/ Shift \/ Reduce \/ Accept \/ SyntaxError

Spec == Init /\ [][Next]_vars

-----------------------------------------------------------------------------
(* Properties.                                                               *)

\* Every state is one of the tables, and every token read has a kind.
TypeOK ==
  /\ \A k \in DOMAIN yystack : yystack[k].state \in 0 .. Len(yypact) - 1
  /\ yyla.tag \in {yytname[k] : k \in 1 .. YYNTOKENS} \cup {"empty"}

(* The tables are those of the grammar: the symbols popped by a reduction    *)
(* are the right-hand side of its rule, whatever path led to the state (the  *)
(* values are read from variants whose type only the rule promises), and     *)
(* the state that follows stands for the left-hand side.                     *)
HandlesPopped ==
  Running /\ ~NeedsToken /\ Decision > 0 =>
    LET rule == Rules[Decision] IN
    /\ Len(yystack) > Len(rule.rhs)
    /\ [k \in DOMAIN Popped(Decision) |-> yytname[yystos[Popped(Decision)[k].state + 1] + 1]] = rule.rhs
    /\ yytname[yyr1[Decision + 1] + 1] = rule.lhs

\* Both, of the stack in parse.
StackSound == TypeOK /\ HandlesPopped

(* A program is accepted exactly if it is one, with the tree its text means: *)
(* precedences, the side operators group to, the if an else belongs to, the  *)
(* order of lists.  A program that is none is refused at the first token     *)
(* that cannot follow, before any more are read, and leaves no tree.         *)
ParsedAsWritten ==
  /\ result = "accepted" => Reading(input) = Good(Len(input) + 1, root)
  /\ result = "aborted" => Reading(input) = Wrong(Len(input)) /\ root = Null

(* The printer writes every tree the parser makes so that it can be told     *)
(* from every other.                                                         *)
PrintedAsParsed == result = "accepted" => ReadsBack(root)

TreesExact == ParsedAsWritten /\ PrintedAsParsed
=============================================================================
