---------------------------- MODULE Expressions ----------------------------
(***************************************************************************)
(* Types, constant folding and conversions of expressions: what IRBuilder  *)
(* makes of an expression and what SyntaxTreeChecker thinks its type is.   *)
(* Both visit the tree bottom up, so a state is a stack with one entry for *)
(* each finished subexpression, and an action is one visit.  Beside the    *)
(* builder's value an entry has the value the source expression means      *)
(* (mean), by the usual rules of the language: both operands int, or both  *)
(* converted to float.                                                     *)
(*                                                                         *)
(* An int is a word of Width bits.  A float is a number of halves; its     *)
(* rounding is the same at compile time and at run time and FloatOp stands *)
(* for it.  The value of a variable at run time is chosen when it is read. *)
(* A LVal that names a constant is the same as a literal.                  *)
(***************************************************************************)
EXTENDS Integers, SequencesExt

CONSTANTS Width,       \* bits of an int
          IntValues,   \* ints that literals and variables have, of Words
          FloatValues, \* floats, in halves
          MaxVisits    \* bound on the size of an expression

VARIABLES
    stack,    \* finished subexpressions
    emitted,  \* instructions made by the last visit
    errors,   \* what the last visit ended in: checker "rejects", builder "exits", "crashes"
    visits    \* number of visits

vars == <<stack, emitted, errors, visits>>

Half == 2 ^ (Width - 1)
Words == -Half .. Half - 1
Wrap(n) == ((n + Half) % (2 * Half)) - Half

Quot(a, b) == LET q == (IF a < 0 THEN -a ELSE a) \div (IF b < 0 THEN -b ELSE b)
              IN  IF (a < 0) = (b < 0) THEN q ELSE -q

(* A division that traps, in the compiler or in the program.               *)
Traps(op, a, b) == op \in {"/", "%"} /\ (b = 0 \/ (a = -Half /\ b = -1))

IntOp(op, a, b) ==
    CASE op = "+" -> Wrap(a + b)
      [] op = "-" -> Wrap(a - b)
      [] op = "*" -> Wrap(a * b)
      [] op = "/" -> IF Traps(op, a, b) THEN 0 ELSE Quot(a, b)
      [] op = "%" -> IF Traps(op, a, b) THEN 0 ELSE a - b * Quot(a, b)

FloatOp(op, a, b) ==
    CASE op = "+" -> a + b
      [] op = "-" -> a - b
      [] op = "*" -> Quot(a * b, 2)
      [] op = "/" -> IF b = 0 THEN 0 ELSE Quot(2 * a, b)

ToFloat(i) == 2 * i
ToInt(f) == Quot(f, 2)
Fits(f) == ToInt(f) \in Words    \* otherwise the conversion is undefined

Compare(op, a, b) ==
    LET holds == CASE op = "<" -> a < b [] op = "<=" -> a <= b [] op = ">" -> a > b
                   [] op = ">=" -> a >= b [] op = "==" -> a = b [] op = "!=" -> a # b
    IN  IF holds THEN 1 ELSE 0

(* The sizes and values the module is meant for: 1 is a word too, since it *)
(* is what a comparison gives.                                             *)
Parameters ==
    /\ Half \in Nat /\ Half > 1
    /\ IntValues \subseteq Words
    /\ FloatValues \subseteq Int
    /\ MaxVisits \in Nat

ASSUME ParametersAssumption == Parameters

BinOps == {"+", "-", "*", "/", "%"}
CondOps == {"<", "<=", ">", ">=", "==", "!="}

-----------------------------------------------------------------------------
(* What the source means: a type, a value and whether it is defined.       *)
Meaning(ty, val, def) == [ty |-> ty, val |-> val, def |-> def]

MeantAs(m, ty) ==
    IF m.ty = ty THEN m
    ELSE IF ty = "float" THEN Meaning(ty, ToFloat(m.val), m.def)
    ELSE Meaning(ty, ToInt(m.val), m.def /\ Fits(m.val))

Common(l, r) == IF l.ty = "i32" /\ r.ty = "i32" THEN "i32" ELSE "float"

MeanBinary(op, l, r) ==
    LET ty == Common(l, r)
        a == MeantAs(l, ty).val
        b == MeantAs(r, ty).val
    IN  IF ty = "i32" THEN Meaning(ty, IntOp(op, a, b), l.def /\ r.def /\ ~Traps(op, a, b))
        ELSE IF op = "%" THEN Meaning(ty, 0, FALSE)
        ELSE Meaning(ty, FloatOp(op, a, b), l.def /\ r.def)

MeanCompare(op, l, r) ==
    LET ty == Common(l, r)
    IN  Meaning("i32", Compare(op, MeantAs(l, ty).val, MeantAs(r, ty).val), l.def /\ r.def)

-----------------------------------------------------------------------------
(* The builder's values: a type, whether it is a Constant, the value it    *)
(* has at run time.                                                        *)
Val(ty, con, val) == [ty |-> ty, con |-> con, val |-> val]

(* An instruction, by its kind and the types of its operands.              *)
Instr(kind, args) == [kind |-> kind, args |-> args]

SiToFp(v) == Val("float", FALSE, ToFloat(v.val))
FpToSi(v) == Val("i32", FALSE, ToInt(v.val))

\* Mutant: only the left operand is converted.
MatchTypeLeft(l, r) ==
    IF l.ty = "i32" /\ r.ty # "i32"
    THEN [l |-> SiToFp(l), r |-> r, both_int |-> FALSE, code |-> <<Instr("sitofp", <<l.ty>>)>>]
    ELSE [l |-> l, r |-> r, both_int |-> l.ty = "i32" /\ r.ty = "i32", code |-> << >>]

(* match_type: the operands and the conversions made for them.             *)
MatchType(l, r) ==
    IF l.ty = r.ty THEN [l |-> l, r |-> r, both_int |-> l.ty = "i32", code |-> << >>]
    ELSE IF l.ty = "i32"
    THEN [l |-> SiToFp(l), r |-> r, both_int |-> FALSE, code |-> <<Instr("sitofp", <<l.ty>>)>>]
    ELSE [l |-> l, r |-> SiToFp(r), both_int |-> FALSE, code |-> <<Instr("sitofp", <<r.ty>>)>>]

AsFloat(v) == IF v.ty = "i32" THEN ToFloat(v.val) ELSE v.val

(* Both operands are constants: the compiler computes.                     *)
Fold(op, l, r) ==
    IF l.ty = "i32" /\ r.ty = "i32" THEN Val("i32", TRUE, IntOp(op, l.val, r.val))
    ELSE Val("float", TRUE, IF op = "%" THEN 0 ELSE FloatOp(op, AsFloat(l), AsFloat(r)))

(* Otherwise an instruction computes, on operands of one type.             *)
Binary(op, l, r) ==
    LET m == MatchType(l, r)
    IN  IF m.both_int
        THEN [val |-> Val("i32", FALSE, IntOp(op, m.l.val, m.r.val)),
              code |-> Append(m.code, Instr("int", <<m.l.ty, m.r.ty>>))]
        ELSE [val |-> Val("float", FALSE, IF op = "%" THEN 0 ELSE FloatOp(op, m.l.val, m.r.val)),
              code |-> Append(m.code, Instr("float", <<m.l.ty, m.r.ty>>))]

ComparedTo(op, l, r) ==
    LET m == MatchType(l, r)
    IN  [val |-> Val("i32", FALSE, Compare(op, m.l.val, m.r.val)),
         code |-> m.code \o <<Instr(IF m.both_int THEN "int" ELSE "float", <<m.l.ty, m.r.ty>>),
                              Instr("zext", <<"i1">>)>>]

Negated(v) ==
    IF v.con THEN [val |-> Val(v.ty, TRUE, IF v.ty = "i32" THEN Wrap(0 - v.val) ELSE 0 - v.val),
                   code |-> << >>]
    ELSE Binary("-", Val(v.ty, TRUE, 0), v)

(* InitVal converts a constant to the type of the variable it initialises. *)
InitVal(v, ty) ==
    IF ~v.con \/ v.ty = ty THEN v
    ELSE Val(ty, TRUE, IF ty = "i32" THEN ToInt(v.val) ELSE ToFloat(v.val))

(* AssignStmt, VarDef and ReturnStmt convert with an instruction.          *)
Stored(v, ty) ==
    IF v.ty = ty THEN [val |-> v, code |-> <<Instr("store", <<v.ty, ty>>)>>]
    ELSE IF ty = "i32" THEN [val |-> FpToSi(v), code |-> <<Instr("fptosi", <<v.ty>>), Instr("store", <<"i32", ty>>)>>]
    ELSE [val |-> SiToFp(v), code |-> <<Instr("sitofp", <<v.ty>>), Instr("store", <<"float", ty>>)>>]

(* FuncCallStmt converts a constant in the compiler, else as above.        *)
Argument(v, ty) ==
    IF v.ty = ty THEN [val |-> v, code |-> << >>]
    ELSE IF v.con THEN [val |-> InitVal(v, ty), code |-> << >>]
    ELSE [val |-> Stored(v, ty).val, code |-> <<Stored(v, ty).code[1]>>]

-----------------------------------------------------------------------------
Init == stack = << >> /\ emitted = << >> /\ errors = {} /\ visits = 0

Entry(v, expr_int, mean, kind) == [v |-> v, expr_int |-> expr_int, mean |-> mean, kind |-> kind]

(* The builder goes on where the checker, which is optional, rejects.      *)
Visit == errors \cap {"exits", "crashes"} = {} /\ visits < MaxVisits /\ visits' = visits + 1

(* The last k entries are operands and become one entry.                   *)
Operands(k) == Len(stack) >= k
Reduce(k, e, code, errs) ==
    /\ stack' = Append(SubSeq(stack, 1, Len(stack) - k), e)
    /\ emitted' = code
    /\ errors' = errs
Nth(k) == stack[Len(stack) - k]      \* 0 is the last
IsExp(e) == e.kind = "exp"           \* not a comparison or a finished statement

Leaf(ty, con, val) ==
    /\ \A i \in DOMAIN stack : stack[i].kind # "done"
    /\ Visit
    /\ Reduce(0, Entry(Val(ty, con, val), ty = "i32", Meaning(ty, val, TRUE), "exp"), << >>, {})

Literal == \/ \E n \in IntValues : Leaf("i32", TRUE, n)
           \/ \E f \in FloatValues : Leaf("float", TRUE, f)
LVal == \/ \E n \in IntValues : Leaf("i32", FALSE, n)
        \/ \E f \in FloatValues : Leaf("float", FALSE, f)

UnaryExpr(op) ==
    LET e == Nth(0)
        neg == Negated(e.v)
    IN  /\ Operands(1) /\ IsExp(e) /\ Visit
        /\ IF op = "-"
           THEN Reduce(1, Entry(neg.val, e.expr_int,
                                MeanBinary("-", Meaning(e.mean.ty, 0, TRUE), e.mean), "exp"), neg.code, {})
           ELSE Reduce(1, e, << >>, {})

(* ! x: the checker leaves Expr_int as x set it.                           *)
UnaryCondExpr ==
    LET e == Nth(0)
        not == ComparedTo("==", e.v, Val(e.v.ty, TRUE, 0))
    IN  /\ Operands(1) /\ IsExp(e) /\ Visit
        /\ Reduce(1, Entry(not.val, e.expr_int,
                           MeanCompare("==", e.mean, Meaning(e.mean.ty, 0, TRUE)), "exp"), not.code, {})

\* Mutant: only the left operand counts.
RejectsLeftOnly(l, r) == ~l.expr_int

(* The checker's rule for %, and the type it gives to the result.          *)
Rejects(l, r) == ~(l.expr_int /\ r.expr_int)
IntIfBoth(l, r) == l.expr_int /\ r.expr_int

BinaryExpr(op) ==
    LET l == Nth(1)
        r == Nth(0)
        folds == l.v.con /\ r.v.con
        ints == l.v.ty = "i32" /\ r.v.ty = "i32"
        b == Binary(op, l.v, r.v)
    IN  /\ Operands(2) /\ IsExp(l) /\ IsExp(r) /\ Visit
        /\ Reduce(2, Entry(IF folds THEN Fold(op, l.v, r.v) ELSE b.val,
                           IntIfBoth(l, r), MeanBinary(op, l.mean, r.mean), "exp"),
                  IF folds THEN << >> ELSE b.code,
                  (IF op = "%" /\ Rejects(l, r) THEN {"rejects"} ELSE {})
                  \cup (IF op = "%" /\ ~ints THEN {"exits"} ELSE {})
                  \cup (IF folds /\ ints /\ Traps(op, l.v.val, r.v.val) THEN {"crashes"} ELSE {}))

(* A comparison; it may be an operand of a comparison only.                *)
BinaryCondExpr(op) ==
    LET l == Nth(1)
        r == Nth(0)
        c == ComparedTo(op, l.v, r.v)
    IN  /\ Operands(2) /\ l.kind # "done" /\ r.kind # "done" /\ Visit
        /\ Reduce(2, Entry(c.val, r.expr_int, MeanCompare(op, l.mean, r.mean), "cond"), c.code, {})

(* A call of a function with one parameter, which returns it, converted to *)
(* the type it returns.                                                    *)
FuncCallStmt(param, ret) ==
    LET e == Nth(0)
        arg == Argument(e.v, param)
        got == Stored(arg.val, ret).val
    IN  /\ Operands(1) /\ IsExp(e) /\ Visit
        /\ Reduce(1, Entry(Val(ret, FALSE, got.val), ret = "i32",
                           MeantAs(MeantAs(e.mean, param), ret), "exp"),
                  Append(arg.code, Instr("call", <<arg.val.ty, param>>)),
                  IF e.expr_int # (param = "i32") THEN {"rejects"} ELSE {})

(* The value is stored in a variable or in the return slot.                *)
Store(ty, init) ==
    LET e == Nth(0)
        s == Stored(IF init THEN InitVal(e.v, ty) ELSE e.v, ty)
    IN  /\ Len(stack) = 1 /\ IsExp(e) /\ Visit
        /\ Reduce(1, Entry(s.val, e.expr_int, MeantAs(e.mean, ty), "done"), s.code, {})

(* The value decides a branch, if it is not zero.                          *)
Branch ==
    LET e == Nth(0)
    IN  /\ Len(stack) = 1 /\ e.kind # "done" /\ Visit
        /\ Reduce(1, Entry(Val("i1", FALSE, Compare("!=", e.v.val, 0)), e.expr_int,
                           [MeanCompare("!=", e.mean, Meaning(e.mean.ty, 0, TRUE)) EXCEPT !.ty = "i1"],
                           "done"),
                  <<Instr(IF e.v.ty = "i32" THEN "int" ELSE "float", <<e.v.ty, e.v.ty>>)>>, {})

Next ==
    \/ Literal
    \/ LVal
    \/ \E op \in {"+", "-"} : UnaryExpr(op)
    \/ UnaryCondExpr
    \/ \E op \in BinOps : BinaryExpr(op)
    \/ \E op \in CondOps : BinaryCondExpr(op)
    \/ \E param, ret \in {"i32", "float"} : FuncCallStmt(param, ret)
    \/ \E ty \in {"i32", "float"}, init \in BOOLEAN : Store(ty, init)
    \/ Branch

Spec == Init /\ [][Next]_vars

-----------------------------------------------------------------------------
(* Types of the variables; an int of the program is a word.                *)
TypeOK ==
    /\ visits \in 0 .. MaxVisits
    /\ errors \subseteq {"rejects", "exits", "crashes"}
    /\ \A i \in DOMAIN stack :
          /\ stack[i].v.ty \in {"i32", "float", "i1"}
          /\ stack[i].kind \in {"exp", "cond", "done"}
          /\ stack[i].mean.def /\ stack[i].v.ty = "i32" => stack[i].v.val \in Words

(* Whatever is folded, converted or left to instructions, an expression    *)
(* that is defined has the type and the value the source gives it; a       *)
(* branch goes the way the source says (IRBuilder 58-73, 570-581, 626-849, *)
(* 361-364, 442-446, 539-543, 868-873).                                    *)
MeansSame ==
    errors \cap {"exits", "crashes"} = {} =>
        \A i \in DOMAIN stack :
            stack[i].mean.def => /\ stack[i].v.ty = stack[i].mean.ty
                                 /\ stack[i].v.val = stack[i].mean.val

(* Every instruction gets operands of the type it works on.                *)
OfItsTypes(instr) ==
    LET args == instr.args
    IN  CASE instr.kind \in {"int", "sitofp"} -> \A k \in DOMAIN args : args[k] = "i32"
          [] instr.kind \in {"float", "fptosi"} -> \A k \in DOMAIN args : args[k] = "float"
          [] instr.kind = "zext" -> args = <<"i1">>
          [] instr.kind \in {"store", "call"} -> args[1] = args[2]

WellTyped == \A i \in DOMAIN emitted : OfItsTypes(emitted[i])

(* The compiler stops while it folds (IRBuilder 740, 747, 749, 789) only   *)
(* where the program has no meaning: it traps only on a division that is   *)
(* undefined, and it meets a float operand of % only if the checker has    *)
(* rejected the program.                                                   *)
StopsJustified ==
    /\ "crashes" \in errors => ~Nth(0).mean.def
    /\ "exits" \in errors => "rejects" \in errors

(* The checker's idea of the type is never int for a float.                *)
CheckerSound == \A i \in DOMAIN stack : stack[i].expr_int /\ stack[i].kind = "exp" => stack[i].v.ty = "i32"

(* What is computed, and where it is not.                                  *)
ValuesSound == TypeOK /\ MeansSame /\ WellTyped
StopsSound == StopsJustified /\ CheckerSound
=============================================================================
