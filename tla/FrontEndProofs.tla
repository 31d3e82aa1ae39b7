--------------------------- MODULE FrontEndProofs ---------------------------
(***************************************************************************)
(* Proofs about Expressions, for words of any size, any literals and trees *)
(* of any size: what is computed in the compiler or at run time is what    *)
(* the source means, and the compiler stops only where it may.  Then about *)
(* Scopes, for programs of any length and nesting: the builder resolves a  *)
(* name as the checker did, and builds what the checker lets pass.         *)
(***************************************************************************)
EXTENDS Expressions, Scopes, SequenceTheorems, FiniteSetTheorems, TLAPS

Numeric == {"i32", "float"}
Types == Numeric \cup {"i1"}

Vals == [ty : Types, con : BOOLEAN, val : Int]
Meanings == [ty : Types, val : Int, def : BOOLEAN]
InstrKinds == {"sitofp", "fptosi", "zext", "int", "float", "store", "call"}
Instrs == {i \in [kind : InstrKinds, args : Seq(Types)] : OfItsTypes(i)}

\* A value of the builder is the one the source means, if it means one; an int
\* is then a word.
Means(v, m) == v.ty = m.ty /\ (m.def => v.val = m.val /\ (v.ty = "i32" => v.val \in Words))

\* What holds of each finished subexpression.
Sound(e) ==
    /\ Means(e.v, e.mean)
    /\ e.kind # "done" => e.v.ty \in Numeric
    /\ e.expr_int /\ e.kind = "exp" => e.v.ty = "i32"

Entries == [v : Vals, expr_int : BOOLEAN, mean : Meanings, kind : {"exp", "cond", "done"}]
SoundEntries == {e \in Entries : Sound(e)}

Inv ==
    /\ visits \in 0 .. MaxVisits
    /\ errors \subseteq {"rejects", "exits", "crashes"}
    /\ stack \in Seq(SoundEntries)
    /\ emitted \in Seq(Instrs)
    /\ StopsJustified

-----------------------------------------------------------------------------
(* Arithmetic.                                                             *)

LEMMA DivFacts ==
    \A c \in Nat, d \in Nat : d > 0 =>
        /\ c \div d \in Nat /\ c % d \in Nat
        /\ c = d * (c \div d) + (c % d) /\ c % d < d
        /\ c \div d <= c
        /\ d > 1 /\ c > 0 => c \div d < c
<1> SUFFICES ASSUME NEW c \in Nat, NEW d \in Nat, d > 0
             PROVE  /\ c \div d \in Nat /\ c % d \in Nat
                    /\ c = d * (c \div d) + (c % d) /\ c % d < d
                    /\ c \div d <= c
                    /\ d > 1 /\ c > 0 => c \div d < c
    OBVIOUS
<1>1. c \div d \in Int /\ c % d \in Int /\ 0 <= c % d /\ c % d < d /\ c = d * (c \div d) + (c % d)
    OBVIOUS
<1>2. c \div d >= 0
    BY <1>1
<1>3. c \div d <= c
    BY <1>1, <1>2
<1>4. d > 1 /\ c > 0 => c \div d < c
    BY <1>1, <1>2
<1> QED BY <1>1, <1>2, <1>3, <1>4

LEMMA WrapWord == ASSUME Parameters PROVE \A n \in Int : Wrap(n) \in Words
<1> SUFFICES ASSUME NEW n \in Int PROVE Wrap(n) \in Words
    OBVIOUS
<1> Half \in Nat /\ Half > 1
    BY DEF Parameters
<1>1. \A c \in Int, d \in Nat : d > 0 => c % d \in Int /\ 0 <= c % d /\ c % d < d
    OBVIOUS
<1> HIDE DEF Half
<1>2. 2 * Half \in Nat /\ 2 * Half > 0 /\ n + Half \in Int
    OBVIOUS
<1>3. (n + Half) % (2 * Half) \in Int /\ 0 <= (n + Half) % (2 * Half) /\ (n + Half) % (2 * Half) < 2 * Half
    BY <1>1, <1>2
<1> QED BY <1>3 DEF Wrap, Words

Abs(a) == IF a < 0 THEN -a ELSE a

LEMMA QuotAbs ==
    \A a, b \in Int : b # 0 =>
        /\ Abs(a) \in Nat /\ Abs(b) \in Nat /\ Abs(b) > 0
        /\ Abs(a) \div Abs(b) \in Nat
        /\ Quot(a, b) = IF (a < 0) = (b < 0) THEN Abs(a) \div Abs(b) ELSE -(Abs(a) \div Abs(b))
        /\ Quot(a, b) \in Int
<1> SUFFICES ASSUME NEW a \in Int, NEW b \in Int, b # 0
             PROVE  /\ Abs(a) \in Nat /\ Abs(b) \in Nat /\ Abs(b) > 0
                    /\ Abs(a) \div Abs(b) \in Nat
                    /\ Quot(a, b) = IF (a < 0) = (b < 0) THEN Abs(a) \div Abs(b) ELSE -(Abs(a) \div Abs(b))
                    /\ Quot(a, b) \in Int
    OBVIOUS
<1>1. Abs(a) \in Nat /\ Abs(b) \in Nat /\ Abs(b) > 0
    BY DEF Abs
<1>2. Abs(a) \div Abs(b) \in Nat
    BY <1>1, DivFacts
<1>3. Quot(a, b) = IF (a < 0) = (b < 0) THEN Abs(a) \div Abs(b) ELSE -(Abs(a) \div Abs(b))
    BY DEF Quot, Abs
<1> QED BY <1>1, <1>2, <1>3

\* A quotient and a remainder of words that do not trap are words.
LEMMA QuotWord ==
    ASSUME Parameters, NEW a \in Words, NEW b \in Words, b # 0, ~(a = -Half /\ b = -1)
    PROVE  Quot(a, b) \in Words /\ a - b * Quot(a, b) \in Words
<1> Half \in Nat /\ Half > 1
    BY DEF Parameters
<1> HIDE DEF Half
<1>1. a \in Int /\ b \in Int /\ -Half <= a /\ a < Half /\ -Half <= b /\ b < Half
    BY DEF Words
<1> DEFINE c == Abs(a)
           d == Abs(b)
           q == c \div d
           m == c % d
<1>2. /\ c \in Nat /\ d \in Nat /\ d > 0 /\ q \in Nat
      /\ Quot(a, b) = IF (a < 0) = (b < 0) THEN q ELSE -q
    BY <1>1, QuotAbs
<1>3. m \in Nat /\ c = d * q + m /\ m < d /\ q <= c /\ (d > 1 /\ c > 0 => q < c)
    BY <1>2, DivFacts
<1>4. c <= Half /\ d <= Half
    BY <1>1 DEF Abs
<1>5. (a = c \/ a = -c) /\ (b = d \/ b = -d) /\ (a < 0 => a = -c) /\ (~(a < 0) => a = c)
      /\ (b < 0 => b = -d) /\ (~(b < 0) => b = d)
    BY <1>1 DEF Abs
<1>6. b * Quot(a, b) = IF a < 0 THEN -(d * q) ELSE d * q
    <2> HIDE DEF c, d, q
    <2>1. (-d) * q = -(d * q) /\ d * (-q) = -(d * q) /\ (-d) * (-q) = d * q
        BY <1>2
    <2> QED BY <2>1, <1>1, <1>2, <1>5
<1>7. a - b * Quot(a, b) = IF a < 0 THEN -m ELSE m
    <2> HIDE DEF c, d, q, m
    <2>1. d * q \in Int
        BY <1>2
    <2> QED BY <2>1, <1>2, <1>3, <1>5, <1>6
<1>8. a - b * Quot(a, b) \in Words
    <2> HIDE DEF c, d, q, m
    <2> QED BY <1>1, <1>3, <1>4, <1>7, <1>2 DEF Words
<1>9. Quot(a, b) \in Words
    <2> HIDE DEF c, d, q, m
    <2>1. CASE c = 0
        BY <2>1, <1>2, <1>3 DEF Words
    <2>2. CASE d > 1
        BY <2>2, <1>1, <1>2, <1>3, <1>4 DEF Words
    <2>3. CASE d = 1 /\ c > 0
        <3>1. q = c
            BY <2>3, <1>2, <1>3
        <3> QED BY <2>3, <3>1, <1>1, <1>2, <1>4, <1>5 DEF Words
    <2> QED BY <2>1, <2>2, <2>3, <1>2
<1> QED BY <1>8, <1>9

LEMMA IntOpFacts ==
    ASSUME Parameters, NEW op \in BinOps, NEW a \in Int, NEW b \in Int
    PROVE  /\ IntOp(op, a, b) \in Int
           /\ a \in Words /\ b \in Words => IntOp(op, a, b) \in Words
<1> Half \in Nat /\ Half > 1
    BY DEF Parameters
<1> HIDE DEF Half
<1>1. Words \subseteq Int /\ 0 \in Words
    BY DEF Words
<1>2. CASE op \in {"+", "-", "*"}
    <2>1. Wrap(a + b) \in Words /\ Wrap(a - b) \in Words /\ Wrap(a * b) \in Words
        BY WrapWord
    <2> QED BY <2>1, <1>1, <1>2 DEF IntOp
<1>3. CASE op = "/"
    <2>1. IntOp(op, a, b) = IF Traps(op, a, b) THEN 0 ELSE Quot(a, b)
        BY <1>3 DEF IntOp
    <2>2. ~Traps(op, a, b) => b # 0 /\ ~(a = -Half /\ b = -1)
        BY <1>3 DEF Traps
    <2>3. ~Traps(op, a, b) => Quot(a, b) \in Int
        BY <2>2, QuotAbs
    <2>4. ~Traps(op, a, b) /\ a \in Words /\ b \in Words => Quot(a, b) \in Words
        BY <2>2, QuotWord
    <2> QED BY <2>1, <2>3, <2>4, <1>1
<1>4. CASE op = "%"
    <2>1. IntOp(op, a, b) = IF Traps(op, a, b) THEN 0 ELSE a - b * Quot(a, b)
        BY <1>4 DEF IntOp
    <2>2. ~Traps(op, a, b) => b # 0 /\ ~(a = -Half /\ b = -1)
        BY <1>4 DEF Traps
    <2>3. ~Traps(op, a, b) => a - b * Quot(a, b) \in Int
        BY <2>2, QuotAbs
    <2>4. ~Traps(op, a, b) /\ a \in Words /\ b \in Words => a - b * Quot(a, b) \in Words
        BY <2>2, QuotWord
    <2> QED BY <2>1, <2>3, <2>4, <1>1
<1> QED BY <1>2, <1>3, <1>4 DEF BinOps

LEMMA FloatOpInt ==
    ASSUME NEW op \in BinOps \ {"%"}, NEW a \in Int, NEW b \in Int
    PROVE  FloatOp(op, a, b) \in Int
<1>1. CASE op \in {"+", "-"}
    BY <1>1 DEF FloatOp
<1>2. CASE op = "*"
    <2>1. a * b \in Int
        OBVIOUS
    <2>2. Quot(a * b, 2) \in Int
        BY <2>1, QuotAbs
    <2> QED BY <1>2, <2>2 DEF FloatOp
<1>3. CASE op = "/"
    <2>1. b # 0 => Quot(2 * a, b) \in Int
        BY QuotAbs
    <2> QED BY <1>3, <2>1 DEF FloatOp
<1> QED BY <1>1, <1>2, <1>3 DEF BinOps

LEMMA Conversions ==
    \A n \in Int : ToFloat(n) \in Int /\ ToInt(n) \in Int
BY QuotAbs DEF ToFloat, ToInt

LEMMA CompareWord ==
    ASSUME Parameters
    PROVE  \A op, a, b : Compare(op, a, b) \in Int /\ Compare(op, a, b) \in Words
<1> Half \in Nat /\ Half > 1
    BY DEF Parameters
<1> HIDE DEF Half
<1>1. 0 \in Words /\ 1 \in Words
    BY DEF Words
<1>2. \A op, a, b : Compare(op, a, b) \in {0, 1}
    BY DEF Compare
<1> QED BY <1>1, <1>2

-----------------------------------------------------------------------------
(* The operators of the builder and what they stand for.                   *)

LEMMA MeantAsType ==
    ASSUME NEW m \in Meanings, NEW ty \in Numeric
    PROVE  MeantAs(m, ty) \in Meanings /\ MeantAs(m, ty).ty = ty
<1>1. Fits(m.val) \in BOOLEAN
    BY DEF Fits
<1>2. m.val \in Int /\ m.def \in BOOLEAN /\ m.ty \in Types
    BY DEF Meanings
<1>3. ToFloat(m.val) \in Int /\ ToInt(m.val) \in Int
    BY <1>2, Conversions
<1> QED BY <1>1, <1>2, <1>3 DEF MeantAs, Meaning, Meanings, Numeric, Types

LEMMA MeanBinaryType ==
    ASSUME Parameters, NEW l \in Meanings, NEW r \in Meanings, NEW op \in BinOps
    PROVE  MeanBinary(op, l, r) \in Meanings
<1> DEFINE ty == Common(l, r)
           a == MeantAs(l, ty).val
           b == MeantAs(r, ty).val
<1>1. ty \in Numeric
    BY DEF Common, Numeric
<1>2. a \in Int /\ b \in Int
    <2> HIDE DEF ty
    <2> QED BY <1>1, MeantAsType DEF Meanings
<1>3. IntOp(op, a, b) \in Int
    <2> HIDE DEF a, b
    <2> QED BY <1>2, IntOpFacts
<1>4. op # "%" => FloatOp(op, a, b) \in Int
    <2> HIDE DEF a, b
    <2> QED BY <1>2, FloatOpInt
<1>5. Traps(op, a, b) \in BOOLEAN /\ l.def \in BOOLEAN /\ r.def \in BOOLEAN
    BY DEF Traps, Meanings
<1>6. MeanBinary(op, l, r) =
        IF ty = "i32" THEN Meaning(ty, IntOp(op, a, b), l.def /\ r.def /\ ~Traps(op, a, b))
        ELSE IF op = "%" THEN Meaning(ty, 0, FALSE)
        ELSE Meaning(ty, FloatOp(op, a, b), l.def /\ r.def)
    BY DEF MeanBinary
<1> HIDE DEF ty, a, b
<1> QED BY <1>1, <1>3, <1>4, <1>5, <1>6 DEF Meaning, Meanings, Numeric, Types

LEMMA MeanCompareType ==
    ASSUME Parameters, NEW l \in Meanings, NEW r \in Meanings, NEW op
    PROVE  MeanCompare(op, l, r) \in Meanings
<1> DEFINE c == Compare(op, MeantAs(l, Common(l, r)).val, MeantAs(r, Common(l, r)).val)
<1>1. c \in Int
    BY CompareWord
<1>2. MeanCompare(op, l, r) = Meaning("i32", c, l.def /\ r.def)
    BY DEF MeanCompare
<1> HIDE DEF c
<1> QED BY <1>1, <1>2 DEF Meaning, Meanings, Numeric, Types

\* The instructions that are made, one for each kind.
LEMMA InstrsMade ==
    /\ Instr("sitofp", <<"i32">>) \in Instrs
    /\ Instr("fptosi", <<"float">>) \in Instrs
    /\ Instr("zext", <<"i1">>) \in Instrs
    /\ Instr("int", <<"i32", "i32">>) \in Instrs
    /\ Instr("float", <<"float", "float">>) \in Instrs
    /\ \A ty \in Types : Instr("store", <<ty, ty>>) \in Instrs /\ Instr("call", <<ty, ty>>) \in Instrs
<1> DEFINE Shape == [kind : InstrKinds, args : Seq(Types)]
<1>1. \A kind \in InstrKinds : \A a \in Types :
        Instr(kind, <<a>>) \in Shape /\ Instr(kind, <<a, a>>) \in Shape
    BY DEF Instr
<1>2. \A ty \in {"i32", "float", "i1"} : ty \in Types
    BY DEF Types, Numeric
<1>3. /\ OfItsTypes(Instr("sitofp", <<"i32">>)) /\ OfItsTypes(Instr("fptosi", <<"float">>))
      /\ OfItsTypes(Instr("zext", <<"i1">>)) /\ OfItsTypes(Instr("int", <<"i32", "i32">>))
      /\ OfItsTypes(Instr("float", <<"float", "float">>))
    BY DEF OfItsTypes, Instr
<1>4. \A ty \in Types : OfItsTypes(Instr("store", <<ty, ty>>)) /\ OfItsTypes(Instr("call", <<ty, ty>>))
    BY DEF OfItsTypes, Instr
<1>5. Instrs = {i \in Shape : OfItsTypes(i)}
    BY DEF Instrs
<1> HIDE DEF Shape
<1> QED BY <1>1, <1>2, <1>3, <1>4, <1>5 DEF InstrKinds

\* The operands after match_type are what the source converts them to.
LEMMA MatchMeans ==
    ASSUME Parameters,
           NEW l \in Vals, NEW r \in Vals, l.ty \in Numeric, r.ty \in Numeric,
           NEW ml \in Meanings, NEW mr \in Meanings, Means(l, ml), Means(r, mr)
    PROVE  LET m == MatchType(l, r)
               ty == Common(ml, mr)
           IN  /\ m.l \in Vals /\ m.r \in Vals /\ m.l.ty = ty /\ m.r.ty = ty /\ ty \in Numeric
               /\ m.both_int <=> ty = "i32"
               /\ ty = "i32" => l.ty = "i32" /\ r.ty = "i32" /\ m.l = l /\ m.r = r
               /\ ml.def => m.l.val = MeantAs(ml, ty).val
               /\ mr.def => m.r.val = MeantAs(mr, ty).val
               /\ m.code \in Seq(Instrs)
<1> USE DEF Numeric
<1> DEFINE toL == [l |-> SiToFp(l), r |-> r, both_int |-> FALSE, code |-> <<Instr("sitofp", <<l.ty>>)>>]
           toR == [l |-> l, r |-> SiToFp(r), both_int |-> FALSE, code |-> <<Instr("sitofp", <<r.ty>>)>>]
<1>1. l.val \in Int /\ r.val \in Int /\ ToFloat(l.val) \in Int /\ ToFloat(r.val) \in Int
    BY Conversions DEF Vals
<1>2. SiToFp(l) = Val("float", FALSE, ToFloat(l.val)) /\ SiToFp(r) = Val("float", FALSE, ToFloat(r.val))
    BY DEF SiToFp
<1>3. SiToFp(l) \in Vals /\ SiToFp(r) \in Vals
    BY <1>1, <1>2 DEF Val, Vals, Types
<1>4. /\ SiToFp(l).ty = "float" /\ SiToFp(l).val = ToFloat(l.val)
      /\ SiToFp(r).ty = "float" /\ SiToFp(r).val = ToFloat(r.val)
    BY <1>2 DEF Val
<1>5. ml.ty = l.ty /\ mr.ty = r.ty /\ (ml.def => ml.val = l.val) /\ (mr.def => mr.val = r.val)
    BY DEF Means
<1>6. CASE l.ty = r.ty
    <2>1. MatchType(l, r) = [l |-> l, r |-> r, both_int |-> l.ty = "i32", code |-> << >>]
        BY <1>6 DEF MatchType
    <2>2. Common(ml, mr) = l.ty
        BY <1>5, <1>6 DEF Common
    <2>3. MeantAs(ml, Common(ml, mr)) = ml /\ MeantAs(mr, Common(ml, mr)) = mr
        BY <1>5, <1>6, <2>2 DEF MeantAs
    <2>7. PICK b \in BOOLEAN : b = (l.ty = "i32")
        OBVIOUS
    <2>8. MatchType(l, r) = [l |-> l, r |-> r, both_int |-> b, code |-> << >>]
        BY <2>1, <2>7, Zenon
    <2>4. MatchType(l, r).l = l /\ MatchType(l, r).r = r /\ MatchType(l, r).code = << >>
        BY <2>8
    <2>6. MatchType(l, r).both_int <=> l.ty = "i32"
        <3>1. MatchType(l, r).both_int = b
            BY <2>8
        <3> QED BY <2>7, <3>1, Zenon
    <2>5. << >> \in Seq(Instrs)
        OBVIOUS
    <2> QED BY <1>5, <1>6, <2>2, <2>3, <2>4, <2>5, <2>6
<1>7. CASE l.ty = "i32" /\ r.ty = "float"
    <2>1. MatchType(l, r) = toL
        BY <1>7 DEF MatchType
    <2>2. Common(ml, mr) = "float"
        BY <1>5, <1>7 DEF Common
    <2>3. MeantAs(ml, Common(ml, mr)).val = ToFloat(ml.val) /\ MeantAs(mr, Common(ml, mr)) = mr
        BY <1>5, <1>7, <2>2 DEF MeantAs, Meaning
    <2>4. toL.code \in Seq(Instrs)
        BY <1>7, InstrsMade
    <2>5. toL.l = SiToFp(l) /\ toL.r = r /\ toL.both_int = FALSE
        OBVIOUS
    <2> HIDE DEF toL
    <2> QED BY <1>3, <1>4, <1>5, <1>7, <2>1, <2>2, <2>3, <2>4, <2>5
<1>8. CASE l.ty = "float" /\ r.ty = "i32"
    <2>1. MatchType(l, r) = toR
        BY <1>8 DEF MatchType
    <2>2. Common(ml, mr) = "float"
        BY <1>5, <1>8 DEF Common
    <2>3. MeantAs(mr, Common(ml, mr)).val = ToFloat(mr.val) /\ MeantAs(ml, Common(ml, mr)) = ml
        BY <1>5, <1>8, <2>2 DEF MeantAs, Meaning
    <2>4. toR.code \in Seq(Instrs)
        BY <1>8, InstrsMade
    <2>5. toR.l = l /\ toR.r = SiToFp(r) /\ toR.both_int = FALSE
        OBVIOUS
    <2> HIDE DEF toR
    <2> QED BY <1>3, <1>4, <1>5, <1>8, <2>1, <2>2, <2>3, <2>4, <2>5
<1> QED BY <1>6, <1>7, <1>8

\* What an instruction computes, in a module where both operands are matched.
LEMMA BinaryMeans ==
    ASSUME Parameters, NEW op \in BinOps,
           NEW l \in Vals, NEW r \in Vals, l.ty \in Numeric, r.ty \in Numeric,
           NEW ml \in Meanings, NEW mr \in Meanings, Means(l, ml), Means(r, mr)
    PROVE  LET b == Binary(op, l, r)
           IN  /\ b.val \in Vals /\ b.val.ty = Common(l, r)
               /\ Means(b.val, MeanBinary(op, ml, mr))
               /\ b.code \in Seq(Instrs)
<1>1. PICK m : m = MatchType(l, r)
    OBVIOUS
<1>2. PICK ty \in Numeric : ty = Common(ml, mr) /\ ty = Common(l, r)
    BY Zenon DEF Means, Common, Numeric
<1>3. /\ m.l \in Vals /\ m.r \in Vals /\ m.l.ty = ty /\ m.r.ty = ty
      /\ m.both_int <=> ty = "i32"
      /\ ty = "i32" => l.ty = "i32" /\ r.ty = "i32" /\ m.l = l /\ m.r = r
      /\ ml.def => m.l.val = MeantAs(ml, ty).val
      /\ mr.def => m.r.val = MeantAs(mr, ty).val
      /\ m.code \in Seq(Instrs)
    <2>1. LET x == MatchType(l, r)
              t == Common(ml, mr)
          IN  /\ x.l \in Vals /\ x.r \in Vals /\ x.l.ty = t /\ x.r.ty = t
              /\ x.both_int <=> t = "i32"
              /\ t = "i32" => l.ty = "i32" /\ r.ty = "i32" /\ x.l = l /\ x.r = r
              /\ ml.def => x.l.val = MeantAs(ml, t).val
              /\ mr.def => x.r.val = MeantAs(mr, t).val
              /\ x.code \in Seq(Instrs)
        BY MatchMeans
    <2> QED BY <1>1, <1>2, <2>1, Zenon
<1>4. m.l.val \in Int /\ m.r.val \in Int
    BY <1>3 DEF Vals
<1>5. CASE ty = "i32"
    <2> DEFINE n == IntOp(op, m.l.val, m.r.val)
    <2>1. n \in Int
        BY <1>4, IntOpFacts
    <2>2. /\ Binary(op, l, r).val = Val("i32", FALSE, n)
          /\ Binary(op, l, r).code = Append(m.code, Instr("int", <<"i32", "i32">>))
        BY <1>1, <1>3, <1>5 DEF Binary
    <2>3. Append(m.code, Instr("int", <<"i32", "i32">>)) \in Seq(Instrs)
        BY <1>3, InstrsMade
    <2>4. ml.def /\ mr.def => ml.val = m.l.val /\ mr.val = m.r.val /\ m.l.val \in Words /\ m.r.val \in Words
        BY <1>3, <1>5 DEF Means
    <2>5. ml.ty = "i32" /\ mr.ty = "i32"
        BY <1>3, <1>5 DEF Means
    <2>6. MeanBinary(op, ml, mr) =
            Meaning("i32", IntOp(op, ml.val, mr.val), ml.def /\ mr.def /\ ~Traps(op, ml.val, mr.val))
        BY <1>2, <1>5, <2>5 DEF MeanBinary, MeantAs
    <2>7. MeanBinary(op, ml, mr).ty = "i32" /\ MeanBinary(op, ml, mr).val = IntOp(op, ml.val, mr.val)
          /\ (MeanBinary(op, ml, mr).def => ml.def /\ mr.def)
        <3>1. PICK d \in BOOLEAN : d = (ml.def /\ mr.def /\ ~Traps(op, ml.val, mr.val))
            OBVIOUS
        <3>2. MeanBinary(op, ml, mr) = Meaning("i32", IntOp(op, ml.val, mr.val), d)
            BY <2>6, <3>1, Zenon
        <3>3. /\ MeanBinary(op, ml, mr).ty = "i32" /\ MeanBinary(op, ml, mr).val = IntOp(op, ml.val, mr.val)
              /\ MeanBinary(op, ml, mr).def = d
            BY <3>2 DEF Meaning
        <3> QED BY <3>1, <3>3, Zenon
    <2>8. ml.def /\ mr.def => n \in Words /\ n = IntOp(op, ml.val, mr.val)
        BY <2>4, <1>4, IntOpFacts
    <2> HIDE DEF n
    <2>9. Val("i32", FALSE, n) \in Vals /\ Val("i32", FALSE, n).ty = "i32" /\ Val("i32", FALSE, n).val = n
        BY <2>1 DEF Val, Vals, Types, Numeric
    <2> QED BY <1>2, <1>5, <2>2, <2>3, <2>7, <2>8, <2>9 DEF Means
<1>6. CASE ty = "float"
    <2> DEFINE n == IF op = "%" THEN 0 ELSE FloatOp(op, m.l.val, m.r.val)
    <2>1. n \in Int
        BY <1>4, FloatOpInt
    <2>2. /\ Binary(op, l, r).val = Val("float", FALSE, n)
          /\ Binary(op, l, r).code = Append(m.code, Instr("float", <<"float", "float">>))
        BY <1>1, <1>3, <1>6 DEF Binary
    <2>3. Append(m.code, Instr("float", <<"float", "float">>)) \in Seq(Instrs)
        BY <1>3, InstrsMade
    <2>4. MeanBinary(op, ml, mr) =
            IF op = "%" THEN Meaning("float", 0, FALSE)
            ELSE Meaning("float", FloatOp(op, MeantAs(ml, ty).val, MeantAs(mr, ty).val), ml.def /\ mr.def)
        BY <1>2, <1>6 DEF MeanBinary
    <2>5. MeanBinary(op, ml, mr).ty = "float"
          /\ (MeanBinary(op, ml, mr).def =>
                op # "%" /\ ml.def /\ mr.def
                /\ MeanBinary(op, ml, mr).val = FloatOp(op, MeantAs(ml, ty).val, MeantAs(mr, ty).val))
        <3>1. PICK d \in BOOLEAN : d = (ml.def /\ mr.def)
            OBVIOUS
        <3>2. CASE op = "%"
            <4>1. MeanBinary(op, ml, mr) = Meaning("float", 0, FALSE)
                BY <2>4, <3>2
            <4>2. MeanBinary(op, ml, mr).ty = "float" /\ MeanBinary(op, ml, mr).def = FALSE
                BY <4>1 DEF Meaning
            <4> QED BY <4>2
        <3>3. CASE op # "%"
            <4>1. MeanBinary(op, ml, mr) = Meaning("float", FloatOp(op, MeantAs(ml, ty).val, MeantAs(mr, ty).val), d)
                BY <2>4, <3>1, <3>3, Zenon
            <4>2. /\ MeanBinary(op, ml, mr).ty = "float" /\ MeanBinary(op, ml, mr).def = d
                  /\ MeanBinary(op, ml, mr).val = FloatOp(op, MeantAs(ml, ty).val, MeantAs(mr, ty).val)
                BY <4>1 DEF Meaning
            <4> QED BY <3>1, <3>3, <4>2, Zenon
        <3> QED BY <3>2, <3>3
    <2>6. ml.def /\ mr.def /\ op # "%" => n = FloatOp(op, MeantAs(ml, ty).val, MeantAs(mr, ty).val)
        BY <1>3
    <2> HIDE DEF n
    <2>7. Val("float", FALSE, n) \in Vals /\ Val("float", FALSE, n).ty = "float" /\ Val("float", FALSE, n).val = n
        BY <2>1 DEF Val, Vals, Types, Numeric
    <2> QED BY <1>2, <1>6, <2>2, <2>3, <2>5, <2>6, <2>7 DEF Means
<1> QED BY <1>5, <1>6 DEF Numeric

\* What the compiler computes of two constants.
LEMMA FoldMeans ==
    ASSUME Parameters, NEW op \in BinOps,
           NEW l \in Vals, NEW r \in Vals, l.ty \in Numeric, r.ty \in Numeric,
           NEW ml \in Meanings, NEW mr \in Meanings, Means(l, ml), Means(r, mr)
    PROVE  /\ Fold(op, l, r) \in Vals /\ Fold(op, l, r).ty = Common(l, r)
           /\ Means(Fold(op, l, r), MeanBinary(op, ml, mr))
<1>1. l.val \in Int /\ r.val \in Int /\ ml.val \in Int /\ mr.val \in Int
    BY DEF Vals, Meanings
<1>2. AsFloat(l) \in Int /\ AsFloat(r) \in Int
    BY <1>1, Conversions DEF AsFloat
<1>3. ml.ty = l.ty /\ mr.ty = r.ty /\ (ml.def => ml.val = l.val) /\ (mr.def => mr.val = r.val)
    BY DEF Means
<1>4. CASE l.ty = "i32" /\ r.ty = "i32"
    <2> DEFINE n == IntOp(op, l.val, r.val)
    <2>1. n \in Int
        BY <1>1, IntOpFacts
    <2>2. Fold(op, l, r) = Val("i32", TRUE, n) /\ Common(l, r) = "i32" /\ Common(ml, mr) = "i32"
        BY <1>3, <1>4 DEF Fold, Common
    <2>3. MeanBinary(op, ml, mr) =
            Meaning("i32", IntOp(op, ml.val, mr.val), ml.def /\ mr.def /\ ~Traps(op, ml.val, mr.val))
        BY <1>3, <1>4, <2>2 DEF MeanBinary, MeantAs
    <2>4. MeanBinary(op, ml, mr).ty = "i32" /\ MeanBinary(op, ml, mr).val = IntOp(op, ml.val, mr.val)
          /\ (MeanBinary(op, ml, mr).def => ml.def /\ mr.def)
        <3>1. PICK d \in BOOLEAN : d = (ml.def /\ mr.def /\ ~Traps(op, ml.val, mr.val))
            OBVIOUS
        <3>2. MeanBinary(op, ml, mr) = Meaning("i32", IntOp(op, ml.val, mr.val), d)
            BY <2>3, <3>1, Zenon
        <3>3. /\ MeanBinary(op, ml, mr).ty = "i32" /\ MeanBinary(op, ml, mr).val = IntOp(op, ml.val, mr.val)
              /\ MeanBinary(op, ml, mr).def = d
            BY <3>2 DEF Meaning
        <3> QED BY <3>1, <3>3, Zenon
    <2>5. ml.def /\ mr.def => l.val \in Words /\ r.val \in Words
        BY <1>4 DEF Means
    <2>6. ml.def /\ mr.def => n \in Words /\ n = IntOp(op, ml.val, mr.val)
        BY <2>5, <1>1, <1>3, IntOpFacts
    <2> HIDE DEF n
    <2>7. Val("i32", TRUE, n) \in Vals /\ Val("i32", TRUE, n).ty = "i32" /\ Val("i32", TRUE, n).val = n
        BY <2>1 DEF Val, Vals, Types, Numeric
    <2> QED BY <2>2, <2>4, <2>6, <2>7 DEF Means
<1>5. CASE ~(l.ty = "i32" /\ r.ty = "i32")
    <2> DEFINE n == IF op = "%" THEN 0 ELSE FloatOp(op, AsFloat(l), AsFloat(r))
    <2>1. n \in Int
        BY <1>2, FloatOpInt
    <2>2. Fold(op, l, r) = Val("float", TRUE, n) /\ Common(l, r) = "float" /\ Common(ml, mr) = "float"
        BY <1>3, <1>5 DEF Fold, Common
    <2>3. MeanBinary(op, ml, mr) =
            IF op = "%" THEN Meaning("float", 0, FALSE)
            ELSE Meaning("float", FloatOp(op, MeantAs(ml, "float").val, MeantAs(mr, "float").val), ml.def /\ mr.def)
        BY <2>2 DEF MeanBinary
    <2>4. MeanBinary(op, ml, mr).ty = "float"
          /\ (MeanBinary(op, ml, mr).def =>
                op # "%" /\ ml.def /\ mr.def
                /\ MeanBinary(op, ml, mr).val = FloatOp(op, MeantAs(ml, "float").val, MeantAs(mr, "float").val))
        <3>1. PICK d \in BOOLEAN : d = (ml.def /\ mr.def)
            OBVIOUS
        <3>2. CASE op = "%"
            <4>1. MeanBinary(op, ml, mr) = Meaning("float", 0, FALSE)
                BY <2>3, <3>2
            <4>2. MeanBinary(op, ml, mr).ty = "float" /\ MeanBinary(op, ml, mr).def = FALSE
                BY <4>1 DEF Meaning
            <4> QED BY <4>2
        <3>3. CASE op # "%"
            <4>1. MeanBinary(op, ml, mr) = Meaning("float", FloatOp(op, MeantAs(ml, "float").val, MeantAs(mr, "float").val), d)
                BY <2>3, <3>1, <3>3, Zenon
            <4>2. /\ MeanBinary(op, ml, mr).ty = "float" /\ MeanBinary(op, ml, mr).def = d
                  /\ MeanBinary(op, ml, mr).val = FloatOp(op, MeantAs(ml, "float").val, MeantAs(mr, "float").val)
                BY <4>1 DEF Meaning
            <4> QED BY <3>1, <3>3, <4>2, Zenon
        <3> QED BY <3>2, <3>3
    <2>5. (ml.def => AsFloat(l) = MeantAs(ml, "float").val) /\ (mr.def => AsFloat(r) = MeantAs(mr, "float").val)
        BY <1>3 DEF AsFloat, MeantAs, Meaning, Numeric
    <2>6. ml.def /\ mr.def /\ op # "%" => n = FloatOp(op, MeantAs(ml, "float").val, MeantAs(mr, "float").val)
        BY <2>5
    <2> HIDE DEF n
    <2>7. Val("float", TRUE, n) \in Vals /\ Val("float", TRUE, n).ty = "float" /\ Val("float", TRUE, n).val = n
        BY <2>1 DEF Val, Vals, Types, Numeric
    <2> QED BY <2>2, <2>4, <2>6, <2>7 DEF Means
<1> QED BY <1>4, <1>5

LEMMA ComparedMeans ==
    ASSUME Parameters, NEW op,
           NEW l \in Vals, NEW r \in Vals, l.ty \in Numeric, r.ty \in Numeric,
           NEW ml \in Meanings, NEW mr \in Meanings, Means(l, ml), Means(r, mr)
    PROVE  LET c == ComparedTo(op, l, r)
           IN  /\ c.val \in Vals /\ c.val.ty = "i32"
               /\ Means(c.val, MeanCompare(op, ml, mr))
               /\ c.code \in Seq(Instrs)
<1>1. PICK m : m = MatchType(l, r)
    OBVIOUS
<1>2. PICK ty \in Numeric : ty = Common(ml, mr)
    BY DEF Common, Numeric
<1>3. /\ m.l.ty = ty /\ m.r.ty = ty
      /\ m.both_int <=> ty = "i32"
      /\ ml.def => m.l.val = MeantAs(ml, ty).val
      /\ mr.def => m.r.val = MeantAs(mr, ty).val
      /\ m.code \in Seq(Instrs)
    BY <1>1, <1>2, MatchMeans
<1> DEFINE n == Compare(op, m.l.val, m.r.val)
           meant == Compare(op, MeantAs(ml, ty).val, MeantAs(mr, ty).val)
           work == Instr(IF m.both_int THEN "int" ELSE "float", <<m.l.ty, m.r.ty>>)
<1>4. n \in Int /\ n \in Words
    BY CompareWord
<1>5. ComparedTo(op, l, r).val = Val("i32", FALSE, n)
    BY <1>1 DEF ComparedTo
<1>6. ComparedTo(op, l, r).code = m.code \o <<work, Instr("zext", <<"i1">>)>>
    BY <1>1 DEF ComparedTo
<1>7. work \in Instrs
    <2>1. CASE ty = "i32"
        <3>1. work = Instr("int", <<"i32", "i32">>)
            BY <2>1, <1>3
        <3> QED BY <3>1, InstrsMade
    <2>2. CASE ty = "float"
        <3>1. work = Instr("float", <<"float", "float">>)
            BY <2>2, <1>3
        <3> QED BY <3>1, InstrsMade
    <2> QED BY <2>1, <2>2 DEF Numeric
<1>8. m.code \o <<work, Instr("zext", <<"i1">>)>> \in Seq(Instrs)
    <2> HIDE DEF work
    <2>1. <<work, Instr("zext", <<"i1">>)>> \in Seq(Instrs)
        BY <1>7, InstrsMade
    <2> QED BY <2>1, <1>3
<1>9. MeanCompare(op, ml, mr) = Meaning("i32", meant, ml.def /\ mr.def)
    BY <1>2 DEF MeanCompare
<1>10. ml.def /\ mr.def => n = meant
    BY <1>3
<1> HIDE DEF n, meant
<1>11. MeanCompare(op, ml, mr).ty = "i32" /\ MeanCompare(op, ml, mr).val = meant
       /\ (MeanCompare(op, ml, mr).def => ml.def /\ mr.def)
    <2>1. PICK d \in BOOLEAN : d = (ml.def /\ mr.def)
        OBVIOUS
    <2>2. MeanCompare(op, ml, mr) = Meaning("i32", meant, d)
        BY <1>9, <2>1, Zenon
    <2>3. MeanCompare(op, ml, mr).ty = "i32" /\ MeanCompare(op, ml, mr).val = meant /\ MeanCompare(op, ml, mr).def = d
        BY <2>2 DEF Meaning
    <2> QED BY <2>1, <2>3, Zenon
<1>12. Val("i32", FALSE, n) \in Vals /\ Val("i32", FALSE, n).ty = "i32" /\ Val("i32", FALSE, n).val = n
    BY <1>4 DEF Val, Vals, Types, Numeric
<1>13. Means(ComparedTo(op, l, r).val, MeanCompare(op, ml, mr))
    BY <1>4, <1>5, <1>10, <1>11, <1>12 DEF Means
<1>14. ComparedTo(op, l, r).code \in Seq(Instrs)
    BY <1>6, <1>8
<1> QED BY <1>5, <1>12, <1>13, <1>14

\* The zero of a type, which the builder makes of a value's type and the source
\* of a meaning's.
LEMMA ZeroMeans ==
    ASSUME Parameters, NEW ty \in Numeric
    PROVE  /\ Val(ty, TRUE, 0) \in Vals /\ Val(ty, TRUE, 0).ty = ty /\ Val(ty, TRUE, 0).val = 0
           /\ Meaning(ty, 0, TRUE) \in Meanings /\ Meaning(ty, 0, TRUE).ty = ty
           /\ Means(Val(ty, TRUE, 0), Meaning(ty, 0, TRUE))
<1> Half \in Nat /\ Half > 1
    BY DEF Parameters
<1> HIDE DEF Half
<1>1. 0 \in Words
    BY DEF Words
<1>2. Val(ty, TRUE, 0) \in Vals /\ Val(ty, TRUE, 0).ty = ty /\ Val(ty, TRUE, 0).val = 0
    BY DEF Val, Vals, Types
<1>3. Meaning(ty, 0, TRUE) \in Meanings /\ Meaning(ty, 0, TRUE).ty = ty /\ Meaning(ty, 0, TRUE).val = 0
    BY DEF Meaning, Meanings, Types
<1> QED BY <1>1, <1>2, <1>3 DEF Means

LEMMA NegatedMeans ==
    ASSUME Parameters, NEW v \in Vals, v.ty \in Numeric, NEW m \in Meanings, Means(v, m)
    PROVE  /\ Negated(v).val \in Vals /\ Negated(v).val.ty = v.ty
           /\ Means(Negated(v).val, MeanBinary("-", Meaning(m.ty, 0, TRUE), m))
           /\ Negated(v).code \in Seq(Instrs)
<1> DEFINE zero == Val(v.ty, TRUE, 0)
           mzero == Meaning(m.ty, 0, TRUE)
<1>1. m.ty = v.ty /\ v.val \in Int
    BY DEF Means, Vals
<1>2. /\ zero \in Vals /\ zero.ty = v.ty /\ zero.val = 0
      /\ mzero \in Meanings /\ Means(zero, mzero)
    BY <1>1, ZeroMeans
<1>3. "-" \in BinOps /\ Common(zero, v) = v.ty
    BY <1>2 DEF BinOps, Common, Numeric
<1>4. CASE v.con
    <2>1. Negated(v).val = Val(v.ty, TRUE, IF v.ty = "i32" THEN Wrap(0 - v.val) ELSE 0 - v.val)
          /\ Negated(v).code = << >>
        BY <1>4 DEF Negated
    <2>2. Fold("-", zero, v) = Negated(v).val
        <3>1. CASE v.ty = "i32"
            <4>1. Fold("-", zero, v) = Val("i32", TRUE, IntOp("-", 0, v.val))
                BY <3>1, <1>2 DEF Fold
            <4>2. IntOp("-", 0, v.val) = Wrap(0 - v.val)
                BY DEF IntOp
            <4> QED BY <4>1, <4>2, <2>1, <3>1
        <3>2. CASE v.ty = "float"
            <4>1. Fold("-", zero, v) = Val("float", TRUE, FloatOp("-", 0, v.val))
                BY <3>2, <1>2 DEF Fold, AsFloat
            <4>2. FloatOp("-", 0, v.val) = 0 - v.val
                BY DEF FloatOp
            <4> QED BY <4>1, <4>2, <2>1, <3>2
        <3> QED BY <3>1, <3>2 DEF Numeric
    <2> HIDE DEF zero, mzero
    <2>3. /\ Fold("-", zero, v) \in Vals /\ Fold("-", zero, v).ty = Common(zero, v)
          /\ Means(Fold("-", zero, v), MeanBinary("-", mzero, m))
        BY <1>2, <1>3, FoldMeans
    <2>4. << >> \in Seq(Instrs)
        OBVIOUS
    <2> QED BY <1>3, <2>1, <2>2, <2>3, <2>4 DEF mzero
<1>5. CASE ~v.con
    <2>1. Negated(v) = Binary("-", zero, v)
        BY <1>5 DEF Negated
    <2> HIDE DEF zero, mzero
    <2>2. /\ Binary("-", zero, v).val \in Vals /\ Binary("-", zero, v).val.ty = Common(zero, v)
          /\ Means(Binary("-", zero, v).val, MeanBinary("-", mzero, m))
          /\ Binary("-", zero, v).code \in Seq(Instrs)
        BY <1>2, <1>3, BinaryMeans
    <2> QED BY <1>3, <2>1, <2>2 DEF mzero
<1> QED BY <1>4, <1>5

\* A value converted to another type is what the source converts it to,
\* wherever the conversion is made.
LEMMA ConvertedMeans ==
    ASSUME NEW v \in Vals, NEW con \in BOOLEAN, NEW ty \in Numeric, v.ty \in Numeric, v.ty # ty,
           NEW m \in Meanings, Means(v, m)
    PROVE  LET c == Val(ty, con, IF ty = "i32" THEN ToInt(v.val) ELSE ToFloat(v.val))
           IN  c \in Vals /\ c.ty = ty /\ Means(c, MeantAs(m, ty))
<1>1. v.val \in Int /\ m.def \in BOOLEAN /\ m.ty = v.ty /\ (m.def => m.val = v.val)
    BY DEF Vals, Meanings, Means
<1>2. ToInt(v.val) \in Int /\ ToFloat(v.val) \in Int
    BY <1>1, Conversions
<1>3. CASE ty = "i32"
    <2>1. PICK n : n = ToInt(v.val)
        OBVIOUS
    <2>2. PICK d \in BOOLEAN : d = (m.def /\ Fits(m.val))
        OBVIOUS
    <2>3. MeantAs(m, ty) = Meaning("i32", ToInt(m.val), m.def /\ Fits(m.val))
        BY <1>1, <1>3 DEF MeantAs
    <2>4. MeantAs(m, ty) = Meaning("i32", ToInt(m.val), d)
        BY <2>2, <2>3, Zenon
    <2>5. MeantAs(m, ty).ty = "i32" /\ MeantAs(m, ty).val = ToInt(m.val) /\ MeantAs(m, ty).def = d
        BY <2>4 DEF Meaning
    <2>6. d => n \in Words /\ n = ToInt(m.val)
        BY <1>1, <2>1, <2>2 DEF Fits
    <2>7. Val("i32", con, n) \in Vals /\ Val("i32", con, n).ty = "i32" /\ Val("i32", con, n).val = n
        BY <1>2, <2>1 DEF Val, Vals, Types, Numeric
    <2> QED BY <1>3, <2>1, <2>5, <2>6, <2>7 DEF Means
<1>4. CASE ty = "float"
    <2>1. PICK n : n = ToFloat(v.val)
        OBVIOUS
    <2>2. MeantAs(m, ty) = Meaning("float", ToFloat(m.val), m.def)
        BY <1>1, <1>4 DEF MeantAs
    <2>3. MeantAs(m, ty).ty = "float" /\ MeantAs(m, ty).val = ToFloat(m.val) /\ MeantAs(m, ty).def = m.def
        BY <2>2 DEF Meaning
    <2>4. Val("float", con, n) \in Vals /\ Val("float", con, n).ty = "float" /\ Val("float", con, n).val = n
        BY <1>2, <2>1 DEF Val, Vals, Types, Numeric
    <2> QED BY <1>1, <1>4, <2>1, <2>3, <2>4 DEF Means
<1> QED BY <1>3, <1>4 DEF Numeric

LEMMA TwoInstrs ==
    \A a, b \in Instrs : <<a, b>> \in Seq(Instrs) /\ <<a, b>>[1] \in Instrs
OBVIOUS

LEMMA StoredMeans ==
    ASSUME NEW v \in Vals, NEW ty \in Numeric, v.ty \in Numeric, NEW m \in Meanings, Means(v, m)
    PROVE  LET s == Stored(v, ty)
           IN  /\ s.val \in Vals /\ s.val.ty = ty /\ Means(s.val, MeantAs(m, ty))
               /\ s.code \in Seq(Instrs) /\ s.code[1] \in Instrs
<1>1. ty \in Types
    BY DEF Types
<1>2. CASE v.ty = ty
    <2>1. Stored(v, ty).val = v /\ Stored(v, ty).code = <<Instr("store", <<ty, ty>>)>>
        BY <1>2 DEF Stored
    <2>2. MeantAs(m, ty) = m
        BY <1>2 DEF MeantAs, Means
    <2>3. Instr("store", <<ty, ty>>) \in Instrs
        BY <1>1, InstrsMade
    <2> QED BY <1>2, <2>1, <2>2, <2>3
<1>3. CASE v.ty # ty /\ ty = "i32"
    <2>1. v.ty = "float"
        BY <1>3 DEF Numeric
    <2>2. /\ Stored(v, ty).val = Val(ty, FALSE, ToInt(v.val))
          /\ Stored(v, ty).code = <<Instr("fptosi", <<"float">>), Instr("store", <<"i32", "i32">>)>>
        BY <1>3, <2>1 DEF Stored, FpToSi
    <2>3. Instr("fptosi", <<"float">>) \in Instrs /\ Instr("store", <<"i32", "i32">>) \in Instrs
        BY <1>1, <1>3, InstrsMade
    <2>4. LET c == Val(ty, FALSE, IF ty = "i32" THEN ToInt(v.val) ELSE ToFloat(v.val))
          IN  c \in Vals /\ c.ty = ty /\ Means(c, MeantAs(m, ty))
        BY <1>3, ConvertedMeans
    <2>5. Stored(v, ty).val \in Vals /\ Stored(v, ty).val.ty = ty /\ Means(Stored(v, ty).val, MeantAs(m, ty))
        BY <1>3, <2>2, <2>4
    <2>6. Stored(v, ty).code \in Seq(Instrs) /\ Stored(v, ty).code[1] \in Instrs
        BY <2>2, <2>3, TwoInstrs
    <2> QED BY <2>5, <2>6
<1>4. CASE v.ty # ty /\ ty = "float"
    <2>1. v.ty = "i32"
        BY <1>4 DEF Numeric
    <2>2. /\ Stored(v, ty).val = Val(ty, FALSE, ToFloat(v.val))
          /\ Stored(v, ty).code = <<Instr("sitofp", <<"i32">>), Instr("store", <<"float", "float">>)>>
        BY <1>4, <2>1 DEF Stored, SiToFp
    <2>3. Instr("sitofp", <<"i32">>) \in Instrs /\ Instr("store", <<"float", "float">>) \in Instrs
        BY <1>1, <1>4, InstrsMade
    <2>4. LET c == Val(ty, FALSE, IF ty = "i32" THEN ToInt(v.val) ELSE ToFloat(v.val))
          IN  c \in Vals /\ c.ty = ty /\ Means(c, MeantAs(m, ty))
        BY <1>4, ConvertedMeans
    <2>5. Stored(v, ty).val \in Vals /\ Stored(v, ty).val.ty = ty /\ Means(Stored(v, ty).val, MeantAs(m, ty))
        BY <1>4, <2>2, <2>4
    <2>6. Stored(v, ty).code \in Seq(Instrs) /\ Stored(v, ty).code[1] \in Instrs
        BY <2>2, <2>3, TwoInstrs
    <2> QED BY <2>5, <2>6
<1> QED BY <1>2, <1>3, <1>4 DEF Numeric

LEMMA InitValMeans ==
    ASSUME NEW v \in Vals, NEW ty \in Numeric, v.ty \in Numeric, NEW m \in Meanings, Means(v, m)
    PROVE  /\ InitVal(v, ty) \in Vals /\ InitVal(v, ty).ty \in Numeric
           /\ InitVal(v, ty) = v \/ (InitVal(v, ty).ty = ty /\ Means(InitVal(v, ty), MeantAs(m, ty)))
           /\ v.con => InitVal(v, ty).ty = ty /\ Means(InitVal(v, ty), MeantAs(m, ty))
<1>1. CASE ~v.con \/ v.ty = ty
    <2>1. InitVal(v, ty) = v
        BY <1>1 DEF InitVal
    <2>2. v.ty = ty => MeantAs(m, ty) = m
        BY DEF MeantAs, Means
    <2> QED BY <1>1, <2>1, <2>2
<1>2. CASE v.con /\ v.ty # ty
    <2>1. InitVal(v, ty) = Val(ty, TRUE, IF ty = "i32" THEN ToInt(v.val) ELSE ToFloat(v.val))
        BY <1>2 DEF InitVal
    <2>2. LET c == Val(ty, TRUE, IF ty = "i32" THEN ToInt(v.val) ELSE ToFloat(v.val))
          IN  c \in Vals /\ c.ty = ty /\ Means(c, MeantAs(m, ty))
        BY <1>2, ConvertedMeans
    <2> QED BY <2>1, <2>2
<1> QED BY <1>1, <1>2

LEMMA ArgumentMeans ==
    ASSUME NEW v \in Vals, NEW ty \in Numeric, v.ty \in Numeric, NEW m \in Meanings, Means(v, m)
    PROVE  LET a == Argument(v, ty)
           IN  /\ a.val \in Vals /\ a.val.ty = ty /\ Means(a.val, MeantAs(m, ty))
               /\ a.code \in Seq(Instrs)
<1>0. << >> \in Seq(Instrs)
    OBVIOUS
<1>1. CASE v.ty = ty
    <2>1. Argument(v, ty).val = v /\ Argument(v, ty).code = << >>
        BY <1>1 DEF Argument
    <2>2. MeantAs(m, ty) = m
        BY <1>1 DEF MeantAs, Means
    <2> QED BY <1>0, <1>1, <2>1, <2>2
<1>2. CASE v.ty # ty /\ v.con
    <2>1. Argument(v, ty).val = InitVal(v, ty) /\ Argument(v, ty).code = << >>
        BY <1>2 DEF Argument
    <2> QED BY <1>0, <1>2, <2>1, InitValMeans
<1>3. CASE v.ty # ty /\ ~v.con
    <2>1. Argument(v, ty).val = Stored(v, ty).val /\ Argument(v, ty).code = <<Stored(v, ty).code[1]>>
        BY <1>3 DEF Argument
    <2>2. LET s == Stored(v, ty)
          IN  /\ s.val \in Vals /\ s.val.ty = ty /\ Means(s.val, MeantAs(m, ty))
              /\ s.code \in Seq(Instrs) /\ s.code[1] \in Instrs
        BY StoredMeans
    <2> QED BY <2>1, <2>2
<1> QED BY <1>1, <1>2, <1>3

-----------------------------------------------------------------------------
(* The visits.                                                             *)

LEMMA EntrySound ==
    ASSUME NEW v \in Vals, NEW expr_int \in BOOLEAN, NEW m \in Meanings, NEW kind \in {"exp", "cond", "done"},
           Means(v, m), kind # "done" => v.ty \in Numeric, expr_int /\ kind = "exp" => v.ty = "i32"
    PROVE  Entry(v, expr_int, m, kind) \in SoundEntries /\ Entry(v, expr_int, m, kind).mean = m
<1>1. Entry(v, expr_int, m, kind) \in Entries
    BY DEF Entry, Entries
<1>2. /\ Entry(v, expr_int, m, kind).v = v /\ Entry(v, expr_int, m, kind).expr_int = expr_int
      /\ Entry(v, expr_int, m, kind).mean = m /\ Entry(v, expr_int, m, kind).kind = kind
    BY DEF Entry
<1>3. Sound(Entry(v, expr_int, m, kind))
    BY <1>2 DEF Sound
<1> QED BY <1>1, <1>2, <1>3 DEF SoundEntries

LEMMA SoundFacts ==
    ASSUME NEW e \in SoundEntries
    PROVE  /\ e.v \in Vals /\ e.expr_int \in BOOLEAN /\ e.mean \in Meanings
           /\ e.kind \in {"exp", "cond", "done"} /\ e.v.con \in BOOLEAN
           /\ Means(e.v, e.mean) /\ e.v.ty = e.mean.ty
           /\ e.kind # "done" => e.v.ty \in Numeric
           /\ e.expr_int /\ e.kind = "exp" => e.v.ty = "i32"
<1>1. e \in Entries /\ Sound(e)
    BY DEF SoundEntries
<1>2. e.v \in Vals /\ e.expr_int \in BOOLEAN /\ e.mean \in Meanings /\ e.kind \in {"exp", "cond", "done"}
    BY <1>1 DEF Entries
<1> QED BY <1>1, <1>2 DEF Sound, Means, Vals

LEMMA NthSound ==
    ASSUME Inv, NEW k \in {0, 1}, Len(stack) > k
    PROVE  Nth(k) \in SoundEntries
<1>1. stack \in Seq(SoundEntries)
    BY DEF Inv
<1>2. Len(stack) - k \in 1 .. Len(stack)
    BY <1>1
<1> QED BY <1>1, <1>2 DEF Nth

\* What a visit has to show: its entry is sound, and it stops the compiler only
\* where it may.
LEMMA ReduceInv ==
    ASSUME Parameters, Inv, Visit,
           NEW k \in {0, 1, 2}, Len(stack) >= k, NEW e \in SoundEntries, NEW code \in Seq(Instrs),
           NEW errs \in SUBSET {"rejects", "exits", "crashes"},
           Reduce(k, e, code, errs),
           "crashes" \in errs => ~e.mean.def, "exits" \in errs => "rejects" \in errs
    PROVE  Inv'
<1>1. visits' \in 0 .. MaxVisits
    BY DEF Visit, Inv, Parameters
<1>2. emitted' \in Seq(Instrs) /\ errors' = errs
    BY DEF Reduce
<1> DEFINE rest == SubSeq(stack, 1, Len(stack) - k)
<1>3. stack \in Seq(SoundEntries) /\ Len(stack) \in Nat
    BY DEF Inv
<1>4. rest \in Seq(SoundEntries)
    <2>1. Len(stack) - k \in Nat /\ Len(stack) - k <= Len(stack)
        BY <1>3
    <2> QED BY <1>3, <2>1
<1>5. stack' = Append(rest, e)
    BY DEF Reduce
<1> HIDE DEF rest
<1>6. stack' \in Seq(SoundEntries) /\ stack'[Len(stack')] = e
    BY <1>4, <1>5
<1>7. StopsJustified'
    <2>1. Len(stack') \in Nat
        BY <1>6
    <2>2. Nth(0)' = stack'[Len(stack') - 0]
        BY DEF Nth
    <2>3. Len(stack') - 0 = Len(stack')
        BY <2>1
    <2>4. Nth(0)' = e
        BY <1>6, <2>2, <2>3
    <2> QED BY <2>4, <1>2 DEF StopsJustified
<1> QED BY <1>1, <1>2, <1>6, <1>7 DEF Inv

LEMMA LeafInv ==
    ASSUME Parameters, Inv, NEW ty \in Numeric, NEW con \in BOOLEAN, NEW val \in Int,
           ty = "i32" => val \in Words, Leaf(ty, con, val)
    PROVE  Inv'
<1>1. PICK b \in BOOLEAN : b = (ty = "i32")
    OBVIOUS
<1>2. Val(ty, con, val) \in Vals /\ Val(ty, con, val).ty = ty /\ Val(ty, con, val).val = val
    BY DEF Val, Vals, Types
<1>3. /\ Meaning(ty, val, TRUE) \in Meanings
      /\ Meaning(ty, val, TRUE).ty = ty /\ Meaning(ty, val, TRUE).val = val
    BY DEF Meaning, Meanings, Types
<1>4. Means(Val(ty, con, val), Meaning(ty, val, TRUE))
    BY <1>2, <1>3 DEF Means
<1>5. PICK e : e = Entry(Val(ty, con, val), b, Meaning(ty, val, TRUE), "exp")
    OBVIOUS
<1>6. b => ty = "i32"
    BY <1>1
<1>7. e \in SoundEntries
    BY <1>2, <1>3, <1>4, <1>5, <1>6, EntrySound
<1>8. Visit /\ Reduce(0, e, << >>, {})
    BY <1>1, <1>5, Zenon DEF Leaf
<1>9. Len(stack) >= 0 /\ << >> \in Seq(Instrs)
    BY DEF Inv
<1> QED BY <1>7, <1>8, <1>9, ReduceInv

LEMMA LeavesInv == ASSUME Parameters, Inv, Literal \/ LVal PROVE Inv'
<1>1. (\A n \in IntValues : n \in Int /\ n \in Words) /\ (\A f \in FloatValues : f \in Int)
    <2> Half \in Nat
        BY DEF Parameters
    <2> HIDE DEF Half
    <2> QED BY DEF Parameters, Words
<1>2. ASSUME NEW con \in BOOLEAN, NEW n \in IntValues, Leaf("i32", con, n) PROVE Inv'
    BY <1>1, <1>2, LeafInv DEF Numeric
<1>3. ASSUME NEW con \in BOOLEAN, NEW f \in FloatValues, Leaf("float", con, f) PROVE Inv'
    BY <1>1, <1>3, LeafInv DEF Numeric
<1> QED BY <1>2, <1>3 DEF Literal, LVal

LEMMA UnaryExprInv == ASSUME Parameters, Inv, NEW op \in {"+", "-"}, UnaryExpr(op) PROVE Inv'
<1>1. PICK e : e = Nth(0)
    OBVIOUS
<1>2. Len(stack) >= 1 /\ IsExp(e) /\ Visit
    BY <1>1 DEF UnaryExpr, Operands
<1>3. Len(stack) \in Nat
    BY DEF Inv
<1>4. e \in SoundEntries
    BY <1>1, <1>2, <1>3, NthSound
<1>5. CASE op = "+"
    <2>1. Reduce(1, e, << >>, {})
        BY <1>1, <1>5 DEF UnaryExpr
    <2>2. << >> \in Seq(Instrs)
        OBVIOUS
    <2> QED BY <1>2, <1>4, <2>1, <2>2, ReduceInv
<1>6. CASE op = "-"
    <2>1. PICK neg : neg = Negated(e.v)
        OBVIOUS
    <2>2. PICK m : m = MeanBinary("-", Meaning(e.mean.ty, 0, TRUE), e.mean)
        OBVIOUS
    <2>3. PICK new : new = Entry(neg.val, e.expr_int, m, "exp")
        OBVIOUS
    <2>4. Reduce(1, new, neg.code, {})
        BY <1>1, <1>6, <2>1, <2>2, <2>3 DEF UnaryExpr
    <2>5. e.kind = "exp"
        BY <1>2 DEF IsExp
    <2>6. /\ e.v \in Vals /\ e.expr_int \in BOOLEAN /\ e.mean \in Meanings /\ Means(e.v, e.mean)
          /\ e.v.ty \in Numeric /\ e.v.ty = e.mean.ty /\ (e.expr_int => e.v.ty = "i32")
        BY <1>4, <2>5, SoundFacts
    <2>7. neg.val \in Vals /\ neg.val.ty = e.v.ty /\ Means(neg.val, m) /\ neg.code \in Seq(Instrs)
        BY <2>1, <2>2, <2>6, NegatedMeans
    <2>8. m \in Meanings
        BY <2>2, <2>6, ZeroMeans, MeanBinaryType DEF BinOps
    <2>9. new \in SoundEntries
        BY <2>3, <2>6, <2>7, <2>8, EntrySound
    <2> QED BY <1>2, <2>4, <2>7, <2>9, ReduceInv
<1> QED BY <1>5, <1>6

LEMMA UnaryCondExprInv == ASSUME Parameters, Inv, UnaryCondExpr PROVE Inv'
<1>1. PICK e : e = Nth(0)
    OBVIOUS
<1>2. Len(stack) >= 1 /\ e.kind = "exp" /\ Visit
    BY <1>1 DEF UnaryCondExpr, Operands, IsExp
<1>3. Len(stack) \in Nat
    BY DEF Inv
<1>4. e \in SoundEntries
    BY <1>1, <1>2, <1>3, NthSound
<1>5. PICK not : not = ComparedTo("==", e.v, Val(e.v.ty, TRUE, 0))
    OBVIOUS
<1>6. PICK m : m = MeanCompare("==", e.mean, Meaning(e.mean.ty, 0, TRUE))
    OBVIOUS
<1>7. PICK new : new = Entry(not.val, e.expr_int, m, "exp")
    OBVIOUS
<1>8. Reduce(1, new, not.code, {})
    BY <1>1, <1>5, <1>6, <1>7 DEF UnaryCondExpr
<1>9. /\ e.v \in Vals /\ e.expr_int \in BOOLEAN /\ e.mean \in Meanings /\ Means(e.v, e.mean)
      /\ e.v.ty \in Numeric /\ e.v.ty = e.mean.ty
    BY <1>2, <1>4, SoundFacts
<1>10. PICK zero : zero = Val(e.v.ty, TRUE, 0)
    OBVIOUS
<1>11. PICK mzero : mzero = Meaning(e.mean.ty, 0, TRUE)
    OBVIOUS
<1>12. zero \in Vals /\ zero.ty = e.v.ty /\ mzero \in Meanings /\ Means(zero, mzero)
    BY <1>9, <1>10, <1>11, ZeroMeans
<1>13. not = ComparedTo("==", e.v, zero) /\ m = MeanCompare("==", e.mean, mzero)
    BY <1>5, <1>6, <1>10, <1>11
<1>14. not.val \in Vals /\ not.val.ty = "i32" /\ Means(not.val, m) /\ not.code \in Seq(Instrs)
    BY <1>9, <1>12, <1>13, ComparedMeans
<1>15. m \in Meanings
    BY <1>9, <1>12, <1>13, MeanCompareType
<1>16. new \in SoundEntries
    BY <1>7, <1>9, <1>14, <1>15, EntrySound DEF Numeric
<1> QED BY <1>2, <1>8, <1>14, <1>16, ReduceInv

LEMMA BinaryExprInv == ASSUME Parameters, Inv, NEW op \in BinOps, BinaryExpr(op) PROVE Inv'
<1>1. PICK l : l = Nth(1)
    OBVIOUS
<1>2. PICK r : r = Nth(0)
    OBVIOUS
<1>3. Len(stack) >= 2 /\ l.kind = "exp" /\ r.kind = "exp" /\ Visit
    BY <1>1, <1>2 DEF BinaryExpr, Operands, IsExp
<1>4. Len(stack) \in Nat
    BY DEF Inv
<1>5. l \in SoundEntries /\ r \in SoundEntries
    BY <1>1, <1>2, <1>3, <1>4, NthSound
<1>6. /\ l.v \in Vals /\ l.expr_int \in BOOLEAN /\ l.mean \in Meanings /\ Means(l.v, l.mean)
      /\ l.v.ty \in Numeric /\ l.v.con \in BOOLEAN /\ (l.expr_int => l.v.ty = "i32")
    BY <1>3, <1>5, SoundFacts
<1>7. /\ r.v \in Vals /\ r.expr_int \in BOOLEAN /\ r.mean \in Meanings /\ Means(r.v, r.mean)
      /\ r.v.ty \in Numeric /\ r.v.con \in BOOLEAN /\ (r.expr_int => r.v.ty = "i32")
    BY <1>3, <1>5, SoundFacts
<1>8. PICK folds \in BOOLEAN : folds = (l.v.con /\ r.v.con)
    OBVIOUS
<1>9. PICK ints \in BOOLEAN : ints = (l.v.ty = "i32" /\ r.v.ty = "i32")
    OBVIOUS
<1>10. PICK both \in BOOLEAN : both = IntIfBoth(l, r)
    BY DEF IntIfBoth
<1>11. PICK b : b = Binary(op, l.v, r.v)
    OBVIOUS
<1>12. PICK v : v = IF folds THEN Fold(op, l.v, r.v) ELSE b.val
    OBVIOUS
<1>13. PICK code : code = IF folds THEN << >> ELSE b.code
    OBVIOUS
<1>14. PICK m : m = MeanBinary(op, l.mean, r.mean)
    OBVIOUS
<1>15. PICK errs : errs = (IF op = "%" /\ Rejects(l, r) THEN {"rejects"} ELSE {})
                          \cup (IF op = "%" /\ ~ints THEN {"exits"} ELSE {})
                          \cup (IF folds /\ ints /\ Traps(op, l.v.val, r.v.val) THEN {"crashes"} ELSE {})
    OBVIOUS
<1>16. PICK new : new = Entry(v, both, m, "exp")
    OBVIOUS
<1>17. Reduce(2, new, code, errs)
    BY <1>1, <1>2, <1>8, <1>9, <1>10, <1>11, <1>12, <1>13, <1>14, <1>15, <1>16, Zenon DEF BinaryExpr
<1>18. /\ b.val \in Vals /\ b.val.ty = Common(l.v, r.v) /\ Means(b.val, m) /\ b.code \in Seq(Instrs)
    BY <1>6, <1>7, <1>11, <1>14, BinaryMeans
<1>19. /\ Fold(op, l.v, r.v) \in Vals /\ Fold(op, l.v, r.v).ty = Common(l.v, r.v)
       /\ Means(Fold(op, l.v, r.v), m)
    BY <1>6, <1>7, <1>14, FoldMeans
<1>20. v \in Vals /\ v.ty = Common(l.v, r.v) /\ Means(v, m)
    BY <1>12, <1>18, <1>19
<1>21. code \in Seq(Instrs)
    <2>1. << >> \in Seq(Instrs)
        OBVIOUS
    <2> QED BY <2>1, <1>13, <1>18
<1>22. m \in Meanings
    BY <1>6, <1>7, <1>14, MeanBinaryType
<1>23. both => v.ty = "i32"
    <2>1. both => l.expr_int /\ r.expr_int
        BY <1>10, Zenon DEF IntIfBoth
    <2> QED BY <2>1, <1>6, <1>7, <1>20 DEF Common
<1>24. v.ty \in Numeric
    BY <1>20 DEF Common, Numeric
<1>25. new \in SoundEntries /\ new.mean = m
    BY <1>16, <1>20, <1>22, <1>23, <1>24, EntrySound
<1>26. errs \in SUBSET {"rejects", "exits", "crashes"}
    BY <1>15
<1>27. "exits" \in errs => "rejects" \in errs
    <2>1. Rejects(l, r) \/ (l.expr_int /\ r.expr_int)
        BY DEF Rejects
    <2>2. l.expr_int /\ r.expr_int => ints
        BY <1>6, <1>7, <1>9
    <2> QED BY <2>1, <2>2, <1>15
<1>28. "crashes" \in errs => ~m.def
    <2> SUFFICES ASSUME "crashes" \in errs, m.def PROVE FALSE
        OBVIOUS
    <2>1. ints /\ Traps(op, l.v.val, r.v.val)
        BY <1>15
    <2>2. l.v.ty = "i32" /\ r.v.ty = "i32" /\ l.mean.ty = "i32" /\ r.mean.ty = "i32"
        BY <2>1, <1>6, <1>7, <1>9 DEF Means
    <2>3. m = Meaning("i32", IntOp(op, l.mean.val, r.mean.val),
                      l.mean.def /\ r.mean.def /\ ~Traps(op, l.mean.val, r.mean.val))
        BY <1>14, <2>2 DEF MeanBinary, Common, MeantAs
    <2>4. PICK d \in BOOLEAN : d = (l.mean.def /\ r.mean.def /\ ~Traps(op, l.mean.val, r.mean.val))
        OBVIOUS
    <2>5. m = Meaning("i32", IntOp(op, l.mean.val, r.mean.val), d)
        BY <2>3, <2>4, Zenon
    <2>6. m.def = d
        BY <2>5 DEF Meaning
    <2>7. l.mean.def /\ r.mean.def /\ ~Traps(op, l.mean.val, r.mean.val)
        BY <2>4, <2>6, Zenon
    <2>8. l.mean.val = l.v.val /\ r.mean.val = r.v.val
        BY <2>7, <1>6, <1>7 DEF Means
    <2> QED BY <2>1, <2>7, <2>8
<1> QED BY <1>3, <1>17, <1>21, <1>25, <1>26, <1>27, <1>28, ReduceInv

LEMMA BinaryCondExprInv == ASSUME Parameters, Inv, NEW op \in CondOps, BinaryCondExpr(op) PROVE Inv'
<1>1. PICK l : l = Nth(1)
    OBVIOUS
<1>2. PICK r : r = Nth(0)
    OBVIOUS
<1>3. Len(stack) >= 2 /\ l.kind # "done" /\ r.kind # "done" /\ Visit
    BY <1>1, <1>2 DEF BinaryCondExpr, Operands
<1>4. Len(stack) \in Nat
    BY DEF Inv
<1>5. l \in SoundEntries /\ r \in SoundEntries
    BY <1>1, <1>2, <1>3, <1>4, NthSound
<1>6. l.v \in Vals /\ l.mean \in Meanings /\ Means(l.v, l.mean) /\ l.v.ty \in Numeric
    BY <1>3, <1>5, SoundFacts
<1>7. r.v \in Vals /\ r.mean \in Meanings /\ Means(r.v, r.mean) /\ r.v.ty \in Numeric /\ r.expr_int \in BOOLEAN
    BY <1>3, <1>5, SoundFacts
<1>8. PICK c : c = ComparedTo(op, l.v, r.v)
    OBVIOUS
<1>9. PICK m : m = MeanCompare(op, l.mean, r.mean)
    OBVIOUS
<1>10. PICK new : new = Entry(c.val, r.expr_int, m, "cond")
    OBVIOUS
<1>11. Reduce(2, new, c.code, {})
    BY <1>1, <1>2, <1>8, <1>9, <1>10 DEF BinaryCondExpr
<1>12. c.val \in Vals /\ c.val.ty = "i32" /\ Means(c.val, m) /\ c.code \in Seq(Instrs)
    BY <1>6, <1>7, <1>8, <1>9, ComparedMeans
<1>13. m \in Meanings
    BY <1>6, <1>7, <1>9, MeanCompareType
<1>14. new \in SoundEntries
    BY <1>7, <1>10, <1>12, <1>13, EntrySound DEF Numeric
<1> QED BY <1>3, <1>11, <1>12, <1>14, ReduceInv

LEMMA FuncCallStmtInv ==
    ASSUME Parameters, Inv, NEW param \in Numeric, NEW ret \in Numeric, FuncCallStmt(param, ret) PROVE Inv'
<1>1. PICK e : e = Nth(0)
    OBVIOUS
<1>2. Len(stack) >= 1 /\ e.kind = "exp" /\ Visit
    BY <1>1 DEF FuncCallStmt, Operands, IsExp
<1>3. Len(stack) \in Nat
    BY DEF Inv
<1>4. e \in SoundEntries
    BY <1>1, <1>2, <1>3, NthSound
<1>5. e.v \in Vals /\ e.mean \in Meanings /\ Means(e.v, e.mean) /\ e.v.ty \in Numeric
    BY <1>2, <1>4, SoundFacts
<1>6. PICK arg : arg = Argument(e.v, param)
    OBVIOUS
<1>7. PICK got : got = Stored(arg.val, ret).val
    OBVIOUS
<1>8. PICK m : m = MeantAs(e.mean, param)
    OBVIOUS
<1>9. PICK mret : mret = MeantAs(m, ret)
    OBVIOUS
<1>10. PICK b \in BOOLEAN : b = (ret = "i32")
    OBVIOUS
<1>11. PICK v : v = Val(ret, FALSE, got.val)
    OBVIOUS
<1>12. PICK new : new = Entry(v, b, mret, "exp")
    OBVIOUS
<1>13. PICK errs : errs = IF e.expr_int # (param = "i32") THEN {"rejects"} ELSE {}
    OBVIOUS
<1>14. Reduce(1, new, Append(arg.code, Instr("call", <<arg.val.ty, param>>)), errs)
    BY <1>1, <1>6, <1>7, <1>8, <1>9, <1>10, <1>11, <1>12, <1>13, Zenon DEF FuncCallStmt
<1>15. arg.val \in Vals /\ arg.val.ty = param /\ Means(arg.val, m) /\ arg.code \in Seq(Instrs)
    BY <1>5, <1>6, <1>8, ArgumentMeans
<1>16. m \in Meanings /\ mret \in Meanings
    <2>1. m \in Meanings
        BY <1>5, <1>8, MeantAsType
    <2> QED BY <2>1, <1>9, MeantAsType
<1>17. got \in Vals /\ got.ty = ret /\ Means(got, mret)
    BY <1>7, <1>9, <1>15, <1>16, StoredMeans
<1>18. v \in Vals /\ v.ty = ret /\ Means(v, mret)
    <2>1. v.ty = ret /\ v.val = got.val /\ v \in Vals
        BY <1>11, <1>17 DEF Val, Vals, Types
    <2> QED BY <2>1, <1>17 DEF Means
<1>19. b => v.ty = "i32"
    BY <1>10, <1>18
<1>20. new \in SoundEntries
    BY <1>12, <1>16, <1>18, <1>19, EntrySound
<1>21. Append(arg.code, Instr("call", <<arg.val.ty, param>>)) \in Seq(Instrs)
    <2>1. Instr("call", <<arg.val.ty, param>>) \in Instrs
        BY <1>15, InstrsMade DEF Types
    <2> QED BY <2>1, <1>15
<1>22. errs \in SUBSET {"rejects", "exits", "crashes"} /\ "crashes" \notin errs /\ "exits" \notin errs
    BY <1>13
<1> QED BY <1>2, <1>14, <1>20, <1>21, <1>22, ReduceInv

LEMMA StoreInv ==
    ASSUME Parameters, Inv, NEW ty \in Numeric, NEW init \in BOOLEAN, Store(ty, init) PROVE Inv'
<1>1. PICK e : e = Nth(0)
    OBVIOUS
<1>2. Len(stack) = 1 /\ e.kind = "exp" /\ Visit
    BY <1>1 DEF Store, IsExp
<1>3. e \in SoundEntries
    BY <1>1, <1>2, NthSound
<1>4. e.v \in Vals /\ e.expr_int \in BOOLEAN /\ e.mean \in Meanings /\ Means(e.v, e.mean) /\ e.v.ty \in Numeric
    BY <1>2, <1>3, SoundFacts
<1>5. PICK v : v = IF init THEN InitVal(e.v, ty) ELSE e.v
    OBVIOUS
<1>6. PICK s : s = Stored(v, ty)
    OBVIOUS
<1>7. PICK m : m = MeantAs(e.mean, ty)
    OBVIOUS
<1>8. PICK new : new = Entry(s.val, e.expr_int, m, "done")
    OBVIOUS
<1>9. Reduce(1, new, s.code, {})
    BY <1>1, <1>5, <1>6, <1>7, <1>8 DEF Store
<1>10. m \in Meanings /\ m.ty = ty
    BY <1>4, <1>7, MeantAsType
<1>11. s.val \in Vals /\ s.val.ty = ty /\ Means(s.val, m) /\ s.code \in Seq(Instrs)
    <2>1. CASE v = e.v
        BY <2>1, <1>4, <1>6, <1>7, StoredMeans
    <2>2. CASE v # e.v
        <3>1. v = InitVal(e.v, ty) /\ v \in Vals /\ v.ty = ty /\ Means(v, m)
            BY <2>2, <1>4, <1>5, <1>7, InitValMeans
        <3>2. MeantAs(m, ty) = m
            BY <1>10 DEF MeantAs
        <3> QED BY <3>1, <3>2, <1>6, <1>10, StoredMeans
    <2> QED BY <2>1, <2>2
<1>12. new \in SoundEntries
    BY <1>4, <1>8, <1>10, <1>11, EntrySound
<1>13. Len(stack) >= 1
    BY <1>2
<1> QED BY <1>2, <1>9, <1>11, <1>12, <1>13, ReduceInv

LEMMA BranchInv == ASSUME Parameters, Inv, Branch PROVE Inv'
<1>1. PICK e : e = Nth(0)
    OBVIOUS
<1>2. Len(stack) = 1 /\ e.kind # "done" /\ Visit
    BY <1>1 DEF Branch
<1>3. e \in SoundEntries
    BY <1>1, <1>2, NthSound
<1>4. /\ e.v \in Vals /\ e.expr_int \in BOOLEAN /\ e.mean \in Meanings /\ Means(e.v, e.mean)
      /\ e.v.ty \in Numeric /\ e.mean.ty = e.v.ty
    BY <1>2, <1>3, SoundFacts
<1>5. PICK mc : mc = MeanCompare("!=", e.mean, Meaning(e.mean.ty, 0, TRUE))
    OBVIOUS
<1>6. PICK m : m = [mc EXCEPT !.ty = "i1"]
    OBVIOUS
<1>7. PICK v : v = Val("i1", FALSE, Compare("!=", e.v.val, 0))
    OBVIOUS
<1>8. PICK work : work = Instr(IF e.v.ty = "i32" THEN "int" ELSE "float", <<e.v.ty, e.v.ty>>)
    OBVIOUS
<1>9. PICK new : new = Entry(v, e.expr_int, m, "done")
    OBVIOUS
<1>10. Reduce(1, new, <<work>>, {})
    BY <1>1, <1>5, <1>6, <1>7, <1>8, <1>9 DEF Branch
<1>11. PICK mzero : mzero = Meaning(e.mean.ty, 0, TRUE) /\ mzero \in Meanings /\ mzero.ty = e.v.ty
    BY <1>4, ZeroMeans
<1>12. mc \in Meanings
    BY <1>4, <1>5, <1>11, MeanCompareType
<1>13. m \in Meanings /\ m.ty = "i1" /\ m.val = mc.val /\ m.def = mc.def
    BY <1>6, <1>12 DEF Meanings, Types
<1>14. v \in Vals /\ v.ty = "i1" /\ v.val = Compare("!=", e.v.val, 0)
    BY <1>7, CompareWord DEF Val, Vals, Types
<1>15. mc.def => mc.val = Compare("!=", e.v.val, 0)
    <2>1. Common(e.mean, mzero) = e.v.ty
        BY <1>4, <1>11 DEF Common, Numeric
    <2>2. MeantAs(e.mean, e.v.ty) = e.mean /\ MeantAs(mzero, e.v.ty) = mzero
        BY <1>4, <1>11 DEF MeantAs
    <2>3. mc = Meaning("i32", Compare("!=", e.mean.val, mzero.val), e.mean.def /\ mzero.def)
        BY <1>5, <1>11, <2>1, <2>2 DEF MeanCompare
    <2>4. PICK d \in BOOLEAN : d = (e.mean.def /\ mzero.def)
        OBVIOUS
    <2>5. mc = Meaning("i32", Compare("!=", e.mean.val, mzero.val), d)
        BY <2>3, <2>4, Zenon
    <2>6. mc.val = Compare("!=", e.mean.val, mzero.val) /\ mc.def = d
        BY <2>5 DEF Meaning
    <2>7. mzero.val = 0
        BY <1>11 DEF Meaning
    <2>8. d => e.mean.val = e.v.val
        BY <2>4, <1>4 DEF Means
    <2> QED BY <2>6, <2>7, <2>8
<1>16. Means(v, m)
    BY <1>13, <1>14, <1>15 DEF Means
<1>17. new \in SoundEntries
    BY <1>4, <1>9, <1>13, <1>14, <1>16, EntrySound
<1>18. <<work>> \in Seq(Instrs)
    <2>1. CASE e.v.ty = "i32"
        BY <2>1, <1>8, InstrsMade
    <2>2. CASE e.v.ty = "float"
        BY <2>2, <1>8, InstrsMade
    <2> QED BY <2>1, <2>2, <1>4 DEF Numeric
<1>19. Len(stack) >= 1
    BY <1>2
<1> QED BY <1>2, <1>10, <1>17, <1>18, <1>19, ReduceInv

-----------------------------------------------------------------------------

LEMMA Invariance == Spec => []Inv
<1>p. Parameters
    BY ParametersAssumption
<1>1. Init => Inv
    <2> SUFFICES ASSUME Init PROVE Inv
        OBVIOUS
    <2>1. << >> \in Seq(SoundEntries) /\ << >> \in Seq(Instrs) /\ 0 \in 0 .. MaxVisits
        BY <1>p DEF Parameters
    <2> QED BY <2>1 DEF Init, Inv, StopsJustified
<1>2. Inv /\ [Next]_vars => Inv'
    <2> SUFFICES ASSUME Inv, [Next]_vars PROVE Inv'
        OBVIOUS
    <2>1. CASE UNCHANGED vars
        BY <2>1 DEF vars, Inv, StopsJustified, Nth
    <2>2. CASE Literal \/ LVal
        BY <1>p, <2>2, LeavesInv
    <2>3. CASE (\E op \in {"+", "-"} : UnaryExpr(op)) \/ UnaryCondExpr
        BY <1>p, <2>3, UnaryExprInv, UnaryCondExprInv
    <2>4. CASE (\E op \in BinOps : BinaryExpr(op)) \/ (\E op \in CondOps : BinaryCondExpr(op))
        BY <1>p, <2>4, BinaryExprInv, BinaryCondExprInv
    <2>5. CASE \E param, ret \in {"i32", "float"} : FuncCallStmt(param, ret)
        BY <1>p, <2>5, FuncCallStmtInv DEF Numeric
    <2>6. CASE (\E ty \in {"i32", "float"}, init \in BOOLEAN : Store(ty, init)) \/ Branch
        BY <1>p, <2>6, StoreInv, BranchInv DEF Numeric
    <2> QED BY <2>1, <2>2, <2>3, <2>4, <2>5, <2>6 DEF Next
<1> QED BY <1>1, <1>2, PTL DEF Spec

\* Whatever expression is built, of literals and variables of any values, its
\* value is the one the source means and every instruction gets operands of its
\* type (IRBuilder: BinaryExpr, UnaryExpr, conditions, calls, stores).
THEOREM ValuesAreMeant == Spec => []ValuesSound
<1>1. Inv => ValuesSound
    <2> SUFFICES ASSUME Inv PROVE ValuesSound
        OBVIOUS
    <2>1. ASSUME NEW i \in DOMAIN stack
          PROVE  stack[i] \in SoundEntries
        BY <2>1 DEF Inv
    <2>2. MeansSame
        <3> SUFFICES ASSUME NEW i \in DOMAIN stack, stack[i].mean.def
                     PROVE  stack[i].v.ty = stack[i].mean.ty /\ stack[i].v.val = stack[i].mean.val
            BY DEF MeansSame
        <3> QED BY <2>1, SoundFacts DEF Means
    <2>3. WellTyped
        BY DEF Inv, WellTyped, Instrs
    <2>4. ASSUME NEW i \in DOMAIN stack
          PROVE  /\ stack[i].v.ty \in {"i32", "float", "i1"}
                 /\ stack[i].kind \in {"exp", "cond", "done"}
                 /\ stack[i].mean.def /\ stack[i].v.ty = "i32" => stack[i].v.val \in Words
        <3>1. stack[i].v \in Vals /\ stack[i].kind \in {"exp", "cond", "done"} /\ Means(stack[i].v, stack[i].mean)
            BY <2>1, SoundFacts
        <3> QED BY <3>1 DEF Means, Vals, Types, Numeric
    <2>5. TypeOK
        BY <2>4 DEF Inv, TypeOK
    <2> QED BY <2>2, <2>3, <2>5 DEF ValuesSound
<1> QED BY <1>1, Invariance, PTL

\* The compiler traps while it folds only on a division that has no meaning, and
\* exits on % only where the checker rejects; what the checker takes for an int
\* is one.
THEOREM StopsAreRight == Spec => []StopsSound
<1>1. Inv => StopsSound
    <2> SUFFICES ASSUME Inv PROVE StopsSound
        OBVIOUS
    <2>1. CheckerSound
        <3> SUFFICES ASSUME NEW i \in DOMAIN stack, stack[i].expr_int /\ stack[i].kind = "exp"
                     PROVE  stack[i].v.ty = "i32"
            BY DEF CheckerSound
        <3>1. stack[i] \in SoundEntries
            BY DEF Inv
        <3> QED BY <3>1, SoundFacts
    <2> QED BY <2>1 DEF Inv, StopsSound
<1> QED BY <1>1, Invariance, PTL

-----------------------------------------------------------------------------
(* The walks of Scopes.                                                    *)

BodyKinds == {"Func", "If", "Else", "While", "Block"}

Bodies == {f \in [kind : BodyKinds, block : BOOLEAN, done : BOOLEAN, left : BOOLEAN, ended : BOOLEAN, building : BOOLEAN] :
              (f.left => f.block) /\ (f.done => ~f.block)}

IsScope(t) == t = [var |-> t.var, arr |-> t.arr] /\ DOMAIN t.var \subseteq Names
IsScopes(s) == \E T : s \in Seq(T) /\ \A t \in T : IsScope(t)

WalkTypes ==
    /\ WalkTypeOK
    /\ IsScopes(variables) /\ IsScopes(name2var)
    /\ frames \in Seq(Bodies) /\ term \in BOOLEAN
    /\ Len(variables) = Len(frames) + 1

(* The builder is in the first k bodies, all of them if it is building,    *)
(* else the last of these is left.  It has as many scopes as the checker   *)
(* then, with the same declarations but in the body that is left.          *)
InStep(k) ==
    /\ k \in 0 .. Len(frames)
    /\ \A i \in 1 .. Len(frames) : frames[i].building <=> i <= k
    /\ \A i \in 1 .. k - 1 : ~frames[i].left
    /\ k < Len(frames) => k > 0 /\ frames[k].left
    /\ Len(name2var) = k + 1
    /\ \A i \in 1 .. k + 1 : variables[i].var = name2var[i].var \/ (i = k + 1 /\ k > 0 /\ frames[k].left)

FunctionsKnown ==
    /\ DOMAIN name2func \subseteq DOMAIN functions \cup DOMAIN Library
    /\ DOMAIN functions \cap DOMAIN Library = {} =>
          \A f \in DOMAIN functions : f \in DOMAIN name2func /\ name2func[f] = functions[f]

WalkInv ==
    /\ WalkTypes
    /\ verdict = "accepted" /\ built = "ok" => (\E k \in Nat : InStep(k)) /\ FunctionsKnown
    /\ built = "ok" /\ frames # << >> => fun.void \/ ret_addr = fun.id
    /\ CheckedIsBuilt

\* A finite set of numbers has a greatest one.
LEMMA MaxMember ==
  ASSUME NEW K \in SUBSET Nat, IsFiniteSet(K), K # {}
  PROVE  Max(K) \in K /\ \A k \in K : k <= Max(K)
<1> DEFINE Bad == {Y \in SUBSET K : Y # {} /\ \A m \in Y : \E y \in Y : y > m}
           R   == StrictSubsetOrdering(K)
<1>1. Bad = {}
  <2> SUFFICES ASSUME Bad # {} PROVE FALSE
    OBVIOUS
  <2>1. IsWellFoundedOn(R, FiniteSubsetsOf(K))
    BY FS_StrictSubsetOrderingWellFounded
  <2>2. FiniteSubsetsOf(K) = SUBSET K
    BY FS_FiniteSubsetsOfFinite
  <2>3. \E Y \in Bad : \A Z \in Bad : <<Z, Y>> \notin R
    <3>1. Bad \subseteq FiniteSubsetsOf(K)
      BY <2>2
    <3> HIDE DEF R, Bad
    <3> QED BY <2>1, <3>1, WFMin
  <2>4. PICK Y \in Bad : \A Z \in Bad : <<Z, Y>> \notin R
    BY <2>3
  <2>5. PICK m \in Y : TRUE
    OBVIOUS
  <2>6. Y \ {m} # {} /\ Y \ {m} \in SUBSET K
    OBVIOUS
  <2>7. Y \ {m} \notin Bad
    BY <2>4, <2>5, <2>6 DEF StrictSubsetOrdering
  <2>8. PICK n \in Y \ {m} : \A y \in Y \ {m} : ~(y > n)
    BY <2>6, <2>7
  <2>9. m \in Nat /\ n \in Nat
    OBVIOUS
  <2>10. \E k \in Y : \A y \in Y : ~(y > k)
    <3>1. CASE m > n
      <4>1. \A y \in Y : ~(y > m)
        BY <2>8, <2>9, <3>1
      <4> QED BY <4>1, <2>5
    <3>2. CASE ~(m > n)
      BY <2>8, <3>2
    <3> QED BY <3>1, <3>2
  <2> QED BY <2>10
<1>2. K \notin Bad
  BY <1>1
<1>3. \E m \in K : \A y \in K : m >= y
  BY <1>2
<1> QED BY <1>3 DEF Max

\* The first fault of a list, if any, is one of them.
LEMMA FirstOf ==
    ASSUME NEW n \in Nat, NEW faults, DOMAIN faults = 1 .. n
    PROVE  First(faults) = "ok" \/ \E i \in 1 .. n : First(faults) = faults[i]
<1> DEFINE bad == {i \in DOMAIN faults : faults[i] # "ok"}
<1>1. CASE bad = {}
    BY <1>1 DEF First
<1>2. CASE bad # {}
    <2>1. bad \in SUBSET Nat /\ bad \subseteq 1 .. n
        OBVIOUS
    <2>2. \E m \in bad : m = Min(bad)
        <3>1. \E m \in bad : \A k \in bad : m <= k
            <4> DEFINE K == {n - i : i \in bad}
            <4>1. K \in SUBSET Nat /\ K # {} /\ K \subseteq 0 .. n
                BY <1>2, <2>1
            <4>2. IsFiniteSet(K)
                <5>1. IsFiniteSet(0 .. n)
                    BY FS_Interval
                <5> HIDE DEF K
                <5> QED BY <4>1, <5>1, FS_Subset
            <4>3. PICK m \in K : \A k \in K : k <= m
                <5> HIDE DEF K
                <5> QED BY <4>1, <4>2, MaxMember
            <4>4. PICK i \in bad : m = n - i
                BY <4>3
            <4>5. ASSUME NEW j \in bad PROVE i <= j
                <5>1. n - j \in K
                    OBVIOUS
                <5>2. n - j <= n - i
                    BY <4>3, <4>4, <5>1
                <5> QED BY <2>1, <5>2
            <4> QED BY <4>5
        <3> HIDE DEF bad
        <3> QED BY <3>1 DEF Min
    <2>3. First(faults) = faults[Min(bad)]
        BY <1>2 DEF First
    <2> HIDE DEF bad
    <2> QED BY <2>1, <2>2, <2>3
<1> QED BY <1>1, <1>2

\* Scopes with the same declarations give a name the same meaning.
LEMMA SameMeaning ==
    ASSUME NEW l \in Nat, NEW a, NEW b, NEW n,
           DOMAIN a = 1 .. l, DOMAIN b = 1 .. l, \A i \in 1 .. l : a[i].var = b[i].var
    PROVE  Resolve(a, n) = Resolve(b, n)
<1> DEFINE in == {i \in DOMAIN a : n \in DOMAIN a[i].var}
<1>1. in = {i \in DOMAIN b : n \in DOMAIN b[i].var}
    OBVIOUS
<1>2. in # {} => Max(in) \in in
    <2>1. in \in SUBSET Nat /\ in \subseteq 1 .. l
        OBVIOUS
    <2>2. IsFiniteSet(1 .. l)
        BY FS_Interval
    <2> HIDE DEF in
    <2>3. IsFiniteSet(in)
        BY <2>1, <2>2, FS_Subset
    <2> QED BY <2>1, <2>3, MaxMember
<1>3. in # {} => a[Max(in)].var = b[Max(in)].var
    <2>1. in \subseteq 1 .. l
        OBVIOUS
    <2> HIDE DEF in
    <2> QED BY <1>2, <2>1
<1> QED BY <1>1, <1>3 DEF Resolve

-----------------------------------------------------------------------------
(* Scopes.                                                                 *)

LEMMA EmptyIsScope == IsScope(EmptyScope)
<1>1. DOMAIN << >> = {}
    OBVIOUS
<1> QED BY <1>1 DEF IsScope, EmptyScope

LEMMA EnterOne ==
    ASSUME NEW s, IsScopes(s)
    PROVE  /\ IsScopes(Enter(s, 1))
           /\ Len(Enter(s, 1)) = Len(s) + 1
           /\ \A i \in 1 .. Len(s) : Enter(s, 1)[i] = s[i]
           /\ Enter(s, 1)[Len(s) + 1] = EmptyScope
<1>1. PICK T : s \in Seq(T) /\ \A t \in T : IsScope(t)
    BY DEF IsScopes
<1> DEFINE U == T \cup {EmptyScope}
<1> PICK e : e = [i \in 1 .. 1 |-> EmptyScope]
    OBVIOUS
<1>2. e \in Seq(U) /\ Len(e) = 1 /\ e[1] = EmptyScope /\ s \in Seq(U)
    BY <1>1
<1>3. Enter(s, 1) = s \o e
    BY DEF Enter
<1>4. s \o e \in Seq(U) /\ Len(s \o e) = Len(s) + 1 /\ (\A i \in 1 .. Len(s) : (s \o e)[i] = s[i])
      /\ (s \o e)[Len(s) + 1] = e[1]
    BY <1>2
<1>5. \A t \in U : IsScope(t)
    BY <1>1, EmptyIsScope
<1> QED BY <1>2, <1>3, <1>4, <1>5 DEF IsScopes

LEMMA ExitOne ==
    ASSUME NEW s, IsScopes(s), Len(s) > 0
    PROVE  /\ IsScopes(Exit(s, 1))
           /\ Len(Exit(s, 1)) = Len(s) - 1
           /\ \A i \in 1 .. Len(s) - 1 : Exit(s, 1)[i] = s[i]
<1>1. PICK T : s \in Seq(T) /\ \A t \in T : IsScope(t)
    BY DEF IsScopes
<1>2. Exit(s, 1) = SubSeq(s, 1, Len(s) - 1)
    BY DEF Exit
<1> PICK l : l = Len(s) - 1
    OBVIOUS
<1>3. l \in Nat /\ l + 1 = Len(s) /\ SubSeq(s, 1, l) \in Seq(T) /\ Len(SubSeq(s, 1, l)) = l
      /\ \A i \in 1 .. l : SubSeq(s, 1, l)[i] = s[i]
    BY <1>1
<1> QED BY <1>1, <1>2, <1>3 DEF IsScopes

\* The last scope gets a new name.
Replaces(u, s, t) == u = [s EXCEPT ![Len(s)] = t]

LEMMA LastReplaced ==
    ASSUME NEW s, IsScopes(s), Len(s) > 0, NEW t, IsScope(t), NEW u, Replaces(u, s, t)
    PROVE  /\ IsScopes(u) /\ Len(u) = Len(s)
           /\ \A i \in 1 .. Len(s) - 1 : u[i] = s[i]
           /\ u[Len(s)] = t
<1>1. PICK T : s \in Seq(T) /\ \A x \in T : IsScope(x)
    BY DEF IsScopes
<1> PICK U : U = T \cup {t}
    OBVIOUS
<1> PICK l : l = Len(s)
    OBVIOUS
<1>2. s \in Seq(U)
    BY <1>1
<1>3. l \in Nat /\ l \in 1 .. l /\ DOMAIN s = 1 .. l /\ s \in [1 .. l -> U]
    BY <1>2
<1>4. u \in [1 .. l -> U] /\ (\A i \in 1 .. l - 1 : u[i] = s[i]) /\ u[l] = t
    BY <1>3 DEF Replaces
<1>5. u \in Seq(U) /\ Len(u) = l
    BY <1>3, <1>4
<1>6. \A x \in U : IsScope(x)
    BY <1>1
<1> QED BY <1>4, <1>5, <1>6 DEF IsScopes

LEMMA BindLast ==
    ASSUME NEW s, IsScopes(s), Len(s) > 0, NEW S \in SUBSET Names, NEW d
    PROVE  /\ IsScopes(Bind(s, S, d))
           /\ Len(Bind(s, S, d)) = Len(s)
           /\ \A i \in 1 .. Len(s) - 1 : Bind(s, S, d)[i] = s[i]
           /\ Bind(s, S, d)[Len(s)].var = Inserted(s[Len(s)].var, S, d)
<1> PICK x : x = s[Len(s)]
    OBVIOUS
<1> PICK t : t = [x EXCEPT !.var = Inserted(x.var, S, d)]
    OBVIOUS
<1>1. IsScope(x) /\ Len(s) \in DOMAIN s
    BY DEF IsScopes
<1>2. t.var = Inserted(x.var, S, d) /\ t.arr = x.arr /\ t = [var |-> t.var, arr |-> t.arr]
    BY <1>1 DEF IsScope
<1>3. DOMAIN Inserted(x.var, S, d) \subseteq Names
    BY <1>1 DEF IsScope, Inserted
<1>4. IsScope(t)
    BY <1>2, <1>3 DEF IsScope
<1>5. Bind(s, S, d) = [s EXCEPT ![Len(s)] = t]
    BY <1>1 DEF Bind
<1> PICK u : Replaces(u, s, t)
    BY DEF Replaces
<1>6. IsScopes(u) /\ Len(u) = Len(s) /\ (\A i \in 1 .. Len(s) - 1 : u[i] = s[i]) /\ u[Len(s)] = t
    BY <1>4, LastReplaced
<1> QED BY <1>2, <1>5, <1>6 DEF Replaces

-----------------------------------------------------------------------------
(* Bodies and what the two sides have in them.                             *)

Verdicts == {"accepted", "VarUnknown", "VarDuplicated", "FuncUnknown", "FuncDuplicated", "FuncParams", "crashed"}
FaultNames == {"ok", "name", "index", "constant", "length", "initializer", "function", "arguments", "return", "break"}

LEMMA FinishedFacts ==
    ASSUME NEW fs \in Seq(Bodies), NEW ended \in BOOLEAN, NEW gs, gs = Finished(fs, ended)
    PROVE  /\ gs \in Seq(Bodies) /\ Len(gs) = Len(fs)
           /\ \A i \in 1 .. Len(fs) : gs[i].building = fs[i].building /\ (fs[i].left => gs[i].left)
           /\ \A i \in 1 .. Len(fs) - 1 : gs[i] = fs[i]
           /\ ~ended => \A i \in 1 .. Len(fs) : gs[i].left = fs[i].left
<1>1. CASE fs = << >>
    BY <1>1 DEF Finished
<1>2. CASE fs # << >>
    <2> PICK l : l = Len(fs)
        OBVIOUS
    <2>1. l \in Nat /\ l \in 1 .. l /\ fs \in [1 .. l -> Bodies] /\ fs[l] \in Bodies
        BY <1>2
    <2> PICK f : f = fs[l]
        OBVIOUS
    <2> DEFINE h == [f EXCEPT !.done = ~f.block, !.left = f.left \/ (f.block /\ ended)]
    <2>0. PICK g : g = h
        OBVIOUS
    <2>2. f \in Bodies /\ f.block \in BOOLEAN /\ f.left \in BOOLEAN /\ (f.left => f.block)
        BY <2>1 DEF Bodies
    <2>3. g.building = f.building /\ g.block = f.block /\ g.done = ~f.block /\ g.left = (f.left \/ (f.block /\ ended))
        BY <2>0, <2>2 DEF Bodies
    <2>4. g \in Bodies
        <3>1. g \in [kind : BodyKinds, block : BOOLEAN, done : BOOLEAN, left : BOOLEAN, ended : BOOLEAN, building : BOOLEAN]
            BY <2>0, <2>2 DEF Bodies
        <3>2. (g.left => g.block) /\ (g.done => ~g.block)
            BY <2>2, <2>3
        <3> QED BY <3>1, <3>2 DEF Bodies
    <2>5. gs = [fs EXCEPT ![l] = g]
        BY <1>2, <2>0, <2>1 DEF Finished
    <2> HIDE DEF h
    <2>6. gs \in [1 .. l -> Bodies] /\ (\A i \in 1 .. l - 1 : gs[i] = fs[i]) /\ gs[l] = g
        BY <2>1, <2>4, <2>5
    <2>7. gs \in Seq(Bodies) /\ Len(gs) = l
        BY <2>1, <2>6
    <2>8. \A i \in 1 .. l : i \in 1 .. l - 1 \/ i = l
        BY <2>1
    <2> QED BY <2>2, <2>3, <2>6, <2>7, <2>8
<1> QED BY <1>1, <1>2

\* Whether the builder is building.
LEMMA BuildingMeans ==
    ASSUME WalkTypes, built = "ok", NEW k, InStep(k)
    PROVE  /\ Building <=> k = Len(frames) /\ (k > 0 => ~frames[k].left)
           /\ k \in Nat /\ Len(frames) \in Nat /\ Len(name2var) = k + 1
<1> PICK l : l = Len(frames)
    OBVIOUS
<1>1. l \in Nat /\ DOMAIN frames = 1 .. l
    BY DEF WalkTypes
<1>2. k \in Nat /\ k <= l
    BY <1>1 DEF InStep
<1>3. \A i \in 1 .. k - 1 : ~frames[i].left
    BY DEF InStep
<1>4. k < l => k > 0 /\ frames[k].left
    BY DEF InStep
<1>5. Building <=> \A i \in 1 .. l : ~frames[i].left
    BY <1>1 DEF Building
<1>6. CASE k = l
    <2>1. \A i \in 1 .. l : i = k \/ i \in 1 .. k - 1
        BY <1>1, <1>6
    <2>2. k > 0 => k \in 1 .. l
        BY <1>2, <1>6
    <2>3. Building <=> (k > 0 => ~frames[k].left)
        BY <1>2, <1>3, <1>5, <2>1, <2>2
    <2> QED BY <1>1, <1>2, <1>6, <2>3 DEF InStep
<1>7. CASE k < l
    <2>1. k \in 1 .. l /\ frames[k].left /\ k # l
        BY <1>1, <1>2, <1>4, <1>7
    <2> QED BY <1>1, <1>2, <1>5, <2>1 DEF InStep
<1> QED BY <1>1, <1>2, <1>6, <1>7

SameVars(a, b, l) == \A i \in 1 .. l : a[i].var = b[i].var

\* Building, the two sides have the same names.
LEMMA BuildingSame ==
    ASSUME WalkInv, verdict = "accepted", Building
    PROVE  /\ SameVars(variables, name2var, Len(frames) + 1)
           /\ Len(variables) = Len(frames) + 1 /\ Len(name2var) = Len(frames) + 1
           /\ \A n : Resolve(variables, n) = Resolve(name2var, n)
<1>1. PICK k \in Nat : InStep(k)
    BY DEF WalkInv, Building
<1>2. k = Len(frames) /\ (k > 0 => ~frames[k].left) /\ Len(name2var) = k + 1 /\ Len(variables) = k + 1
    BY <1>1, BuildingMeans DEF WalkInv, Building, WalkTypes
<1>3. SameVars(variables, name2var, k + 1)
    BY <1>1, <1>2 DEF InStep, SameVars
<1>4. DOMAIN variables = 1 .. k + 1 /\ DOMAIN name2var = 1 .. k + 1
    BY <1>2 DEF WalkInv, WalkTypes, IsScopes
<1>5. \A n : Resolve(variables, n) = Resolve(name2var, n)
    BY <1>3, <1>4, SameMeaning DEF SameVars
<1> QED BY <1>2, <1>3, <1>5

\* A statement without a body.
LEMMA StaysInStep ==
    ASSUME WalkTypes, built = "ok", NEW k, InStep(k), NEW ended \in BOOLEAN,
           frames' = Finished(frames, ended), ended => Building,
           Len(name2var') = Len(name2var),
           Building /\ SameVars(variables, name2var, Len(frames) + 1) => SameVars(variables, name2var, Len(frames) + 1)',
           ~Building => name2var' = name2var /\ \A i \in 1 .. Len(frames) : variables'[i] = variables[i]
    PROVE  InStep(k)'
<1>0. frames \in Seq(Bodies)
    BY DEF WalkTypes
<1>1. /\ Len(frames') = Len(frames)
      /\ \A i \in 1 .. Len(frames) : frames'[i].building = frames[i].building /\ (frames[i].left => frames'[i].left)
      /\ \A i \in 1 .. Len(frames) - 1 : frames'[i] = frames[i]
      /\ ~ended => \A i \in 1 .. Len(frames) : frames'[i].left = frames[i].left
    BY <1>0, FinishedFacts
<1>2. /\ Building <=> k = Len(frames) /\ (k > 0 => ~frames[k].left)
      /\ k \in Nat /\ Len(frames) \in Nat /\ Len(name2var) = k + 1
    BY BuildingMeans
<1>3. k \in 0 .. Len(frames')
    BY <1>1 DEF InStep
<1>4. \A i \in 1 .. Len(frames') : frames'[i].building <=> i <= k
    BY <1>1 DEF InStep
<1>5. \A i \in 1 .. k - 1 : ~frames'[i].left
    <2>1. \A i \in 1 .. k - 1 : i \in 1 .. Len(frames) - 1
        BY <1>2 DEF InStep
    <2> QED BY <1>1, <2>1 DEF InStep
<1>6. k < Len(frames') => k > 0 /\ frames'[k].left
    BY <1>1, <1>2 DEF InStep
<1>7. \A i \in 1 .. k + 1 : variables'[i].var = name2var'[i].var \/ (i = k + 1 /\ k > 0 /\ frames'[k].left)
    <2>1. CASE Building
        <3>1. SameVars(variables, name2var, Len(frames) + 1)
            BY <1>2, <2>1 DEF InStep, SameVars
        <3> QED BY <1>1, <1>2, <2>1, <3>1 DEF SameVars
    <2>2. CASE ~Building
        <3>1. k > 0 /\ frames[k].left /\ frames'[k].left
            BY <1>1, <1>2, <2>2 DEF InStep
        <3>2. \A i \in 1 .. k : variables'[i] = variables[i] /\ variables[i].var = name2var[i].var
            BY <1>2, <2>2 DEF InStep
        <3> QED BY <1>2, <2>2, <3>1, <3>2
    <2> QED BY <2>1, <2>2
<1> QED BY <1>1, <1>2, <1>3, <1>4, <1>5, <1>6, <1>7 DEF InStep

-----------------------------------------------------------------------------
(* Statements.                                                             *)

LEMMA FaultNamed ==
    \A e, lvalue : Fault(e, lvalue) \in {"ok", "index", "name", "constant"}
BY DEF Fault

\* What the checker has found, the builder finds.
LEMMA KnownIsNamed ==
    ASSUME WalkInv, verdict = "accepted", Building, NEW e, Knows(e), NEW lvalue
    PROVE  Fault(e, lvalue) # "name"
<1>1. e # Lit => Resolve(name2var, e.name) # Unknown
    BY BuildingSame DEF Knows
<1> HIDE DEF Unknown
<1> QED BY <1>1 DEF Fault

LEMMA SimpleStep ==
    ASSUME WalkInv, NEW error \in Verdicts, NEW fault \in FaultNames, NEW ends \in BOOLEAN,
           Simple(error, fault, ends),
           IsScopes(variables)', IsScopes(name2var)',
           Len(variables') = Len(variables), Len(name2var') = Len(name2var),
           error = "accepted" /\ Building /\ fault = "ok" /\ SameVars(variables, name2var, Len(frames) + 1)
              => SameVars(variables, name2var, Len(frames) + 1)',
           ~Building => name2var' = name2var /\ \A i \in 1 .. Len(frames) : variables'[i] = variables[i],
           functions' = functions, name2func' = name2func, ret_addr' = ret_addr,
           redefined' \subseteq globals',
           error = "accepted" /\ Building /\ DOMAIN functions \cap DOMAIN Library = {}
              => fault \notin {"name", "function", "arguments"},
           Building /\ fault = "return" => fun.void
    PROVE  WalkInv'
<1>1. /\ verdict = "accepted" /\ verdict' = error /\ nodes \in 0 .. MaxNodes /\ nodes' \in 0 .. MaxNodes
      /\ built' = IF Building THEN fault ELSE built
      /\ term' = IF Building THEN ends ELSE term
      /\ frames' = Finished(frames, Building /\ ends)
      /\ fun' = fun
    <2>1. nodes \in 0 .. MaxNodes
        BY DEF WalkInv, WalkTypes, WalkTypeOK
    <2> QED BY <2>1, InputsAssumption DEF Simple, VisitNode
<1>2. Building \in BOOLEAN /\ (Building => built = "ok")
    BY DEF Building
<1> PICK b \in BOOLEAN : b = (Building /\ ends)
    BY <1>2
<1>3. frames \in Seq(Bodies)
    BY DEF WalkInv, WalkTypes
<1>4. frames' \in Seq(Bodies) /\ Len(frames') = Len(frames)
    BY <1>1, <1>3, FinishedFacts
<1>5. WalkTypes'
    <2>1. built' \in FaultNames /\ term' \in BOOLEAN
        BY <1>1 DEF WalkInv, WalkTypes, WalkTypeOK, FaultNames
    <2>2. \A i \in DOMAIN name2var' : DOMAIN name2var'[i].var \subseteq Names
        BY DEF IsScopes, IsScope
    <2>3. \A i \in DOMAIN variables' : DOMAIN variables'[i].var \subseteq Names
        BY DEF IsScopes, IsScope
    <2>4. \A i \in DOMAIN frames' :
            /\ frames'[i].kind \in {"Func", "If", "Else", "While", "Block"}
            /\ frames'[i].left => frames'[i].block
            /\ frames'[i].done => ~frames'[i].block
        BY <1>4 DEF Bodies, BodyKinds
    <2>5. {ret_addr', fun'.id, nodes'} \subseteq 0 .. MaxNodes
        BY <1>1 DEF WalkInv, WalkTypes, WalkTypeOK
    <2>6. WalkTypeOK'
        BY <1>1, <2>1, <2>2, <2>3, <2>4, <2>5 DEF WalkTypeOK, Verdicts, FaultNames
    <2> QED BY <1>4, <2>1, <2>6 DEF WalkTypes, WalkInv
<1>6. ASSUME verdict' = "accepted", built' = "ok" PROVE \E k \in Nat : InStep(k)'
    <2>1. built = "ok" /\ (Building => fault = "ok") /\ error = "accepted"
        BY <1>1, <1>2, <1>6
    <2>2. PICK k \in Nat : InStep(k)
        BY <1>1, <2>1 DEF WalkInv
    <2>3. Building /\ SameVars(variables, name2var, Len(frames) + 1) => SameVars(variables, name2var, Len(frames) + 1)'
        BY <2>1
    <2>4. frames' = Finished(frames, b) /\ (b => Building)
        BY <1>1
    <2>5. WalkTypes
        BY DEF WalkInv
    <2>6. InStep(k)'
        BY <2>1, <2>2, <2>3, <2>4, <2>5, StaysInStep
    <2> QED BY <2>6
<1>7. verdict' = "accepted" /\ built' = "ok" => FunctionsKnown'
    BY <1>1, <1>2 DEF WalkInv, FunctionsKnown
<1>8. built' = "ok" /\ frames' # << >> => fun'.void \/ ret_addr' = fun'.id
    <2>1. frames' # << >> => frames # << >>
        BY <1>3, <1>4
    <2> QED BY <1>1, <1>2, <2>1 DEF WalkInv
<1>9. CheckedIsBuilt'
    <2>1. CASE Building
        BY <1>1, <1>2, <2>1 DEF CheckedIsBuilt
    <2>2. CASE ~Building
        BY <1>1, <2>2 DEF WalkInv, CheckedIsBuilt
    <2> QED BY <2>1, <2>2
<1> QED BY <1>5, <1>6, <1>7, <1>8, <1>9 DEF WalkInv

\* A statement that leaves the scopes alone.
LEMMA KeepingStep ==
    ASSUME WalkInv, NEW error \in Verdicts, NEW fault \in FaultNames, NEW ends \in BOOLEAN,
           Simple(error, fault, ends), KeepScopes,
           error = "accepted" /\ Building /\ DOMAIN functions \cap DOMAIN Library = {}
              => fault \notin {"name", "function", "arguments"},
           Building /\ fault = "return" => fun.void
    PROVE  WalkInv'
<1>1. /\ variables' = variables /\ name2var' = name2var /\ globals' = globals /\ redefined' = redefined
      /\ functions' = functions /\ name2func' = name2func /\ ret_addr' = ret_addr
    BY DEF KeepScopes
<1>2. IsScopes(variables)' /\ IsScopes(name2var)'
    BY <1>1 DEF WalkInv, WalkTypes, IsScopes, IsScope
<1>3. redefined' \subseteq globals'
    BY <1>1 DEF WalkInv, WalkTypes, WalkTypeOK
<1>4. SameVars(variables, name2var, Len(frames) + 1) => SameVars(variables, name2var, Len(frames) + 1)'
    <2>1. frames' = Finished(frames, Building /\ ends) /\ frames \in Seq(Bodies) /\ (Building /\ ends) \in BOOLEAN
        BY DEF Simple, WalkInv, WalkTypes, Building
    <2>2. Len(frames') = Len(frames)
        BY <2>1, FinishedFacts
    <2> QED BY <1>1, <2>2 DEF SameVars
<1> QED BY <1>1, <1>2, <1>3, <1>4, SimpleStep

LEMMA AssignStep ==
    ASSUME WalkInv, NEW target \in Exprs, NEW value \in Exprs, AssignStmt(target, value)
    PROVE  WalkInv'
<1> PICK error : error = IF Knows(target) /\ Knows(value) THEN "accepted" ELSE "VarUnknown"
    OBVIOUS
<1> PICK faults : faults = <<Fault(value, FALSE), Fault(target, TRUE)>>
    OBVIOUS
<1> PICK fault : fault = First(faults)
    OBVIOUS
<1>1. error \in Verdicts
    BY DEF Verdicts
<1>2. DOMAIN faults = 1 .. 2 /\ faults[1] = Fault(value, FALSE) /\ faults[2] = Fault(target, TRUE)
    OBVIOUS
<1>3. fault = "ok" \/ fault = Fault(value, FALSE) \/ fault = Fault(target, TRUE)
    <2>1. fault = "ok" \/ \E i \in 1 .. 2 : fault = faults[i]
        BY <1>2, FirstOf
    <2>2. \A i \in 1 .. 2 : i = 1 \/ i = 2
        OBVIOUS
    <2> QED BY <1>2, <2>1, <2>2
<1>4. fault \in {"ok", "index", "name", "constant"}
    BY <1>3, FaultNamed
<1>5. fault \in FaultNames
    BY <1>4 DEF FaultNames
<1>6. Simple(error, fault, FALSE) /\ KeepScopes
    BY DEF AssignStmt
<1>7. error = "accepted" /\ Building => fault # "name"
    <2> SUFFICES ASSUME error = "accepted", Building PROVE fault # "name"
        OBVIOUS
    <2>1. Knows(target) /\ Knows(value) /\ verdict = "accepted"
        BY DEF AssignStmt, Simple, VisitNode
    <2>2. Fault(value, FALSE) # "name" /\ Fault(target, TRUE) # "name"
        BY <2>1, KnownIsNamed
    <2> QED BY <1>3, <2>2
<1> QED BY <1>1, <1>4, <1>5, <1>6, <1>7, KeepingStep

LEMMA ReturnStep ==
    ASSUME WalkInv, NEW e \in Exprs, NEW none \in BOOLEAN, ReturnStmt(e, none)
    PROVE  WalkInv'
<1> PICK error : error = IF none THEN "crashed" ELSE IF Knows(e) THEN "accepted" ELSE "VarUnknown"
    OBVIOUS
<1> PICK slot : slot = IF ret_addr # fun.id THEN "return" ELSE "ok"
    OBVIOUS
<1> PICK faults : faults = <<Fault(e, FALSE), slot>>
    OBVIOUS
<1> PICK fault : fault = IF none THEN "ok" ELSE First(faults)
    OBVIOUS
<1>1. error \in Verdicts
    BY DEF Verdicts
<1>2. DOMAIN faults = 1 .. 2 /\ faults[1] = Fault(e, FALSE) /\ faults[2] = slot
    OBVIOUS
<1>3. fault = "ok" \/ (~none /\ fault = Fault(e, FALSE)) \/ fault = slot
    <2>1. First(faults) = "ok" \/ \E i \in 1 .. 2 : First(faults) = faults[i]
        BY <1>2, FirstOf
    <2>2. \A i \in 1 .. 2 : i = 1 \/ i = 2
        OBVIOUS
    <2> QED BY <1>2, <2>1, <2>2
<1>4. fault \in {"ok", "index", "name", "constant", "return"}
    BY <1>3, FaultNamed
<1>5. fault \in FaultNames
    BY <1>4 DEF FaultNames
<1>6. Simple(error, fault, TRUE) /\ KeepScopes
    BY DEF ReturnStmt
<1>7. error = "accepted" /\ Building => fault # "name"
    <2> SUFFICES ASSUME error = "accepted", Building PROVE fault # "name"
        OBVIOUS
    <2>1. Knows(e) /\ verdict = "accepted"
        BY DEF ReturnStmt, Simple, VisitNode
    <2>2. Fault(e, FALSE) # "name"
        BY <2>1, KnownIsNamed
    <2> QED BY <1>3, <2>2
<1>8. Building /\ fault = "return" => fun.void
    <2> SUFFICES ASSUME Building, fault = "return" PROVE fun.void
        OBVIOUS
    <2>1. slot = "return"
        <3>1. Fault(e, FALSE) # "return"
            BY FaultNamed
        <3> QED BY <1>3, <3>1
    <2>2. built = "ok" /\ frames # << >>
        BY DEF Building, ReturnStmt, WantsStmt
    <2> QED BY <2>1, <2>2 DEF WalkInv
<1> QED BY <1>1, <1>4, <1>5, <1>6, <1>7, <1>8, KeepingStep

LEMMA BreakStep ==
    ASSUME WalkInv, BreakOrContinue
    PROVE  WalkInv'
<1> PICK fault : fault = IF \E i \in DOMAIN frames : frames[i].kind = "While" THEN "ok" ELSE "break"
    OBVIOUS
<1>1. "accepted" \in Verdicts /\ fault \in FaultNames /\ fault \in {"ok", "break"}
    BY DEF Verdicts, FaultNames
<1>2. Simple("accepted", fault, TRUE) /\ KeepScopes
    BY DEF BreakOrContinue
<1> QED BY <1>1, <1>2, KeepingStep

LEMMA CallStep ==
    ASSUME WalkInv, NEW f, NEW n \in Nat, NEW args, DOMAIN args = 1 .. n, CallStmt(f, args)
    PROVE  WalkInv'
<1> PICK error : error = IF \E i \in DOMAIN args : ~Knows(args[i]) THEN "VarUnknown"
                         ELSE IF f \notin DOMAIN functions THEN "FuncUnknown"
                         ELSE IF functions[f] # Len(args) THEN "FuncParams" ELSE "accepted"
    OBVIOUS
<1> PICK faults : faults = [i \in DOMAIN args |-> Fault(args[i], FALSE)]
    OBVIOUS
<1> PICK fault : fault = IF f \notin DOMAIN name2func THEN "function"
                         ELSE IF name2func[f] # Len(args) THEN "arguments" ELSE First(faults)
    OBVIOUS
<1>1. error \in Verdicts
    BY DEF Verdicts
<1>2. First(faults) = "ok" \/ \E i \in 1 .. n : First(faults) = Fault(args[i], FALSE)
    <2>1. DOMAIN faults = 1 .. n
        OBVIOUS
    <2>2. First(faults) = "ok" \/ \E i \in 1 .. n : First(faults) = faults[i]
        BY <2>1, FirstOf
    <2> QED BY <2>2
<1>3. fault \in {"ok", "index", "name", "constant", "function", "arguments"}
    BY <1>2, FaultNamed
<1>4. fault \in FaultNames
    BY <1>3 DEF FaultNames
<1>5. Simple(error, fault, FALSE) /\ KeepScopes
    BY DEF CallStmt
<1>6. ASSUME error = "accepted", Building, DOMAIN functions \cap DOMAIN Library = {}
      PROVE  fault \notin {"name", "function", "arguments"}
    <2>1. verdict = "accepted" /\ built = "ok"
        BY <1>6 DEF CallStmt, Simple, VisitNode, Building
    <2>2. (\A i \in DOMAIN args : Knows(args[i])) /\ f \in DOMAIN functions /\ functions[f] = Len(args)
        BY <1>6
    <2>3. f \in DOMAIN name2func /\ name2func[f] = functions[f]
        BY <1>6, <2>1, <2>2 DEF WalkInv, FunctionsKnown
    <2>4. fault = First(faults)
        BY <2>2, <2>3
    <2>5. \A i \in 1 .. n : Fault(args[i], FALSE) # "name"
        BY <1>6, <2>1, <2>2, KnownIsNamed
    <2>6. fault # "name"
        BY <1>2, <2>4, <2>5
    <2>7. fault \in {"ok", "index", "name", "constant"}
        BY <1>2, <2>4, FaultNamed
    <2> QED BY <2>6, <2>7
<1> QED BY <1>1, <1>3, <1>4, <1>5, <1>6, KeepingStep

\* A binding of the same names on both sides.
LEMMA BoundAlike ==
    ASSUME NEW a, NEW b, IsScopes(a), IsScopes(b), NEW l \in Nat, Len(a) = l + 1, Len(b) = l + 1,
           SameVars(a, b, l + 1), NEW S \in SUBSET Names, NEW d
    PROVE  SameVars(Bind(a, S, d), Bind(b, S, d), l + 1)
<1>1. /\ \A i \in 1 .. l : Bind(a, S, d)[i] = a[i]
      /\ Bind(a, S, d)[l + 1].var = Inserted(a[l + 1].var, S, d)
    BY BindLast
<1>2. /\ \A i \in 1 .. l : Bind(b, S, d)[i] = b[i]
      /\ Bind(b, S, d)[l + 1].var = Inserted(b[l + 1].var, S, d)
    BY BindLast
<1>3. a[l + 1].var = b[l + 1].var /\ \A i \in 1 .. l : a[i].var = b[i].var
    BY DEF SameVars
<1>4. \A i \in 1 .. l + 1 : i \in 1 .. l \/ i = l + 1
    OBVIOUS
<1> QED BY <1>1, <1>2, <1>3, <1>4 DEF SameVars

\* The name of a constant array is recorded in the last scope, no declaration changes.
RecordsName(u, s, c) == u = [s EXCEPT ![Len(s)].arr = @ \cup {c}]
KeepsDecls(u, s) == IsScopes(u) /\ Len(u) = Len(s) /\ \A i \in 1 .. Len(s) : u[i].var = s[i].var

LEMMA ArrKept ==
    ASSUME NEW s, IsScopes(s), Len(s) > 0, NEW c, NEW u, RecordsName(u, s, c)
    PROVE  KeepsDecls(u, s)
<1> PICK x : x = s[Len(s)]
    OBVIOUS
<1>0. PICK t : t = [x EXCEPT !.arr = x.arr \cup {c}]
    OBVIOUS
<1>1. IsScope(x) /\ Len(s) \in DOMAIN s
    BY DEF IsScopes
<1>2. t.var = x.var /\ t = [var |-> t.var, arr |-> t.arr]
    BY <1>0, <1>1 DEF IsScope
<1>3. IsScope(t)
    BY <1>1, <1>2 DEF IsScope
<1>5. Replaces(u, s, t)
    BY <1>0, <1>1 DEF Replaces, RecordsName
<1>6. IsScopes(u) /\ Len(u) = Len(s) /\ (\A i \in 1 .. Len(s) - 1 : u[i] = s[i]) /\ u[Len(s)] = t
    BY <1>3, <1>5, LastReplaced
<1>7. \A i \in 1 .. Len(s) : i \in 1 .. Len(s) - 1 \/ i = Len(s)
    BY <1>1 DEF IsScopes
<1> QED BY <1>2, <1>6, <1>7 DEF KeepsDecls

LEMMA VarDefFaults ==
    \A kind, len, init : VarDefFault(kind, len, init) \in {"ok", "length", "initializer", Fault(init, FALSE)}
<1> SUFFICES ASSUME NEW kind, NEW len, NEW init
             PROVE  VarDefFault(kind, len, init) \in {"ok", "length", "initializer", Fault(init, FALSE)}
    OBVIOUS
<1>0. \A faults : DOMAIN faults = 1 .. 3 => First(faults) = "ok" \/ \E i \in 1 .. 3 : First(faults) = faults[i]
    BY FirstOf
<1> PICK a : a = IF kind \in Arrays /\ ~(Fault(len, FALSE) = "ok" /\ Const(len)) THEN "length" ELSE "ok"
    OBVIOUS
<1> PICK c : c = IF (kind # "var" \/ frames = << >>) /\ ~Const(init) THEN "initializer" ELSE "ok"
    OBVIOUS
<1> PICK faults : faults = <<a, Fault(init, FALSE), c>>
    OBVIOUS
<1>1. DOMAIN faults = 1 .. 3 /\ faults[1] = a /\ faults[2] = Fault(init, FALSE) /\ faults[3] = c
    OBVIOUS
<1>2. First(faults) = "ok" \/ \E i \in 1 .. 3 : First(faults) = faults[i]
    BY <1>0, <1>1
<1>3. \A i \in 1 .. 3 : i = 1 \/ i = 2 \/ i = 3
    OBVIOUS
<1>4. First(faults) \in {"ok", a, Fault(init, FALSE), c}
    BY <1>1, <1>2, <1>3
<1>5. VarDefFault(kind, len, init) = First(faults)
    BY DEF VarDefFault
<1> QED BY <1>4, <1>5

LEMMA VarDefStep ==
    ASSUME WalkInv, NEW n \in Names, NEW kind, NEW len, NEW init, VarDef(n, kind, len, init)
    PROVE  WalkInv'
<1>0. \A s, c, u : IsScopes(s) /\ Len(s) > 0 /\ RecordsName(u, s, c) => KeepsDecls(u, s)
    BY ArrKept
<1> PICK d : d = [id |-> nodes + 1, kind |-> kind]
    OBVIOUS
<1> PICK fault : fault = VarDefFault(kind, len, init)
    OBVIOUS
<1> PICK error : error = IF ~Knows(init) THEN "VarUnknown"
                         ELSE IF n \in DOMAIN variables[Len(variables)].var THEN "VarDuplicated" ELSE "accepted"
    OBVIOUS
<1> PICK c : c = ConstName(n)
    OBVIOUS
<1>1. /\ Simple(error, fault, FALSE)
      /\ variables' = IF error = "accepted" THEN Bind(variables, {n}, d) ELSE variables
      /\ functions' = functions /\ name2func' = name2func /\ ret_addr' = ret_addr
    BY DEF VarDef
<1>2. \/ /\ ~Building \/ fault # "ok"
         /\ name2var' = name2var /\ globals' = globals /\ redefined' = redefined
      \/ /\ Building /\ fault = "ok"
         /\ name2var' = [Bind(name2var, {n}, d) EXCEPT ![Len(name2var)].arr = @ \cup {c}]
         /\ Define({c})
      \/ /\ Building /\ fault = "ok"
         /\ name2var' = Bind(name2var, {n}, d)
         /\ \E G : Define(G)
    BY DEF VarDef
<1>3. fault \in {"ok", "length", "initializer", "index", "name", "constant"} /\ (fault = "name" => Fault(init, FALSE) = "name")
    <2>1. fault \in {"ok", "length", "initializer", Fault(init, FALSE)}
        BY VarDefFaults
    <2>2. Fault(init, FALSE) \in {"ok", "index", "name", "constant"}
        BY FaultNamed
    <2> QED BY <2>1, <2>2
<1>4. error \in Verdicts /\ fault \in FaultNames
    BY <1>3 DEF Verdicts, FaultNames
<1>5. /\ IsScopes(variables) /\ IsScopes(name2var) /\ Len(frames) \in Nat
      /\ Len(variables) = Len(frames) + 1 /\ {n} \in SUBSET Names
    BY DEF WalkInv, WalkTypes
<1>6. /\ IsScopes(Bind(variables, {n}, d)) /\ Len(Bind(variables, {n}, d)) = Len(variables)
      /\ \A i \in 1 .. Len(frames) : Bind(variables, {n}, d)[i] = variables[i]
    BY <1>5, BindLast
<1>7. IsScopes(variables)' /\ Len(variables') = Len(variables) /\ \A i \in 1 .. Len(frames) : variables'[i] = variables[i]
    <2>1. IsScopes(variables')
        BY <1>1, <1>5, <1>6
    <2> QED BY <2>1, <1>1, <1>6 DEF IsScopes, IsScope
<1>8. verdict = "accepted"
    BY <1>1 DEF Simple, VisitNode
<1>9. Building =>
        /\ SameVars(variables, name2var, Len(frames) + 1)
        /\ Len(name2var) = Len(frames) + 1 /\ Len(name2var) > 0
    BY <1>5, <1>8, BuildingSame
<1>10. Building =>
        /\ IsScopes(Bind(name2var, {n}, d)) /\ Len(Bind(name2var, {n}, d)) = Len(frames) + 1
        /\ SameVars(Bind(variables, {n}, d), Bind(name2var, {n}, d), Len(frames) + 1)
    <2> SUFFICES ASSUME Building
                 PROVE  /\ IsScopes(Bind(name2var, {n}, d)) /\ Len(Bind(name2var, {n}, d)) = Len(frames) + 1
                        /\ SameVars(Bind(variables, {n}, d), Bind(name2var, {n}, d), Len(frames) + 1)
        OBVIOUS
    <2>1. SameVars(Bind(variables, {n}, d), Bind(name2var, {n}, d), Len(frames) + 1)
        BY <1>5, <1>9, BoundAlike
    <2>2. IsScopes(Bind(name2var, {n}, d)) /\ Len(Bind(name2var, {n}, d)) = Len(name2var)
        BY <1>5, <1>9, BindLast
    <2> QED BY <1>9, <2>1, <2>2
<1>11. /\ IsScopes(name2var)' /\ Len(name2var') = Len(name2var)
       /\ Building /\ fault = "ok" => SameVars(Bind(variables, {n}, d), name2var', Len(frames) + 1)
       /\ ~Building => name2var' = name2var
    <2> DEFINE Goal == /\ IsScopes(name2var') /\ Len(name2var') = Len(name2var)
                       /\ Building /\ fault = "ok" => SameVars(Bind(variables, {n}, d), name2var', Len(frames) + 1)
                       /\ ~Building => name2var' = name2var
    <2>1. CASE name2var' = name2var /\ (~Building \/ fault # "ok")
        BY <1>5, <2>1
    <2>2. CASE Building /\ name2var' = Bind(name2var, {n}, d)
        BY <1>9, <1>10, <2>2
    <2>3. CASE Building /\ name2var' = [Bind(name2var, {n}, d) EXCEPT ![Len(name2var)].arr = @ \cup {c}]
        <3> PICK s : s = Bind(name2var, {n}, d)
            OBVIOUS
        <3>1. IsScopes(s) /\ Len(s) = Len(frames) + 1 /\ Len(s) > 0 /\ Len(s) = Len(name2var)
              /\ SameVars(Bind(variables, {n}, d), s, Len(frames) + 1)
            BY <1>5, <1>9, <1>10, <2>3
        <3> PICK u : u = name2var'
            OBVIOUS
        <3>2. RecordsName(u, s, c)
            BY <2>3, <3>1 DEF RecordsName
        <3>3. KeepsDecls(u, s)
            BY <1>0, <3>1, <3>2
        <3> QED BY <2>3, <3>1, <3>3 DEF SameVars, KeepsDecls
    <2>4. Goal
        BY <1>2, <2>1, <2>2, <2>3
    <2>5. IsScopes(name2var)' <=> IsScopes(name2var')
        BY DEF IsScopes, IsScope
    <2> QED BY <2>4, <2>5
<1>12. redefined' \subseteq globals'
    <2>1. redefined \subseteq globals
        BY DEF WalkInv, WalkTypes, WalkTypeOK
    <2>2. (redefined' = redefined /\ globals' = globals) \/ \E G : Define(G)
        BY <1>2
    <2> QED BY <2>1, <2>2 DEF Define
<1>13. error = "accepted" /\ Building /\ fault = "ok" => SameVars(variables, name2var, Len(frames) + 1)'
    <2> SUFFICES ASSUME error = "accepted", Building, fault = "ok"
                 PROVE  SameVars(variables, name2var, Len(frames) + 1)'
        OBVIOUS
    <2>1. variables' = Bind(variables, {n}, d)
        BY <1>1
    <2>2. frames' = Finished(frames, FALSE) /\ frames \in Seq(Bodies)
        BY <1>1 DEF Simple, WalkInv, WalkTypes
    <2>3. Len(frames') = Len(frames)
        BY <2>2, FinishedFacts
    <2>5. SameVars(variables', name2var', Len(frames') + 1)
        BY <1>11, <2>1, <2>3
    <2> QED BY <2>5 DEF SameVars
<1>14. error = "accepted" /\ Building => fault \notin {"name", "function", "arguments"}
    <2> SUFFICES ASSUME error = "accepted", Building PROVE fault # "name"
        BY <1>3
    <2>1. Knows(init)
        OBVIOUS
    <2>2. Fault(init, FALSE) # "name"
        BY <1>8, <2>1, KnownIsNamed
    <2> QED BY <1>3, <2>2
<1>15. fault # "return"
    BY <1>3
<1> QED BY <1>1, <1>4, <1>7, <1>11, <1>12, <1>13, <1>14, <1>15, SimpleStep

-----------------------------------------------------------------------------
(* Bodies open and close.                                                  *)

LEMMA ScopesOfBody ==
    \A f : f.kind \in BodyKinds /\ f.block \in BOOLEAN =>
        /\ CheckerScopes(f.kind) = 1
        /\ OuterScope(f) + BlockScope(f) = 1
        /\ OuterScope(f) + NeedExitScope(f) = 1
<1> SUFFICES ASSUME NEW f, f.kind \in BodyKinds, f.block \in BOOLEAN
             PROVE  /\ CheckerScopes(f.kind) = 1
                    /\ OuterScope(f) + BlockScope(f) = 1
                    /\ OuterScope(f) + NeedExitScope(f) = 1
    OBVIOUS
<1>1. CheckerScopes(f.kind) = 1
    BY DEF CheckerScopes, BodyKinds
<1>2. CASE f.kind = "Func" \/ ~f.block
    <2>1. OuterScope(f) = 1 /\ BlockScope(f) = 0 /\ NeedExitScope(f) = 0
        BY <1>2 DEF OuterScope, BlockScope, NeedExitScope
    <2> QED BY <1>1, <2>1
<1>3. CASE f.kind # "Func" /\ f.block
    <2>1. OuterScope(f) = 0 /\ BlockScope(f) = 1 /\ NeedExitScope(f) = 1
        BY <1>3 DEF OuterScope, BlockScope, NeedExitScope
    <2> QED BY <1>1, <2>1
<1> QED BY <1>2, <1>3

LEMMA BodyFacts ==
    ASSUME NEW kind \in BodyKinds, NEW block \in BOOLEAN
    PROVE  /\ Body(kind, block) \in Bodies
           /\ Body(kind, block).kind = kind /\ Body(kind, block).block = block
           /\ Body(kind, block).left = FALSE
           /\ Body(kind, block).building <=> Building
<1> PICK b \in BOOLEAN : b = Building
    BY DEF Building
<1>1. Body(kind, block) = [kind |-> kind, block |-> block, done |-> FALSE, left |-> FALSE, ended |-> FALSE, building |-> b]
    BY DEF Body
<1> PICK f : f = Body(kind, block)
    OBVIOUS
<1>2. f \in [kind : BodyKinds, block : BOOLEAN, done : BOOLEAN, left : BOOLEAN, ended : BOOLEAN, building : BOOLEAN]
    BY <1>1
<1>3. f.kind = kind /\ f.block = block /\ f.done = FALSE /\ f.left = FALSE /\ f.building = b
    BY <1>1
<1>4. f \in Bodies
    BY <1>2, <1>3 DEF Bodies
<1> QED BY <1>3, <1>4

\* What is left to show of the types when the verdict and the scopes are known.
LEMMA TypesAfter ==
    ASSUME NEW vs, NEW ns, NEW fs \in Seq(Bodies), IsScopes(vs), IsScopes(ns)
    PROVE  /\ \A i \in DOMAIN ns : DOMAIN ns[i].var \subseteq Names
           /\ \A i \in DOMAIN vs : DOMAIN vs[i].var \subseteq Names
           /\ \A i \in DOMAIN fs :
                 /\ fs[i].kind \in {"Func", "If", "Else", "While", "Block"}
                 /\ fs[i].left => fs[i].block
                 /\ fs[i].done => ~fs[i].block
<1>1. \A i \in DOMAIN ns : DOMAIN ns[i].var \subseteq Names
    BY DEF IsScopes, IsScope
<1>2. \A i \in DOMAIN vs : DOMAIN vs[i].var \subseteq Names
    BY DEF IsScopes, IsScope
<1>3. \A i \in DOMAIN fs : fs[i] \in Bodies
    OBVIOUS
<1> QED BY <1>1, <1>2, <1>3 DEF Bodies, BodyKinds

LEMMA WalkTypesAfter ==
    ASSUME IsScopes(variables'), IsScopes(name2var'), frames' \in Seq(Bodies), term' \in BOOLEAN,
           Len(variables') = Len(frames') + 1,
           verdict' \in Verdicts, built' \in FaultNames, redefined' \subseteq globals',
           ret_addr' \in 0 .. MaxNodes, fun'.id \in 0 .. MaxNodes, nodes' \in 0 .. MaxNodes
    PROVE  WalkTypes'
<1>1. /\ \A i \in DOMAIN name2var' : DOMAIN name2var'[i].var \subseteq Names
      /\ \A i \in DOMAIN variables' : DOMAIN variables'[i].var \subseteq Names
      /\ \A i \in DOMAIN frames' :
            /\ frames'[i].kind \in {"Func", "If", "Else", "While", "Block"}
            /\ frames'[i].left => frames'[i].block
            /\ frames'[i].done => ~frames'[i].block
    BY TypesAfter
<1>2. {ret_addr', fun'.id, nodes'} \subseteq 0 .. MaxNodes
    OBVIOUS
<1>3. WalkTypeOK'
    BY <1>1, <1>2 DEF WalkTypeOK, Verdicts, FaultNames
<1>4. IsScopes(variables)' /\ IsScopes(name2var)'
    BY DEF IsScopes, IsScope
<1> QED BY <1>3, <1>4 DEF WalkTypes

\* What Enter does to both sides.
LEMMA EnteredAlike ==
    ASSUME NEW a, NEW b, IsScopes(a), IsScopes(b), NEW l \in Nat, Len(a) = l, Len(b) = l, SameVars(a, b, l)
    PROVE  SameVars(Enter(a, 1), Enter(b, 1), l + 1)
<1>1. (\A i \in 1 .. l : Enter(a, 1)[i] = a[i]) /\ Enter(a, 1)[l + 1] = EmptyScope
    BY EnterOne
<1>2. (\A i \in 1 .. l : Enter(b, 1)[i] = b[i]) /\ Enter(b, 1)[l + 1] = EmptyScope
    BY EnterOne
<1>3. \A i \in 1 .. l + 1 : i \in 1 .. l \/ i = l + 1
    OBVIOUS
<1> QED BY <1>1, <1>2, <1>3 DEF SameVars

\* A body opens: both sides enter a scope, the builder if it is building.
LEMMA OpeningInStep ==
    ASSUME WalkTypes, built = "ok", NEW k, InStep(k), NEW f \in Bodies,
           f.left = FALSE, f.building <=> Building, frames' = Append(frames, f),
           variables' = Enter(variables, 1),
           name2var' = IF Building THEN Enter(name2var, 1) ELSE name2var
    PROVE  \E m \in Nat : InStep(m)'
<1> PICK l : l = Len(frames)
    OBVIOUS
<1>1. /\ l \in Nat /\ Len(frames') = l + 1 /\ frames'[l + 1] = f
      /\ \A i \in 1 .. l : frames'[i] = frames[i]
    BY DEF WalkTypes
<1>2. /\ Building <=> k = l /\ (k > 0 => ~frames[k].left)
      /\ k \in Nat /\ Len(name2var) = k + 1
    BY BuildingMeans
<1>3. IsScopes(variables) /\ IsScopes(name2var) /\ Len(variables) = l + 1
    BY DEF WalkTypes
<1>4. Len(variables') = l + 2 /\ (\A i \in 1 .. l + 1 : variables'[i] = variables[i])
    BY <1>1, <1>3, EnterOne
<1>5. CASE Building
    <2>1. k = l /\ (k > 0 => ~frames[k].left) /\ Len(name2var) = l + 1
        BY <1>2, <1>5
    <2>2. SameVars(variables, name2var, l + 1)
        BY <1>2, <2>1 DEF InStep, SameVars
    <2>3. l + 1 \in Nat
        BY <1>1
    <2>4. SameVars(Enter(variables, 1), Enter(name2var, 1), l + 1 + 1)
        BY <1>3, <2>1, <2>2, <2>3, EnteredAlike
    <2>5. Len(Enter(name2var, 1)) = l + 1 + 1
        BY <1>3, <2>1, EnterOne
    <2>6. Len(name2var') = l + 2 /\ \A i \in 1 .. l + 2 : variables'[i].var = name2var'[i].var
        BY <1>1, <1>5, <2>4, <2>5 DEF SameVars
    <2>7. \A i \in 1 .. l + 1 : frames'[i].building <=> i <= l + 1
        <3>1. \A i \in 1 .. l : frames[i].building
            BY <1>1, <2>1 DEF InStep
        <3>2. \A i \in 1 .. l + 1 : i \in 1 .. l \/ i = l + 1
            BY <1>1
        <3> QED BY <1>1, <1>5, <3>1, <3>2
    <2>8. \A i \in 1 .. l : ~frames'[i].left
        <3>1. \A i \in 1 .. l : i \in 1 .. l - 1 \/ (i = k /\ k > 0)
            BY <1>1, <2>1
        <3> QED BY <1>1, <2>1, <3>1 DEF InStep
    <2>9. InStep(l + 1)'
        BY <1>1, <2>6, <2>7, <2>8 DEF InStep
    <2> QED BY <2>3, <2>9
<1>6. CASE ~Building
    <2>1. k > 0 /\ frames[k].left /\ k <= l
        BY <1>1, <1>2, <1>6 DEF InStep
    <2>2. frames'[k].left /\ name2var' = name2var
        BY <1>1, <1>2, <1>6, <2>1
    <2>3. \A i \in 1 .. l + 1 : frames'[i].building <=> i <= k
        <3>1. \A i \in 1 .. l + 1 : i \in 1 .. l \/ i = l + 1
            BY <1>1
        <3>2. ~(l + 1 <= k)
            BY <1>1, <1>2, <2>1
        <3> QED BY <1>1, <1>6, <3>1, <3>2 DEF InStep
    <2>4. \A i \in 1 .. k - 1 : ~frames'[i].left
        BY <1>1, <1>2, <2>1 DEF InStep
    <2>5. \A i \in 1 .. k + 1 : variables'[i].var = name2var'[i].var \/ (i = k + 1 /\ k > 0 /\ frames'[k].left)
        <3>1. \A i \in 1 .. k + 1 : i \in 1 .. l + 1
            BY <1>1, <1>2, <2>1
        <3> QED BY <1>4, <2>1, <2>2, <3>1 DEF InStep
    <2>6. k \in 0 .. Len(frames') /\ Len(name2var') = k + 1
        BY <1>1, <1>2, <2>1, <2>2
    <2>7. \A i \in 1 .. Len(frames') : frames'[i].building <=> i <= k
        BY <1>1, <2>3
    <2>8. k < Len(frames') => k > 0 /\ frames'[k].left
        BY <2>1, <2>2
    <2>9. InStep(k)'
        BY <2>4, <2>5, <2>6, <2>7, <2>8 DEF InStep
    <2> QED BY <1>2, <2>9
<1> QED BY <1>5, <1>6

LEMMA OpeningStep ==
    ASSUME WalkInv, VisitNode, frames # << >>, NEW kind \in BodyKinds, NEW block \in BOOLEAN,
           NEW error \in Verdicts, NEW fault \in FaultNames,
           verdict' = error, built' = IF Building THEN fault ELSE built, term' \in BOOLEAN,
           frames' = Append(frames, Body(kind, block)), OpenScopes(Body(kind, block)),
           functions' = functions, name2func' = name2func, ret_addr' = ret_addr,
           globals' = globals, redefined' = redefined, fun' = fun,
           error = "accepted" /\ Building => fault # "name",
           fault \notin {"function", "arguments", "return"}
    PROVE  WalkInv'
<1>1. /\ Body(kind, block) \in Bodies
      /\ Body(kind, block).kind = kind /\ Body(kind, block).block = block
      /\ Body(kind, block).left = FALSE
      /\ Body(kind, block).building <=> Building
    BY BodyFacts
<1> PICK f : f = Body(kind, block)
    OBVIOUS
<1>2. CheckerScopes(f.kind) = 1 /\ OuterScope(f) + BlockScope(f) = 1
    BY <1>1, ScopesOfBody
<1>3. variables' = Enter(variables, 1) /\ name2var' = IF Building THEN Enter(name2var, 1) ELSE name2var
    BY <1>2 DEF OpenScopes
<1>4. frames' = Append(frames, f) /\ f \in Bodies /\ f.left = FALSE /\ (f.building <=> Building)
    BY <1>1
<1>5. verdict = "accepted" /\ nodes' \in 0 .. MaxNodes
    <2>1. nodes \in 0 .. MaxNodes
        BY DEF WalkInv, WalkTypes, WalkTypeOK
    <2> QED BY <2>1, InputsAssumption DEF VisitNode
<1>6. WalkTypes /\ IsScopes(variables) /\ IsScopes(name2var) /\ frames \in Seq(Bodies) /\ Len(variables) = Len(frames) + 1
    BY DEF WalkInv, WalkTypes
<1>7. WalkTypes'
    <2>1. IsScopes(Enter(variables, 1)) /\ Len(Enter(variables, 1)) = Len(variables) + 1 /\ IsScopes(Enter(name2var, 1))
        BY <1>6, EnterOne
    <2>2. IsScopes(variables') /\ IsScopes(name2var')
        BY <1>3, <1>6, <2>1
    <2>3. frames' \in Seq(Bodies) /\ Len(frames') = Len(frames) + 1
        BY <1>4, <1>6
    <2>4. built' \in FaultNames /\ redefined' \subseteq globals' /\ ret_addr' \in 0 .. MaxNodes /\ fun'.id \in 0 .. MaxNodes
        BY <1>6 DEF WalkTypes, WalkTypeOK, FaultNames
    <2>5. Len(variables') = Len(frames') + 1
        BY <1>3, <1>6, <2>1, <2>3
    <2> QED BY <1>5, <2>2, <2>3, <2>4, <2>5, WalkTypesAfter
<1>8. ASSUME built' = "ok" PROVE \E m \in Nat : InStep(m)'
    <2>1. built = "ok"
        BY <1>8 DEF Building
    <2>2. PICK k \in Nat : InStep(k)
        BY <1>5, <2>1 DEF WalkInv
    <2> QED BY <1>3, <1>4, <1>6, <2>1, <2>2, OpeningInStep
<1>9. verdict' = "accepted" /\ built' = "ok" => FunctionsKnown'
    <2>1. built' = "ok" => built = "ok"
        BY DEF Building
    <2> QED BY <1>5, <2>1 DEF WalkInv, FunctionsKnown
<1>10. built' = "ok" => fun'.void \/ ret_addr' = fun'.id
    <2>1. built' = "ok" => built = "ok"
        BY DEF Building
    <2> QED BY <2>1 DEF WalkInv
<1>11. CheckedIsBuilt'
    <2>1. CASE Building
        BY <1>5, <2>1 DEF CheckedIsBuilt, WalkInv
    <2>2. CASE ~Building
        BY <1>5, <2>2 DEF WalkInv, CheckedIsBuilt
    <2> QED BY <2>1, <2>2
<1> QED BY <1>7, <1>8, <1>9, <1>10, <1>11 DEF WalkInv

LEMMA BlockStep ==
    ASSUME WalkInv, BlockStmt
    PROVE  WalkInv'
<1>1. "Block" \in BodyKinds /\ TRUE \in BOOLEAN /\ "accepted" \in Verdicts /\ "ok" \in FaultNames
    BY DEF BodyKinds, Verdicts, FaultNames
<1>2. /\ VisitNode /\ frames # << >> /\ verdict' = "accepted"
      /\ built' = IF Building THEN "ok" ELSE built
      /\ frames' = Append(frames, Body("Block", TRUE)) /\ OpenScopes(Body("Block", TRUE))
      /\ functions' = functions /\ name2func' = name2func /\ ret_addr' = ret_addr
      /\ globals' = globals /\ redefined' = redefined /\ fun' = fun
    BY DEF BlockStmt, WantsItem, VisitNode, Building
<1>3. term' \in BOOLEAN
    BY DEF BlockStmt, WalkInv, WalkTypes
<1> QED BY <1>1, <1>2, <1>3, OpeningStep

LEMMA IfOrWhileStep ==
    ASSUME WalkInv, NEW kind \in {"If", "While"}, NEW cond, NEW block \in BOOLEAN, IfOrWhile(kind, cond, block)
    PROVE  WalkInv'
<1> PICK error : error = IF Knows(cond) THEN "accepted" ELSE "VarUnknown"
    OBVIOUS
<1> PICK fault : fault = Fault(cond, FALSE)
    OBVIOUS
<1>1. kind \in BodyKinds /\ error \in Verdicts
    BY DEF BodyKinds, Verdicts
<1>2. fault \in {"ok", "index", "name", "constant"}
    BY FaultNamed
<1>3. fault \in FaultNames /\ fault \notin {"function", "arguments", "return"}
    BY <1>2 DEF FaultNames
<1>4. /\ VisitNode /\ frames # << >> /\ verdict' = error
      /\ built' = IF Building THEN fault ELSE built
      /\ frames' = Append(frames, Body(kind, block)) /\ OpenScopes(Body(kind, block))
      /\ functions' = functions /\ name2func' = name2func /\ ret_addr' = ret_addr
      /\ globals' = globals /\ redefined' = redefined /\ fun' = fun
    BY DEF IfOrWhile, WantsStmt
<1>5. term' \in BOOLEAN
    BY DEF IfOrWhile, WalkInv, WalkTypes
<1>6. error = "accepted" /\ Building => fault # "name"
    <2> SUFFICES ASSUME error = "accepted", Building PROVE fault # "name"
        OBVIOUS
    <2>1. Knows(cond) /\ verdict = "accepted"
        BY <1>4 DEF VisitNode
    <2> QED BY <2>1, KnownIsNamed
<1> QED BY <1>1, <1>3, <1>4, <1>5, <1>6, OpeningStep

FinishedFrom(gs, fs, ended) ==
    /\ gs \in Seq(Bodies) /\ Len(gs) = Len(fs)
    /\ \A i \in 1 .. Len(fs) : gs[i].building = fs[i].building /\ (fs[i].left => gs[i].left)
    /\ \A i \in 1 .. Len(fs) - 1 : gs[i] = fs[i]
    /\ ~ended => \A i \in 1 .. Len(fs) : gs[i].left = fs[i].left

LEMMA FinishedMeans ==
    \A fs \in Seq(Bodies), ended \in BOOLEAN : FinishedFrom(Finished(fs, ended), fs, ended)
BY FinishedFacts DEF FinishedFrom

\* The last body ends.
LEMMA ClosingInStep ==
    ASSUME WalkTypes, built = "ok", NEW k, InStep(k), frames # << >>, NEW ended \in BOOLEAN,
           NEW building \in BOOLEAN, building <=> frames[Len(frames)].building, ended => building,
           frames' = Finished(Front(frames), ended),
           variables' = Exit(variables, 1),
           name2var' = IF building THEN Exit(name2var, 1) ELSE name2var
    PROVE  \E m \in Nat : InStep(m)'
<1> PICK l : l = Len(frames)
    OBVIOUS
<1> PICK fs : fs = Front(frames)
    OBVIOUS
<1>1. l \in Nat /\ l > 0 /\ l - 1 \in Nat
    BY DEF WalkTypes
<1>2. fs \in Seq(Bodies) /\ Len(fs) = l - 1 /\ \A i \in 1 .. l - 1 : fs[i] = frames[i]
    BY <1>1 DEF WalkTypes, Front
<1>3. /\ Len(frames') = l - 1
      /\ \A i \in 1 .. l - 1 : frames'[i].building = frames[i].building /\ (frames[i].left => frames'[i].left)
      /\ \A i \in 1 .. l - 1 - 1 : frames'[i] = frames[i]
      /\ ~ended => \A i \in 1 .. l - 1 : frames'[i].left = frames[i].left
    <2>1. FinishedFrom(frames', fs, ended)
        BY <1>2, FinishedMeans
    <2>2. \A i \in 1 .. l - 1 - 1 : i \in 1 .. l - 1
        BY <1>1
    <2> QED BY <1>1, <1>2, <2>1, <2>2 DEF FinishedFrom
<1>4. IsScopes(variables) /\ IsScopes(name2var) /\ Len(variables) = l + 1
    BY DEF WalkTypes
<1>5. k \in Nat /\ k <= l /\ Len(name2var) = k + 1 /\ (building <=> l <= k)
    BY <1>1 DEF InStep
<1>6. \A i \in 1 .. l : variables'[i] = variables[i]
    BY <1>1, <1>4, ExitOne
<1>7. CASE building
    <2>1. k = l
        BY <1>1, <1>5, <1>7
    <2>2. Len(name2var') = l /\ \A i \in 1 .. l : name2var'[i] = name2var[i]
        BY <1>1, <1>4, <1>5, <1>7, <2>1, ExitOne
    <2>3. \A i \in 1 .. l : variables'[i].var = name2var'[i].var
        <3>1. \A i \in 1 .. l : i \in 1 .. k + 1 /\ i # k + 1
            BY <1>1, <2>1
        <3>2. \A i \in 1 .. k + 1 : variables[i].var = name2var[i].var \/ i = k + 1
            BY DEF InStep
        <3> QED BY <1>6, <2>2, <3>1, <3>2
    <2>4. \A i \in 1 .. l - 1 : frames'[i].building
        <3>1. \A i \in 1 .. l - 1 : i \in 1 .. l /\ i <= k
            BY <1>1, <2>1
        <3>2. \A i \in 1 .. l : frames[i].building <=> i <= k
            BY DEF InStep
        <3> QED BY <1>3, <3>1, <3>2
    <2>5. \A i \in 1 .. l - 1 - 1 : ~frames'[i].left
        <3>1. \A i \in 1 .. l - 1 - 1 : i \in 1 .. k - 1
            BY <1>1, <2>1
        <3>2. \A i \in 1 .. k - 1 : ~frames[i].left
            BY DEF InStep
        <3> QED BY <1>3, <3>1, <3>2
    <2> PICK m \in Nat : m = l - 1
        BY <1>1
    <2>6. m \in 0 .. Len(frames') /\ ~(m < Len(frames')) /\ Len(name2var') = m + 1
        BY <1>1, <1>3, <2>2
    <2>7. \A i \in 1 .. Len(frames') : frames'[i].building <=> i <= m
        BY <1>3, <2>4
    <2>8. \A i \in 1 .. m + 1 : variables'[i].var = name2var'[i].var
        BY <1>1, <2>3
    <2>9. InStep(m)'
        BY <2>5, <2>6, <2>7, <2>8 DEF InStep
    <2> QED BY <2>9
<1>8. CASE ~building
    <2>1. k < l /\ k <= l - 1
        BY <1>1, <1>5, <1>8
    <2>2. k > 0 /\ frames[k].left /\ k \in 1 .. l - 1
        <3>1. k > 0 /\ frames[k].left
            BY <2>1 DEF InStep
        <3> QED BY <1>1, <1>5, <2>1, <3>1
    <2>3. frames'[k].left
        BY <1>3, <2>2
    <2>4. k \in 0 .. Len(frames') /\ Len(name2var') = k + 1
        BY <1>1, <1>3, <1>5, <1>8, <2>1
    <2>5. \A i \in 1 .. Len(frames') : frames'[i].building <=> i <= k
        <3>1. \A i \in 1 .. l - 1 : i \in 1 .. l
            BY <1>1
        <3>2. \A i \in 1 .. l : frames[i].building <=> i <= k
            BY DEF InStep
        <3> QED BY <1>3, <3>1, <3>2
    <2>6. \A i \in 1 .. k - 1 : ~frames'[i].left
        <3>1. \A i \in 1 .. k - 1 : i \in 1 .. l - 1 - 1
            BY <1>1, <1>5, <2>1
        <3>2. \A i \in 1 .. k - 1 : ~frames[i].left
            BY DEF InStep
        <3> QED BY <1>3, <3>1, <3>2
    <2>7. \A i \in 1 .. k + 1 : variables'[i].var = name2var'[i].var \/ (i = k + 1 /\ k > 0 /\ frames'[k].left)
        <3>1. \A i \in 1 .. k + 1 : i \in 1 .. l
            BY <1>1, <1>5, <2>1
        <3>2. \A i \in 1 .. k + 1 : variables[i].var = name2var[i].var \/ i = k + 1
            BY DEF InStep
        <3>3. name2var' = name2var
            BY <1>8
        <3> QED BY <1>6, <2>2, <2>3, <3>1, <3>2, <3>3
    <2>8. InStep(k)'
        BY <2>2, <2>3, <2>4, <2>5, <2>6, <2>7 DEF InStep
    <2> QED BY <1>5, <2>8
<1> QED BY <1>7, <1>8

LEMMA TopFacts ==
    ASSUME frames \in Seq(Bodies), frames # << >>
    PROVE  /\ Top \in Bodies /\ Top.kind \in BodyKinds /\ Top.block \in BOOLEAN /\ Top.building \in BOOLEAN
           /\ Top.ended \in BOOLEAN
           /\ Len(frames) > 0 /\ Top = frames[Len(frames)] /\ Front(frames) \in Seq(Bodies)
           /\ Len(Front(frames)) = Len(frames) - 1
           /\ \A i \in 1 .. Len(frames) - 1 : Front(frames)[i] = frames[i]
<1>1. Len(frames) > 0 /\ frames[Len(frames)] \in Bodies
    OBVIOUS
<1>2. Front(frames) \in Seq(Bodies) /\ Len(Front(frames)) = Len(frames) - 1
      /\ \A i \in 1 .. Len(frames) - 1 : Front(frames)[i] = frames[i]
    BY DEF Front
<1> QED BY <1>1, <1>2 DEF Top, Bodies

LEMMA CloseStep ==
    ASSUME WalkInv, CloseBody
    PROVE  WalkInv'
<1>1. /\ WalkTypes /\ IsScopes(variables) /\ IsScopes(name2var) /\ frames \in Seq(Bodies) /\ term \in BOOLEAN
      /\ Len(variables) = Len(frames) + 1 /\ frames # << >>
    BY DEF WalkInv, WalkTypes, CloseBody
<1>2. /\ Top \in Bodies /\ Top.kind \in BodyKinds /\ Top.block \in BOOLEAN /\ Top.building \in BOOLEAN
      /\ Top.ended \in BOOLEAN
      /\ Len(frames) > 0 /\ Top = frames[Len(frames)] /\ Front(frames) \in Seq(Bodies)
      /\ Len(Front(frames)) = Len(frames) - 1
    BY <1>1, TopFacts
<1>3. CheckerScopes(Top.kind) = 1 /\ OuterScope(Top) + NeedExitScope(Top) = 1
    BY <1>2, ScopesOfBody
<1> PICK building \in BOOLEAN : building = (Top.building /\ built = "ok")
    BY <1>2
<1> PICK over \in BOOLEAN :
        over = (Top.kind \in {"Block", "Else"} /\ term /\ (Top.kind = "Else" => Top.ended))
    BY <1>1, <1>2
<1> PICK ended \in BOOLEAN : ended = (building /\ over)
    OBVIOUS
<1>4. /\ variables' = Exit(variables, 1)
      /\ name2var' = IF building THEN Exit(name2var, 1) ELSE name2var
      /\ term' = IF building THEN over ELSE term
      /\ frames' = Finished(Front(frames), ended)
      /\ verdict = "accepted"
    BY <1>3 DEF CloseBody, CloseScopes
<1>5. /\ functions' = functions /\ verdict' = verdict /\ name2func' = name2func /\ ret_addr' = ret_addr
      /\ globals' = globals /\ redefined' = redefined /\ built' = built /\ fun' = fun /\ nodes' = nodes
    BY DEF CloseBody
<1>6. FinishedFrom(frames', Front(frames), ended)
    BY <1>2, <1>4, FinishedMeans
<1>7. building => Len(name2var) > 0
    <2> SUFFICES ASSUME building PROVE Len(name2var) > 0
        OBVIOUS
    <2>1. PICK k \in Nat : InStep(k)
        BY <1>4 DEF WalkInv
    <2> QED BY <2>1 DEF InStep
<1>8. WalkTypes'
    <2>1. IsScopes(variables') /\ Len(variables') = Len(variables) - 1
        BY <1>1, <1>4, ExitOne
    <2>2. IsScopes(name2var')
        <3>1. building => IsScopes(Exit(name2var, 1))
            BY <1>1, <1>7, ExitOne
        <3> QED BY <1>1, <1>4, <3>1
    <2>3. frames' \in Seq(Bodies) /\ Len(frames') = Len(frames) - 1
        BY <1>2, <1>6 DEF FinishedFrom
    <2>4. /\ term' \in BOOLEAN /\ verdict' \in Verdicts /\ built' \in FaultNames /\ redefined' \subseteq globals'
          /\ ret_addr' \in 0 .. MaxNodes /\ fun'.id \in 0 .. MaxNodes /\ nodes' \in 0 .. MaxNodes
        BY <1>1, <1>4, <1>5 DEF WalkTypes, WalkTypeOK, Verdicts, FaultNames
    <2>5. Len(variables') = Len(frames') + 1
        BY <1>1, <2>1, <2>3
    <2> QED BY <2>1, <2>2, <2>3, <2>4, <2>5, WalkTypesAfter
<1>9. ASSUME built = "ok" PROVE \E m \in Nat : InStep(m)'
    <2>1. PICK k \in Nat : InStep(k)
        BY <1>4, <1>9 DEF WalkInv
    <2>2. building <=> frames[Len(frames)].building
        BY <1>2, <1>9
    <2> QED BY <1>1, <1>4, <1>9, <2>1, <2>2, ClosingInStep
<1>10. built = "ok" => FunctionsKnown'
    BY <1>4, <1>5 DEF WalkInv, FunctionsKnown
<1>11. built' = "ok" => fun'.void \/ ret_addr' = fun'.id
    BY <1>1, <1>5 DEF WalkInv
<1>12. CheckedIsBuilt'
    BY <1>5 DEF WalkInv, CheckedIsBuilt
<1> QED BY <1>5, <1>8, <1>9, <1>10, <1>11, <1>12 DEF WalkInv

\* A branch closes and the other opens.
LEMMA ReopenedScopes ==
    ASSUME NEW s, IsScopes(s), Len(s) > 0
    PROVE  /\ IsScopes(Enter(Exit(s, 1), 1)) /\ Len(Enter(Exit(s, 1), 1)) = Len(s)
           /\ \A i \in 1 .. Len(s) - 1 : Enter(Exit(s, 1), 1)[i] = s[i]
           /\ Enter(Exit(s, 1), 1)[Len(s)] = EmptyScope
<1> PICK u : u = Exit(s, 1)
    OBVIOUS
<1>1. IsScopes(u) /\ Len(u) = Len(s) - 1 /\ \A i \in 1 .. Len(s) - 1 : u[i] = s[i]
    BY ExitOne
<1>2. /\ IsScopes(Enter(u, 1)) /\ Len(Enter(u, 1)) = Len(u) + 1
      /\ \A i \in 1 .. Len(u) : Enter(u, 1)[i] = u[i]
      /\ Enter(u, 1)[Len(u) + 1] = EmptyScope
    BY <1>1, EnterOne
<1>3. Len(s) \in Nat
    BY DEF IsScopes
<1> QED BY <1>1, <1>2, <1>3

LEMMA ElseInStep ==
    ASSUME WalkTypes, built = "ok", NEW k, InStep(k), frames # << >>, NEW e \in Bodies,
           NEW building \in BOOLEAN, building <=> frames[Len(frames)].building,
           e.building <=> building, e.left = FALSE,
           frames' = Append(Front(frames), e),
           variables' = Enter(Exit(variables, 1), 1),
           name2var' = IF building THEN Enter(Exit(name2var, 1), 1) ELSE name2var
    PROVE  InStep(k)'
<1> PICK l : l = Len(frames)
    OBVIOUS
<1>1. l \in Nat /\ l > 0 /\ l - 1 \in Nat
    BY DEF WalkTypes
<1>2. Len(frames') = l /\ (\A i \in 1 .. l - 1 : frames'[i] = frames[i]) /\ frames'[l] = e
    <2> PICK fs : fs = Front(frames)
        OBVIOUS
    <2>1. fs \in Seq(Bodies) /\ Len(fs) = l - 1 /\ \A i \in 1 .. l - 1 : fs[i] = frames[i]
        BY TopFacts DEF WalkTypes
    <2> QED BY <1>1, <2>1
<1>3. IsScopes(variables) /\ IsScopes(name2var) /\ Len(variables) = l + 1
    BY DEF WalkTypes
<1>4. k \in Nat /\ k <= l /\ Len(name2var) = k + 1 /\ (building <=> l <= k)
    BY <1>1 DEF InStep
<1>5. (\A i \in 1 .. l : variables'[i] = variables[i]) /\ variables'[l + 1] = EmptyScope
    <2>1. Len(variables) > 0 /\ Len(variables) - 1 = l /\ Len(variables) = l + 1
        BY <1>1, <1>3
    <2>2. /\ \A i \in 1 .. Len(variables) - 1 : Enter(Exit(variables, 1), 1)[i] = variables[i]
          /\ Enter(Exit(variables, 1), 1)[Len(variables)] = EmptyScope
        BY <1>3, <2>1, ReopenedScopes
    <2> QED BY <2>1, <2>2
<1>6. k \in 0 .. Len(frames')
    BY <1>2, <1>4, <1>1
<1>7. \A i \in 1 .. l : i \in 1 .. l - 1 \/ i = l
    BY <1>1
<1>8. \A i \in 1 .. Len(frames') : frames'[i].building <=> i <= k
    <2>1. \A i \in 1 .. l : frames[i].building <=> i <= k
        BY DEF InStep
    <2> QED BY <1>1, <1>2, <1>4, <1>7, <2>1
<1>9. \A i \in 1 .. k - 1 : ~frames'[i].left
    <2>1. \A i \in 1 .. k - 1 : i \in 1 .. l - 1 /\ ~frames[i].left
        BY <1>1, <1>4 DEF InStep
    <2> QED BY <1>2, <2>1
<1>10. k < Len(frames') => k > 0 /\ frames'[k].left
    <2> SUFFICES ASSUME k < l PROVE k > 0 /\ frames'[k].left
        BY <1>2
    <2>1. k > 0 /\ frames[k].left
        BY DEF InStep
    <2>2. k \in 1 .. l - 1
        BY <1>1, <1>4, <2>1
    <2> QED BY <1>2, <2>1, <2>2
<1>11. Len(name2var') = k + 1
    <2>1. building => Len(Enter(Exit(name2var, 1), 1)) = Len(name2var)
        BY <1>3, <1>4, ReopenedScopes
    <2> QED BY <1>4, <2>1
<1>12. \A i \in 1 .. k + 1 : variables'[i].var = name2var'[i].var \/ (i = k + 1 /\ k > 0 /\ frames'[k].left)
    <2>1. CASE building
        <3>1. k = l
            BY <1>1, <1>4, <2>1
        <3>2. (\A i \in 1 .. l : name2var'[i] = name2var[i]) /\ name2var'[l + 1] = EmptyScope
            <4>1. Len(name2var) > 0 /\ Len(name2var) - 1 = l /\ Len(name2var) = l + 1
                BY <1>1, <1>4, <3>1
            <4>2. /\ \A i \in 1 .. Len(name2var) - 1 : Enter(Exit(name2var, 1), 1)[i] = name2var[i]
                  /\ Enter(Exit(name2var, 1), 1)[Len(name2var)] = EmptyScope
                BY <1>3, <4>1, ReopenedScopes
            <4> QED BY <2>1, <4>1, <4>2
        <3>3. \A i \in 1 .. k + 1 : i = l + 1 \/ (i \in 1 .. l /\ i # k + 1)
            BY <1>1, <3>1
        <3>4. \A i \in 1 .. k + 1 : variables[i].var = name2var[i].var \/ i = k + 1
            BY DEF InStep
        <3> QED BY <1>5, <3>1, <3>2, <3>3, <3>4
    <2>2. CASE ~building
        <3>1. \A i \in 1 .. k + 1 : i \in 1 .. l
            BY <1>1, <1>4, <2>2
        <3>2. k < Len(frames')
            BY <1>1, <1>2, <1>4, <2>2
        <3>3. \A i \in 1 .. k + 1 : variables[i].var = name2var[i].var \/ i = k + 1
            BY DEF InStep
        <3> QED BY <1>5, <1>10, <2>2, <3>1, <3>2, <3>3
    <2> QED BY <2>1, <2>2
<1> QED BY <1>6, <1>8, <1>9, <1>10, <1>11, <1>12 DEF InStep

LEMMA ElseStep ==
    ASSUME WalkInv, NEW block \in BOOLEAN, ElseBranch(block)
    PROVE  WalkInv'
<1>1. /\ WalkTypes /\ IsScopes(variables) /\ IsScopes(name2var) /\ frames \in Seq(Bodies) /\ term \in BOOLEAN
      /\ Len(variables) = Len(frames) + 1 /\ frames # << >>
    BY DEF WalkInv, WalkTypes, ElseBranch
<1>2. /\ Top \in Bodies /\ Top.kind \in BodyKinds /\ Top.block \in BOOLEAN /\ Top.building \in BOOLEAN
      /\ Len(frames) > 0 /\ Top = frames[Len(frames)] /\ Front(frames) \in Seq(Bodies)
      /\ Len(Front(frames)) = Len(frames) - 1
    BY <1>1, TopFacts
<1> PICK building \in BOOLEAN : building = (Top.building /\ built = "ok")
    BY <1>2
<1> PICK o : o = Body("Else", block)
    OBVIOUS
<1>3. o \in Bodies /\ o.kind = "Else" /\ o.block = block /\ o.left = FALSE /\ "Else" \in BodyKinds
    BY BodyFacts DEF BodyKinds
<1>4. PICK e : e = [o EXCEPT !.ended = term, !.building = building]
    OBVIOUS
<1>5. e \in Bodies /\ e.kind = "Else" /\ e.block = block /\ e.left = FALSE /\ e.building = building
    BY <1>1, <1>3, <1>4 DEF Bodies
<1>6. /\ CheckerScopes("Else") = 1 /\ CheckerScopes("If") = 1 /\ Top.kind = "If"
      /\ OuterScope(Top) + NeedExitScope(Top) = 1 /\ OuterScope(e) + BlockScope(e) = 1
    <2>1. Top.kind = "If"
        BY DEF ElseBranch
    <2>2. CheckerScopes(Top.kind) = 1 /\ OuterScope(Top) + NeedExitScope(Top) = 1
        BY <1>2, ScopesOfBody
    <2>3. CheckerScopes(e.kind) = 1 /\ OuterScope(e) + BlockScope(e) = 1
        BY <1>3, <1>5, ScopesOfBody
    <2> QED BY <1>5, <2>1, <2>2, <2>3
<1>7. /\ variables' = Enter(Exit(variables, 1), 1)
      /\ name2var' = IF building THEN Enter(Exit(name2var, 1), 1) ELSE name2var
      /\ term' = IF building THEN FALSE ELSE term
      /\ frames' = Append(Front(frames), e)
      /\ VisitNode
    BY <1>4, <1>6 DEF ElseBranch
<1>8. /\ functions' = functions /\ verdict' = verdict /\ name2func' = name2func /\ ret_addr' = ret_addr
      /\ globals' = globals /\ redefined' = redefined /\ built' = built /\ fun' = fun
    BY DEF ElseBranch
<1>9. verdict = "accepted" /\ nodes' \in 0 .. MaxNodes
    <2>1. nodes \in 0 .. MaxNodes
        BY <1>1 DEF WalkTypes, WalkTypeOK
    <2> QED BY <1>7, <2>1, InputsAssumption DEF VisitNode
<1>10. building => Len(name2var) > 0
    <2> SUFFICES ASSUME building PROVE Len(name2var) > 0
        OBVIOUS
    <2>1. PICK k \in Nat : InStep(k)
        BY <1>9 DEF WalkInv
    <2> QED BY <2>1 DEF InStep
<1>11. WalkTypes'
    <2>1. IsScopes(variables') /\ Len(variables') = Len(variables)
        BY <1>1, <1>7, ReopenedScopes
    <2>2. IsScopes(name2var')
        <3>1. building => IsScopes(Enter(Exit(name2var, 1), 1))
            BY <1>1, <1>10, ReopenedScopes
        <3> QED BY <1>1, <1>7, <3>1
    <2>3. frames' \in Seq(Bodies) /\ Len(frames') = Len(frames)
        <3> PICK fs : fs = Front(frames)
            OBVIOUS
        <3>1. fs \in Seq(Bodies) /\ Len(fs) + 1 = Len(frames) /\ frames' = Append(fs, e)
            BY <1>1, <1>2, <1>7
        <3> QED BY <1>5, <3>1
    <2>4. /\ term' \in BOOLEAN /\ verdict' \in Verdicts /\ built' \in FaultNames /\ redefined' \subseteq globals'
          /\ ret_addr' \in 0 .. MaxNodes /\ fun'.id \in 0 .. MaxNodes
        BY <1>1, <1>7, <1>8 DEF WalkTypes, WalkTypeOK, Verdicts, FaultNames
    <2>5. Len(variables') = Len(frames') + 1
        BY <1>1, <2>1, <2>3
    <2> QED BY <1>9, <2>1, <2>2, <2>3, <2>4, <2>5, WalkTypesAfter
<1>12. ASSUME built = "ok" PROVE \E m \in Nat : InStep(m)'
    <2>1. PICK k \in Nat : InStep(k)
        BY <1>9, <1>12 DEF WalkInv
    <2>2. building <=> frames[Len(frames)].building
        BY <1>2, <1>12
    <2>3. e.building <=> building
        BY <1>5
    <2>4. InStep(k)'
        BY <1>1, <1>5, <1>7, <1>12, <2>1, <2>2, <2>3, ElseInStep
    <2> QED BY <2>4
<1>13. built = "ok" => FunctionsKnown'
    BY <1>8, <1>9 DEF WalkInv, FunctionsKnown
<1>14. built' = "ok" => fun'.void \/ ret_addr' = fun'.id
    BY <1>1, <1>8 DEF WalkInv
<1>15. CheckedIsBuilt'
    BY <1>8 DEF WalkInv, CheckedIsBuilt
<1> QED BY <1>8, <1>11, <1>12, <1>13, <1>14, <1>15 DEF WalkInv

\* The parameters of a function in a scope of their own.
LEMMA ParamsDeclared ==
    ASSUME NEW s, IsScopes(s), Len(s) = 1, NEW S \in SUBSET Names, NEW d
    PROVE  IsScopes(Bind(Enter(s, 1), S, d)) /\ Len(Bind(Enter(s, 1), S, d)) = 2
<1> PICK u : u = Enter(s, 1)
    OBVIOUS
<1>0. IsScopes(Enter(s, 1)) /\ Len(Enter(s, 1)) = Len(s) + 1
    BY EnterOne
<1>1. IsScopes(u) /\ Len(u) = 2
    BY <1>0
<1>2. IsScopes(Bind(u, S, d)) /\ Len(Bind(u, S, d)) = Len(u)
    BY <1>1, BindLast
<1> QED BY <1>1, <1>2

LEMMA ParamsAlike ==
    ASSUME NEW a, NEW b, IsScopes(a), IsScopes(b), Len(a) = 1, Len(b) = 1, SameVars(a, b, 1),
           NEW S \in SUBSET Names, NEW d
    PROVE  SameVars(Bind(Enter(a, 1), S, d), Bind(Enter(b, 1), S, d), 2)
<1>1. SameVars(Enter(a, 1), Enter(b, 1), 1 + 1)
    BY EnteredAlike
<1>2. IsScopes(Enter(a, 1)) /\ IsScopes(Enter(b, 1)) /\ Len(Enter(a, 1)) = 1 + 1 /\ Len(Enter(b, 1)) = 1 + 1
    BY EnterOne
<1> PICK c : c = Enter(a, 1)
    OBVIOUS
<1> PICK e : e = Enter(b, 1)
    OBVIOUS
<1>3. SameVars(Bind(c, S, d), Bind(e, S, d), 1 + 1)
    BY <1>1, <1>2, BoundAlike
<1> QED BY <1>3

LEMMA FuncDefStep ==
    ASSUME WalkInv, NEW n, NEW void \in BOOLEAN, NEW params, ToSet(params) \in SUBSET Names,
           FuncDef(n, void, params)
    PROVE  WalkInv'
<1> PICK S \in SUBSET Names : S = ToSet(params)
    OBVIOUS
<1> PICK a : a = Len(params)
    OBVIOUS
<1>d. PICK d : d = [id |-> nodes + 1, kind |-> "var"]
    OBVIOUS
<1>f. PICK f : f = Body("Func", TRUE)
    OBVIOUS
<1>1. /\ f \in Bodies /\ f.kind = "Func" /\ f.block = TRUE /\ f.left = FALSE /\ (f.building <=> Building)
      /\ "Func" \in BodyKinds
    BY <1>f, BodyFacts DEF BodyKinds
<1>2. CheckerScopes("Func") = 1 /\ OuterScope(f) + BlockScope(f) = 1
    BY <1>1, ScopesOfBody
<1>3. /\ frames = << >> /\ VisitNode /\ frames' = <<f>> /\ built' = built
      /\ verdict' = IF n \in DOMAIN functions THEN "FuncDuplicated"
                    ELSE IF ~IsInjective(params) THEN "VarDuplicated" ELSE "accepted"
      /\ functions' = Inserted(functions, {n}, a)
      /\ variables' = Bind(Enter(variables, 1), S, d)
      /\ fun' = IF Building THEN [id |-> nodes + 1, void |-> void] ELSE fun
    BY <1>2, <1>d, <1>f DEF FuncDef
<1>4. Building =>
        /\ name2func' = Inserted(name2func, {n}, a)
        /\ name2var' = Bind(Enter(name2var, 1), S, d)
        /\ ret_addr' = IF void THEN ret_addr ELSE nodes + 1
        /\ term' = FALSE
        /\ Define({<<n>>})
    BY <1>2, <1>d, <1>f DEF FuncDef
<1>5. ~Building =>
        /\ name2func' = name2func /\ name2var' = name2var /\ ret_addr' = ret_addr /\ term' = term
        /\ globals' = globals /\ redefined' = redefined
    BY DEF FuncDef
<1>6. /\ WalkTypes /\ IsScopes(variables) /\ IsScopes(name2var) /\ Len(frames) = 0 /\ term \in BOOLEAN
      /\ Len(variables) = 1 /\ verdict = "accepted"
    BY <1>3 DEF WalkInv, WalkTypes, VisitNode
<1>7. nodes + 1 \in 0 .. MaxNodes /\ nodes' \in 0 .. MaxNodes
    <2>1. nodes \in 0 .. MaxNodes
        BY <1>6 DEF WalkTypes, WalkTypeOK
    <2> QED BY <1>3, <2>1, InputsAssumption DEF VisitNode
<1>8. Building <=> built = "ok"
    BY <1>3 DEF Building
<1>9. built = "ok" => Len(name2var) = 1 /\ SameVars(variables, name2var, 1)
    <2> SUFFICES ASSUME built = "ok" PROVE Len(name2var) = 1 /\ SameVars(variables, name2var, 1)
        OBVIOUS
    <2>1. Building
        BY <1>8
    <2>2. SameVars(variables, name2var, Len(frames) + 1) /\ Len(name2var) = Len(frames) + 1
        BY <1>6, <2>1, BuildingSame
    <2> QED BY <1>6, <2>2
<1>11. IsScopes(variables') /\ Len(variables') = 2
    <2>1. IsScopes(Bind(Enter(variables, 1), S, d)) /\ Len(Bind(Enter(variables, 1), S, d)) = 2
        BY <1>6, ParamsDeclared
    <2> QED BY <1>3, <2>1
<1>12. built = "ok" =>
        IsScopes(name2var') /\ Len(name2var') = 2 /\ SameVars(variables', name2var', 2)
    <2> SUFFICES ASSUME built = "ok"
                 PROVE  IsScopes(name2var') /\ Len(name2var') = 2 /\ SameVars(variables', name2var', 2)
        OBVIOUS
    <2>3. SameVars(Bind(Enter(variables, 1), S, d), Bind(Enter(name2var, 1), S, d), 2)
        BY <1>6, <1>9, ParamsAlike
    <2>4. IsScopes(Bind(Enter(name2var, 1), S, d)) /\ Len(Bind(Enter(name2var, 1), S, d)) = 2
        BY <1>6, <1>9, ParamsDeclared
    <2> QED BY <1>3, <1>4, <1>8, <2>3, <2>4
<1>13. frames' \in Seq(Bodies) /\ Len(frames') = 1 /\ frames'[1] = f /\ frames' # << >>
    <2>1. frames' = <<f>>
        BY <1>3
    <2> QED BY <1>1, <2>1
<1>14. WalkTypes'
    <2>1. IsScopes(name2var') /\ term' \in BOOLEAN
        BY <1>4, <1>5, <1>6, <1>8, <1>12
    <2>2. verdict' \in Verdicts /\ built' \in FaultNames
        <3>1. built \in FaultNames
            BY <1>6 DEF WalkTypes, WalkTypeOK, FaultNames
        <3> QED BY <1>3, <3>1 DEF Verdicts
    <2>3. redefined' \subseteq globals'
        BY <1>4, <1>5, <1>6 DEF WalkTypes, WalkTypeOK, Define
    <2>4. ret_addr' \in 0 .. MaxNodes /\ fun'.id \in 0 .. MaxNodes
        <3>1. ret_addr \in 0 .. MaxNodes /\ fun.id \in 0 .. MaxNodes
            BY <1>6 DEF WalkTypes, WalkTypeOK
        <3> QED BY <1>3, <1>4, <1>5, <1>7, <3>1
    <2>5. Len(variables') = Len(frames') + 1
        BY <1>11, <1>13
    <2> QED BY <1>7, <1>11, <1>13, <2>1, <2>2, <2>3, <2>4, <2>5, WalkTypesAfter
<1>15. built = "ok" => InStep(1)'
    <2> SUFFICES ASSUME built = "ok" PROVE InStep(1)'
        OBVIOUS
    <2>1. 1 \in 0 .. Len(frames') /\ ~(1 < Len(frames')) /\ Len(name2var') = 1 + 1
        BY <1>12, <1>13
    <2>2. \A i \in 1 .. Len(frames') : frames'[i].building <=> i <= 1
        <3>1. \A i \in 1 .. Len(frames') : i = 1
            BY <1>13
        <3> QED BY <1>1, <1>8, <1>13, <3>1
    <2>3. \A i \in 1 .. 1 + 1 : variables'[i].var = name2var'[i].var
        BY <1>12 DEF SameVars
    <2>4. \A i \in 1 .. 1 - 1 : FALSE
        OBVIOUS
    <2> QED BY <2>1, <2>2, <2>3, <2>4 DEF InStep
<1>16. verdict' = "accepted" => n \notin DOMAIN functions
    BY <1>3
<1>17. verdict' = "accepted" /\ built = "ok" => FunctionsKnown'
    <2> SUFFICES ASSUME verdict' = "accepted", built = "ok" PROVE FunctionsKnown'
        OBVIOUS
    <2>1. FunctionsKnown /\ n \notin DOMAIN functions
        BY <1>6, <1>16 DEF WalkInv
    <2>2. /\ functions' = Inserted(functions, {n}, a) /\ name2func' = Inserted(name2func, {n}, a)
        BY <1>3, <1>4, <1>8
    <2>3. /\ DOMAIN functions' = DOMAIN functions \cup {n} /\ DOMAIN name2func' = DOMAIN name2func \cup {n}
          /\ functions'[n] = a /\ (n \notin DOMAIN name2func => name2func'[n] = a)
          /\ \A g \in DOMAIN functions : functions'[g] = functions[g]
          /\ \A g \in DOMAIN name2func : name2func'[g] = name2func[g]
        BY <2>1, <2>2 DEF Inserted
    <2>4. DOMAIN functions' \cap DOMAIN Library = {} =>
            DOMAIN functions \cap DOMAIN Library = {} /\ n \notin DOMAIN name2func
        BY <2>1, <2>3 DEF FunctionsKnown
    <2> QED BY <2>1, <2>3, <2>4 DEF FunctionsKnown
<1>18. built = "ok" => fun'.void \/ ret_addr' = fun'.id
    BY <1>3, <1>4, <1>8
<1>19. CheckedIsBuilt'
    <2>1. verdict' = "accepted" /\ DOMAIN functions' \cap DOMAIN Library = {} =>
            built' \notin {"name", "function", "arguments"}
        <3>1. DOMAIN functions \subseteq DOMAIN functions'
            BY <1>3 DEF Inserted
        <3> QED BY <1>3, <1>6, <3>1 DEF WalkInv, CheckedIsBuilt
    <2>2. built' = "return" => fun'.void
        BY <1>3, <1>8 DEF WalkInv, CheckedIsBuilt
    <2> QED BY <2>1, <2>2 DEF CheckedIsBuilt
<1> QED BY <1>3, <1>14, <1>15, <1>17, <1>18, <1>19 DEF WalkInv

-----------------------------------------------------------------------------
(* The walks as a whole.                                                   *)

LEMMA WalkStarts == WalkInit => WalkInv
<1> SUFFICES ASSUME WalkInit PROVE WalkInv
    OBVIOUS
<1> PICK s : s = <<EmptyScope>>
    OBVIOUS
<1>1. s \in Seq({EmptyScope}) /\ Len(s) = 1 /\ s[1] = EmptyScope
    OBVIOUS
<1>2. IsScopes(s)
    <2> PICK T : T = {EmptyScope}
        OBVIOUS
    <2>1. s \in Seq(T) /\ \A t \in T : IsScope(t)
        BY <1>1, EmptyIsScope
    <2> QED BY <2>1 DEF IsScopes
<1>3. /\ variables = s /\ name2var = s /\ functions = << >> /\ name2func = Library
      /\ verdict = "accepted" /\ built = "ok" /\ frames = << >> /\ term = FALSE
      /\ globals = {} /\ redefined = {} /\ ret_addr = 0 /\ fun.id = 0 /\ nodes = 0
    BY DEF WalkInit
<1>4. frames \in Seq(Bodies) /\ Len(frames) = 0 /\ DOMAIN functions = {}
    BY <1>3
<1>5. WalkTypes
    <2>1. /\ \A i \in DOMAIN name2var : DOMAIN name2var[i].var \subseteq Names
          /\ \A i \in DOMAIN variables : DOMAIN variables[i].var \subseteq Names
          /\ \A i \in DOMAIN frames :
                /\ frames[i].kind \in {"Func", "If", "Else", "While", "Block"}
                /\ frames[i].left => frames[i].block
                /\ frames[i].done => ~frames[i].block
        <3>1. IsScopes(variables) /\ IsScopes(name2var)
            BY <1>2, <1>3
        <3> QED BY <1>4, <3>1, TypesAfter
    <2>2. {ret_addr, fun.id, nodes} \subseteq 0 .. MaxNodes
        BY <1>3, InputsAssumption
    <2>3. WalkTypeOK
        BY <1>3, <2>1, <2>2 DEF WalkTypeOK
    <2>4. IsScopes(variables) /\ IsScopes(name2var) /\ term \in BOOLEAN
        BY <1>2, <1>3
    <2>5. Len(variables) = Len(frames) + 1
        BY <1>1, <1>3, <1>4
    <2> QED BY <1>4, <2>3, <2>4, <2>5 DEF WalkTypes
<1>6. InStep(0)
    <2>1. \A i \in 1 .. 0 + 1 : variables[i].var = name2var[i].var
        BY <1>3
    <2>2. (\A i \in 1 .. Len(frames) : frames[i].building <=> i <= 0) /\ \A i \in 1 .. 0 - 1 : ~frames[i].left
        BY <1>4
    <2> QED BY <1>1, <1>3, <1>4, <2>1, <2>2 DEF InStep
<1>7. FunctionsKnown
    BY <1>3, <1>4 DEF FunctionsKnown
<1>8. CheckedIsBuilt
    BY <1>3 DEF CheckedIsBuilt
<1>9. \E k \in Nat : InStep(k)
    BY <1>6
<1> QED BY <1>3, <1>5, <1>7, <1>8, <1>9 DEF WalkInv

LEMMA DefinitionStep == ASSUME WalkInv, Definition PROVE WalkInv'
<1>1. ASSUME NEW n \in Names \cup DOMAIN Library, NEW void \in BOOLEAN,
             NEW params \in {<< >>} \cup {<<p>> : p \in Names} \cup {<<p, q>> : p, q \in Names},
             FuncDef(n, void, params)
      PROVE  WalkInv'
    <2>1. ToSet(params) \in SUBSET Names
        <3>1. CASE params = << >>
            BY <3>1 DEF ToSet
        <3>2. CASE \E p \in Names : params = <<p>>
            <4>1. \A i \in DOMAIN params : params[i] \in Names
                BY <3>2
            <4> QED BY <4>1 DEF ToSet
        <3>3. CASE \E p, q \in Names : params = <<p, q>>
            <4>1. \A i \in DOMAIN params : params[i] \in Names
                BY <3>3
            <4> QED BY <4>1 DEF ToSet
        <3> QED BY <3>1, <3>2, <3>3
    <2> QED BY <1>1, <2>1, FuncDefStep
<1>2. ASSUME NEW n \in Names, NEW kind, NEW init, NEW len, VarDef(n, kind, len, init)
      PROVE  WalkInv'
    BY <1>2, VarDefStep
<1> QED BY <1>1, <1>2 DEF Definition

LEMMA StatementStep == ASSUME WalkInv, Statement PROVE WalkInv'
<1>1. ASSUME NEW target \in Exprs, NEW value \in Exprs, AssignStmt(target, value) PROVE WalkInv'
    BY <1>1, AssignStep
<1>2. ASSUME NEW f, NEW args \in {<< >>} \cup {<<e>> : e \in Exprs}, CallStmt(f, args) PROVE WalkInv'
    <2>1. DOMAIN args = 1 .. 0 \/ DOMAIN args = 1 .. 1
        OBVIOUS
    <2>2. \E n \in Nat : DOMAIN args = 1 .. n
        BY <2>1
    <2> QED BY <1>2, <2>2, CallStep
<1>3. ASSUME NEW e \in Exprs, NEW none \in BOOLEAN, ReturnStmt(e, none) PROVE WalkInv'
    BY <1>3, ReturnStep
<1>4. ASSUME NEW kind \in {"If", "While"}, NEW cond, NEW block \in BOOLEAN, IfOrWhile(kind, cond, block)
      PROVE  WalkInv'
    BY <1>4, IfOrWhileStep
<1>5. BreakOrContinue \/ BlockStmt => WalkInv'
    BY BreakStep, BlockStep
<1>6. Lit \in Exprs
    BY InputsAssumption
<1> QED BY <1>1, <1>2, <1>3, <1>4, <1>5, <1>6 DEF Statement

\* What the two sides have of a place at every moment of the walks.
LEMMA WalkInvariance == WalkSpec => []WalkInv
<1>1. WalkInit => WalkInv
    BY WalkStarts
<1>2. WalkInv /\ [WalkNext]_walk => WalkInv'
    <2> SUFFICES ASSUME WalkInv, [WalkNext]_walk PROVE WalkInv'
        OBVIOUS
    <2>1. CASE UNCHANGED walk
        <3>1. /\ variables' = variables /\ functions' = functions /\ verdict' = verdict
              /\ name2var' = name2var /\ name2func' = name2func /\ ret_addr' = ret_addr
              /\ globals' = globals /\ redefined' = redefined /\ built' = built
              /\ frames' = frames /\ term' = term /\ fun' = fun /\ nodes' = nodes
            BY <2>1 DEF walk
        <3>2. WalkTypes'
            BY <3>1 DEF WalkInv, WalkTypes, WalkTypeOK, IsScopes, IsScope
        <3>3. (\E k \in Nat : InStep(k)) => (\E k \in Nat : InStep(k)')
            <4>1. \A k \in Nat : InStep(k) => InStep(k)'
                BY <3>1 DEF InStep
            <4> QED BY <4>1
        <3>4. FunctionsKnown => FunctionsKnown'
            BY <3>1 DEF FunctionsKnown
        <3>5. CheckedIsBuilt'
            BY <3>1 DEF WalkInv, CheckedIsBuilt
        <3> QED BY <3>1, <3>2, <3>3, <3>4, <3>5 DEF WalkInv
    <2>2. CASE Definition
        BY <2>2, DefinitionStep
    <2>3. CASE Statement
        BY <2>3, StatementStep
    <2>4. CASE CloseBody
        BY <2>4, CloseStep
    <2>5. CASE \E block \in BOOLEAN : ElseBranch(block)
        BY <2>5, ElseStep
    <2> QED BY <2>1, <2>2, <2>3, <2>4, <2>5 DEF WalkNext
<1> QED BY <1>1, <1>2, PTL DEF WalkSpec

\* Wherever the builder is in a program that the checker has accepted so far, a
\* name means the same declaration to both, whatever the program and however deep
\* its bodies (IRBuilder 143, 549-564, 888-912, 959-965; SyntaxTreeChecker 98-150).
THEOREM SameDeclarations == WalkSpec => []NamesAgree
<1>1. WalkInv => NamesAgree
    <2> SUFFICES ASSUME WalkInv, verdict = "accepted", Building, NEW n \in Names
                 PROVE  Resolve(variables, n) = Resolve(name2var, n)
        BY DEF NamesAgree
    <2> QED BY BuildingSame
<1> QED BY <1>1, WalkInvariance, PTL

\* Behind the checker the builder finds every variable and function and as many
\* arguments as it wants, returns through its own slot unless the function is
\* void, and leaves as many scopes as it entered (IRBuilder 138, 558, 888-912).
THEOREM AcceptedIsBuilt == WalkSpec => []BuilderFollows
<1>1. WalkInv => BuilderFollows
    <2> SUFFICES ASSUME WalkInv PROVE BuilderFollows
        OBVIOUS
    <2>1. ASSUME verdict = "accepted", built = "ok"
          PROVE  /\ Len(name2var) = 1 + Cardinality({i \in DOMAIN frames : frames[i].building})
                 /\ Len(variables) = 1 + Len(frames)
        <3>1. PICK k \in Nat : InStep(k)
            BY <2>1 DEF WalkInv
        <3> PICK l : l = Len(frames)
            OBVIOUS
        <3>2. l \in Nat /\ DOMAIN frames = 1 .. l /\ Len(variables) = l + 1
            BY DEF WalkInv, WalkTypes
        <3>3. k <= l /\ Len(name2var) = k + 1 /\ \A i \in 1 .. l : frames[i].building <=> i <= k
            BY <3>1, <3>2 DEF InStep
        <3> PICK K : K = {i \in DOMAIN frames : frames[i].building}
            OBVIOUS
        <3>4. K = 1 .. k
            BY <3>2, <3>3
        <3>5. Cardinality(1 .. k) = k
            <4>1. Cardinality(1 .. k) = IF 1 > k THEN 0 ELSE k - 1 + 1
                BY FS_Interval
            <4> QED BY <4>1
        <3>6. Cardinality(K) = k
            BY <3>4, <3>5
        <3>7. Len(name2var) = 1 + Cardinality(K) /\ Len(variables) = 1 + Len(frames)
            BY <3>2, <3>3, <3>6
        <3> QED BY <3>7
    <2>2. ScopesBalanced
        BY <2>1 DEF ScopesBalanced
    <2> QED BY <2>2 DEF BuilderFollows, WalkInv, WalkTypes
<1> QED BY <1>1, WalkInvariance, PTL
=============================================================================
