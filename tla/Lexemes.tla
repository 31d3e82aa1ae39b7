------------------------------- MODULE Lexemes -------------------------------
(* The words of SysYF, for reference: the expressions of                     *)
(* grammar/SysYFScanner.ll, as sets of texts, and the reading they define,   *)
(* the longest word first and of those the rule listed first.                *)
EXTENDS Integers, Sequences, SequencesExt

CONSTANT Width   \* of int, in bits

Fixed ==
  <<<<<<"f", "l", "o", "a", "t">>, "FLOAT">>, <<<<"i", "n", "t">>, "INT">>,
    <<<<"r", "e", "t", "u", "r", "n">>, "RETURN">>, <<<<"v", "o", "i", "d">>, "VOID">>,
    <<<<"c", "o", "n", "s", "t">>, "CONST">>, <<<<"b", "r", "e", "a", "k">>, "BREAK">>,
    <<<<"c", "o", "n", "t", "i", "n", "u", "e">>, "CONTINUE">>, <<<<"w", "h", "i", "l", "e">>, "WHILE">>,
    <<<<"i", "f">>, "IF">>, <<<<"e", "l", "s", "e">>, "ELSE">>,
    <<<<"<">>, "LT">>, <<<<"<", "=">>, "LTE">>, <<<<">">>, "GT">>, <<<<">", "=">>, "GTE">>,
    <<<<"=", "=">>, "EQ">>, <<<<"!", "=">>, "NEQ">>, <<<<"!">>, "NOT">>, <<<<"&", "&">>, "LOGICAND">>,
    <<<<"|", "|">>, "LOGICOR">>, <<<<"+">>, "PLUS">>, <<<<"-">>, "MINUS">>, <<<<"*">>, "MULTIPLY">>,
    <<<<"/">>, "DIVIDE">>, <<<<"%">>, "MODULO">>, <<<<"=">>, "ASSIGN">>, <<<<";">>, "SEMICOLON">>,
    <<<<",">>, "COMMA">>, <<<<"(">>, "LPARENTHESE">>, <<<<")">>, "RPARENTHESE">>, <<<<"[">>, "LBRACKET">>,
    <<<<"]">>, "RBRACKET">>, <<<<"{">>, "LBRACE">>, <<<<"}">>, "RBRACE">>>>

Digit == {"0", "1", "2", "3", "4", "5", "6", "7", "8", "9"}
OctDigit == Digit \ {"8", "9"}
ch2int(c) == CHOOSE n \in 0 .. 15 : \E digits \in {<<"0", "1", "2", "3", "4", "5", "6", "7", "8", "9", "a", "b", "c", "d", "e", "f">>,
                                                   <<"0", "1", "2", "3", "4", "5", "6", "7", "8", "9", "A", "B", "C", "D", "E", "F">>} :
                     digits[n + 1] = c
HexDigit == Digit \cup {"a", "b", "c", "d", "e", "f", "A", "B", "C", "D", "E", "F"}
Letter == HexDigit \cup {"_", "g", "h", "i", "j", "k", "l", "m", "n", "o", "p", "q", "r", "s", "t", "u", "v", "w", "x", "y", "z"}
                   \cup {"G", "H", "I", "J", "K", "L", "M", "N", "O", "P", "Q", "R", "S", "T", "U", "V", "W", "X", "Y", "Z"}

Over(s, set) == \A k \in DOMAIN s : s[k] \in set
From(s, k) == SubSeq(s, k, Len(s))
Starts(s, prefix) == SubSeq(s, 1, Len(prefix)) = prefix

Identifier(s) == s # <<>> /\ Over(s, Letter) /\ s[1] \notin Digit
DecConst(s) == s # <<>> /\ Over(s, Digit) /\ s[1] # "0"
OctConst(s) == s # <<>> /\ Over(s, OctDigit) /\ s[1] = "0"
HexConst(s) == Len(s) > 2 /\ s[1] = "0" /\ s[2] \in {"x", "X"} /\ Over(From(s, 3), HexDigit)

Digits(s) == s # <<>> /\ Over(s, Digit)
Mantissa(s) == Len(s) > 1 /\ \E k \in DOMAIN s : s[k] = "." /\ Over(SubSeq(s, 1, k - 1) \o From(s, k + 1), Digit)
Exponent(s) ==
  /\ s # <<>> /\ s[1] \in {"e", "E"}
  /\ Digits(From(s, 2)) \/ (Len(s) > 1 /\ s[2] \in {"+", "-"} /\ Digits(From(s, 3)))
FloatConst(s) ==
  \/ Mantissa(s)
  \/ \E k \in 2 .. Len(s) :
       LET head == SubSeq(s, 1, k - 1) IN (Mantissa(head) \/ Digits(head)) /\ Exponent(From(s, k))

SingleLineComment(s) ==
  Len(s) > 2 /\ Starts(s, <<"/", "/">>) /\ {k \in DOMAIN s : s[k] \in {"LF", "CR"}} = {Len(s)}
\* Up to the first */.
MultilineComment(s) ==
  Len(s) > 3 /\ Starts(s, <<"/", "*">>)
  /\ {k \in 3 .. Len(s) - 1 : s[k] = "*" /\ s[k + 1] = "/"} = {Len(s) - 1}

RECURSIVE Gap(_)
Gap(s) ==
  \/ s = <<>>
  \/ s[1] \in {" ", "CR", "TAB", "LF"} /\ Gap(Tail(s))
  \/ \E k \in DOMAIN s : (SingleLineComment(SubSeq(s, 1, k)) \/ MultilineComment(SubSeq(s, 1, k))) /\ Gap(From(s, k + 1))

Is(rule, s) ==
  CASE rule \in 1 .. 33 -> s = Fixed[rule][1]
    [] rule = 34 -> Len(s) > 1 /\ s[1] = "[" /\ Last(s) = "]" /\ Gap(SubSeq(s, 2, Len(s) - 1))
    [] rule = 35 -> Over(s, {" ", "TAB", "CR"})
    [] rule = 36 -> Over(s, {"LF"})
    [] rule = 37 -> MultilineComment(s)
    [] rule = 38 -> SingleLineComment(s)
    [] rule = 39 -> DecConst(s)
    [] rule = 40 -> HexConst(s)
    [] rule = 41 -> OctConst(s)
    [] rule = 42 -> Identifier(s)
    [] rule = 43 -> FloatConst(s)
    [] rule = 44 -> Len(s) = 1 /\ s[1] # "LF"

Skipped == 35 .. 38
BadCharacter == 44

Lexeme(token, text, value) == [token |-> token, text |-> text, value |-> value]
Numeral(digits, base) == FoldLeft(LAMBDA n, c : n * base + ch2int(c), 0, digits) % 2^Width

\* What a text says: names and floats keep it, integers have a value.
Meaning(rule, s) ==
  CASE rule \in 1 .. 33 -> Lexeme(Fixed[rule][2], <<>>, 0)
    [] rule = 34 -> Lexeme("LRBRACKET", <<>>, 0)
    [] rule = 39 -> Lexeme("INTCONST", <<>>, Numeral(s, 10))
    [] rule = 40 -> Lexeme("INTCONST", <<>>, Numeral(From(s, 3), 16))
    [] rule = 41 -> Lexeme("INTCONST", <<>>, Numeral(s, 8))
    [] rule = 42 -> Lexeme("IDENTIFIER", s, 0)
    [] rule = 43 -> Lexeme("FLOATCONST", s, 0)

\* The words of s from i on, behind those read, up to a character of none.
RECURSIVE Words(_, _, _)
Words(s, i, read) ==
  IF i > Len(s) THEN [ends |-> "end", words |-> read]
  ELSE LET long == CHOOSE j \in i .. Len(s) :
                     /\ \E rule \in 1 .. 44 : Is(rule, SubSeq(s, i, j))
                     /\ \A longer \in j + 1 .. Len(s) : \A rule \in 1 .. 44 : ~Is(rule, SubSeq(s, i, longer))
           text == SubSeq(s, i, long)
           rule == CHOOSE r \in 1 .. 44 : Is(r, text) /\ \A earlier \in 1 .. r - 1 : ~Is(earlier, text)
       IN  CASE rule = BadCharacter -> [ends |-> "error", words |-> read]
             [] rule \in Skipped -> Words(s, long + 1, read)
             [] OTHER -> Words(s, long + 1, Append(read, Meaning(rule, text)))
=============================================================================
