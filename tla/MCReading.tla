------------------------------ MODULE MCReading ------------------------------
(* How a program is read, for TLC: an execution scans a text or parses a      *)
(* sequence of tokens.                                                        *)
EXTENDS Parser

VARIABLES file, yyin, draft, yy_ch_buf, yy_n_chars, yy_buf_size, yy_buffer_status, yy_c_buf_p, yytext,
          yy_hold_char, last_accepting, yy_act, tokens, pc,   \* Scanner
          part

(* A buffer of four characters, of which two are read at a time, has to grow *)
(* for a word of three.  Integers have five bits.  A file is written from    *)
(* what is hard to tell apart, or of two of the words that have one text.    *)
Lex == INSTANCE Lexemes WITH Width <- 5

MCDrafts ==
  {[chunks |-> {<<"i", "n">>, <<"0">>, <<"x">>, <<"9">>, <<".">>, <<"e">>, <<"+">>, <<"/", "/">>, <<"/", "*">>,
                <<"*", "/">>, <<"LF">>, <<"[">>, <<"]">>, <<"NUL">>},
    max |-> 4],
   [chunks |-> {Lex!Fixed[k][1] : k \in DOMAIN Lex!Fixed} \cup {<<"a">>, <<" ">>}, max |-> 2]}

Scan == INSTANCE Scanner WITH Drafts <- MCDrafts, BufSize <- 4, ReadSize <- 2, Width <- 5

svars == <<file, yyin, draft, yy_ch_buf, yy_n_chars, yy_buf_size, yy_buffer_status, yy_c_buf_p, yytext,
           yy_hold_char, last_accepting, yy_act, tokens, pc>>

-----------------------------------------------------------------------------
(* An initial value, a condition, another one with any two operators, the    *)
(* body of a function, and a whole program.                                  *)
One(kinds) == {<<kind>> : kind \in kinds}
FunctionHead == <<"VOID", "IDENTIFIER", "LPARENTHESE", "RPARENTHESE", "LBRACE">>

MCContexts ==
  {[before |-> <<"INT", "IDENTIFIER", "ASSIGN">>,
    chunks |-> One({"IDENTIFIER", "INTCONST", "PLUS", "MULTIPLY", "NOT", "LPARENTHESE", "RPARENTHESE",
                    "LBRACKET", "RBRACKET", "COMMA"}),
    after  |-> <<"SEMICOLON", "END">>, max |-> 5],
   [before |-> FunctionHead \o <<"WHILE", "LPARENTHESE">>,
    chunks |-> One({"LTE", "EQ", "LOGICAND", "LOGICOR", "MINUS", "FLOATCONST"}),
    after  |-> <<"RPARENTHESE", "SEMICOLON", "RBRACE", "END">>, max |-> 7],
   [before |-> FunctionHead \o <<"WHILE", "LPARENTHESE", "INTCONST">>,
    chunks |-> {<<op, "INTCONST">> : op \in UNION {Levels[k] : k \in DOMAIN Levels}},
    after  |-> <<"RPARENTHESE", "SEMICOLON", "RBRACE", "END">>, max |-> 2],
   [before |-> FunctionHead,
    chunks |-> One({"SEMICOLON", "ELSE", "LBRACE", "RBRACE", "RETURN", "BREAK", "CONTINUE"})
                 \cup {<<"IF", "LPARENTHESE", "IDENTIFIER", "RPARENTHESE">>,
                       <<"WHILE", "LPARENTHESE", "FLOATCONST", "RPARENTHESE">>,
                       <<"IDENTIFIER", "ASSIGN", "INTCONST">>, <<"IDENTIFIER", "LPARENTHESE", "RPARENTHESE">>},
    after  |-> <<"RBRACE", "END">>, max |-> 5],
   [before |-> <<>>,
    chunks |-> One({"INT", "CONST", "VOID", "IDENTIFIER", "LPARENTHESE", "RPARENTHESE", "COMMA", "SEMICOLON",
                    "LBRACE", "RBRACE", "LRBRACKET"})
                 \cup {<<"LBRACKET", "INTCONST", "RBRACKET">>, <<"ASSIGN", "INTCONST">>, <<"ASSIGN", "LBRACE">>,
                       <<"FLOAT", "IDENTIFIER">>},
    after  |-> <<"END">>, max |-> 7]}

-----------------------------------------------------------------------------
Idle ==
  /\ yystack = <<Slot(0, NoToken)>> /\ yyla = NoToken /\ input = <<>> /\ pending = <<>> /\ left = 0
  /\ context = [before |-> <<>>] /\ root = Null /\ result = "idle"

ScanIdle ==
  /\ file = <<>> /\ yyin = <<>> /\ draft = [chunks |-> {}, max |-> 0] /\ yy_ch_buf = <<>> /\ yy_n_chars = 0 /\ yy_buf_size = 0
  /\ yy_buffer_status = "none" /\ yy_c_buf_p = 0 /\ yytext = 0 /\ yy_hold_char = "NUL"
  /\ last_accepting = Scan!State(0, 0) /\ yy_act = 0 /\ tokens = <<>> /\ pc = "END"

MCInit ==
  \/ part = "scan" /\ Idle /\ Scan!Init
  \/ part = "parse" /\ Init /\ ScanIdle

Finished == result # "none" /\ Scan!Closed

\* The last disjunct is for TLC: what has been read stays so.
MCNext ==
  /\ \/ part = "scan" /\ Scan!Next /\ UNCHANGED vars
     \/ part = "parse" /\ Next /\ UNCHANGED svars
     \/ Finished /\ UNCHANGED <<vars, svars>>
  /\ UNCHANGED part

\* Weak fairness of reading, which is enabled until it has finished.
Reads == []<>Finished \/ []<><<TRUE>>_<<vars, svars>>

MCSpec == MCInit /\ [][MCNext]_<<vars, svars, part>> /\ Reads

-----------------------------------------------------------------------------
\* Scanner!TokensExact.
TokensExact == Scan!TokensExact

(* Every text is scanned to its end and every program accepted or refused:   *)
(* yylex does not read the end of the buffer again and again, and no empty   *)
(* rules are reduced for ever.                                               *)
ReadsEnd == <>Finished
=============================================================================
