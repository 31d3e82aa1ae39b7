------------------------------- MODULE Scanner -------------------------------
(* The scanner, src/Frontend/SysYFScanner.cpp: it runs its automaton over a  *)
(* buffer that ends with two NULs, moves the text it has begun to the front  *)
(* and reads on when it runs into them, and lets the buffer grow when that   *)
(* text fills it.  Locations and the tracing are left out.                   *)
EXTENDS ScannerTables, Lexemes

CONSTANTS Drafts,     \* chunks of text to write a file from, and how many at most
          BufSize,    \* YY_BUF_SIZE
          ReadSize    \* YY_READ_BUF_SIZE

VARIABLES file, yyin,        \* the text, and what has not been read of it
          draft,             \* what may still be written
          yy_ch_buf, yy_n_chars, yy_buf_size, yy_buffer_status,
          yy_c_buf_p,        \* how far the buffer has been scanned
          yytext,            \* where the word in hand begins
          yy_hold_char,      \* what the NUL behind it stands for
          last_accepting,    \* the state, and the place behind the text it accepts
          yy_act,            \* the rule to act by
          tokens,            \* what yylex has returned
          pc

buffer == <<yy_ch_buf, yy_n_chars, yy_buf_size, yy_buffer_status>>
place == <<yy_c_buf_p, yytext, yy_hold_char, last_accepting, yy_act>>
vars == <<file, yyin, draft, buffer, place, tokens, pc>>

State(state, at) == [state |-> state, at |-> at]
Jam == 112
EndOfBuffer == 46

-----------------------------------------------------------------------------
(* The automaton.                                                            *)
RECURSIVE Transition(_, _)
Transition(state, class) ==
  IF yy_chk[yy_base[state + 1] + class + 1] = state THEN yy_nxt[yy_base[state + 1] + class + 1]
  ELSE LET next == yy_def[state + 1]
       IN  Transition(next, IF next >= 113 THEN yy_meta[class + 1] ELSE class)

Remember(state, at, last) == IF yy_accept[state + 1] # 0 THEN State(state, at) ELSE last

(* yy_match: from state at a place of the buffer to the jam; the last state  *)
(* that accepted.                                                            *)
RECURSIVE Match(_, _, _, _)
Match(buf, state, at, last) ==
  IF state = Jam THEN last
  ELSE Match(buf, Transition(state, yy_ec[Code(buf[at]) + 1]), at + 1, Remember(state, at, last))

(* yy_get_previous_state: the state at yy_c_buf_p, where a NUL is text.      *)
RECURSIVE Previous(_, _, _, _, _)
Previous(buf, state, at, to, last) ==
  IF at = to THEN [state |-> state, last |-> last]
  ELSE LET class == IF buf[at] = "NUL" THEN 1 ELSE yy_ec[Code(buf[at]) + 1]
       IN  Previous(buf, Transition(state, class), at + 1, to, Remember(state, at, last))

(* yy_find_action for the text from bp to at, backing up from a state that   *)
(* accepts nothing; YY_DO_BEFORE_ACTION.                                     *)
Found(buf, bp, state, at, last) ==
  LET end == IF yy_accept[state + 1] # 0 THEN State(state, at) ELSE last IN
  /\ yy_act' = yy_accept[end.state + 1]
  /\ yytext' = bp
  /\ yy_c_buf_p' = end.at
  /\ yy_hold_char' = buf[end.at]
  /\ yy_ch_buf' = [buf EXCEPT ![end.at] = "NUL"]
  /\ last_accepting' = last
  /\ pc' = "act"

Matched(buf, bp, state, at, last) ==
  LET m == Match(buf, state, at, last) IN Found(buf, bp, m.state, m.at, m)

-----------------------------------------------------------------------------
Init ==
  /\ file = <<>> /\ yyin = <<>> /\ draft \in Drafts
  /\ yy_ch_buf = <<>> /\ yy_n_chars = 0 /\ yy_buf_size = 0 /\ yy_buffer_status = "none"
  /\ yy_c_buf_p = 0 /\ yytext = 0 /\ yy_hold_char = "NUL" /\ last_accepting = State(0, 0) /\ yy_act = 0
  /\ tokens = <<>>
  /\ pc = "write"

(* The program is written.                                                   *)
Write ==
  /\ pc = "write" /\ draft.max > 0
  /\ \E chunk \in draft.chunks : file' = file \o chunk
  /\ draft' = [draft EXCEPT !.max = @ - 1]
  /\ UNCHANGED <<yyin, buffer, place, tokens, pc>>

(* scan_begin: switch_streams, a new buffer.                                 *)
Open ==
  /\ pc = "write"
  /\ yyin' = file
  /\ draft' = [chunks |-> {}, max |-> 0]
  /\ yy_ch_buf' = [k \in 0 .. BufSize + 1 |-> IF k < 2 THEN "NUL" ELSE "uninitialized"]
  /\ yy_buf_size' = BufSize
  /\ yy_n_chars' = 0
  /\ yy_buffer_status' = "NEW"
  /\ pc' = "scan"
  /\ UNCHANGED <<file, place, tokens>>

(* yylex, or the next round of its loop.                                     *)
Scan ==
  /\ pc = "scan"
  /\ Matched([yy_ch_buf EXCEPT ![yy_c_buf_p] = yy_hold_char], yy_c_buf_p, 1, yy_c_buf_p, last_accepting)
  /\ UNCHANGED <<file, yyin, draft, yy_n_chars, yy_buf_size, yy_buffer_status, tokens>>

Text == [k \in 1 .. yy_c_buf_p - yytext |-> yy_ch_buf[yytext + k - 1]]

(* unsigned sum = sum * base + digit for every digit, as an int.             *)
Sum(digits, base) == FoldLeft(LAMBDA sum, c : (sum * base + ch2int(c)) % 2^Width, 0, digits)

(* RET_NOTYPE_TOKEN.                                                         *)
Token ==
  <<"FLOAT", "INT", "RETURN", "VOID", "CONST", "BREAK", "CONTINUE", "WHILE", "IF", "ELSE",
    "LT", "LTE", "GT", "GTE", "EQ", "NEQ", "NOT", "LOGICAND", "LOGICOR", "PLUS", "MINUS", "MULTIPLY", "DIVIDE",
    "MODULO", "ASSIGN", "SEMICOLON", "COMMA", "LPARENTHESE", "RPARENTHESE", "LBRACKET", "RBRACKET", "LBRACE",
    "RBRACE", "LRBRACKET">>

(* The token an action returns.                                              *)
Word ==
  CASE yy_act \in 1 .. 34 -> Lexeme(Token[yy_act], <<>>, 0)
    [] yy_act = 39 -> Lexeme("INTCONST", <<>>, Sum(Text, 10))
    [] yy_act = 40 -> Lexeme("INTCONST", <<>>, Sum(From(Text, 3), 16))
    [] yy_act = 41 -> Lexeme("INTCONST", <<>>, Sum(From(Text, 2), 8))
    [] yy_act = 42 -> Lexeme("IDENTIFIER", Text, 0)
    [] yy_act = 43 -> Lexeme("FLOATCONST", Text, 0)

Act ==
  /\ pc = "act" /\ yy_act # EndOfBuffer
  /\ tokens' = IF yy_act \in Skipped \cup {BadCharacter} THEN tokens ELSE Append(tokens, Word)
  /\ pc' = IF yy_act = BadCharacter THEN "exit(1)" ELSE "scan"
  /\ UNCHANGED <<file, yyin, draft, buffer, place>>

-----------------------------------------------------------------------------
(* The end of the buffer.                                                    *)
Restored == [yy_ch_buf EXCEPT ![yy_c_buf_p] = yy_hold_char]
AmountMatched == yy_c_buf_p - yytext - 1

(* A NUL that was in the text.                                               *)
Nul ==
  /\ pc = "act" /\ yy_act = EndOfBuffer
  /\ yy_c_buf_p <= yy_n_chars
  /\ LET at == yytext + AmountMatched
         before == Previous(Restored, 1, yytext, at, last_accepting)
         last == Remember(before.state, at, before.last)
         next == Transition(before.state, 1)
     IN  IF next # Jam THEN Matched(Restored, yytext, next, at + 1, last)
         ELSE Found(Restored, yytext, last.state, last.at, last)
  /\ yy_buffer_status' = IF yy_buffer_status = "NEW" THEN "NORMAL" ELSE yy_buffer_status
  /\ UNCHANGED <<file, yyin, draft, yy_n_chars, yy_buf_size, tokens>>

RECURSIVE GrownLate(_, _), Grown(_, _)
\* Mutant: a full buffer is not grown.
GrownLate(size, moved) == IF size - moved > 0 THEN size ELSE GrownLate(2 * size, moved)

Grown(size, moved) == IF size - moved - 1 > 0 THEN size ELSE Grown(2 * size, moved)

Least(a, b) == IF a < b THEN a ELSE b

(* What yy_get_next_buffer reads behind the moved text.                      *)
Room == IF yy_buffer_status = "EOF_PENDING" THEN yy_buf_size ELSE Grown(yy_buf_size, AmountMatched)
Amount == IF yy_buffer_status = "EOF_PENDING" THEN 0
          ELSE Least(Len(yyin), Least(Room - AmountMatched - 1, ReadSize))

Refilled ==
  LET n == AmountMatched + Amount
  IN  [k \in 0 .. Room + 1 |->
         CASE k < AmountMatched -> yy_ch_buf[yytext + k]
           [] k \in AmountMatched .. n - 1 -> yyin[k - AmountMatched + 1]
           [] k \in n .. n + 1 -> "NUL"
           [] OTHER -> "uninitialized"]

(* EOB_ACT_CONTINUE_SCAN.                                                    *)
ReadOn ==
  /\ pc = "act" /\ yy_act = EndOfBuffer
  /\ yy_c_buf_p > yy_n_chars /\ Amount > 0
  /\ LET before == Previous(Refilled, 1, 0, AmountMatched, last_accepting)
     IN  Matched(Refilled, 0, before.state, AmountMatched, before.last)
  /\ yyin' = From(yyin, Amount + 1)
  /\ yy_n_chars' = AmountMatched + Amount
  /\ yy_buf_size' = Room
  /\ yy_buffer_status' = "NORMAL"
  /\ UNCHANGED <<file, draft, tokens>>

(* EOB_ACT_LAST_MATCH: the text in hand ends with the file.                  *)
LastMatch ==
  /\ pc = "act" /\ yy_act = EndOfBuffer
  /\ yy_c_buf_p > yy_n_chars /\ Amount = 0 /\ AmountMatched > 0
  /\ LET before == Previous(Refilled, 1, 0, AmountMatched, last_accepting)
     IN  Found(Refilled, 0, before.state, AmountMatched, before.last)
  /\ yy_n_chars' = AmountMatched
  /\ yy_buf_size' = Room
  /\ yy_buffer_status' = "EOF_PENDING"
  /\ UNCHANGED <<file, yyin, draft, tokens>>

(* yyrestart, yy_load_buffer_state.                                          *)
Restart ==
  /\ yy_ch_buf' = Refilled
  /\ yy_n_chars' = 0
  /\ yy_buffer_status' = "NEW"
  /\ yytext' = 0 /\ yy_c_buf_p' = 0 /\ yy_hold_char' = "NUL"

AtEndOfFile ==
  /\ pc = "act" /\ yy_act = EndOfBuffer
  /\ yy_c_buf_p > yy_n_chars /\ Amount = 0 /\ AmountMatched = 0

\* Mutant: scans on as if there were another file.
EndOfFileScansOn ==
  /\ AtEndOfFile /\ Restart
  /\ pc' = "scan"
  /\ UNCHANGED <<file, yyin, draft, yy_buf_size, last_accepting, yy_act, tokens>>

(* EOB_ACT_END_OF_FILE: there is no other file, and the token is END.        *)
EndOfFile ==
  /\ AtEndOfFile /\ Restart
  /\ pc' = "END"
  /\ UNCHANGED <<file, yyin, draft, yy_buf_size, last_accepting, yy_act, tokens>>

Next == Write \/ Open \/ Scan \/ Act \/ Nul \/ ReadOn \/ LastMatch \/ EndOfFile

Spec == Init /\ [][Next]_vars

-----------------------------------------------------------------------------
(* Properties.                                                               *)
Closed == pc \in {"END", "exit(1)"}

(* The words of a file are those its text has, the longest first, wherever   *)
(* the end of the buffer falls: no character is lost, read twice or taken    *)
(* for the end when the text in hand is moved, the buffer grows, a word ends *)
(* with the file or the text has a NUL.                                      *)
TokensExact ==
  Closed => [ends |-> IF pc = "END" THEN "end" ELSE "error", words |-> tokens] = Words(file, 1, <<>>)
=============================================================================
