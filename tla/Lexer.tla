-------------------------------- MODULE Lexer ---------------------------------
(***************************************************************************)
(* The lexer (src/lex.c): a stream of tokens over the characters of a      *)
(* source, one character a step.                                           *)
(*                                                                         *)
(* ptr is an offset into the text, whose last character is followed by a   *)
(* NUL; nothing is known of what lies behind that.  A token has its type,  *)
(* the place and length of its value in the text, and its span.  The value *)
(* of an ERROR or EOF token is a message and not in the text: its place is *)
(* where what it is about begins, and its length 0.                        *)
(*                                                                         *)
(* Definitions named X_y are X with the defect y.  The specification does  *)
(* not use them: with one in place of X, TLC finds a property violated.    *)
(***************************************************************************)
EXTENDS Integers, Sequences

CONSTANTS
  Texts,  \* the sources, sequences of characters
  Eofs    \* how often the end is asked for again

NUL == "NUL"
QUOTE == "\""

ASSUME TextAssumption ==
  /\ \A t \in Texts : t \in Seq(STRING) /\ \A i \in DOMAIN t : t[i] # NUL
  /\ Eofs \in Nat \ {0}

VARIABLES
  text,
  ptr, pos,            \* of the next character; row and column of the last one
  wasnull,             \* the NUL was read where it ends the source
  state,
  tbeg, tlen, tspan,   \* what of a token has been read
  tokens,              \* the tokens returned
  phase                \* "IDLE", "SCAN" during a call, or "OVERRUN"

stream == <<text, ptr, pos, wasnull, state>>
lexeme == <<tbeg, tlen, tspan>>
vars == <<stream, lexeme, tokens, phase>>

-----------------------------------------------------------------------------
(* Characters *)

Digits == {"0", "1", "2", "3", "4", "5", "6", "7", "8", "9"}
Letters ==
  {"a", "b", "c", "d", "e", "f", "g", "h", "i", "j", "k", "l", "m", "n", "o", "p", "q", "r", "s",
   "t", "u", "v", "w", "x", "y", "z", "A", "B", "C", "D", "E", "F", "G", "H", "I", "J", "K", "L",
   "M", "N", "O", "P", "Q", "R", "S", "T", "U", "V", "W", "X", "Y", "Z"}

is_num(ch) == ch \in Digits
is_ident_begin(ch) == ch \in Letters \cup {"_"}
is_ident(ch) == is_ident_begin(ch) \/ is_num(ch) \/ ch = "."
is_space(ch) == ch \in {" ", "\n", "\r", "\t", NUL}

Keywords ==
  {<<"i", "f">>, <<"t", "h", "e", "n">>, <<"e", "l", "s", "e">>, <<"m", "a", "t", "c", "h">>,
   <<"w", "i", "t", "h">>, <<"e", "n", "d">>, <<"t", "r", "u", "e">>, <<"f", "a", "l", "s", "e">>,
   <<"i", "n", "f">>, <<"r", "e", "n", "a", "m", "e">>, <<"m", "o", "d", "u", "l", "e">>,
   <<"e", "n", "d", "m", "o", "d">>}

WordType(word) ==
  IF word = <<"_">> THEN "CATCHALL" ELSE IF word \in Keywords THEN "KEYWORD" ELSE "IDENT"

Glyphs == {"+", "-", "*", "/", "<", ">", "=", "!", "&", "|", ":"}
Single(ch) ==
  CASE ch = "(" -> "OPENPAREN" [] ch = ")" -> "CLOSEPAREN" [] ch = "[" -> "OPENBRACK"
    [] ch = "]" -> "CLOSEBRACK" [] ch = "{" -> "OPENBRACE" [] ch = "}" -> "CLOSEBRACE"
    [] ch = "," -> "COMMA" [] OTHER -> "ERROR"
Alone(ch) ==
  CASE ch = "+" -> "ADD" [] ch = "-" -> "SUB" [] ch = "*" -> "MUL" [] ch = "/" -> "DIV"
    [] ch = "<" -> "LTH" [] ch = ">" -> "GTH" [] ch = "=" -> "SETEQ" [] ch = "!" -> "LOGNOT"
    [] ch = ":" -> "COLON" [] OTHER -> "ERROR"
WithEquals(ch) ==
  CASE ch = "+" -> "ADDEQ" [] ch = "-" -> "SUBEQ" [] ch = "*" -> "MULEQ" [] ch = "/" -> "DIVEQ"
    [] ch = "<" -> "LEQ" [] ch = ">" -> "GEQ" [] ch = "=" -> "EQU" [] ch = "!" -> "NEQ"
    [] OTHER -> "ERROR"

(* The type of two glyphs together, or "NONE". *)
Pair(first, ch) ==
  CASE ch = "=" -> WithEquals(first)
    [] first = "&" /\ ch = "&" -> "LOGAND" [] first = "|" /\ ch = "|" -> "LOGOR"
    [] first = ":" /\ ch = ":" -> "JOIN" [] first = "=" /\ ch = ">" -> "ARROW"
    [] OTHER -> "NONE"

(* What a character begins; nothing more follows one that stays in VOID. *)
Opens(ch) ==
  CASE is_ident_begin(ch) -> "IDENT" [] is_num(ch) -> "NUMBER" [] ch \in Glyphs -> "SYMBOL"
    [] ch = QUOTE -> "STRING" [] ch = "#" -> "COMMENT" [] OTHER -> "VOID"

-----------------------------------------------------------------------------
(* Reading *)

c == IF ptr < Len(text) THEN text[ptr + 1] ELSE NUL
Moved(from, ch) ==
  IF ch = "\n" THEN [row |-> from.row + 1, col |-> 0] ELSE [from EXCEPT !.col = @ + 1]
p == Moved(pos, c)

Read(s) == phase = "SCAN" /\ ~ wasnull /\ ptr <= Len(text) /\ state = s /\ UNCHANGED text
Advance == ptr' = ptr + 1 /\ pos' = p
Back == UNCHANGED <<ptr, pos>>

Continue(s) == state' = s /\ UNCHANGED <<tokens, phase>>
Return(type, at, len, span) ==
  /\ tokens' = Append(tokens, [type |-> type, at |-> at, span |-> span,
                               len |-> IF type \in {"ERROR", "EOF"} THEN 0 ELSE len])
  /\ phase' = "IDLE" /\ state' = "VOID"
  /\ UNCHANGED lexeme

(* LSTATE_VOID, at a space, and at what is none *)
Space_overNUL ==
  /\ Read("VOID") /\ is_space(c)
  /\ Advance /\ Continue("VOID")
  /\ UNCHANGED <<wasnull, lexeme>>
Space ==
  /\ Read("VOID") /\ is_space(c)
  /\ Advance /\ Continue("VOID")
  /\ wasnull' = (c = NUL)
  /\ UNCHANGED lexeme

Begin ==
  /\ Read("VOID") /\ ~ is_space(c)
  /\ Advance
  /\ IF Opens(c) = "VOID" THEN Return(Single(c), ptr, 1, p)
     ELSE Continue(Opens(c)) /\ tbeg' = ptr /\ tlen' = 1 /\ tspan' = p
  /\ UNCHANGED wasnull

(* A word or a number ends at the first character that is none of its own, *)
(* which is read again unless it is a space.                               *)
Run(inside, type) ==
  IF inside
  THEN /\ Advance /\ Continue(state)
       /\ tlen' = tlen + 1
       /\ UNCHANGED <<tbeg, tspan, wasnull>>
  ELSE /\ Return(type, tbeg, tlen, tspan)
       /\ wasnull' = (c = NUL)
       /\ IF is_space(c) THEN Advance ELSE Back

Ident == Read("IDENT") /\ Run(is_ident(c), WordType(SubSeq(text, tbeg + 1, tbeg + tlen)))
Number == Read("NUMBER") /\ Run(is_num(c), "NUMBER")

(* LSTATE_STRING and LSTATE_STRINGESC; the value is what the quotes hold. *)
String_whole ==
  /\ Read("STRING") /\ Advance
  /\ IF c = QUOTE THEN Return("STRLIT", tbeg + 1, tlen + 1, tspan)
     ELSE /\ Continue(IF c = "\\" THEN "STRINGESC" ELSE "STRING")
          /\ tlen' = tlen + 1 /\ UNCHANGED <<tbeg, tspan>>
  /\ UNCHANGED wasnull
String_early ==
  /\ Read("STRING") /\ Advance
  /\ IF c = QUOTE THEN Return("STRLIT", tbeg + 1, tlen - 2, tspan)
     ELSE /\ Continue(IF c = "\\" THEN "STRINGESC" ELSE "STRING")
          /\ tlen' = tlen + 1 /\ UNCHANGED <<tbeg, tspan>>
  /\ UNCHANGED wasnull
String ==
  /\ Read("STRING") /\ Advance
  /\ IF c = QUOTE THEN Return("STRLIT", tbeg + 1, tlen + 1 - 2, tspan)
     ELSE /\ Continue(IF c = "\\" THEN "STRINGESC" ELSE "STRING")
          /\ tlen' = tlen + 1 /\ UNCHANGED <<tbeg, tspan>>
  /\ UNCHANGED wasnull
StringEsc ==
  /\ Read("STRINGESC") /\ Advance
  /\ Continue("STRING")
  /\ tlen' = tlen + 1 /\ UNCHANGED <<tbeg, tspan, wasnull>>

(* A second glyph that makes no pair is read again. *)
Symbol_moved ==
  /\ Read("SYMBOL")
  /\ LET pair == Pair(text[tbeg + 1], c) IN
     IF pair # "NONE" THEN Advance /\ Return(pair, tbeg, 2, tspan)
     ELSE UNCHANGED ptr /\ pos' = p /\ Return(Alone(text[tbeg + 1]), tbeg, 1, tspan)
  /\ UNCHANGED wasnull
Symbol_again ==
  /\ Read("SYMBOL")
  /\ LET pair == Pair(text[tbeg + 1], c) IN
     IF pair # "NONE" THEN Advance /\ Return(pair, tbeg, 2, tspan)
     ELSE /\ Back
          /\ IF Alone(text[tbeg + 1]) = "ERROR" THEN Continue(state) /\ UNCHANGED lexeme
             ELSE Return(Alone(text[tbeg + 1]), tbeg, 1, tspan)
  /\ UNCHANGED wasnull
Symbol ==
  /\ Read("SYMBOL")
  /\ LET pair == Pair(text[tbeg + 1], c) IN
     IF pair # "NONE" THEN Advance /\ Return(pair, tbeg, 2, tspan)
     ELSE Back /\ Return(Alone(text[tbeg + 1]), tbeg, 1, tspan)
  /\ UNCHANGED wasnull

Comment ==
  /\ Read("COMMENT") /\ Advance
  /\ Continue(IF c = "\n" THEN "VOID" ELSE "COMMENT")
  /\ UNCHANGED <<lexeme, wasnull>>

(* The loop is left, or reads on behind the NUL. *)
End ==
  /\ phase = "SCAN" /\ wasnull
  /\ Return("EOF", ptr - 1, 0, pos)
  /\ UNCHANGED <<text, ptr, pos, wasnull>>
Overrun ==
  /\ phase = "SCAN" /\ ~ wasnull /\ ptr > Len(text)
  /\ phase' = "OVERRUN"
  /\ UNCHANGED <<stream, lexeme, tokens>>

(* quosi_token_stream_init, quosi_token_stream_next *)
Call ==
  /\ phase = "IDLE"
  /\ Len(tokens) >= Eofs => tokens[Len(tokens) - Eofs + 1].type # "EOF"
  /\ phase' = "SCAN"
  /\ tbeg' = 0 /\ tlen' = 0 /\ tspan' = pos
  /\ UNCHANGED <<stream, tokens>>

Init ==
  /\ text \in Texts
  /\ ptr = 0 /\ pos = [row |-> 1, col |-> 0] /\ wasnull = FALSE /\ state = "VOID"
  /\ tbeg = 0 /\ tlen = 0 /\ tspan = pos
  /\ tokens = <<>> /\ phase = "IDLE"

Scan ==
  Space \/ Begin \/ Ident \/ Number \/ String \/ StringEsc \/ Symbol \/ Comment \/ End \/ Overrun
Next == Call \/ Scan

Spec == Init /\ [][Next]_vars /\ WF_vars(Scan)

-----------------------------------------------------------------------------
Span == [row : Nat, col : Nat]
Types ==
  {"OPENPAREN", "CLOSEPAREN", "OPENBRACK", "CLOSEBRACK", "OPENBRACE", "CLOSEBRACE", "COMMA", "ADD",
   "SUB", "MUL", "DIV", "LTH", "GTH", "LEQ", "GEQ", "EQU", "NEQ", "SETEQ", "ADDEQ", "SUBEQ",
   "MULEQ", "DIVEQ", "LOGNOT", "LOGAND", "LOGOR", "COLON", "JOIN", "ARROW", "CATCHALL", "KEYWORD",
   "IDENT", "NUMBER", "STRLIT", "ERROR", "EOF"}

(* The stream's variables keep their types; what is MYFAULT in lex.c:215   *)
(* is none of them.                                                        *)
TypeOK ==
  /\ text \in Texts
  /\ ptr \in Nat /\ pos \in Span /\ wasnull \in BOOLEAN
  /\ state \in {"VOID", "IDENT", "NUMBER", "STRING", "STRINGESC", "SYMBOL", "COMMENT"}
  /\ tbeg \in Nat /\ tlen \in Nat /\ tspan \in Span
  /\ tokens \in Seq([type : Types, at : Nat, len : Nat, span : Span])
  /\ phase \in {"IDLE", "SCAN", "OVERRUN"}

(* The value of every token lies in the text, after that of the token      *)
(* before it, and ends before the next character to be read (the borrowed  *)
(* pointers of lex.c:84-229).                                              *)
InText ==
  \A i \in DOMAIN tokens :
    /\ tokens[i].at + tokens[i].len <= Len(text)
    /\ tokens[i].at + tokens[i].len <= ptr
    /\ \A j \in 1 .. i - 1 : tokens[j].at + tokens[j].len <= tokens[i].at

(* The NUL stops the lexer everywhere but in a string and in a comment,    *)
(* and nothing is read after it otherwise (lex.c:14-17, 77).               *)
StopsAtNUL ==
  phase = "OVERRUN" \/ ptr > Len(text) => wasnull \/ state \in {"STRING", "STRINGESC", "COMMENT"}

(* Every call returns a token or runs off the text: no character is read   *)
(* again for ever (the ptr-- of lex.c:128, 150 and 201).                   *)
Returns == phase = "SCAN" ~> phase # "SCAN"
=============================================================================
