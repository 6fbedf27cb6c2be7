------------------------------- MODULE Lexicon --------------------------------
(***************************************************************************)
(* The lexemes of the language, and the tokens of a text: spaces and       *)
(* comments, the longest lexeme that begins behind them, and so on from    *)
(* its end.  A lexeme here is an offset, a length and a type; n characters *)
(* from an offset at on are t[at + 1] to t[at + n].                        *)
(***************************************************************************)
EXTENDS Lexer, FiniteSets

(* Glyphs and pairs of them, by name; some belong together but are no      *)
(* operator.                                                               *)
Ones ==
  {<<"(", "OPENPAREN">>, <<")", "CLOSEPAREN">>, <<"[", "OPENBRACK">>, <<"]", "CLOSEBRACK">>,
   <<"{", "OPENBRACE">>, <<"}", "CLOSEBRACE">>, <<",", "COMMA">>,
   <<"+", "ADD">>, <<"-", "SUB">>, <<"*", "MUL">>, <<"/", "DIV">>, <<"<", "LTH">>,
   <<">", "GTH">>, <<"!", "LOGNOT">>, <<"=", "SETEQ">>, <<":", "COLON">>,
   <<"&", "ERROR">>, <<"|", "ERROR">>}
Twos ==
  {<<"<", "=", "LEQ">>, <<">", "=", "GEQ">>, <<"=", "=", "EQU">>, <<"!", "=", "NEQ">>,
   <<"&", "&", "LOGAND">>, <<"|", "|", "LOGOR">>, <<"+", "=", "ADDEQ">>, <<"-", "=", "SUBEQ">>,
   <<"*", "=", "MULEQ">>, <<"/", "=", "DIVEQ">>, <<"=", ">", "ARROW">>, <<":", ":", "JOIN">>,
   <<"&", "=", "ERROR">>, <<"|", "=", "ERROR">>, <<":", "=", "ERROR">>}

(* In a string, a character is escaped if a backslash is before it that is *)
(* not.                                                                    *)
Escapes(t, at) ==
  LET e[n \in 0 .. Len(t) - at] == n > 0 /\ t[at + n] = "\\" /\ ~ e[n - 1] IN e

(* A quoted string: a quote, and all up to the next that is not escaped.   *)
Unescaped(t, at, n) == t[at + n] = QUOTE /\ ~ Escapes(t, at)[n - 1]
Quoted(t, at, n) ==
  /\ t[at + 1] = QUOTE /\ n > 1
  /\ Unescaped(t, at, n) /\ \A m \in 2 .. n - 1 : ~ Unescaped(t, at, m)

(* The characters are a lexeme of a type. *)
Spells(t, at, n, type) ==
  \/ n = 1 /\ <<t[at + 1], type>> \in Ones
  \/ n = 2 /\ <<t[at + 1], t[at + 2], type>> \in Twos
  \/ /\ is_ident_begin(t[at + 1]) /\ \A i \in 1 .. n : is_ident(t[at + i])
     /\ type = WordType(SubSeq(t, at + 1, at + n))
  \/ (\A i \in 1 .. n : is_num(t[at + i])) /\ type = "NUMBER"
  \/ Quoted(t, at, n) /\ type = "STRLIT"

Lengths(t, at) == {n \in 1 .. Len(t) - at : \E y \in Types : Spells(t, at, n, y)}

(* What lies between two lexemes, the first of which ends at offset a.     *)
Commented(t, a, i) == \E j \in a + 1 .. i : t[j] = "#" /\ \A k \in j .. i : t[k] # "\n"
Blank(t, a, i) == is_space(t[i]) \/ Commented(t, a, i)

Skip(t, a) ==
  LET found == {i \in a + 1 .. Len(t) : ~ Blank(t, a, i)}
  IN IF found = {} THEN Len(t) ELSE (CHOOSE i \in found : \A j \in found : i <= j) - 1

(* The first lexeme after offset a: nothing at the end, a character that   *)
(* begins none, or the longest.  A string or comment that is not closed is *)
(* OPEN.                                                                   *)
Lexeme(t, a) ==
  LET at == Skip(t, a)
      lengths == Lengths(t, at)
      longest == CHOOSE n \in lengths : \A m \in lengths : m <= n
      Is(type, n) == [type |-> type, at |-> at, len |-> n]
  IN CASE at = Len(t) -> Is(IF Commented(t, a, at) THEN "OPEN" ELSE "EOF", 0)
       [] at < Len(t) /\ lengths # {} ->
            Is(CHOOSE y \in Types : Spells(t, at, longest, y), longest)
       [] at < Len(t) /\ lengths = {} ->
            IF t[at + 1] = QUOTE THEN Is("OPEN", 0) ELSE Is("ERROR", 1)

(* Where the first n lexemes of a text end. *)
Ends(t) ==
  LET e[n \in Nat] == IF n = 0 THEN 0
                      ELSE LET x == Lexeme(t, e[n - 1]) IN x.at + x.len
  IN e

(* Row and column of the n-th character, counted in the text. *)
Place(t, n) ==
  LET lines == {i \in DOMAIN t : i <= n /\ t[i] = "\n"}
      last == CHOOSE i \in lines : \A j \in lines : j <= i
  IN [row |-> Cardinality(lines) + 1, col |-> n - IF lines = {} THEN 0 ELSE last]

(* The token of a lexeme: a string without its quotes, or only a message.  *)
AsToken(t, x) ==
  [type |-> x.type, span |-> Place(t, x.at + 1),
   at |-> IF x.type = "STRLIT" THEN x.at + 1 ELSE x.at,
   len |-> CASE x.type = "STRLIT" -> x.len - 2 [] x.type = "ERROR" -> 0 [] OTHER -> x.len]

(* The stream returns the longest lexemes of the text in order, with the   *)
(* row and column each begins at, and EOF for ever after; it runs off the  *)
(* text only from a string or a comment that is not closed                 *)
(* (lex.c:72-230).                                                         *)
LexedAsWritten ==
  LET ends == Ends(text)
  IN /\ \A i \in DOMAIN tokens : tokens[i] = AsToken(text, Lexeme(text, ends[i - 1]))
     /\ phase = "OVERRUN" => Lexeme(text, ends[Len(tokens)]).type = "OPEN"
=============================================================================
