----------------------------- MODULE LexerProofs ------------------------------
(***************************************************************************)
(* For every set of texts, of any length: the lexer's types, the place of  *)
(* the values it returns, and that the NUL stops it outside strings and    *)
(* comments.                                                               *)
(*                                                                         *)
(* A value is kept as a pointer and a length, so that it lies in the text  *)
(* has to be carried from the character that begins it: IInv says how far  *)
(* each state has read.                                                    *)
(***************************************************************************)
EXTENDS Lexer, TLAPS

Endless == {"STRING", "STRINGESC", "COMMENT"}
Worded == {"IDENT", "NUMBER", "STRING", "STRINGESC"}

(* The characters of a value that was begun are those before ptr. *)
Reached ==
  /\ state \in Worded => tbeg + tlen = ptr /\ tlen >= 1
  /\ state = "SYMBOL" => tbeg + 1 = ptr
  /\ phase = "IDLE" => state = "VOID"

(* What the NUL leaves. *)
Ended ==
  /\ ptr <= Len(text) + 1
  /\ wasnull => ptr = Len(text) + 1 /\ state = "VOID"
  /\ ptr > Len(text) /\ ~ wasnull => state \in Endless
  /\ phase = "OVERRUN" => ~ wasnull /\ ptr > Len(text)

(* The tokens end where the one being read begins. *)
Unread == IF state \in {"VOID", "COMMENT"} THEN ptr ELSE tbeg
Before == \A i \in DOMAIN tokens : tokens[i].at + tokens[i].len <= Unread

IInv == TypeOK /\ Reached /\ Ended /\ Before /\ InText

-----------------------------------------------------------------------------
(* Texts hold no NUL: the character is NUL exactly at their end. *)
LEMMA NULAtEnd ==
  ASSUME TypeOK, ptr <= Len(text)
  PROVE  /\ Len(text) \in Nat
         /\ c = NUL <=> ptr = Len(text)
  <1>1. text \in Seq(STRING) /\ \A i \in DOMAIN text : text[i] # NUL
    BY TextAssumption DEF TypeOK
  <1>2. Len(text) \in Nat /\ ptr \in Nat
    BY <1>1 DEF TypeOK
  <1>3. ptr < Len(text) => ptr + 1 \in DOMAIN text
    BY <1>1, <1>2
  <1>4. ASSUME ptr < Len(text)
        PROVE  c # NUL
    <2>1. c = text[ptr + 1]
      BY <1>4 DEF c
    <2>2. QED
      BY <2>1, <1>1, <1>3, <1>4
  <1>5. ASSUME ~ (ptr < Len(text))
        PROVE  c = NUL
    BY <1>5 DEF c
  <1>6. ptr < Len(text) \/ ptr = Len(text)
    BY <1>2
  <1>7. ptr = Len(text) => ~ (ptr < Len(text))
    BY <1>2
  <1>8. Len(text) \in Nat
    BY <1>2
  <1>9. QED
    BY <1>4, <1>5, <1>6, <1>7, <1>8, Zenon

LEMMA SpanKept ==
  ASSUME NEW from \in Span, NEW ch
  PROVE  Moved(from, ch) \in Span
  BY DEF Span, Moved

(* Every word and every glyph has a type. *)
LEMMA Typed ==
  ASSUME NEW ch, NEW first, NEW word
  PROVE  /\ WordType(word) \in Types
         /\ Single(ch) \in Types
         /\ Alone(ch) \in Types
         /\ Pair(first, ch) \in Types \cup {"NONE"}
         /\ Opens(ch) \in {"VOID", "IDENT", "NUMBER", "SYMBOL", "STRING", "COMMENT"}
  <1>1. WordType(word) \in Types
    BY DEF WordType, Types
  <1>2. Single(ch) \in Types
    BY DEF Single, Types
  <1>3. Alone(ch) \in Types
    BY DEF Alone, Types
  <1>4. WithEquals(first) \in Types
    BY DEF WithEquals, Types
  <1>5. Pair(first, ch) \in Types \cup {"NONE"}
    BY <1>4 DEF Pair, Types
  <1>6. Opens(ch) \in {"VOID", "IDENT", "NUMBER", "SYMBOL", "STRING", "COMMENT"}
    BY DEF Opens
  <1>7. QED
    BY <1>1, <1>2, <1>3, <1>5, <1>6

(* The NUL is a space, and neither ends a string nor pairs with a glyph. *)
LEMMA NULIsSpace ==
  ASSUME NEW ch
  PROVE  /\ is_space(NUL) /\ NUL # QUOTE /\ NUL # "\n"
         /\ ~ is_ident(NUL) /\ ~ is_num(NUL)
         /\ Pair(ch, NUL) = "NONE"
  <1>1. is_space(NUL) /\ NUL # QUOTE /\ NUL # "\n" /\ ~ is_num(NUL)
    BY DEF is_space, is_num, NUL, QUOTE, Digits
  <1>2. ~ is_ident(NUL)
    BY DEF is_ident, is_ident_begin, is_num, NUL, Digits, Letters
  <1>3. Pair(ch, NUL) = "NONE"
    BY DEF Pair, NUL
  <1>4. QED
    BY <1>1, <1>2, <1>3

-----------------------------------------------------------------------------
(* A call starts with nothing read, and ends with one token more. *)
Token == [type : Types, at : Nat, len : Nat, span : Span]

LEMMA Returned ==
  ASSUME IInv,
         NEW type \in Types, NEW at \in Nat, NEW len \in Nat, NEW span \in Span,
         Return(type, at, len, span),
         Unread <= at \/ (type = "EOF" /\ at = Len(text)),
         at + (IF type \in {"ERROR", "EOF"} THEN 0 ELSE len) <= Len(text),
         at + (IF type \in {"ERROR", "EOF"} THEN 0 ELSE len) <= ptr',
         ptr' \in Nat, ptr <= ptr', text' = text
  PROVE  /\ tokens' \in Seq(Token)
         /\ Before' /\ InText'
  <1> DEFINE token == [type |-> type, at |-> at, span |-> span,
                       len |-> IF type \in {"ERROR", "EOF"} THEN 0 ELSE len]
  <1>1. token \in Token
    BY DEF Token
  <1>2. tokens \in Seq(Token) /\ ptr \in Nat /\ tbeg \in Nat
    BY DEF IInv, TypeOK, Token
  <1>3. tokens' = Append(tokens, token) /\ state' = "VOID"
    BY DEF Return
  <1>4. /\ tokens' \in Seq(Token)
        /\ Len(tokens) \in Nat /\ DOMAIN tokens = 1 .. Len(tokens)
        /\ DOMAIN tokens' = 1 .. Len(tokens) + 1
        /\ tokens'[Len(tokens) + 1] = token
        /\ \A i \in DOMAIN tokens : tokens'[i] = tokens[i] /\ tokens[i] \in Token
    BY <1>1, <1>2, <1>3
  <1> DEFINE Stop(t) == t.at + t.len
  <1>5. /\ token.at = at /\ Stop(token) <= Len(text) /\ Stop(token) <= ptr'
        /\ Stop(token) \in Nat
    BY <1>1 DEF Token
  <1>6. \A i \in DOMAIN tokens : /\ Stop(tokens[i]) \in Nat
                                 /\ Stop(tokens[i]) <= Unread
                                 /\ Stop(tokens[i]) <= Len(text)
                                 /\ Stop(tokens[i]) <= ptr
    BY <1>4 DEF IInv, Before, InText, Token
  <1>7. \A i \in DOMAIN tokens : Stop(tokens[i]) <= at
    <2>1. Unread \in Nat
      BY <1>2 DEF Unread
    <2>2. QED
      BY <1>6, <2>1
  <1>8. \A i \in DOMAIN tokens' : Stop(tokens'[i]) <= ptr' /\ Stop(tokens'[i]) <= Len(text)
    <2>1. TAKE i \in DOMAIN tokens'
    <2>2. CASE i = Len(tokens) + 1
      BY <2>2, <1>4, <1>5
    <2>3. CASE i \in DOMAIN tokens
      <3>1. tokens'[i] = tokens[i] /\ Stop(tokens[i]) <= ptr /\ Stop(tokens[i]) <= Len(text)
            /\ Stop(tokens[i]) \in Nat
        BY <2>3, <1>4, <1>6
      <3>2. QED
        BY <3>1, <1>2
    <2>4. QED
      BY <2>1, <2>2, <2>3, <1>4
  <1>9. Unread' = ptr'
    BY <1>3 DEF Unread
  <1>10. \A i \in DOMAIN tokens' : \A j \in 1 .. i - 1 : Stop(tokens'[j]) <= tokens'[i].at
    <2>1. TAKE i \in DOMAIN tokens'
    <2>2. TAKE j \in 1 .. i - 1
    <2>3. i \in 1 .. Len(tokens) + 1 /\ j \in DOMAIN tokens /\ tokens'[j] = tokens[j]
      BY <2>1, <2>2, <1>4
    <2>4. CASE i = Len(tokens) + 1
      BY <2>3, <2>4, <1>4, <1>5, <1>7
    <2>5. CASE i \in DOMAIN tokens
      <3>1. tokens'[i] = tokens[i]
        BY <2>5, <1>4
      <3>2. Stop(tokens[j]) <= tokens[i].at
        BY <2>2, <2>5 DEF IInv, InText
      <3>3. QED
        BY <3>1, <3>2, <2>3
    <2>6. QED
      BY <2>3, <2>4, <2>5, <1>4
  <1>11. QED
    BY <1>4, <1>8, <1>9, <1>10 DEF Before, InText

(* A step that returns none leaves the tokens behind what is read. *)
LEMMA Kept ==
  ASSUME IInv, UNCHANGED <<text, tokens>>, ptr' \in Nat, ptr <= ptr', Unread' \in Nat,
         Unread <= Unread'
  PROVE  Before' /\ InText'
  <1>1. tokens \in Seq(Token) /\ ptr \in Nat /\ Unread \in Nat
    BY DEF IInv, TypeOK, Token, Unread
  <1>2. \A i \in DOMAIN tokens : /\ tokens[i].at + tokens[i].len \in Nat
                                 /\ tokens[i].at + tokens[i].len <= Unread
                                 /\ tokens[i].at + tokens[i].len <= ptr
    <2>1. \A i \in DOMAIN tokens : tokens[i] \in Token
      BY <1>1
    <2>2. QED
      BY <2>1 DEF IInv, Before, InText, Token
  <1>3. Before'
    BY <1>1, <1>2 DEF Before
  <1>4. InText'
    BY <1>1, <1>2 DEF InText, IInv
  <1>5. QED
    BY <1>3, <1>4

(* What every step knows of the character it reads. *)
LEMMA AtCharacter ==
  ASSUME IInv, ptr <= Len(text)
  PROVE  /\ Len(text) \in Nat /\ ptr \in Nat /\ tbeg \in Nat /\ tlen \in Nat /\ Unread \in Nat
         /\ tspan \in Span /\ p \in Span /\ pos \in Span
         /\ c # NUL => ptr + 1 <= Len(text)
         /\ c = NUL => ptr + 1 = Len(text) + 1
  <1>1. TypeOK
    BY DEF IInv
  <1>2. Len(text) \in Nat /\ (c = NUL <=> ptr = Len(text))
    BY <1>1, NULAtEnd
  <1>3. ptr \in Nat /\ tbeg \in Nat /\ tlen \in Nat /\ tspan \in Span /\ pos \in Span
    BY <1>1 DEF TypeOK
  <1>4. p \in Span
    BY <1>3, SpanKept DEF p
  <1>5. Unread \in Nat
    BY <1>3 DEF Unread
  <1>6. c # NUL => ptr # Len(text)
    BY <1>2
  <1>7. c = NUL => ptr = Len(text)
    BY <1>2
  <1>8. QED
    BY <1>2, <1>3, <1>4, <1>5, <1>6, <1>7

LEMMA SpaceKeeps ==
  ASSUME IInv, Space
  PROVE  IInv'
  <1>1. /\ Len(text) \in Nat /\ ptr \in Nat /\ tbeg \in Nat /\ tlen \in Nat /\ p \in Span
        /\ c # NUL => ptr + 1 <= Len(text)
        /\ c = NUL => ptr + 1 = Len(text) + 1
    BY AtCharacter DEF Space, Read
  <1>2. TypeOK'
    BY <1>1 DEF IInv, TypeOK, Space, Read, Advance, Continue, lexeme
  <1>3. /\ state' = "VOID" /\ phase' = "SCAN" /\ text' = text
        /\ ptr' = ptr + 1 /\ (wasnull' <=> c = NUL)
    BY DEF Space, Read, Advance, Continue
  <1>4. Reached' /\ Ended'
    <2>1. CASE c = NUL
      BY <1>1, <1>3, <2>1 DEF Reached, Worded, Ended
    <2>2. CASE c # NUL
      BY <1>1, <1>3, <2>2 DEF Reached, Worded, Ended
    <2>3. QED
      BY <2>1, <2>2
  <1>5. Before' /\ InText'
    BY <1>1, Kept DEF Unread, Space, Read, Advance, Continue
  <1>6. QED
    BY <1>2, <1>4, <1>5 DEF IInv

LEMMA BeginKeeps ==
  ASSUME IInv, Begin
  PROVE  IInv'
  <1>1. /\ Len(text) \in Nat /\ ptr \in Nat /\ tbeg \in Nat /\ tlen \in Nat /\ p \in Span
        /\ c # NUL => ptr + 1 <= Len(text)
    BY AtCharacter DEF Begin, Read
  <1>2. c # NUL /\ ptr + 1 <= Len(text)
    BY <1>1, NULIsSpace DEF Begin
  <1>3. /\ ptr' = ptr + 1 /\ pos' = p /\ UNCHANGED <<text, wasnull>>
        /\ state = "VOID" /\ phase = "SCAN" /\ ~ wasnull /\ Unread = ptr
    BY DEF Begin, Read, Advance, Unread
  <1>4. CASE Opens(c) = "VOID"
    <2>1. Return(Single(c), ptr, 1, p)
      BY <1>4 DEF Begin
    <2>2. Single(c) \in Types
      BY Typed
    <2>3. tokens' \in Seq(Token) /\ Before' /\ InText'
      BY <1>1, <1>2, <1>3, <2>1, <2>2, Returned
    <2>4. TypeOK'
      BY <1>1, <1>3, <2>1, <2>3 DEF IInv, TypeOK, Return, Token, lexeme
    <2>5. Reached' /\ Ended'
      BY <1>1, <1>2, <1>3, <2>1 DEF Reached, Worded, Ended, Return
    <2>6. QED
      BY <2>3, <2>4, <2>5 DEF IInv
  <1>5. CASE Opens(c) # "VOID"
    <2>1. Continue(Opens(c)) /\ tbeg' = ptr /\ tlen' = 1 /\ tspan' = p
      BY <1>5 DEF Begin
    <2>2. Opens(c) \in {"IDENT", "NUMBER", "SYMBOL", "STRING", "COMMENT"}
      BY <1>5, Typed
    <2>3. TypeOK'
      BY <1>1, <1>3, <2>1, <2>2 DEF IInv, TypeOK, Continue
    <2>4. Reached' /\ Ended'
      BY <1>1, <1>2, <1>3, <2>1, <2>2 DEF Reached, Ended, Continue, Worded
    <2>5. Unread' \in Nat /\ Unread <= Unread'
      BY <1>1, <1>3, <2>1 DEF Unread
    <2>6. Before' /\ InText'
      BY <1>1, <1>3, <2>1, <2>5, Kept DEF Continue
    <2>7. QED
      BY <2>3, <2>4, <2>6 DEF IInv
  <1>6. QED
    BY <1>4, <1>5

(* A word or a number, which the NUL ends like any space. *)
LEMMA RunKeeps ==
  ASSUME IInv, NEW type \in Types \ {"ERROR", "EOF"}, NEW inside \in BOOLEAN,
         Read(state), state \in {"IDENT", "NUMBER"}, Run(inside, type), inside => c # NUL
  PROVE  IInv'
  <1>1. /\ Len(text) \in Nat /\ ptr \in Nat /\ tbeg \in Nat /\ tlen \in Nat /\ p \in Span
        /\ tspan \in Span /\ pos \in Span
        /\ c # NUL => ptr + 1 <= Len(text)
        /\ c = NUL => ptr + 1 = Len(text) + 1
    BY AtCharacter DEF Read
  <1>2. /\ tbeg + tlen = ptr /\ tlen >= 1 /\ ptr <= Len(text) /\ Unread = tbeg
        /\ phase = "SCAN" /\ ~ wasnull /\ text' = text
    BY DEF IInv, Reached, Worded, Read, Unread
  <1>3. CASE inside
    <2>1. /\ ptr' = ptr + 1 /\ pos' = p /\ tlen' = tlen + 1 /\ ptr + 1 <= Len(text)
          /\ UNCHANGED <<state, tokens, phase, tbeg, tspan, wasnull>>
      BY <1>1, <1>3 DEF Run, Advance, Continue
    <2>2. TypeOK'
      BY <1>1, <1>2, <2>1 DEF IInv, TypeOK
    <2>3. Reached' /\ Ended'
      BY <1>1, <1>2, <2>1 DEF IInv, Reached, Ended
    <2>4. Unread' \in Nat /\ Unread <= Unread'
      BY <1>1, <1>2, <2>1 DEF Unread
    <2>5. Before' /\ InText'
      BY <1>1, <1>2, <2>1, <2>4, Kept
    <2>6. QED
      BY <2>2, <2>3, <2>5 DEF IInv
  <1>4. CASE ~ inside
    <2>1. Return(type, tbeg, tlen, tspan) /\ wasnull' = (c = NUL)
      BY <1>4 DEF Run
    <2>2. IF is_space(c) THEN ptr' = ptr + 1 /\ pos' = p ELSE UNCHANGED <<ptr, pos>>
      BY <1>4 DEF Run, Advance, Back
    <2>3. ptr' \in Nat /\ ptr <= ptr' /\ pos' \in Span
      BY <1>1, <2>2
    <2>4. tbeg + tlen <= Len(text) /\ tbeg + tlen <= ptr'
      BY <1>1, <1>2, <2>3
    <2>5. tokens' \in Seq(Token) /\ Before' /\ InText'
      BY <1>1, <1>2, <2>1, <2>3, <2>4, Returned
    <2>6. TypeOK'
      BY <1>1, <1>2, <2>1, <2>3, <2>5 DEF IInv, TypeOK, Return, Token, lexeme
    <2>7. c = NUL => ptr' = ptr + 1
      BY <2>2, NULIsSpace
    <2>8. Ended'
      <3>1. state' = "VOID" /\ phase' = "IDLE" /\ text' = text /\ (wasnull' <=> c = NUL)
        BY <1>2, <2>1 DEF Return
      <3>2. CASE c = NUL
        BY <1>1, <2>7, <3>1, <3>2 DEF Ended
      <3>3. CASE c # NUL
        BY <1>1, <2>2, <3>1, <3>3 DEF Ended
      <3>4. QED
        BY <3>2, <3>3
    <2>9. Reached'
      BY <2>1 DEF Reached, Return, Worded
    <2>10. QED
      BY <2>5, <2>6, <2>8, <2>9 DEF IInv
  <1>5. QED
    BY <1>3, <1>4

LEMMA IdentKeeps ==
  ASSUME IInv, Ident
  PROVE  IInv'
  <1> DEFINE type == WordType(SubSeq(text, tbeg + 1, tbeg + tlen))
  <1>1. type \in Types \ {"ERROR", "EOF"}
    BY DEF WordType, Types
  <1>2. is_ident(c) \in BOOLEAN /\ (is_ident(c) => c # NUL)
    BY NULIsSpace DEF is_ident, is_ident_begin, is_num
  <1>3. Read(state) /\ state \in {"IDENT", "NUMBER"} /\ Run(is_ident(c), type)
    BY DEF Ident, Read
  <1> HIDE DEF type
  <1>4. QED
    BY <1>1, <1>2, <1>3, RunKeeps

LEMMA NumberKeeps ==
  ASSUME IInv, Number
  PROVE  IInv'
  <1>1. "NUMBER" \in Types \ {"ERROR", "EOF"}
    BY DEF Types
  <1>2. is_num(c) \in BOOLEAN /\ (is_num(c) => c # NUL)
    <2>1. is_num(c) \in BOOLEAN
      BY DEF is_num
    <2>2. is_num(c) => c # NUL
      BY NULIsSpace
    <2>3. QED
      BY <2>1, <2>2
  <1>3. Read(state) /\ state \in {"IDENT", "NUMBER"} /\ Run(is_num(c), "NUMBER")
    BY DEF Number, Read
  <1>4. QED
    BY <1>1, <1>2, <1>3, RunKeeps

(* The length of a string's value is two less than what was read: it has a *)
(* quote before it and one after.                                          *)
LEMMA StringKeeps ==
  ASSUME IInv, String
  PROVE  IInv'
  <1>1. /\ Len(text) \in Nat /\ ptr \in Nat /\ tbeg \in Nat /\ tlen \in Nat /\ p \in Span
        /\ tspan \in Span
        /\ c # NUL => ptr + 1 <= Len(text)
        /\ c = NUL => ptr + 1 = Len(text) + 1
    BY AtCharacter DEF String, Read
  <1>2. /\ tbeg + tlen = ptr /\ tlen >= 1 /\ ptr <= Len(text) /\ Unread = tbeg
        /\ phase = "SCAN" /\ ~ wasnull /\ UNCHANGED <<text, wasnull>>
        /\ ptr' = ptr + 1 /\ pos' = p
    BY DEF IInv, Reached, Worded, String, Read, Advance, Unread
  <1>3. CASE c = QUOTE
    <2>1. Return("STRLIT", tbeg + 1, tlen + 1 - 2, tspan)
      BY <1>3 DEF String
    <2>2. ptr + 1 <= Len(text)
      BY <1>1, <1>3, NULIsSpace
    <2>3. "STRLIT" \in Types /\ "STRLIT" \notin {"ERROR", "EOF"}
      BY DEF Types
    <2>4. /\ tbeg + 1 \in Nat /\ tlen + 1 - 2 \in Nat /\ Unread <= tbeg + 1
          /\ (tbeg + 1) + (tlen + 1 - 2) = ptr /\ ptr' \in Nat /\ ptr <= ptr' /\ ptr <= Len(text)
      BY <1>1, <1>2
    <2>5. tokens' \in Seq(Token) /\ Before' /\ InText'
      BY <1>1, <1>2, <2>1, <2>3, <2>4, Returned
    <2>6. TypeOK'
      BY <1>1, <1>2, <2>1, <2>5 DEF IInv, TypeOK, Return, Token, lexeme
    <2>7. Reached' /\ Ended'
      BY <1>1, <1>2, <2>1, <2>2 DEF Reached, Ended, Worded, Return
    <2>8. QED
      BY <2>5, <2>6, <2>7 DEF IInv
  <1>4. CASE c # QUOTE
    <2>1. /\ state' \in {"STRING", "STRINGESC"} /\ UNCHANGED <<tokens, phase, tbeg, tspan>>
          /\ tlen' = tlen + 1
      BY <1>4 DEF String, Continue
    <2>2. TypeOK'
      BY <1>1, <1>2, <2>1 DEF IInv, TypeOK
    <2>3. Reached' /\ Ended'
      BY <1>1, <1>2, <2>1 DEF Reached, Ended, Worded, Endless
    <2>4. Unread' \in Nat /\ Unread <= Unread'
      BY <1>1, <1>2, <2>1 DEF Unread
    <2>5. Before' /\ InText'
      BY <1>1, <1>2, <2>1, <2>4, Kept
    <2>6. QED
      BY <2>2, <2>3, <2>5 DEF IInv
  <1>5. QED
    BY <1>3, <1>4

LEMMA StringEscKeeps ==
  ASSUME IInv, StringEsc
  PROVE  IInv'
  <1>1. /\ Len(text) \in Nat /\ ptr \in Nat /\ tbeg \in Nat /\ tlen \in Nat /\ p \in Span
    BY AtCharacter DEF StringEsc, Read
  <1>2. /\ tbeg + tlen = ptr /\ tlen >= 1 /\ ptr <= Len(text) /\ Unread = tbeg
        /\ phase = "SCAN" /\ ~ wasnull /\ UNCHANGED <<text, wasnull, tokens, phase, tbeg, tspan>>
        /\ ptr' = ptr + 1 /\ pos' = p /\ tlen' = tlen + 1 /\ state' = "STRING"
    BY DEF IInv, Reached, Worded, StringEsc, Read, Advance, Continue, Unread
  <1>3. TypeOK'
    BY <1>1, <1>2 DEF IInv, TypeOK
  <1>4. Reached' /\ Ended'
    BY <1>1, <1>2 DEF Reached, Ended, Worded, Endless
  <1>5. Unread' \in Nat /\ Unread <= Unread'
    BY <1>1, <1>2 DEF Unread
  <1>6. Before' /\ InText'
    BY <1>1, <1>2, <1>5, Kept
  <1>7. QED
    BY <1>3, <1>4, <1>6 DEF IInv

LEMMA SymbolKeeps ==
  ASSUME IInv, Symbol
  PROVE  IInv'
  <1> DEFINE pair == Pair(text[tbeg + 1], c)
             alone == Alone(text[tbeg + 1])
  <1>1. /\ Len(text) \in Nat /\ ptr \in Nat /\ tbeg \in Nat /\ tlen \in Nat /\ p \in Span
        /\ tspan \in Span /\ pos \in Span
        /\ c # NUL => ptr + 1 <= Len(text)
    BY AtCharacter DEF Symbol, Read
  <1>2. /\ tbeg + 1 = ptr /\ ptr <= Len(text) /\ Unread = tbeg
        /\ phase = "SCAN" /\ ~ wasnull /\ UNCHANGED <<text, wasnull>>
    BY DEF IInv, Reached, Symbol, Read, Unread
  <1>3. pair \in Types \cup {"NONE"} /\ alone \in Types /\ (pair # "NONE" => c # NUL)
    BY Typed, NULIsSpace
  <1>4. IF pair # "NONE" THEN ptr' = ptr + 1 /\ pos' = p /\ Return(pair, tbeg, 2, tspan)
        ELSE UNCHANGED <<ptr, pos>> /\ Return(alone, tbeg, 1, tspan)
    BY DEF Symbol, Advance, Back
  <1> HIDE DEF pair, alone
  <1>5. PICK type \in Types, len \in {1, 2} :
          /\ Return(type, tbeg, len, tspan)
          /\ ptr' = ptr + (len - 1) /\ pos' \in Span /\ ptr + (len - 1) <= Len(text)
    <2>1. CASE pair # "NONE"
      <3>1. ptr' = ptr + (2 - 1) /\ pos' \in Span /\ ptr + (2 - 1) <= Len(text)
        BY <1>1, <1>3, <1>4, <2>1
      <3>2. pair \in Types /\ Return(pair, tbeg, 2, tspan)
        BY <1>3, <1>4, <2>1
      <3>3. QED
        BY <3>1, <3>2
    <2>2. CASE pair = "NONE"
      <3>1. ptr' = ptr + (1 - 1) /\ pos' \in Span /\ ptr + (1 - 1) <= Len(text)
        BY <1>1, <1>2, <1>4, <2>2
      <3>2. alone \in Types /\ Return(alone, tbeg, 1, tspan)
        BY <1>3, <1>4, <2>2
      <3>3. QED
        BY <3>1, <3>2
    <2>3. QED
      BY <2>1, <2>2
  <1>6. /\ len \in Nat /\ tbeg + len <= Len(text) /\ tbeg + len <= ptr'
        /\ tbeg + 0 <= Len(text) /\ tbeg + 0 <= ptr' /\ ptr' \in Nat /\ ptr <= ptr'
    BY <1>1, <1>2, <1>5
  <1>7. tokens' \in Seq(Token) /\ Before' /\ InText'
    BY <1>1, <1>2, <1>5, <1>6, Returned
  <1>8. TypeOK'
    BY <1>1, <1>2, <1>5, <1>6, <1>7 DEF IInv, TypeOK, Return, Token, lexeme
  <1>9. Reached' /\ Ended'
    BY <1>1, <1>2, <1>5, <1>6 DEF Reached, Ended, Worded, Return
  <1>10. QED
    BY <1>7, <1>8, <1>9 DEF IInv

LEMMA CommentKeeps ==
  ASSUME IInv, Comment
  PROVE  IInv'
  <1>1. /\ Len(text) \in Nat /\ ptr \in Nat /\ p \in Span
        /\ c # NUL => ptr + 1 <= Len(text)
        /\ c = NUL => ptr + 1 = Len(text) + 1
    BY AtCharacter DEF Comment, Read
  <1>2. /\ ptr <= Len(text) /\ Unread = ptr /\ phase = "SCAN" /\ ~ wasnull
        /\ UNCHANGED <<text, wasnull, tokens, phase, tbeg, tlen, tspan>>
        /\ ptr' = ptr + 1 /\ pos' = p /\ state' = IF c = "\n" THEN "VOID" ELSE "COMMENT"
    BY DEF Comment, Read, Advance, Continue, Unread, lexeme
  <1>3. TypeOK'
    BY <1>1, <1>2 DEF IInv, TypeOK
  <1>4. c = "\n" => ptr + 1 <= Len(text)
    BY <1>1, NULIsSpace
  <1>5. Reached' /\ Ended'
    BY <1>1, <1>2, <1>4 DEF Reached, Ended, Worded, Endless
  <1>6. Unread' \in Nat /\ Unread <= Unread'
    <2>1. state' \in {"VOID", "COMMENT"}
      BY <1>2
    <2>2. Unread' = ptr + 1
      BY <1>2, <2>1 DEF Unread
    <2>3. QED
      BY <1>1, <1>2, <2>2
  <1>7. Before' /\ InText'
    BY <1>1, <1>2, <1>6, Kept
  <1>8. QED
    BY <1>3, <1>5, <1>7 DEF IInv

(* The end of the text is where an EOF is, however often it is returned. *)
LEMMA EndKeeps ==
  ASSUME IInv, End
  PROVE  IInv'
  <1>1. /\ Len(text) \in Nat /\ ptr \in Nat /\ pos \in Span /\ ptr - 1 = Len(text)
        /\ phase = "SCAN" /\ wasnull /\ UNCHANGED <<text, ptr, pos, wasnull>>
        /\ Return("EOF", ptr - 1, 0, pos)
    <2>1. text \in Seq(STRING)
      BY TextAssumption DEF IInv, TypeOK
    <2>2. QED
      BY <2>1 DEF IInv, TypeOK, Ended, End
  <1>2. "EOF" \in Types
    BY DEF Types
  <1>3. tokens' \in Seq(Token) /\ Before' /\ InText'
    BY <1>1, <1>2, Returned
  <1>4. TypeOK'
    BY <1>1, <1>3 DEF IInv, TypeOK, Return, Token, lexeme
  <1>5. Reached' /\ Ended'
    BY <1>1 DEF IInv, Reached, Ended, Worded, Return
  <1>6. QED
    BY <1>3, <1>4, <1>5 DEF IInv

LEMMA OverrunKeeps ==
  ASSUME IInv, Overrun
  PROVE  IInv'
  <1>1. UNCHANGED <<text, ptr, pos, wasnull, state, tbeg, tlen, tspan, tokens>>
        /\ phase' = "OVERRUN" /\ ~ wasnull /\ ptr > Len(text)
    BY DEF Overrun, stream, lexeme
  <1>2. QED
    BY <1>1 DEF IInv, TypeOK, Reached, Ended, Before, Unread, InText

LEMMA CallKeeps ==
  ASSUME IInv, Call
  PROVE  IInv'
  <1>1. /\ UNCHANGED <<text, ptr, pos, wasnull, state, tokens>>
        /\ phase = "IDLE" /\ phase' = "SCAN" /\ tbeg' = 0 /\ tlen' = 0 /\ tspan' = pos
    BY DEF Call, stream
  <1>2. state = "VOID"
    BY <1>1 DEF IInv, Reached
  <1>3. QED
    BY <1>1, <1>2 DEF IInv, TypeOK, Reached, Worded, Ended, Before, Unread, InText

-----------------------------------------------------------------------------
LEMMA Begins ==
  ASSUME Init
  PROVE  IInv
  <1>1. text \in Seq(STRING) /\ tokens = <<>>
    BY TextAssumption DEF Init
  <1>2. [row |-> 1, col |-> 0] \in Span
    BY DEF Span
  <1>3. TypeOK
    <2>1. tokens \in Seq(Token)
      BY <1>1
    <2>2. text \in Texts /\ pos \in Span /\ tspan \in Span
      BY <1>2 DEF Init
    <2>3. QED
      BY <2>1, <2>2 DEF Init, TypeOK, Token
  <1>4. Reached /\ Ended
    BY <1>1 DEF Init, Reached, Worded, Ended
  <1>5. Before /\ InText
    BY <1>1 DEF Before, InText
  <1>6. QED
    BY <1>3, <1>4, <1>5 DEF IInv

LEMMA Inductive ==
  ASSUME IInv, [Next]_vars
  PROVE  IInv'
  <1>1. CASE Next
    BY <1>1, SpaceKeeps, BeginKeeps, IdentKeeps, NumberKeeps, StringKeeps, StringEscKeeps,
       SymbolKeeps, CommentKeeps, EndKeeps, OverrunKeeps, CallKeeps DEF Next, Scan
  <1>2. CASE UNCHANGED vars
    BY <1>2 DEF vars, stream, lexeme, IInv, TypeOK, Reached, Ended, Before, Unread, InText
  <1>3. QED
    BY <1>1, <1>2

(* What each character leaves behind holds whatever the text is: the       *)
(* lexer's state after every step of lex.c:72-230.                         *)
THEOREM Invariance == Spec => []IInv
  <1>1. Init => IInv
    BY Begins
  <1>2. IInv /\ [Next]_vars => IInv'
    BY Inductive
  <1>3. QED
    BY <1>1, <1>2, PTL DEF Spec

(* The length of a string's value does not wrap below zero (lex.c:161) and *)
(* the MYFAULT of lex.c:215 is never returned.                             *)
THEOREM TypeCorrect == Spec => []TypeOK
  <1>1. IInv => TypeOK
    BY DEF IInv
  <1>2. QED
    BY <1>1, Invariance, PTL

(* The values the lexer points to lie in the text, one behind the other    *)
(* (lex.c:84-229).                                                         *)
THEOREM ValuesInText == Spec => []InText
  <1>1. IInv => InText
    BY DEF IInv
  <1>2. QED
    BY <1>1, Invariance, PTL

(* Nothing is read behind the NUL but from a string or a comment that is   *)
(* not closed (lex.c:14-17, 77).                                           *)
THEOREM StopsAtTheNUL == Spec => []StopsAtNUL
  <1>1. IInv => StopsAtNUL
    BY DEF IInv, Ended, StopsAtNUL, Endless
  <1>2. QED
    BY <1>1, Invariance, PTL
-----------------------------------------------------------------------------
(* What is left to a call: the characters, the NUL, and to leave the loop. *)
Left == IF phase = "SCAN" THEN Len(text) + 2 - ptr ELSE 0

(* Each step of a call reads a character it will not read again, or is the *)
(* call's last.                                                            *)
LEMMA StepReads ==
  ASSUME IInv, Scan
  PROVE  /\ phase = "SCAN" /\ text' = text
         /\ ptr' = ptr + 1 \/ phase' # "SCAN"
  <1>1. CASE Space
    BY <1>1 DEF Space, Read, Advance
  <1>2. CASE Begin
    BY <1>2 DEF Begin, Read, Advance
  <1>3. ASSUME NEW inside, NEW type, Run(inside, type)
        PROVE  ptr' = ptr + 1 \/ phase' # "SCAN"
    BY <1>3 DEF Run, Advance, Return
  <1>4. CASE Ident
    BY <1>3, <1>4 DEF Ident, Read
  <1>5. CASE Number
    BY <1>3, <1>5 DEF Number, Read
  <1>6. CASE String
    BY <1>6 DEF String, Read, Advance
  <1>7. CASE StringEsc
    BY <1>7 DEF StringEsc, Read, Advance
  <1>8. CASE Symbol
    BY <1>8 DEF Symbol, Read, Advance, Return
  <1>9. CASE Comment
    BY <1>9 DEF Comment, Read, Advance
  <1>10. CASE End
    BY <1>10 DEF End, Return
  <1>11. CASE Overrun
    BY <1>11 DEF Overrun, stream
  <1>12. QED
    BY <1>1, <1>2, <1>4, <1>5, <1>6, <1>7, <1>8, <1>9, <1>10, <1>11 DEF Scan

LEMMA LeftShrinks ==
  ASSUME IInv, Scan
  PROVE  Left \in Nat /\ Left' \in Nat /\ Left' < Left
  <1>1. text \in Seq(STRING)
    BY TextAssumption DEF IInv, TypeOK
  <1>2. Len(text) \in Nat /\ ptr \in Nat /\ ptr <= Len(text) + 1
    BY <1>1 DEF IInv, TypeOK, Ended
  <1>3. /\ phase = "SCAN" /\ text' = text
        /\ ptr' = ptr + 1 \/ phase' # "SCAN"
    BY StepReads
  <1>4. IInv'
    BY Inductive DEF Next
  <1>5. ptr' \in Nat /\ ptr' <= Len(text) + 1
    BY <1>3, <1>4 DEF IInv, TypeOK, Ended
  <1>6. Left = Len(text) + 2 - ptr
    BY <1>3 DEF Left
  <1>7. Left' = IF phase' = "SCAN" THEN Len(text) + 2 - ptr' ELSE 0
    BY <1>3 DEF Left
  <1>8. QED
    BY <1>2, <1>3, <1>5, <1>6, <1>7

(* A call takes no more steps than there are characters left, and two: the *)
(* ptr-- of lex.c:128, 150 and 201 reads none a second time in the call.   *)
(* That it takes them is Returns.                                          *)
THEOREM Advances == Spec => [][Scan => Left' \in Nat /\ Left' < Left]_vars
  <1>1. IInv => (Scan => Left' \in Nat /\ Left' < Left)
    BY LeftShrinks
  <1>2. QED
    BY <1>1, Invariance, PTL
=============================================================================
