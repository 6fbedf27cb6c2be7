----------------------------- MODULE LexiconProofs -----------------------------
(***************************************************************************)
(* For every set of texts, of any length: the lexer, which looks at one    *)
(* character at a time and gives back at most one, returns exactly the     *)
(* longest lexemes of the text.                                            *)
(*                                                                         *)
(* The lemmas come first: what the recursive definitions of Lexicon are    *)
(* (by induction, Induction.tla), which characters can follow each first   *)
(* character of a lexeme, and hence which lexeme is the longest there.     *)
(***************************************************************************)
EXTENDS LexerProofs, Lexicon, Induction, FiniteSetTheorems

(* What is read of the text, and where what was returned of it ends. *)
Seen == IF ptr <= Len(text) THEN ptr ELSE Len(text)
Done == Ends(text)[Len(tokens)]

Blanks == \A i \in Done + 1 .. Seen : Blank(text, Done, i)
InLexeme == {"IDENT", "NUMBER", "STRING", "STRINGESC", "SYMBOL"}

(* The lexeme being read begins at tbeg, behind what is blank. *)
Begun ==
  /\ Done <= tbeg /\ tbeg < Len(text) /\ Skip(text, Done) = tbeg
  /\ tspan = Place(text, tbeg + 1)

(* What each state has seen of the lexeme. *)
InWord ==
  /\ is_ident_begin(text[tbeg + 1]) /\ \A i \in 1 .. tlen : is_ident(text[tbeg + i])
InNumber == \A i \in 1 .. tlen : is_num(text[tbeg + i])
InString ==
  /\ text[tbeg + 1] = QUOTE /\ \A m \in 2 .. Seen - tbeg : ~ Unescaped(text, tbeg, m)
  /\ ptr <= Len(text) => (Escapes(text, tbeg)[ptr - tbeg] <=> state = "STRINGESC")

(* The invariant: what is before ptr has been read as it is written. *)
Following ==
  /\ pos = Place(text, ptr)
  /\ state = "VOID" => Done <= ptr /\ Blanks /\ ~ Commented(text, Done, Seen)
  /\ state = "COMMENT" => Done < ptr /\ Blanks /\ Commented(text, Done, Seen)
  /\ state \in InLexeme => Begun
  /\ state = "IDENT" => InWord
  /\ state = "NUMBER" => InNumber
  /\ state \in {"STRING", "STRINGESC"} => InString
  /\ state = "SYMBOL" => text[tbeg + 1] \in Glyphs

Written ==
  \A i \in DOMAIN tokens : tokens[i] = AsToken(text, Lexeme(text, Ends(text)[i - 1]))

WInv == IInv /\ Following /\ Written

-----------------------------------------------------------------------------
(* What the definitions of Lexicon are.                                    *)

(* Whether a character is escaped depends on the one before it.            *)
LEMMA EscapesValue ==
  ASSUME NEW t, Len(t) \in Nat, NEW at \in 0 .. Len(t)
  PROVE  /\ Escapes(t, at)[0] = FALSE
         /\ \A n \in 1 .. Len(t) - at :
              Escapes(t, at)[n] = (t[at + n] = "\\" /\ ~ Escapes(t, at)[n - 1])
<1> DEFINE m == Len(t) - at
           Is(e) == e = [n \in 0 .. m |-> n > 0 /\ t[at + n] = "\\" /\ ~ e[n - 1]]
           step == [x \in (1 .. m) \X BOOLEAN |-> t[at + x[1]] = "\\" /\ ~ x[2]]
<1>1. m \in Nat
  OBVIOUS
<1>2. step \in Steps(m, BOOLEAN)
  BY DEF Steps
<1>3. PICK e : Solves(e, m, BOOLEAN, FALSE, step)
  <2> HIDE DEF step, m
  <2> QED
    BY <1>1, <1>2, RecursionExists
<1>4. ASSUME NEW n \in 1 .. m PROVE e[n] = (t[at + n] = "\\" /\ ~ e[n - 1])
  <2>1. e[n - 1] \in BOOLEAN
    BY <1>1, <1>3 DEF Solves
  <2>2. step[<<n, e[n - 1]>>] = (t[at + n] = "\\" /\ ~ e[n - 1])
    BY <1>1, <2>1
  <2> QED
    BY <1>3, <2>2 DEF Solves
<1>5. Is(e)
  <2>1. e = [n \in 0 .. m |-> e[n]]
    BY <1>3 DEF Solves
  <2>2. \A n \in 0 .. m : e[n] = (n > 0 /\ t[at + n] = "\\" /\ ~ e[n - 1])
    <3> SUFFICES ASSUME NEW n \in 0 .. m
                 PROVE  e[n] = (n > 0 /\ t[at + n] = "\\" /\ ~ e[n - 1])
      OBVIOUS
    <3>1. CASE n = 0
      BY <1>3, <3>1 DEF Solves
    <3>2. CASE n \in 1 .. m
      BY <1>4, <3>2
    <3> QED
      BY <1>1, <3>1, <3>2
  <2> QED
    BY <2>1, <2>2
<1>6. Escapes(t, at) = CHOOSE e1 : Is(e1)
  BY DEF Escapes
<1>7. Is(Escapes(t, at))
  <2> HIDE DEF Is
  <2> QED
    BY <1>5, <1>6
<1> DEFINE E == Escapes(t, at)
<1> HIDE DEF E
<1>8. E = [n \in 0 .. m |-> n > 0 /\ t[at + n] = "\\" /\ ~ E[n - 1]]
  BY <1>7 DEF E
<1>9. \A n \in 0 .. m : E[n] = (n > 0 /\ t[at + n] = "\\" /\ ~ E[n - 1])
  BY <1>8
<1>10. E[0] = FALSE
  <2>1. 0 \in 0 .. m /\ ~ (0 > 0)
    BY <1>1
  <2>2. E[0] = (0 > 0 /\ t[at + 0] = "\\" /\ ~ E[0 - 1])
    BY <1>9, <2>1, Zenon
  <2> QED
    BY <2>1, <2>2, Zenon
<1>11. \A n \in 1 .. m : E[n] = (t[at + n] = "\\" /\ ~ E[n - 1])
  BY <1>1, <1>9
<1> QED
  BY <1>10, <1>11 DEF E

LEMMA EscapesNext ==
  ASSUME NEW t, Len(t) \in Nat, NEW at \in 0 .. Len(t), NEW n \in 1 .. Len(t) - at
  PROVE  Escapes(t, at)[n] <=> t[at + n] = "\\" /\ ~ Escapes(t, at)[n - 1]
<1>1. \A i \in 1 .. Len(t) - at :
        Escapes(t, at)[i] = (t[at + i] = "\\" /\ ~ Escapes(t, at)[i - 1])
  BY EscapesValue
<1> QED
  BY <1>1

(* The greatest of a set, and the least, once they are known.              *)
LEMMA Greatest ==
  ASSUME NEW S, S \subseteq Nat, NEW n \in S, \A k \in S : k <= n
  PROVE  (CHOOSE i \in S : \A j \in S : j <= i) = n
<1>1. \A i \in S : (\A j \in S : j <= i) => i = n
  OBVIOUS
<1> QED
  BY <1>1

LEMMA Least ==
  ASSUME NEW S, S \subseteq Nat, NEW n \in S, \A k \in S : n <= k
  PROVE  (CHOOSE i \in S : \A j \in S : i <= j) = n
<1>1. \A i \in S : (\A j \in S : i <= j) => i = n
  OBVIOUS
<1> QED
  BY <1>1

(* A lexeme begins at the first character that is not blank.               *)
LEMMA SkipsTo ==
  ASSUME NEW t, Len(t) \in Nat, NEW a \in 0 .. Len(t), NEW at \in a .. Len(t),
         \A i \in a + 1 .. at : Blank(t, a, i),
         at < Len(t) => ~ Blank(t, a, at + 1)
  PROVE  Skip(t, a) = at
<1> DEFINE found == {i \in a + 1 .. Len(t) : ~ Blank(t, a, i)}
<1>1. CASE at = Len(t)
  <2>1. found = {}
    BY <1>1
  <2> QED
    BY <1>1, <2>1 DEF Skip
<1>2. CASE at < Len(t)
  <2>1. at + 1 \in found /\ found \subseteq Nat
    BY <1>2
  <2>2. \A k \in found : at + 1 <= k
    <3> SUFFICES ASSUME NEW k \in a + 1 .. Len(t), k <= at PROVE Blank(t, a, k)
      OBVIOUS
    <3> QED
      OBVIOUS
  <2>3. Skip(t, a) = (CHOOSE i \in found : \A j \in found : i <= j) - 1
    BY <2>1 DEF Skip
  <2> HIDE DEF found
  <2>4. Skip(t, a) = (at + 1) - 1
    BY <2>1, <2>2, <2>3, Least
  <2> QED
    BY <2>4
<1> QED
  BY <1>1, <1>2

LEMMA SkipInside ==
  ASSUME NEW t, Len(t) \in Nat, NEW a \in 0 .. Len(t)
  PROVE  Skip(t, a) \in a .. Len(t)
<1> DEFINE found == {i \in a + 1 .. Len(t) : ~ Blank(t, a, i)}
<1>1. CASE found = {}
  BY <1>1 DEF Skip
<1>2. CASE found # {}
  <2>1. found \subseteq Nat /\ \A i \in found : i \in a + 1 .. Len(t)
    OBVIOUS
  <2>2. Skip(t, a) = (CHOOSE i \in found : \A j \in found : i <= j) - 1
    BY <1>2 DEF Skip
  <2> HIDE DEF found
  <2>3. PICK n \in found : \A k \in found : n <= k
    BY <1>2, <2>1, LeastExists
  <2>4. Skip(t, a) = n - 1
    BY <2>1, <2>2, <2>3, Least
  <2> QED
    BY <2>1, <2>4
<1> QED
  BY <1>1, <1>2

(* A lexeme lies in the text, behind the one before it.                    *)
LEMMA LexemeInside ==
  ASSUME NEW t, Len(t) \in Nat, NEW a \in 0 .. Len(t)
  PROVE  /\ Lexeme(t, a).at + Lexeme(t, a).len \in 0 .. Len(t)
<1> DEFINE at == Skip(t, a)
           lengths == Lengths(t, at)
           longest == CHOOSE n \in lengths : \A m \in lengths : m <= n
<1>1. at \in 0 .. Len(t)
  BY SkipInside
<1> HIDE DEF at
<1>2. lengths \subseteq 1 .. Len(t) - at
  BY DEF Lengths
<1> HIDE DEF lengths
<1>3. CASE at = Len(t)
  <2>1. ~ (at < Len(t))
    BY <1>3
  <2>2. Lexeme(t, a).at = at /\ Lexeme(t, a).len = 0
    BY <1>3, <2>1 DEF Lexeme, at
  <2> QED
    BY <1>1, <2>2
<1>4. CASE at < Len(t) /\ lengths # {}
  <2>1. at # Len(t)
    BY <1>1, <1>4
  <2>2. Lexeme(t, a).at = at /\ Lexeme(t, a).len = longest
    BY <1>4, <2>1 DEF Lexeme, at, lengths
  <2>3. lengths \subseteq Nat /\ Len(t) - at \in Nat /\ \A k \in lengths : k <= Len(t) - at
    BY <1>1, <1>2
  <2>4. PICK n \in lengths : \A k \in lengths : k <= n
    BY <1>4, <2>3, GreatestExists
  <2>5. longest = n
    BY <2>3, <2>4, Greatest
  <2> HIDE DEF longest
  <2>6. n \in 1 .. Len(t) - at
    BY <1>2
  <2> QED
    BY <1>1, <2>2, <2>5, <2>6
<1>5. CASE at < Len(t) /\ lengths = {}
  <2>1. at # Len(t)
    BY <1>1, <1>5
  <2>2. Lexeme(t, a).at = at /\ Lexeme(t, a).len \in {0, 1}
    BY <1>5, <2>1 DEF Lexeme, at, lengths
  <2> QED
    BY <1>1, <1>5, <2>2
<1> QED
  BY <1>1, <1>3, <1>4, <1>5

(* Each lexeme is looked for where the one before it ends.                 *)
LEMMA EndsValue ==
  ASSUME NEW t, Len(t) \in Nat
  PROVE  /\ Ends(t)[0] = 0
         /\ \A n \in Nat : /\ Ends(t)[n] \in 0 .. Len(t)
                           /\ LET x == Lexeme(t, Ends(t)[n]) IN Ends(t)[n + 1] = x.at + x.len
<1> DEFINE T == 0 .. Len(t)
           end(a) == LET x == Lexeme(t, a) IN x.at + x.len
           Is(e) == e = [n \in Nat |-> IF n = 0 THEN 0 ELSE end(e[n - 1])]
           step == [x \in (Nat \ {0}) \X T |-> end(x[2])]
<1>1. \A a \in T : end(a) \in T
  BY LexemeInside
<1>2. Ends(t) = CHOOSE e : Is(e)
  BY DEF Ends
<1> HIDE DEF end
<1>3. step \in [(Nat \ {0}) \X T -> T]
  BY <1>1
<1>4. 0 \in T
  OBVIOUS
<1>5. PICK e : SolvesAll(e, T, 0, step)
  <2> HIDE DEF step, T
  <2> QED
    BY <1>3, <1>4, NatRecursionExists
<1>6. e \in [Nat -> T] /\ e[0] = 0
  BY <1>5 DEF SolvesAll
<1>7. ASSUME NEW n \in Nat \ {0} PROVE e[n] = end(e[n - 1])
  <2>1. e[n - 1] \in T
    BY <1>6
  <2>2. step[<<n, e[n - 1]>>] = end(e[n - 1])
    BY <2>1
  <2> QED
    BY <1>5, <2>2 DEF SolvesAll
<1>8. Is(e)
  <2>1. e = [n \in Nat |-> e[n]]
    BY <1>6
  <2>2. \A n \in Nat : e[n] = IF n = 0 THEN 0 ELSE end(e[n - 1])
    BY <1>6, <1>7
  <2> QED
    BY <2>1, <2>2
<1>9. Is(Ends(t))
  <2> HIDE DEF Is
  <2> QED
    BY <1>2, <1>8
<1> DEFINE E == Ends(t)
<1> HIDE DEF E
<1>10. \A n \in Nat : E[n] = IF n = 0 THEN 0 ELSE end(E[n - 1])
  <2>1. E = [n \in Nat |-> IF n = 0 THEN 0 ELSE end(E[n - 1])]
    BY <1>9 DEF E
  <2> QED
    BY <2>1
<1>11. E[0] = 0 /\ \A n \in Nat : E[n + 1] = end(E[n])
  BY <1>10
<1> DEFINE Inside == {n \in Nat : E[n] \in T}
<1>12. Nat \subseteq Inside
  <2>1. 0 \in Inside
    BY <1>4, <1>11
  <2>2. ASSUME NEW n \in Nat, n \in Inside PROVE n + 1 \in Inside
    <3>1. E[n] \in T /\ E[n + 1] = end(E[n])
      BY <1>11, <2>2
    <3>2. end(E[n]) \in T
      BY <1>1, <3>1
    <3> QED
      BY <3>1, <3>2
  <2> HIDE DEF Inside
  <2> QED
    BY <2>1, <2>2, NatSetInduction
<1> QED
  BY <1>11, <1>12 DEF E, end

-----------------------------------------------------------------------------
(* Which lexeme there is, by its first character.                          *)

LexemeIs(t, a, type, at, n) == Lexeme(t, a) = [type |-> type, at |-> at, len |-> n]

LEMMA LexemeEnd ==
  ASSUME NEW t, Len(t) \in Nat, NEW a, Skip(t, a) = Len(t)
  PROVE  LexemeIs(t, a, IF Commented(t, a, Len(t)) THEN "OPEN" ELSE "EOF", Len(t), 0)
<1>1. ~ (Len(t) < Len(t))
  OBVIOUS
<1> QED
  BY <1>1 DEF LexemeIs, Lexeme

LEMMA LexemeLongest ==
  ASSUME NEW t, Len(t) \in Nat, NEW a, NEW at \in 0 .. Len(t), Skip(t, a) = at,
         NEW n \in 1 .. Len(t) - at, NEW type \in Types, Spells(t, at, n, type),
         \A y \in Types : Spells(t, at, n, y) => y = type,
         \A k \in n + 1 .. Len(t) - at, y \in Types : ~ Spells(t, at, k, y)
  PROVE  LexemeIs(t, a, type, at, n)
<1> DEFINE lengths == Lengths(t, at)
<1>1. n \in lengths /\ lengths \subseteq 1 .. Len(t) - at
  BY DEF Lengths
<1>2. \A k \in lengths : k <= n
  BY DEF Lengths
<1>3. at < Len(t) /\ at # Len(t) /\ lengths # {} /\ lengths \subseteq Nat
  BY <1>1
<1> HIDE DEF lengths
<1>4. (CHOOSE i \in lengths : \A j \in lengths : j <= i) = n
  BY <1>1, <1>2, <1>3, Greatest
<1>5. (CHOOSE y \in Types : Spells(t, at, n, y)) = type
  OBVIOUS
<1>6. Lexeme(t, a) =
        LET longest == CHOOSE i \in lengths : \A j \in lengths : j <= i
        IN [type |-> CHOOSE y \in Types : Spells(t, at, longest, y), at |-> at, len |-> longest]
  BY <1>3 DEF Lexeme, lengths
<1> QED
  BY <1>4, <1>5, <1>6 DEF LexemeIs

LEMMA LexemeNone ==
  ASSUME NEW t, Len(t) \in Nat, NEW a, NEW at \in 0 .. Len(t) - 1, Skip(t, a) = at,
         \A k \in 1 .. Len(t) - at, y \in Types : ~ Spells(t, at, k, y)
  PROVE  IF t[at + 1] = QUOTE THEN LexemeIs(t, a, "OPEN", at, 0)
         ELSE LexemeIs(t, a, "ERROR", at, 1)
<1>1. Lengths(t, at) = {} /\ at < Len(t) /\ at # Len(t)
  BY DEF Lengths
<1> QED
  BY <1>1 DEF Lexeme, LexemeIs

(* The tables of Lexicon say what the switches of lex.c say.               *)
Brackets == {"(", ")", "[", "]", "{", "}", ","}

LEMMA OnesAre ==
  ASSUME NEW ch, NEW y
  PROVE  <<ch, y>> \in Ones <=>
           (ch \in Glyphs /\ y = Alone(ch)) \/ (ch \in Brackets /\ y = Single(ch))
BY DEF Ones, Glyphs, Alone, Brackets, Single

LEMMA TwosAre ==
  ASSUME NEW g, NEW ch, NEW y
  PROVE  <<g, ch, y>> \in Twos <=> g \in Glyphs /\ y = Pair(g, ch) /\ y # "NONE"
BY DEF Twos, Glyphs, Pair, WithEquals

LEMMA SingleIs ==
  ASSUME NEW ch
  PROVE  ch \in Brackets <=> Single(ch) # "ERROR"
BY DEF Brackets, Single

(* The kinds of first characters exclude each other.                       *)
LEMMA KindsDiffer ==
  ASSUME NEW ch
  PROVE  /\ is_ident_begin(ch) => ~ is_num(ch) /\ ch # QUOTE /\ ch \notin Glyphs \cup Brackets
         /\ is_num(ch) => ~ is_ident_begin(ch) /\ ch # QUOTE /\ ch \notin Glyphs \cup Brackets
         /\ ch \in Glyphs \cup Brackets =>
              ~ is_ident_begin(ch) /\ ~ is_num(ch) /\ ch # QUOTE
         /\ ch \in Glyphs => ch \notin Brackets
         /\ ~ is_ident_begin(QUOTE) /\ ~ is_num(QUOTE) /\ QUOTE \notin Glyphs \cup Brackets
<1>1. ~ is_ident_begin(QUOTE) /\ ~ is_num(QUOTE) /\ QUOTE \notin Glyphs \cup Brackets
  BY DEF QUOTE, is_ident_begin, is_num, Letters, Digits, Glyphs, Brackets
<1>2. ASSUME ch \in Glyphs \cup Brackets PROVE ~ is_ident_begin(ch) /\ ~ is_num(ch)
  <2>1. ~ is_num(ch)
    BY <1>2 DEF is_num, Digits, Glyphs, Brackets
  <2>2. ~ is_ident_begin(ch)
    BY <1>2 DEF is_ident_begin, Letters, Glyphs, Brackets
  <2> QED
    BY <2>1, <2>2
<1>3. ASSUME is_num(ch) PROVE ~ is_ident_begin(ch)
  BY <1>3 DEF is_ident_begin, is_num, Letters, Digits
<1>4. ch \in Glyphs => ch \notin Brackets
  BY DEF Glyphs, Brackets
<1> QED
  BY <1>1, <1>2, <1>3, <1>4, Zenon

(* What characters from at on spell, by the kind of the first.             *)
LEMMA SpellsWord ==
  ASSUME NEW t, NEW at, NEW n \in Nat \ {0}, NEW y, is_ident_begin(t[at + 1])
  PROVE  Spells(t, at, n, y) <=> /\ \A i \in 1 .. n : is_ident(t[at + i])
                                 /\ y = WordType(SubSeq(t, at + 1, at + n))
<1>1. <<t[at + 1], y>> \notin Ones /\ <<t[at + 1], t[at + 2], y>> \notin Twos
  BY KindsDiffer, OnesAre, TwosAre
<1>2. ~ (\A i \in 1 .. n : is_num(t[at + i])) /\ ~ Quoted(t, at, n)
  <2>1. 1 \in 1 .. n /\ ~ is_num(t[at + 1]) /\ t[at + 1] # QUOTE
    BY KindsDiffer
  <2> QED
    BY <2>1 DEF Quoted
<1> QED
  BY <1>1, <1>2 DEF Spells

AllNum(t, at, n) == \A i \in 1 .. n : is_num(t[at + i])

LEMMA SpellsNumber ==
  ASSUME NEW t, NEW at, NEW n \in Nat \ {0}, NEW y, is_num(t[at + 1])
  PROVE  Spells(t, at, n, y) <=> AllNum(t, at, n) /\ y = "NUMBER"
<1>1. <<t[at + 1], y>> \notin Ones /\ <<t[at + 1], t[at + 2], y>> \notin Twos
  BY KindsDiffer, OnesAre, TwosAre
<1>2. ~ is_ident_begin(t[at + 1]) /\ ~ Quoted(t, at, n)
  BY KindsDiffer DEF Quoted
<1> QED
  BY <1>1, <1>2 DEF Spells, AllNum

LEMMA SpellsString ==
  ASSUME NEW t, NEW at, NEW n \in Nat \ {0}, NEW y, t[at + 1] = QUOTE
  PROVE  Spells(t, at, n, y) <=> Quoted(t, at, n) /\ y = "STRLIT"
<1>1. <<t[at + 1], y>> \notin Ones /\ <<t[at + 1], t[at + 2], y>> \notin Twos
  BY KindsDiffer, OnesAre, TwosAre
<1>2. ~ is_ident_begin(t[at + 1]) /\ ~ (\A i \in 1 .. n : is_num(t[at + i]))
  <2>1. 1 \in 1 .. n
    OBVIOUS
  <2> QED
    BY <2>1, KindsDiffer
<1> QED
  BY <1>1, <1>2 DEF Spells

LEMMA SpellsSymbol ==
  ASSUME NEW t, NEW at, NEW n \in Nat \ {0}, NEW y,
         ~ is_ident_begin(t[at + 1]), ~ is_num(t[at + 1]), t[at + 1] # QUOTE
  PROVE  Spells(t, at, n, y) <=>
           \/ n = 1 /\ t[at + 1] \in Glyphs /\ y = Alone(t[at + 1])
           \/ n = 1 /\ t[at + 1] \in Brackets /\ y = Single(t[at + 1])
           \/ /\ n = 2 /\ t[at + 1] \in Glyphs
              /\ y = Pair(t[at + 1], t[at + 2]) /\ y # "NONE"
<1>1. ~ Quoted(t, at, n) /\ ~ (\A i \in 1 .. n : is_num(t[at + i]))
  <2>1. 1 \in 1 .. n
    OBVIOUS
  <2> QED
    BY <2>1 DEF Quoted
<1>2. Spells(t, at, n, y) <=> \/ n = 1 /\ <<t[at + 1], y>> \in Ones
                              \/ n = 2 /\ <<t[at + 1], t[at + 2], y>> \in Twos
  BY <1>1 DEF Spells
<1> QED
  BY <1>2, OnesAre, TwosAre

(* The longest lexeme at the offset that is skipped to.                    *)
LEMMA WordIs ==
  ASSUME NEW t, Len(t) \in Nat, NEW a, NEW at \in 0 .. Len(t) - 1, Skip(t, a) = at,
         is_ident_begin(t[at + 1]), NEW n \in 1 .. Len(t) - at,
         \A i \in 1 .. n : is_ident(t[at + i]),
         n < Len(t) - at => ~ is_ident(t[at + (n + 1)])
  PROVE  LexemeIs(t, a, WordType(SubSeq(t, at + 1, at + n)), at, n)
<1> DEFINE type == WordType(SubSeq(t, at + 1, at + n))
<1>1. type \in Types
  BY Typed
<1>2. \A y \in Types : Spells(t, at, n, y) <=> y = type
  <2>1. n \in Nat \ {0}
    OBVIOUS
  <2> QED
    BY <2>1, SpellsWord
<1>3. ASSUME NEW k \in n + 1 .. Len(t) - at, NEW y \in Types PROVE ~ Spells(t, at, k, y)
  <2>1. n + 1 \in 1 .. k /\ k \in Nat \ {0} /\ n < Len(t) - at
    OBVIOUS
  <2> QED
    BY <2>1, SpellsWord
<1> HIDE DEF type
<1>4. Spells(t, at, n, type) /\ \A y \in Types : Spells(t, at, n, y) => y = type
  BY <1>1, <1>2
<1>5. LexemeIs(t, a, type, at, n)
  BY <1>1, <1>3, <1>4, LexemeLongest
<1> QED
  BY <1>5 DEF type

LEMMA NumberIs ==
  ASSUME NEW t, Len(t) \in Nat, NEW a, NEW at \in 0 .. Len(t) - 1, Skip(t, a) = at,
         is_num(t[at + 1]), NEW n \in 1 .. Len(t) - at,
         \A i \in 1 .. n : is_num(t[at + i]),
         n < Len(t) - at => ~ is_num(t[at + (n + 1)])
  PROVE  LexemeIs(t, a, "NUMBER", at, n)
<1>1. "NUMBER" \in Types
  BY DEF Types
<1>2. \A y \in Types : Spells(t, at, n, y) <=> y = "NUMBER"
  <2> SUFFICES ASSUME NEW y \in Types PROVE Spells(t, at, n, y) <=> y = "NUMBER"
    OBVIOUS
  <2>1. n \in Nat \ {0}
    OBVIOUS
  <2>2. AllNum(t, at, n)
    BY DEF AllNum
  <2> QED
    BY <2>1, <2>2, SpellsNumber
<1>3. ASSUME NEW k \in n + 1 .. Len(t) - at, NEW y \in Types PROVE ~ Spells(t, at, k, y)
  <2>1. n + 1 \in 1 .. k /\ k \in Nat \ {0} /\ n < Len(t) - at
    OBVIOUS
  <2> QED
    BY <2>1, SpellsNumber DEF AllNum
<1>4. /\ Spells(t, at, n, "NUMBER")
      /\ \A y \in Types : Spells(t, at, n, y) => y = "NUMBER"
  BY <1>1, <1>2
<1> QED
  BY <1>1, <1>3, <1>4, LexemeLongest

LEMMA StringIs ==
  ASSUME NEW t, Len(t) \in Nat, NEW a, NEW at \in 0 .. Len(t) - 1, Skip(t, a) = at,
         t[at + 1] = QUOTE, NEW n \in 2 .. Len(t) - at,
         Unescaped(t, at, n), \A m \in 2 .. n - 1 : ~ Unescaped(t, at, m)
  PROVE  LexemeIs(t, a, "STRLIT", at, n)
<1>1. "STRLIT" \in Types /\ n \in 1 .. Len(t) - at
  BY DEF Types
<1>2. Quoted(t, at, n)
  BY DEF Quoted
<1>3. \A y \in Types : Spells(t, at, n, y) <=> y = "STRLIT"
  BY <1>2, SpellsString
<1>4. ASSUME NEW k \in n + 1 .. Len(t) - at, NEW y \in Types PROVE ~ Spells(t, at, k, y)
  <2>1. n \in 2 .. k - 1 /\ k \in Nat \ {0}
    OBVIOUS
  <2>2. ~ Quoted(t, at, k)
    BY <2>1 DEF Quoted
  <2> QED
    BY <2>1, <2>2, SpellsString
<1>5. /\ Spells(t, at, n, "STRLIT")
      /\ \A y \in Types : Spells(t, at, n, y) => y = "STRLIT"
  BY <1>1, <1>3
<1> QED
  BY <1>1, <1>4, <1>5, LexemeLongest

LEMMA OpenString ==
  ASSUME NEW t, Len(t) \in Nat, NEW a, NEW at \in 0 .. Len(t) - 1, Skip(t, a) = at,
         t[at + 1] = QUOTE, \A m \in 2 .. Len(t) - at : ~ Unescaped(t, at, m)
  PROVE  LexemeIs(t, a, "OPEN", at, 0)
<1>1. ASSUME NEW k \in 1 .. Len(t) - at, NEW y \in Types PROVE ~ Spells(t, at, k, y)
  <2>1. k \in Nat \ {0} /\ (k > 1 => k \in 2 .. Len(t) - at)
    OBVIOUS
  <2>2. ~ Quoted(t, at, k)
    BY <2>1 DEF Quoted
  <2> QED
    BY <2>1, <2>2, SpellsString
<1> QED
  BY <1>1, LexemeNone

LEMMA PairIs ==
  ASSUME NEW t, Len(t) \in Nat, NEW a, NEW at \in 0 .. Len(t) - 2, Skip(t, a) = at,
         t[at + 1] \in Glyphs, Pair(t[at + 1], t[at + 2]) # "NONE"
  PROVE  LexemeIs(t, a, Pair(t[at + 1], t[at + 2]), at, 2)
<1> DEFINE type == Pair(t[at + 1], t[at + 2])
<1>1. type \in Types /\ type # "NONE" /\ 2 \in 1 .. Len(t) - at /\ at \in 0 .. Len(t)
  BY Typed
<1>2. ~ is_ident_begin(t[at + 1]) /\ ~ is_num(t[at + 1]) /\ t[at + 1] # QUOTE
  BY KindsDiffer
<1>3. \A y \in Types : Spells(t, at, 2, y) <=> y = type
  <2> SUFFICES ASSUME NEW n \in Nat \ {0}, n = 2, NEW y \in Types
               PROVE  Spells(t, at, n, y) <=> y = type
    OBVIOUS
  <2>1. Spells(t, at, n, y) <=>
          \/ n = 1 /\ t[at + 1] \in Glyphs /\ y = Alone(t[at + 1])
          \/ n = 1 /\ t[at + 1] \in Brackets /\ y = Single(t[at + 1])
          \/ /\ n = 2 /\ t[at + 1] \in Glyphs
             /\ y = Pair(t[at + 1], t[at + 2]) /\ y # "NONE"
    BY <1>2, SpellsSymbol
  <2> QED
    BY <1>1, <1>2, <2>1
<1>4. ASSUME NEW k \in 2 + 1 .. Len(t) - at, NEW y \in Types PROVE ~ Spells(t, at, k, y)
  <2>1. k \in Nat \ {0} /\ k # 1 /\ k # 2
    OBVIOUS
  <2> QED
    BY <1>2, <2>1, SpellsSymbol
<1> HIDE DEF type
<1>5. Spells(t, at, 2, type) /\ \A y \in Types : Spells(t, at, 2, y) => y = type
  BY <1>1, <1>3
<1>6. LexemeIs(t, a, type, at, 2)
  BY <1>1, <1>4, <1>5, LexemeLongest
<1> QED
  BY <1>6 DEF type

LEMMA AloneIs ==
  ASSUME NEW t, Len(t) \in Nat, NEW a, NEW at \in 0 .. Len(t) - 1, Skip(t, a) = at,
         t[at + 1] \in Glyphs,
         at + 2 <= Len(t) => Pair(t[at + 1], t[at + 2]) = "NONE"
  PROVE  LexemeIs(t, a, Alone(t[at + 1]), at, 1)
<1> DEFINE type == Alone(t[at + 1])
<1>1. type \in Types /\ 1 \in 1 .. Len(t) - at /\ at \in 0 .. Len(t)
  BY Typed
<1>2. /\ ~ is_ident_begin(t[at + 1]) /\ ~ is_num(t[at + 1]) /\ t[at + 1] # QUOTE
      /\ t[at + 1] \notin Brackets
  BY KindsDiffer
<1>3. \A y \in Types : Spells(t, at, 1, y) <=> y = type
  <2> SUFFICES ASSUME NEW n \in Nat \ {0}, n = 1, NEW y \in Types
               PROVE  Spells(t, at, n, y) <=> y = type
    OBVIOUS
  <2>1. Spells(t, at, n, y) <=>
          \/ n = 1 /\ t[at + 1] \in Glyphs /\ y = Alone(t[at + 1])
          \/ n = 1 /\ t[at + 1] \in Brackets /\ y = Single(t[at + 1])
          \/ /\ n = 2 /\ t[at + 1] \in Glyphs
             /\ y = Pair(t[at + 1], t[at + 2]) /\ y # "NONE"
    BY <1>2, SpellsSymbol
  <2> QED
    BY <1>1, <1>2, <2>1
<1>4. ASSUME NEW k \in 1 + 1 .. Len(t) - at, NEW y \in Types PROVE ~ Spells(t, at, k, y)
  <2>1. k \in Nat \ {0} /\ k # 1 /\ at + 2 <= Len(t)
    OBVIOUS
  <2> QED
    BY <1>2, <2>1, SpellsSymbol
<1> HIDE DEF type
<1>5. Spells(t, at, 1, type) /\ \A y \in Types : Spells(t, at, 1, y) => y = type
  BY <1>1, <1>3
<1>6. LexemeIs(t, a, type, at, 1)
  BY <1>1, <1>4, <1>5, LexemeLongest
<1> QED
  BY <1>6 DEF type

LEMMA SingleCharacterIs ==
  ASSUME NEW t, Len(t) \in Nat, NEW a, NEW at \in 0 .. Len(t) - 1, Skip(t, a) = at,
         ~ is_ident_begin(t[at + 1]), ~ is_num(t[at + 1]), t[at + 1] # QUOTE,
         t[at + 1] \notin Glyphs
  PROVE  LexemeIs(t, a, Single(t[at + 1]), at, 1)
<1> DEFINE type == Single(t[at + 1])
<1>1. type \in Types /\ 1 \in 1 .. Len(t) - at /\ at \in 0 .. Len(t)
  BY Typed
<1>2. CASE t[at + 1] \in Brackets
  <2>1. \A y \in Types : Spells(t, at, 1, y) <=> y = type
    <3> SUFFICES ASSUME NEW n \in Nat \ {0}, n = 1, NEW y \in Types
                 PROVE  Spells(t, at, n, y) <=> y = type
      OBVIOUS
    <3> QED
      BY <1>1, <1>2, SpellsSymbol
  <2>2. ASSUME NEW k \in 1 + 1 .. Len(t) - at, NEW y \in Types PROVE ~ Spells(t, at, k, y)
    <3>1. k \in Nat \ {0} /\ k # 1
      OBVIOUS
    <3> QED
      BY <3>1, SpellsSymbol
  <2> HIDE DEF type
  <2>3. Spells(t, at, 1, type) /\ \A y \in Types : Spells(t, at, 1, y) => y = type
    BY <1>1, <2>1
  <2>4. LexemeIs(t, a, type, at, 1)
    BY <1>1, <2>2, <2>3, LexemeLongest
  <2> QED
    BY <2>4 DEF type
<1>3. CASE t[at + 1] \notin Brackets
  <2>1. Single(t[at + 1]) = "ERROR"
    BY <1>3, SingleIs
  <2>2. ASSUME NEW k \in 1 .. Len(t) - at, NEW y \in Types PROVE ~ Spells(t, at, k, y)
    <3>1. k \in Nat \ {0}
      OBVIOUS
    <3> QED
      BY <1>3, <3>1, SpellsSymbol
  <2>3. LexemeIs(t, a, "ERROR", at, 1)
    BY <2>2, LexemeNone
  <2> QED
    BY <2>1, <2>3
<1> QED
  BY <1>2, <1>3

-----------------------------------------------------------------------------
(* Comments and places, one character further.                             *)
LEMMA CommentedNext ==
  ASSUME NEW t, NEW a \in Nat, NEW i \in Nat, a <= i
  PROVE  Commented(t, a, i + 1) <=>
           t[i + 1] # "\n" /\ (Commented(t, a, i) \/ t[i + 1] = "#")
<1>1. ASSUME Commented(t, a, i + 1)
      PROVE  t[i + 1] # "\n" /\ (Commented(t, a, i) \/ t[i + 1] = "#")
  <2>1. PICK j \in a + 1 .. i + 1 : t[j] = "#" /\ \A k \in j .. i + 1 : t[k] # "\n"
    BY <1>1 DEF Commented
  <2>2. i + 1 \in j .. i + 1
    OBVIOUS
  <2>3. CASE j \in a + 1 .. i
    <3>1. \A k \in j .. i : t[k] # "\n"
      BY <2>1
    <3>2. Commented(t, a, i)
      BY <2>1, <2>3, <3>1 DEF Commented
    <3> QED
      BY <2>1, <2>2, <3>2
  <2>4. CASE j = i + 1
    BY <2>1, <2>2, <2>4
  <2> QED
    BY <2>3, <2>4
<1>2. ASSUME t[i + 1] # "\n", Commented(t, a, i)
      PROVE  Commented(t, a, i + 1)
  <2>1. PICK j \in a + 1 .. i : t[j] = "#" /\ \A k \in j .. i : t[k] # "\n"
    BY <1>2 DEF Commented
  <2>2. \A k \in j .. i + 1 : t[k] # "\n"
    <3> SUFFICES ASSUME NEW k \in j .. i + 1 PROVE t[k] # "\n"
      OBVIOUS
    <3>1. k \in j .. i \/ k = i + 1
      OBVIOUS
    <3> QED
      BY <1>2, <2>1, <3>1
  <2>3. j \in a + 1 .. i + 1
    OBVIOUS
  <2> QED
    BY <2>1, <2>2, <2>3 DEF Commented
<1>3. ASSUME t[i + 1] # "\n", t[i + 1] = "#"
      PROVE  Commented(t, a, i + 1)
  <2>1. i + 1 \in a + 1 .. i + 1 /\ \A k \in i + 1 .. i + 1 : k = i + 1
    OBVIOUS
  <2>2. \A k \in i + 1 .. i + 1 : t[k] # "\n"
    BY <1>3, <2>1
  <2> QED
    BY <1>3, <2>1, <2>2 DEF Commented
<1> QED
  BY <1>1, <1>2, <1>3

LEMMA NotCommented == ASSUME NEW t, NEW a \in Nat PROVE ~ Commented(t, a, a)
BY DEF Commented

Lines(t, n) == {i \in DOMAIN t : i <= n /\ t[i] = "\n"}
LastOf(S) == IF S = {} THEN 0 ELSE CHOOSE i \in S : \A j \in S : j <= i

LEMMA PlaceIs ==
  ASSUME NEW t, NEW n
  PROVE  Place(t, n) = [row |-> Cardinality(Lines(t, n)) + 1, col |-> n - LastOf(Lines(t, n))]
BY Zenon DEF Place, Lines, LastOf

LEMMA PlaceStart ==
  ASSUME NEW t \in Seq(STRING)
  PROVE  Place(t, 0) = [row |-> 1, col |-> 0]
<1>1. Lines(t, 0) = {}
  BY DEF Lines
<1>2. Cardinality(Lines(t, 0)) = 0
  BY <1>1, FS_EmptySet
<1> QED
  BY <1>1, <1>2, PlaceIs DEF LastOf

(* The place of a character is that of the one before it, moved.           *)
LEMMA PlaceNext ==
  ASSUME NEW t \in Seq(STRING), NEW n \in 0 .. Len(t)
  PROVE  Place(t, n + 1) = Moved(Place(t, n), IF n < Len(t) THEN t[n + 1] ELSE NUL)
<1> DEFINE before == Lines(t, n)
           after == Lines(t, n + 1)
           ch == IF n < Len(t) THEN t[n + 1] ELSE NUL
<1>1. DOMAIN t = 1 .. Len(t) /\ Len(t) \in Nat
  OBVIOUS
<1>2. before \subseteq 1 .. n /\ IsFiniteSet(before) /\ Cardinality(before) \in Nat
  <2>1. before \subseteq 1 .. n
    BY <1>1 DEF Lines
  <2>2. IsFiniteSet(1 .. n)
    BY FS_Interval
  <2>3. IsFiniteSet(before)
    BY <2>1, <2>2, FS_Subset
  <2> QED
    BY <2>1, <2>3, FS_CardinalityType
<1>3. /\ Place(t, n) = [row |-> Cardinality(before) + 1, col |-> n - LastOf(before)]
      /\ Place(t, n + 1) = [row |-> Cardinality(after) + 1, col |-> (n + 1) - LastOf(after)]
  BY PlaceIs, Zenon
<1>4. CASE ch = "\n"
  <2>1. n < Len(t) /\ t[n + 1] = "\n"
    BY <1>4 DEF NUL
  <2>2. after = before \cup {n + 1}
    BY <1>1, <2>1 DEF Lines
  <2>3. n + 1 \notin before
    BY <1>2
  <2> HIDE DEF before, after, ch
  <2>4. Cardinality(after) = Cardinality(before) + 1
    BY <1>2, <2>2, <2>3, FS_AddElement
  <2>5. n + 1 \in after /\ after \subseteq Nat /\ \A k \in after : k <= n + 1
    BY <1>2, <2>2
  <2>6. LastOf(after) = n + 1
    BY <2>5, Greatest DEF LastOf
  <2>7. Place(t, n + 1) = [row |-> Cardinality(before) + 1 + 1, col |-> 0]
    BY <1>3, <2>4, <2>6
  <2> QED
    BY <1>2, <1>3, <1>4, <2>7 DEF Moved, ch
<1>5. CASE ch # "\n"
  <2>1. after = before
    <3>1. n < Len(t) => t[n + 1] # "\n"
      BY <1>5
    <3> QED
      BY <1>1, <3>1 DEF Lines
  <2> HIDE DEF before, after, ch
  <2>2. LastOf(before) \in Nat
    <3>1. CASE before = {}
      BY <3>1 DEF LastOf
    <3>2. CASE before # {}
      <4>1. before \subseteq Nat /\ n \in Nat /\ \A k \in before : k <= n
        BY <1>2
      <4>2. PICK i \in before : \A k \in before : k <= i
        BY <3>2, <4>1, GreatestExists
      <4> QED
        BY <3>2, <4>1, <4>2, Greatest DEF LastOf
    <3> QED
      BY <3>1, <3>2
  <2>3. Place(t, n + 1) = [row |-> Cardinality(before) + 1, col |-> (n + 1) - LastOf(before)]
    BY <1>3, <2>1, Zenon
  <2>4. (n + 1) - LastOf(before) = (n - LastOf(before)) + 1
    BY <2>2
  <2> QED
    BY <1>3, <1>5, <2>3, <2>4 DEF Moved, ch
<1> QED
  BY <1>4, <1>5

-----------------------------------------------------------------------------
(* One step of the lexer.                                                  *)

LEMMA OpensIs ==
  ASSUME NEW ch
  PROVE  /\ Opens(ch) = "IDENT" => is_ident_begin(ch)
         /\ Opens(ch) = "NUMBER" => is_num(ch)
         /\ Opens(ch) = "SYMBOL" => ch \in Glyphs
         /\ Opens(ch) = "STRING" => ch = QUOTE
         /\ Opens(ch) = "COMMENT" => ch = "#"
         /\ Opens(ch) = "VOID" =>
              ~ is_ident_begin(ch) /\ ~ is_num(ch) /\ ch \notin Glyphs /\ ch # QUOTE
BY DEF Opens

(* The number sign begins a comment and nothing else. *)
LEMMA SignOpens ==
  /\ Opens("#") = "COMMENT" /\ ~ is_space("#")
  /\ QUOTE # "\\" /\ NUL # "\\" /\ "#" # "\n"
<1>1. ~ is_ident_begin("#") /\ ~ is_num("#") /\ "#" \notin Glyphs
  BY DEF is_ident_begin, is_num, Letters, Digits, Glyphs
<1>2. QUOTE # "#" /\ QUOTE # "\\"
  BY Zenon DEF QUOTE
<1>3. ~ is_space("#") /\ NUL # "\\"
  BY DEF is_space, NUL
<1>4. Opens("#") = "COMMENT"
  BY <1>1, <1>2 DEF Opens
<1> QED
  BY <1>2, <1>3, <1>4, Zenon

(* The types of the tokens that a symbol or a single character makes.      *)
LEMMA NoLiteral ==
  ASSUME NEW ch, NEW first, NEW word
  PROVE  /\ Single(ch) \notin {"STRLIT", "EOF"} /\ Alone(ch) \notin {"STRLIT", "EOF"}
         /\ Pair(first, ch) \notin {"STRLIT", "EOF"}
         /\ WordType(word) \notin {"STRLIT", "EOF", "ERROR"}
<1>1. WithEquals(first) \notin {"STRLIT", "EOF"}
  BY DEF WithEquals
<1>2. Single(ch) \notin {"STRLIT", "EOF"} /\ Alone(ch) \notin {"STRLIT", "EOF"}
  BY DEF Single, Alone
<1>3. Pair(first, ch) \notin {"STRLIT", "EOF"}
  BY <1>1 DEF Pair
<1>4. WordType(word) \notin {"STRLIT", "EOF", "ERROR"}
  BY DEF WordType
<1> QED
  BY <1>2, <1>3, <1>4

(* What the invariant says of the text and of the character to be read.    *)
LEMMA TextIs ==
  ASSUME WInv
  PROVE  /\ text \in Seq(STRING) /\ Len(text) \in Nat
         /\ tokens \in Seq(Token) /\ Len(tokens) \in Nat
         /\ Done \in 0 .. Len(text) /\ ptr \in Nat /\ Seen \in 0 .. Len(text)
         /\ Seen <= ptr /\ (ptr <= Len(text) => Seen = ptr)
<1>1. text \in Seq(STRING) /\ tokens \in Seq(Token) /\ ptr \in Nat
  BY TextAssumption DEF WInv, IInv, TypeOK, Token
<1>2. Len(text) \in Nat /\ Len(tokens) \in Nat
  BY <1>1
<1>3. Done \in 0 .. Len(text)
  BY <1>2, EndsValue DEF Done
<1> QED
  BY <1>1, <1>2, <1>3 DEF Seen

LEMMA CharacterIs ==
  ASSUME WInv, ptr <= Len(text)
  PROVE  /\ p = Place(text, ptr + 1)
         /\ ptr < Len(text) => c = text[ptr + 1]
         /\ c # NUL => ptr < Len(text)
         /\ ptr = Len(text) => c = NUL
<1>1. text \in Seq(STRING) /\ ptr \in 0 .. Len(text)
  BY TextIs
<1>2. p = Place(text, ptr + 1)
  <2>1. Place(text, ptr + 1) = Moved(Place(text, ptr), c)
    BY <1>1, PlaceNext DEF c
  <2>2. pos = Place(text, ptr)
    BY DEF WInv, Following
  <2> QED
    BY <2>1, <2>2 DEF p
<1> QED
  BY <1>1, <1>2 DEF c

(* A step that returns nothing. *)
LEMMA NothingReturned ==
  ASSUME WInv, UNCHANGED <<text, tokens>>
  PROVE  Done' = Done /\ Written'
BY DEF WInv, Done, Written

(* A step that returns the token of the next lexeme. *)
LEMMA LexemeReturned ==
  ASSUME WInv, text' = text, NEW type, NEW at \in Nat, NEW n \in Nat,
         LexemeIs(text, Done, type, at, n),
         tokens' = Append(tokens, AsToken(text, [type |-> type, at |-> at, len |-> n]))
  PROVE  Done' = at + n /\ Written'
<1> DEFINE x == [type |-> type, at |-> at, len |-> n]
           token == AsToken(text, x)
<1>1. /\ text \in Seq(STRING) /\ Len(text) \in Nat /\ tokens \in Seq(Token)
      /\ Len(tokens) \in Nat
  BY TextIs
<1>2. Lexeme(text, Done) = x
  BY DEF LexemeIs
<1>3. x.at + x.len = at + n
  OBVIOUS
<1> HIDE DEF x
<1>4. token = AsToken(text, Lexeme(text, Ends(text)[Len(tokens)]))
  BY <1>2 DEF Done
<1> HIDE DEF token
<1>5. tokens' = Append(tokens, token)
  BY DEF token, x
<1>6. /\ DOMAIN tokens = 1 .. Len(tokens) /\ DOMAIN tokens' = 1 .. Len(tokens) + 1
      /\ Len(tokens') = Len(tokens) + 1
      /\ \A i \in DOMAIN tokens : tokens'[i] = tokens[i]
      /\ tokens'[Len(tokens) + 1] = token
  BY <1>1, <1>5
<1>7. Ends(text)[Len(tokens) + 1] = x.at + x.len
  <2>1. Ends(text)[Len(tokens) + 1] =
          LET y == Lexeme(text, Ends(text)[Len(tokens)]) IN y.at + y.len
    BY <1>1, EndsValue
  <2> QED
    BY <1>2, <2>1 DEF Done
<1>8. Done' = at + n
  BY <1>3, <1>6, <1>7 DEF Done
<1>9. ASSUME NEW i \in DOMAIN tokens'
      PROVE  tokens'[i] = AsToken(text, Lexeme(text, Ends(text)[i - 1]))
  <2>1. CASE i = Len(tokens) + 1
    <3>1. i - 1 = Len(tokens)
      BY <1>1, <2>1
    <3> QED
      BY <1>4, <1>6, <2>1, <3>1
  <2>2. CASE i \in DOMAIN tokens
    BY <1>6, <2>2 DEF WInv, Written
  <2> QED
    BY <1>1, <1>6, <2>1, <2>2
<1>10. Written'
  BY <1>9 DEF Written
<1> QED
  BY <1>8, <1>10

(* Return makes that token, of whatever is no string. *)
LEMMA ReturnIs ==
  ASSUME WInv, text' = text, NEW type, type # "STRLIT", NEW at \in Nat, NEW n \in Nat,
         type = "EOF" => n = 0, LexemeIs(text, Done, type, at, n),
         Return(type, at, n, Place(text, at + 1))
  PROVE  Done' = at + n /\ Written'
<1>1. AsToken(text, [type |-> type, at |-> at, len |-> n]) =
        [type |-> type, at |-> at, span |-> Place(text, at + 1),
         len |-> IF type \in {"ERROR", "EOF"} THEN 0 ELSE n]
  BY DEF AsToken
<1>2. tokens' = Append(tokens, AsToken(text, [type |-> type, at |-> at, len |-> n]))
  BY <1>1 DEF Return
<1> QED
  BY <1>2, LexemeReturned

(* After a token: at its end, or behind a space that follows it. *)
LEMMA TokenStays ==
  ASSUME WInv, ptr <= Len(text), text' = text, state' = "VOID", Done' = ptr, Back
  PROVE  Following'
<1>1. Len(text) \in Nat /\ ptr \in Nat /\ pos = Place(text, ptr)
  BY TextIs DEF WInv, Following
<1>2. pos' = pos /\ ptr' = ptr /\ Seen' = ptr
  BY <1>1 DEF Back, Seen
<1>3. ~ Commented(text, ptr, ptr)
  BY <1>1, NotCommented
<1>4. Blanks'
  BY <1>1, <1>2 DEF Blanks
<1> QED
  BY <1>1, <1>2, <1>3, <1>4 DEF Following, InLexeme

LEMMA TokenEnds ==
  ASSUME WInv, ptr <= Len(text), text' = text, state' = "VOID", Done' = ptr,
         IF is_space(c) THEN Advance ELSE Back
  PROVE  Following'
<1>1. /\ Len(text) \in Nat /\ ptr \in Nat /\ pos = Place(text, ptr)
      /\ p = Place(text, ptr + 1) /\ (ptr < Len(text) => c = text[ptr + 1])
  BY TextIs, CharacterIs DEF WInv, Following
<1>2. pos' = Place(text, ptr') /\ ptr' \in {ptr, ptr + 1} /\ (ptr' = ptr + 1 => is_space(c))
  BY <1>1 DEF Advance, Back
<1>3. ~ Commented(text, ptr, ptr)
  BY <1>1, NotCommented
<1>4. CASE Seen' = ptr
  <2>1. Blanks'
    BY <1>1, <1>4 DEF Blanks
  <2> QED
    BY <1>1, <1>2, <1>3, <1>4, <2>1 DEF Following, InLexeme
<1>5. CASE Seen' # ptr
  <2>1. ptr' = ptr + 1 /\ ptr < Len(text) /\ Seen' = ptr + 1
    BY <1>1, <1>2, <1>5 DEF Seen
  <2>2. is_space(c) /\ c = text[ptr + 1] /\ c # "#"
    BY <1>1, <1>2, <2>1, SignOpens
  <2>3. ~ Commented(text, ptr, ptr + 1)
    <3>1. Commented(text, ptr, ptr + 1) <=>
            text[ptr + 1] # "\n" /\ (Commented(text, ptr, ptr) \/ text[ptr + 1] = "#")
      BY <1>1, CommentedNext
    <3> QED
      BY <1>3, <2>2, <3>1
  <2>4. \A i \in ptr + 1 .. ptr + 1 : i = ptr + 1
    BY <1>1
  <2>5. Blank(text, ptr, ptr + 1)
    BY <2>2 DEF Blank
  <2>6. Blanks'
    BY <2>1, <2>4, <2>5 DEF Blanks
  <2> QED
    BY <1>1, <1>2, <2>1, <2>3, <2>6 DEF Following, InLexeme
<1> QED
  BY <1>4, <1>5

(* Behind a token that takes the character read. *)
LEMMA TokenRead ==
  ASSUME WInv, ptr <= Len(text), text' = text, state' = "VOID", Done' = ptr + 1, Advance,
         ptr < Len(text)
  PROVE  Following'
<1>1. Len(text) \in Nat /\ ptr \in Nat /\ p = Place(text, ptr + 1)
  BY TextIs, CharacterIs
<1>2. pos' = Place(text, ptr') /\ ptr' = ptr + 1 /\ Seen' = ptr + 1
  BY <1>1 DEF Advance, Seen
<1>3. ~ Commented(text, ptr + 1, ptr + 1)
  BY <1>1, NotCommented
<1>4. Blanks'
  BY <1>1, <1>2 DEF Blanks
<1> QED
  BY <1>1, <1>2, <1>3, <1>4 DEF Following, InLexeme

-----------------------------------------------------------------------------
(* Each action keeps what is followed and what is written.                 *)
Keeps == Following' /\ Written'

(* One more character is blank. *)
LEMMA BlanksNext ==
  ASSUME WInv, Blanks, ptr < Len(text), text' = text, Done' = Done, ptr' = ptr + 1,
         Blank(text, Done, ptr + 1)
  PROVE  Blanks' /\ Seen' = ptr + 1
<1>1. Len(text) \in Nat /\ ptr \in Nat /\ Done \in Nat /\ Seen = ptr
  BY TextIs
<1>2. Seen' = ptr + 1
  BY <1>1 DEF Seen
<1>3. ASSUME NEW i \in Done + 1 .. ptr + 1 PROVE Blank(text, Done, i)
  <2>1. CASE i \in Done + 1 .. ptr
    BY <1>1, <2>1 DEF Blanks
  <2>2. CASE i = ptr + 1
    BY <2>2
  <2> QED
    BY <1>1, <2>1, <2>2
<1> QED
  BY <1>2, <1>3 DEF Blanks

LEMMA SpaceWritten ==
  ASSUME WInv, Space
  PROVE  Keeps
<1>1. /\ ptr <= Len(text) /\ state = "VOID" /\ is_space(c) /\ UNCHANGED <<text, tokens>>
      /\ ptr' = ptr + 1 /\ pos' = p /\ state' = "VOID"
  BY DEF Space, Read, Advance, Continue
<1>2. /\ Len(text) \in Nat /\ ptr \in Nat /\ Done \in Nat /\ Seen = ptr
      /\ p = Place(text, ptr + 1) /\ (ptr < Len(text) => c = text[ptr + 1])
  BY <1>1, TextIs, CharacterIs
<1>3. Done' = Done /\ Written'
  BY <1>1, NothingReturned
<1>4. Done <= ptr /\ Blanks /\ ~ Commented(text, Done, ptr)
  BY <1>1, <1>2 DEF WInv, Following
<1>5. CASE ptr < Len(text)
  <2>1. c = text[ptr + 1] /\ c # "#"
    BY <1>1, <1>2, <1>5, SignOpens
  <2>2. Commented(text, Done, ptr + 1) <=>
          text[ptr + 1] # "\n" /\ (Commented(text, Done, ptr) \/ text[ptr + 1] = "#")
    BY <1>2, <1>4, CommentedNext
  <2>3. Blank(text, Done, ptr + 1)
    BY <1>1, <2>1 DEF Blank
  <2>4. Blanks' /\ Seen' = ptr + 1
    BY <1>1, <1>3, <1>4, <1>5, <2>3, BlanksNext
  <2> QED
    BY <1>1, <1>2, <1>3, <1>4, <2>1, <2>2, <2>4 DEF Keeps, Following, InLexeme
<1>6. CASE ptr = Len(text)
  <2>1. Seen' = ptr
    BY <1>1, <1>2, <1>6 DEF Seen
  <2>2. Blanks'
    BY <1>1, <1>2, <1>3, <1>4, <2>1 DEF Blanks
  <2> QED
    BY <1>1, <1>2, <1>3, <1>4, <2>1, <2>2 DEF Keeps, Following, InLexeme
<1> QED
  BY <1>1, <1>2, <1>5, <1>6

(* The first character of a lexeme is the one that is skipped to. *)
LEMMA BeginWritten ==
  ASSUME WInv, Begin
  PROVE  Keeps
<1>1. /\ ptr <= Len(text) /\ state = "VOID" /\ ~ is_space(c) /\ text' = text
      /\ ptr' = ptr + 1 /\ pos' = p
  BY DEF Begin, Read, Advance
<1>2. c # NUL
  BY <1>1, NULIsSpace
<1>3. /\ Len(text) \in Nat /\ ptr \in Nat /\ Done \in 0 .. Len(text) /\ Seen = ptr
      /\ p = Place(text, ptr + 1) /\ ptr < Len(text) /\ c = text[ptr + 1]
  BY <1>1, <1>2, TextIs, CharacterIs
<1>4. Done <= ptr /\ Blanks /\ ~ Commented(text, Done, ptr)
  BY <1>1, <1>3 DEF WInv, Following
<1>5. Commented(text, Done, ptr + 1) <=> c # "\n" /\ (Commented(text, Done, ptr) \/ c = "#")
  <2>1. Done \in Nat
    BY <1>3
  <2>2. Commented(text, Done, ptr + 1) <=>
          text[ptr + 1] # "\n" /\ (Commented(text, Done, ptr) \/ text[ptr + 1] = "#")
    BY <1>3, <1>4, <2>1, CommentedNext
  <2> QED
    BY <1>3, <2>2
<1>6. ASSUME c # "#" PROVE Skip(text, Done) = ptr
  <2>1. ~ Blank(text, Done, ptr + 1)
    BY <1>1, <1>3, <1>4, <1>5, <1>6 DEF Blank
  <2>2. \A i \in Done + 1 .. ptr : Blank(text, Done, i)
    BY <1>3, <1>4 DEF Blanks
  <2> QED
    BY <1>3, <1>4, <2>1, <2>2, SkipsTo
<1>7. CASE Opens(c) = "VOID"
  <2>1. Return(Single(c), ptr, 1, Place(text, ptr + 1)) /\ state' = "VOID"
    BY <1>3, <1>7 DEF Begin, Return
  <2>2. ~ is_ident_begin(c) /\ ~ is_num(c) /\ c # QUOTE /\ c \notin Glyphs /\ c # "#"
    BY <1>7, OpensIs, SignOpens
  <2>3. LexemeIs(text, Done, Single(c), ptr, 1)
    BY <1>3, <1>6, <2>2, SingleCharacterIs
  <2>4. Done' = ptr + 1 /\ Written'
    BY <1>1, <1>3, <2>1, <2>3, NoLiteral, ReturnIs
  <2>5. Following'
    BY <1>1, <1>3, <2>1, <2>4, TokenRead DEF Advance
  <2> QED
    BY <2>4, <2>5 DEF Keeps
<1>8. CASE Opens(c) = "COMMENT"
  <2>1. state' = "COMMENT" /\ UNCHANGED tokens
    BY <1>8 DEF Begin, Continue
  <2>2. c = "#" /\ c # "\n"
    BY <1>8, OpensIs, SignOpens
  <2>3. Done' = Done /\ Written'
    BY <1>1, <2>1, NothingReturned
  <2>4. Commented(text, Done, ptr + 1)
    BY <1>5, <2>2
  <2>5. Blanks' /\ Seen' = ptr + 1
    BY <1>1, <1>3, <1>4, <2>3, <2>4, BlanksNext DEF Blank
  <2> QED
    BY <1>1, <1>3, <1>4, <2>1, <2>3, <2>4, <2>5 DEF Keeps, Following, InLexeme
<1>9. CASE Opens(c) \notin {"VOID", "COMMENT"}
  <2>1. /\ state' = Opens(c) /\ UNCHANGED tokens /\ tbeg' = ptr /\ tlen' = 1 /\ tspan' = p
    BY <1>9 DEF Begin, Continue
  <2>2. Opens(c) \in {"IDENT", "NUMBER", "SYMBOL", "STRING"}
    BY <1>9, Typed
  <2>3. Done' = Done /\ Written'
    BY <1>1, <2>1, NothingReturned
  <2>4. Seen' = ptr + 1
    BY <1>1, <1>3 DEF Seen
  <2>5. Begun'
    <3>1. c # "#"
      BY <1>9, SignOpens
    <3> QED
      BY <1>1, <1>3, <1>4, <1>6, <2>1, <2>3, <3>1 DEF Begun
  <2>6. \A i \in 1 .. 1 : i = 1
    OBVIOUS
  <2>7. Opens(c) = "IDENT" => InWord'
    BY <1>1, <1>3, <2>1, <2>6, OpensIs DEF InWord, is_ident
  <2>8. Opens(c) = "NUMBER" => InNumber'
    BY <1>1, <1>3, <2>1, <2>6, OpensIs DEF InNumber
  <2>9. Opens(c) = "STRING" => InString'
    <3> SUFFICES ASSUME Opens(c) = "STRING" PROVE InString'
      OBVIOUS
    <3>1. text[ptr + 1] = QUOTE /\ text[ptr + 1] # "\\"
      BY <1>3, OpensIs, SignOpens
    <3>2. ~ Escapes(text, ptr)[1]
      <4>1. ptr \in 0 .. Len(text) /\ 1 \in 1 .. Len(text) - ptr
        BY <1>3
      <4>2. Escapes(text, ptr)[1] <=> text[ptr + 1] = "\\" /\ ~ Escapes(text, ptr)[1 - 1]
        BY <1>3, <4>1, EscapesNext
      <4> QED
        BY <3>1, <4>2
    <3>3. \A m \in 2 .. Seen' - ptr : FALSE
      BY <1>3, <2>4
    <3>4. ptr' - ptr = 1
      BY <1>1, <1>3
    <3> QED
      BY <1>1, <2>1, <3>1, <3>2, <3>3, <3>4 DEF InString
  <2>10. Opens(c) = "SYMBOL" => text'[tbeg' + 1] \in Glyphs
    BY <1>1, <1>3, <2>1, OpensIs
  <2> QED
    BY <1>1, <1>3, <2>1, <2>2, <2>3, <2>5, <2>7, <2>8, <2>9, <2>10 DEF Keeps, Following, InLexeme
<1> QED
  BY <1>7, <1>8, <1>9

(* What is known in the middle of a lexeme. *)
LEMMA InsideIs ==
  ASSUME WInv, Read(state), state \in InLexeme
  PROVE  /\ Len(text) \in Nat /\ tbeg \in 0 .. Len(text) - 1 /\ tlen \in Nat
         /\ ptr \in 0 .. Len(text) /\ Seen = ptr /\ text' = text
         /\ Done \in 0 .. Len(text) /\ Done <= tbeg /\ Skip(text, Done) = tbeg
         /\ tspan = Place(text, tbeg + 1) /\ p = Place(text, ptr + 1)
         /\ ptr < Len(text) => c = text[ptr + 1]
         /\ state \in Worded => tbeg + tlen = ptr /\ tlen >= 1
         /\ state = "SYMBOL" => tbeg + 1 = ptr
<1>1. ptr <= Len(text) /\ text' = text
  BY DEF Read
<1>2. tbeg \in Nat /\ tlen \in Nat
  BY DEF WInv, IInv, TypeOK
<1>3. Begun
  BY DEF WInv, Following
<1>4. /\ state \in Worded => tbeg + tlen = ptr /\ tlen >= 1
      /\ state = "SYMBOL" => tbeg + 1 = ptr
  BY DEF WInv, IInv, Reached
<1>5. /\ Len(text) \in Nat /\ ptr \in Nat /\ Seen = ptr /\ Done \in 0 .. Len(text)
      /\ p = Place(text, ptr + 1) /\ (ptr < Len(text) => c = text[ptr + 1])
  BY <1>1, TextIs, CharacterIs
<1> QED
  BY <1>1, <1>2, <1>3, <1>4, <1>5 DEF Begun

(* Another character of it. *)
LEMMA BegunKept ==
  ASSUME WInv, state \in InLexeme, UNCHANGED <<text, tokens, tbeg, tspan>>
  PROVE  Begun' /\ Done' = Done /\ Written'
<1>1. Done' = Done /\ Written'
  BY NothingReturned
<1>2. Begun
  BY DEF WInv, Following
<1> QED
  BY <1>1, <1>2 DEF Begun

LEMMA IdentWritten ==
  ASSUME WInv, Ident
  PROVE  Keeps
<1> DEFINE type == WordType(SubSeq(text, tbeg + 1, tbeg + tlen))
<1>1. /\ Read(state) /\ state = "IDENT" /\ state \in InLexeme /\ state \in Worded
      /\ Run(is_ident(c), type)
  BY DEF Ident, Read, InLexeme, Worded
<1>2. /\ Len(text) \in Nat /\ tbeg \in 0 .. Len(text) - 1 /\ tlen \in Nat
      /\ ptr \in 0 .. Len(text) /\ Seen = ptr /\ text' = text
      /\ Skip(text, Done) = tbeg
      /\ tspan = Place(text, tbeg + 1) /\ p = Place(text, ptr + 1)
      /\ (ptr < Len(text) => c = text[ptr + 1])
      /\ tbeg + tlen = ptr /\ tlen >= 1
  BY <1>1, InsideIs
<1>3. InWord
  BY <1>1 DEF WInv, Following
<1>4. CASE is_ident(c)
  <2>1. /\ ptr' = ptr + 1 /\ pos' = p /\ state' = "IDENT" /\ tlen' = tlen + 1
        /\ UNCHANGED <<tokens, tbeg, tspan>>
    BY <1>1, <1>4 DEF Run, Advance, Continue
  <2>2. Begun' /\ Done' = Done /\ Written'
    BY <1>1, <1>2, <2>1, BegunKept
  <2>3. c = text[tbeg + (tlen + 1)]
    <3>1. ptr < Len(text)
      BY <1>2, <1>4, CharacterIs, NULIsSpace
    <3> QED
      BY <1>2, <3>1
  <2>4. \A i \in 1 .. tlen + 1 : i \in 1 .. tlen \/ i = tlen + 1
    BY <1>2
  <2>5. InWord'
    BY <1>2, <1>3, <1>4, <2>1, <2>3, <2>4 DEF InWord
  <2> QED
    BY <1>2, <2>1, <2>2, <2>5 DEF Keeps, Following, InLexeme
<1>5. CASE ~ is_ident(c)
  <2>1. tlen < Len(text) - tbeg => ~ is_ident(text[tbeg + (tlen + 1)])
    BY <1>2, <1>5
  <2>2. is_ident_begin(text[tbeg + 1]) /\ \A i \in 1 .. tlen : is_ident(text[tbeg + i])
    BY <1>3 DEF InWord
  <2>3. tlen \in 1 .. Len(text) - tbeg
    BY <1>2
  <2>4. LexemeIs(text, Done, type, tbeg, tlen)
    BY <1>2, <2>1, <2>2, <2>3, WordIs
  <2> HIDE DEF type
  <2>5. Return(type, tbeg, tlen, Place(text, tbeg + 1)) /\ state' = "VOID"
    BY <1>1, <1>2, <1>5 DEF Run, Return
  <2>6. type \notin {"STRLIT", "EOF"}
    BY NoLiteral DEF type
  <2>7. Done' = tbeg + tlen /\ Written'
    BY <1>2, <2>4, <2>5, <2>6, ReturnIs
  <2>8. IF is_space(c) THEN Advance ELSE Back
    BY <1>1, <1>5 DEF Run
  <2>9. Following'
    BY <1>2, <2>5, <2>7, <2>8, TokenEnds
  <2> QED
    BY <2>7, <2>9 DEF Keeps
<1> QED
  BY <1>4, <1>5

LEMMA NumberWritten ==
  ASSUME WInv, Number
  PROVE  Keeps
<1>1. /\ Read(state) /\ state = "NUMBER" /\ state \in InLexeme /\ state \in Worded
      /\ Run(is_num(c), "NUMBER")
  BY DEF Number, Read, InLexeme, Worded
<1>2. /\ Len(text) \in Nat /\ tbeg \in 0 .. Len(text) - 1 /\ tlen \in Nat
      /\ ptr \in 0 .. Len(text) /\ Seen = ptr /\ text' = text
      /\ Skip(text, Done) = tbeg
      /\ tspan = Place(text, tbeg + 1) /\ p = Place(text, ptr + 1)
      /\ (ptr < Len(text) => c = text[ptr + 1])
      /\ tbeg + tlen = ptr /\ tlen >= 1
  BY <1>1, InsideIs
<1>3. InNumber
  BY <1>1 DEF WInv, Following
<1>4. CASE is_num(c)
  <2>1. /\ ptr' = ptr + 1 /\ pos' = p /\ state' = "NUMBER" /\ tlen' = tlen + 1
        /\ UNCHANGED <<tokens, tbeg, tspan>>
    BY <1>1, <1>4 DEF Run, Advance, Continue
  <2>2. Begun' /\ Done' = Done /\ Written'
    BY <1>1, <1>2, <2>1, BegunKept
  <2>3. c = text[tbeg + (tlen + 1)]
    <3>1. ptr < Len(text)
      BY <1>2, <1>4, CharacterIs, NULIsSpace
    <3> QED
      BY <1>2, <3>1
  <2>4. \A i \in 1 .. tlen + 1 : i \in 1 .. tlen \/ i = tlen + 1
    BY <1>2
  <2>5. InNumber'
    BY <1>2, <1>3, <1>4, <2>1, <2>3, <2>4 DEF InNumber
  <2> QED
    BY <1>2, <2>1, <2>2, <2>5 DEF Keeps, Following, InLexeme
<1>5. CASE ~ is_num(c)
  <2>1. tlen < Len(text) - tbeg => ~ is_num(text[tbeg + (tlen + 1)])
    BY <1>2, <1>5
  <2>2. \A i \in 1 .. tlen : is_num(text[tbeg + i])
    BY <1>3 DEF InNumber
  <2>3. tlen \in 1 .. Len(text) - tbeg /\ 1 \in 1 .. tlen
    BY <1>2
  <2>4. is_num(text[tbeg + 1])
    BY <2>2, <2>3
  <2>5. LexemeIs(text, Done, "NUMBER", tbeg, tlen)
    BY <1>2, <2>1, <2>2, <2>3, <2>4, NumberIs
  <2>6. Return("NUMBER", tbeg, tlen, Place(text, tbeg + 1)) /\ state' = "VOID"
    BY <1>1, <1>2, <1>5 DEF Run, Return
  <2>7. Done' = tbeg + tlen /\ Written'
    <3>1. "NUMBER" # "STRLIT" /\ "NUMBER" # "EOF"
      OBVIOUS
    <3> QED
      BY <1>2, <2>5, <2>6, <3>1, ReturnIs
  <2>8. IF is_space(c) THEN Advance ELSE Back
    BY <1>1, <1>5 DEF Run
  <2>9. Following'
    BY <1>2, <2>6, <2>7, <2>8, TokenEnds
  <2> QED
    BY <2>7, <2>9 DEF Keeps
<1> QED
  BY <1>4, <1>5

(* A string goes on: a quote ends it only where it is not escaped, and a   *)
(* backslash that is escaped escapes nothing.                              *)
LEMMA StringGoesOn ==
  ASSUME WInv, Read(state), state \in {"STRING", "STRINGESC"}, Advance,
         UNCHANGED <<tokens, tbeg, tspan>>, state' \in {"STRING", "STRINGESC"},
         state = "STRING" => c # QUOTE,
         state' = "STRINGESC" <=> c = "\\" /\ state # "STRINGESC"
  PROVE  Keeps
<1> DEFINE n == ptr + 1 - tbeg
<1>1. state \in InLexeme /\ state \in Worded
  BY DEF InLexeme, Worded
<1>2. /\ Len(text) \in Nat /\ tbeg \in 0 .. Len(text) - 1 /\ tlen \in Nat
      /\ ptr \in 0 .. Len(text) /\ Seen = ptr /\ text' = text /\ p = Place(text, ptr + 1)
      /\ (ptr < Len(text) => c = text[ptr + 1])
      /\ tbeg + tlen = ptr /\ tlen >= 1
  BY <1>1, InsideIs
<1>3. ptr' = ptr + 1 /\ pos' = p
  BY DEF Advance
<1>4. Begun' /\ Done' = Done /\ Written'
  BY <1>1, <1>2, BegunKept
<1>5. InString
  BY DEF WInv, Following
<1>6. InString'
  <2>1. CASE ptr < Len(text)
    <3>1. /\ n \in 1 .. Len(text) - tbeg /\ tbeg + n = ptr + 1 /\ n - 1 = ptr - tbeg
          /\ Seen' = ptr + 1 /\ tbeg \in 0 .. Len(text) /\ ptr' - tbeg = n
      BY <1>2, <1>3, <2>1 DEF Seen
    <3> HIDE DEF n
    <3>2. Escapes(text, tbeg)[n - 1] <=> state = "STRINGESC"
      BY <1>2, <1>5, <3>1 DEF InString
    <3>3. Escapes(text, tbeg)[n] <=> text[tbeg + n] = "\\" /\ ~ Escapes(text, tbeg)[n - 1]
      BY <1>2, <3>1, EscapesNext
    <3>4. Escapes(text, tbeg)[n] <=> state' = "STRINGESC"
      BY <1>2, <2>1, <3>1, <3>2, <3>3
    <3>5. ~ Unescaped(text, tbeg, n)
      BY <1>2, <2>1, <3>1, <3>2 DEF Unescaped
    <3>6. \A m \in 2 .. Seen' - tbeg : m \in 2 .. Seen - tbeg \/ m = n
      BY <1>2, <3>1
    <3>7. \A m \in 2 .. Seen' - tbeg : ~ Unescaped(text, tbeg, m)
      BY <1>5, <3>5, <3>6 DEF InString
    <3> QED
      BY <1>2, <1>5, <3>1, <3>4, <3>7 DEF InString
  <2>2. CASE ptr = Len(text)
    <3>1. Seen' = Seen /\ ~ (ptr' <= Len(text'))
      BY <1>2, <1>3, <2>2 DEF Seen
    <3> QED
      BY <1>2, <1>5, <3>1 DEF InString
  <2> QED
    BY <1>2, <2>1, <2>2
<1> QED
  BY <1>2, <1>3, <1>4, <1>6 DEF Keeps, Following, InLexeme

LEMMA StringWritten ==
  ASSUME WInv, String
  PROVE  Keeps
<1> DEFINE n == tlen + 1
<1>1. Read(state) /\ state = "STRING" /\ state \in InLexeme /\ state \in Worded /\ Advance
  BY DEF String, Read, InLexeme, Worded
<1>2. CASE c = QUOTE
  <2>1. /\ Len(text) \in Nat /\ tbeg \in 0 .. Len(text) - 1 /\ tlen \in Nat
        /\ ptr \in 0 .. Len(text) /\ Seen = ptr /\ text' = text
        /\ Skip(text, Done) = tbeg /\ tspan = Place(text, tbeg + 1)
        /\ (ptr < Len(text) => c = text[ptr + 1])
        /\ tbeg + tlen = ptr /\ tlen >= 1
    BY <1>1, InsideIs
  <2>2. ptr < Len(text)
    BY <1>2, <2>1, CharacterIs, NULIsSpace
  <2>3. InString
    BY <1>1 DEF WInv, Following
  <2>4. /\ n \in 2 .. Len(text) - tbeg /\ tbeg + n = ptr + 1 /\ n - 1 = ptr - tbeg
        /\ n \in Nat /\ tlen + 1 - 2 = n - 2 /\ n - 2 \in Nat
    BY <2>1, <2>2
  <2>5. text[tbeg + 1] = QUOTE /\ \A m \in 2 .. n - 1 : ~ Unescaped(text, tbeg, m)
    BY <2>1, <2>3, <2>4 DEF InString
  <2> HIDE DEF n
  <2>6. Unescaped(text, tbeg, n)
    <3>1. ~ Escapes(text, tbeg)[n - 1]
      BY <1>1, <2>1, <2>3, <2>4 DEF InString
    <3> QED
      BY <1>2, <2>1, <2>2, <2>4, <3>1 DEF Unescaped
  <2>7. LexemeIs(text, Done, "STRLIT", tbeg, n)
    BY <2>1, <2>4, <2>5, <2>6, StringIs
  <2>8. Return("STRLIT", tbeg + 1, n - 2, Place(text, tbeg + 1))
    BY <1>2, <2>1, <2>4 DEF String
  <2>9. tokens' = Append(tokens, AsToken(text, [type |-> "STRLIT", at |-> tbeg, len |-> n]))
    BY <2>8 DEF Return, AsToken
  <2>10. Done' = tbeg + n /\ Written'
    BY <2>1, <2>4, <2>7, <2>9, LexemeReturned
  <2>11. Done' = ptr + 1 /\ state' = "VOID"
    BY <2>4, <2>8, <2>10 DEF Return
  <2>12. Following'
    BY <1>1, <2>1, <2>2, <2>11, TokenRead
  <2> QED
    BY <2>10, <2>12 DEF Keeps
<1>3. CASE c # QUOTE
  <2>1. /\ UNCHANGED <<tokens, tbeg, tspan>>
        /\ state' = IF c = "\\" THEN "STRINGESC" ELSE "STRING"
    BY <1>3 DEF String, Continue
  <2> QED
    BY <1>1, <1>3, <2>1, StringGoesOn
<1> QED
  BY <1>2, <1>3

LEMMA StringEscWritten ==
  ASSUME WInv, StringEsc
  PROVE  Keeps
<1>1. /\ Read(state) /\ state = "STRINGESC" /\ Advance /\ state' = "STRING"
      /\ UNCHANGED <<tokens, tbeg, tspan>>
  BY DEF StringEsc, Read, Continue
<1> QED
  BY <1>1, StringGoesOn

LEMMA SymbolWritten ==
  ASSUME WInv, Symbol
  PROVE  Keeps
<1> DEFINE first == text[tbeg + 1]
<1>1. Read(state) /\ state = "SYMBOL" /\ state \in InLexeme
  BY DEF Symbol, Read, InLexeme
<1>2. /\ Len(text) \in Nat /\ tbeg \in 0 .. Len(text) - 1
      /\ ptr \in 0 .. Len(text) /\ text' = text
      /\ Skip(text, Done) = tbeg /\ tspan = Place(text, tbeg + 1)
      /\ (ptr < Len(text) => c = text[ptr + 1]) /\ tbeg + 1 = ptr
  BY <1>1, InsideIs
<1>3. first \in Glyphs
  BY <1>1 DEF WInv, Following
<1>4. CASE Pair(first, c) # "NONE"
  <2>1. ptr < Len(text)
    BY <1>2, <1>4, CharacterIs, NULIsSpace
  <2>2. tbeg \in 0 .. Len(text) - 2 /\ c = text[tbeg + 2]
    BY <1>2, <2>1
  <2>3. LexemeIs(text, Done, Pair(first, c), tbeg, 2)
    BY <1>2, <1>3, <1>4, <2>2, PairIs
  <2>4. /\ Advance /\ Return(Pair(first, c), tbeg, 2, Place(text, tbeg + 1))
        /\ state' = "VOID"
    BY <1>2, <1>4 DEF Symbol, Return
  <2>5. Pair(first, c) # "STRLIT" /\ Pair(first, c) # "EOF"
    BY NoLiteral
  <2> HIDE DEF first
  <2>6. Done' = tbeg + 2 /\ Written'
    BY <1>2, <2>3, <2>4, <2>5, ReturnIs
  <2>7. Done' = ptr + 1
    BY <1>2, <2>6
  <2>8. Following'
    BY <1>2, <2>1, <2>4, <2>7, TokenRead
  <2> QED
    BY <2>6, <2>8 DEF Keeps
<1>5. CASE Pair(first, c) = "NONE"
  <2>1. tbeg + 2 <= Len(text) => Pair(first, text[tbeg + 2]) = "NONE"
    BY <1>2, <1>5
  <2>2. LexemeIs(text, Done, Alone(first), tbeg, 1)
    BY <1>2, <1>3, <2>1, AloneIs
  <2>3. /\ Back /\ Return(Alone(first), tbeg, 1, Place(text, tbeg + 1)) /\ state' = "VOID"
    BY <1>2, <1>5 DEF Symbol, Return
  <2>4. Alone(first) # "STRLIT" /\ Alone(first) # "EOF"
    BY NoLiteral
  <2> HIDE DEF first
  <2>5. Done' = tbeg + 1 /\ Written'
    BY <1>2, <2>2, <2>3, <2>4, ReturnIs
  <2>6. Following'
    BY <1>2, <2>3, <2>5, TokenStays
  <2> QED
    BY <2>5, <2>6 DEF Keeps
<1> QED
  BY <1>4, <1>5

LEMMA CommentWritten ==
  ASSUME WInv, Comment
  PROVE  Keeps
<1>1. /\ ptr <= Len(text) /\ state = "COMMENT" /\ UNCHANGED <<text, tokens>>
      /\ ptr' = ptr + 1 /\ pos' = p /\ state' = IF c = "\n" THEN "VOID" ELSE "COMMENT"
  BY DEF Comment, Read, Advance, Continue
<1>2. /\ Len(text) \in Nat /\ ptr \in Nat /\ Done \in Nat /\ Seen = ptr
      /\ p = Place(text, ptr + 1) /\ (ptr < Len(text) => c = text[ptr + 1])
      /\ (ptr = Len(text) => c = NUL)
  BY <1>1, TextIs, CharacterIs
<1>3. Done' = Done /\ Written'
  BY <1>1, NothingReturned
<1>4. Done <= ptr /\ Done < ptr + 1 /\ Blanks /\ Commented(text, Done, ptr)
  BY <1>1, <1>2 DEF WInv, Following
<1>5. CASE ptr < Len(text)
  <2>1. c = text[ptr + 1]
    BY <1>2, <1>5
  <2>2. Commented(text, Done, ptr + 1) <=>
          text[ptr + 1] # "\n" /\ (Commented(text, Done, ptr) \/ text[ptr + 1] = "#")
    BY <1>2, <1>4, CommentedNext
  <2>3. Blank(text, Done, ptr + 1)
    <3>1. CASE c = "\n"
      BY <2>1, <3>1 DEF Blank, is_space
    <3>2. CASE c # "\n"
      BY <1>4, <2>1, <2>2, <3>2 DEF Blank
    <3> QED
      BY <3>1, <3>2
  <2>4. Blanks' /\ Seen' = ptr + 1
    BY <1>1, <1>3, <1>4, <1>5, <2>3, BlanksNext
  <2>5. IF c = "\n" THEN ~ Commented(text, Done, ptr + 1) ELSE Commented(text, Done, ptr + 1)
    BY <1>4, <2>1, <2>2
  <2> QED
    BY <1>1, <1>2, <1>3, <1>4, <2>4, <2>5 DEF Keeps, Following, InLexeme
<1>6. CASE ptr = Len(text)
  <2>1. Seen' = ptr /\ state' = "COMMENT"
    BY <1>1, <1>2, <1>6, NULIsSpace DEF Seen
  <2>2. Blanks'
    BY <1>1, <1>2, <1>3, <1>4, <2>1 DEF Blanks
  <2> QED
    BY <1>1, <1>2, <1>3, <1>4, <2>1, <2>2 DEF Keeps, Following, InLexeme
<1> QED
  BY <1>1, <1>2, <1>5, <1>6

(* At the end of the text nothing is skipped to. *)
LEMMA AtTheEnd ==
  ASSUME WInv, ptr > Len(text), Blanks
  PROVE  /\ Seen = Len(text) /\ Skip(text, Done) = Len(text)
         /\ LexemeIs(text, Done, IF Commented(text, Done, Len(text)) THEN "OPEN" ELSE "EOF",
                     Len(text), 0)
<1>1. Len(text) \in Nat /\ ptr \in Nat /\ Done \in 0 .. Len(text)
  BY TextIs
<1>2. Seen = Len(text)
  BY <1>1 DEF Seen
<1>3. \A i \in Done + 1 .. Len(text) : Blank(text, Done, i)
  BY <1>2 DEF Blanks
<1>4. Len(text) \in Done .. Len(text) /\ ~ (Len(text) < Len(text))
  BY <1>1
<1>5. Skip(text, Done) = Len(text)
  BY <1>1, <1>3, <1>4, SkipsTo
<1> QED
  BY <1>1, <1>2, <1>5, LexemeEnd

LEMMA EndWritten ==
  ASSUME WInv, End
  PROVE  Keeps
<1>1. /\ wasnull /\ UNCHANGED <<text, ptr, pos>> /\ Return("EOF", ptr - 1, 0, pos)
  BY DEF End
<1>2. ptr = Len(text) + 1 /\ state = "VOID"
  BY <1>1 DEF WInv, IInv, Ended
<1>3. Len(text) \in Nat
  BY TextIs
<1>4. ptr > Len(text) /\ ptr - 1 = Len(text)
  BY <1>2, <1>3
<1>5. Blanks /\ ~ Commented(text, Done, Seen) /\ pos = Place(text, Len(text) + 1)
  BY <1>2 DEF WInv, Following
<1>6. LexemeIs(text, Done, "EOF", Len(text), 0)
  BY <1>4, <1>5, AtTheEnd
<1>7. Return("EOF", Len(text), 0, Place(text, Len(text) + 1)) /\ state' = "VOID"
  BY <1>1, <1>4, <1>5 DEF Return
<1>8. Done' = Len(text) + 0 /\ Written'
  <2>1. "EOF" # "STRLIT" /\ 0 \in Nat
    OBVIOUS
  <2> QED
    BY <1>1, <1>3, <1>6, <1>7, <2>1, ReturnIs
<1>9. Done' = Len(text) /\ Seen' = Len(text) /\ ptr' = Len(text) + 1
  BY <1>1, <1>2, <1>3, <1>8 DEF Seen
<1>10. Blanks'
  BY <1>3, <1>9 DEF Blanks
<1>11. ~ Commented(text, Len(text), Len(text))
  BY <1>3, NotCommented
<1>12. Following'
  BY <1>1, <1>3, <1>5, <1>7, <1>9, <1>10, <1>11 DEF Following, InLexeme
<1> QED
  BY <1>8, <1>12 DEF Keeps

LEMMA OverrunWritten ==
  ASSUME WInv, Overrun
  PROVE  Keeps
<1>1. UNCHANGED <<text, ptr, pos, state, tbeg, tlen, tspan, tokens>>
  BY DEF Overrun, stream, lexeme
<1> QED
  BY <1>1 DEF Keeps, WInv, Following, Written, Done, Seen, Blanks, Begun, InWord, InNumber,
              InString

LEMMA CallWritten ==
  ASSUME WInv, Call
  PROVE  Keeps
<1>1. UNCHANGED <<text, ptr, pos, state, tokens>> /\ phase = "IDLE"
  BY DEF Call, stream
<1>2. state = "VOID"
  BY <1>1 DEF WInv, IInv, Reached
<1> QED
  BY <1>1, <1>2 DEF Keeps, WInv, Following, Written, Done, Seen, Blanks, InLexeme

-----------------------------------------------------------------------------
LEMMA WrittenBegins ==
  ASSUME Init
  PROVE  WInv
<1>1. text \in Seq(STRING) /\ tokens = <<>> /\ ptr = 0 /\ state = "VOID"
      /\ pos = [row |-> 1, col |-> 0]
  BY TextAssumption DEF Init
<1>2. Len(text) \in Nat /\ Len(tokens) = 0
  BY <1>1
<1>3. Done = 0 /\ Seen = 0
  BY <1>1, <1>2, EndsValue DEF Done, Seen
<1>4. pos = Place(text, 0)
  BY <1>1, PlaceStart
<1>5. 0 \in Nat /\ ~ Commented(text, 0, 0)
  BY NotCommented
<1>6. Blanks
  BY <1>3 DEF Blanks
<1>7. Following
  BY <1>1, <1>3, <1>4, <1>5, <1>6 DEF Following, InLexeme
<1>8. Written
  BY <1>1 DEF Written
<1> QED
  BY <1>7, <1>8, Begins DEF WInv

LEMMA WrittenInductive ==
  ASSUME WInv, [Next]_vars
  PROVE  WInv'
<1>1. IInv'
  BY Inductive DEF WInv
<1>2. CASE Next
  <2>1. Keeps
    BY <1>2, SpaceWritten, BeginWritten, IdentWritten, NumberWritten, StringWritten,
       StringEscWritten, SymbolWritten, CommentWritten, EndWritten, OverrunWritten,
       CallWritten DEF Next, Scan
  <2> QED
    BY <1>1, <2>1 DEF WInv, Keeps
<1>3. CASE UNCHANGED vars
  <2>1. UNCHANGED <<text, ptr, pos, state, tbeg, tlen, tspan, tokens>>
    BY <1>3 DEF vars, stream, lexeme
  <2> QED
    BY <1>1, <2>1 DEF WInv, Following, Written, Done, Seen, Blanks, Begun, InWord, InNumber,
                      InString
<1> QED
  BY <1>2, <1>3

(* A string or a comment that is not closed is what the lexer runs off     *)
(* from.                                                                   *)
LEMMA RunsOff ==
  ASSUME WInv, phase = "OVERRUN"
  PROVE  Lexeme(text, Done).type = "OPEN"
<1>1. ptr > Len(text) /\ state \in Endless
  BY DEF WInv, IInv, Ended
<1>2. Len(text) \in Nat /\ ptr \in Nat /\ Done \in 0 .. Len(text)
  BY TextIs
<1>3. Seen = Len(text)
  BY <1>1, <1>2 DEF Seen
<1>4. CASE state = "COMMENT"
  <2>1. Blanks /\ Commented(text, Done, Len(text))
    BY <1>3, <1>4 DEF WInv, Following
  <2>2. LexemeIs(text, Done, "OPEN", Len(text), 0)
    BY <1>1, <2>1, AtTheEnd
  <2> QED
    BY <2>2 DEF LexemeIs
<1>5. CASE state \in {"STRING", "STRINGESC"}
  <2>1. Begun /\ InString
    BY <1>5 DEF WInv, Following, InLexeme
  <2>2. tbeg \in 0 .. Len(text) - 1 /\ Skip(text, Done) = tbeg
    BY <1>2, <2>1 DEF Begun, WInv, IInv, TypeOK
  <2>3. text[tbeg + 1] = QUOTE /\ \A m \in 2 .. Len(text) - tbeg : ~ Unescaped(text, tbeg, m)
    BY <1>3, <2>1 DEF InString
  <2>4. LexemeIs(text, Done, "OPEN", tbeg, 0)
    BY <1>2, <2>2, <2>3, OpenString
  <2> QED
    BY <2>4 DEF LexemeIs
<1> QED
  BY <1>1, <1>4, <1>5 DEF Endless

(* The lexer of lex.c:72-230 returns exactly the longest lexemes of the    *)
(* text, each with its row and column, and runs off the text only from a   *)
(* string or a comment that is not closed.                                 *)
THEOREM LongestLexemes == Spec => []LexedAsWritten
<1>1. Init => WInv
  BY WrittenBegins
<1>2. WInv /\ [Next]_vars => WInv'
  BY WrittenInductive
<1>3. WInv => LexedAsWritten
  <2> SUFFICES ASSUME WInv PROVE LexedAsWritten
    OBVIOUS
  <2>1. \A i \in DOMAIN tokens : tokens[i] = AsToken(text, Lexeme(text, Ends(text)[i - 1]))
    BY DEF WInv, Written
  <2>2. phase = "OVERRUN" => Lexeme(text, Ends(text)[Len(tokens)]).type = "OPEN"
    BY RunsOff DEF Done
  <2> QED
    BY <2>1, <2>2 DEF LexedAsWritten
<1> QED
  BY <1>1, <1>2, <1>3, PTL DEF Spec
=============================================================================
