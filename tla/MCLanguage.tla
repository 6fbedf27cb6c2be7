----------------------------- MODULE MCLanguage ------------------------------
(***************************************************************************)
(* Every expression of up to MaxTokens tokens of an alphabet with three    *)
(* levels of operators, and longer ones that chain operators of all        *)
(* levels, some with a ! or parentheses in the middle; two files with      *)
(* every construct of the language, with every slip of one token; and the  *)
(* dialogues of MCSources as they are.                                     *)
(***************************************************************************)
EXTENDS Language
M == INSTANCE MCSources

a == [type |-> "IDENT", value |-> "a"]
Number25 == [type |-> "NUMBER", value |-> <<2, 5>>]

MCAlphabet ==
  {a, Number25} \cup {Tok(t) : t \in {"ADD", "MUL", "COLON", "LOGNOT", "OPENPAREN", "CLOSEPAREN",
                                 "COMMA"}}

Infixes == {"LOGOR", "LOGAND", "NEQ", "LEQ", "SUB", "DIV", "COLON"}
Inner ==
  {<<a>>, <<Tok("LOGNOT"), a>>, <<Kw("false")>>,
   <<Tok("OPENPAREN"), a, Tok("LTH"), a, Tok("CLOSEPAREN")>>}

Chains ==
  {<<a, Tok(p)>> \o x \o <<Tok(q)>> \o y \o <<Tok(r), a>> :
     p, q, r \in Infixes, x, y \in Inner}

(* Tokens no expression has. *)
Strange == {<<Kw("else")>>, <<a, Tok("ERROR")>>,
            <<a, Tok("ADD"), Tok("EOF")>>, <<Tok("OPENPAREN"), a, Tok("EOF")>>}

MCDrafts == {<<>>} \cup Chains \cup Strange

-----------------------------------------------------------------------------
(* Files.  A word is a keyword, an operator or a name; a string is <<"s">>. *)
Words == {"module", "endmod", "rename", "if", "then", "else", "match", "with", "end", "true",
          "inf"}
Symbols ==
  [lt |-> "LTH", gt |-> "GTH", op |-> "OPENPAREN", cl |-> "CLOSEPAREN", co |-> "COMMA",
   is |-> "COLON", to |-> "ARROW", do |-> "JOIN", eq |-> "SETEQ", add |-> "ADDEQ", any |-> "CATCHALL",
   plus |-> "ADD", same |-> "EQU", bang |-> "LOGNOT", odd |-> "ERROR"]
Read(w) ==
  IF w \in Words THEN Kw(w)
  ELSE IF w \in DOMAIN Symbols THEN Tok(Symbols[w])
  ELSE IF w = "one" THEN [type |-> "NUMBER", value |-> <<1>>]
  ELSE IF w = "str" THEN [type |-> "STRLIT", value |-> <<"s">>]
  ELSE IF w = "ifstr" THEN [type |-> "STRLIT", value |-> <<"i", "f">>]
  ELSE [type |-> "IDENT", value |-> w]
Text(words) == [i \in DOMAIN words |-> Read(words[i])]

Choices == Text(
  <<"module", "m",
    "START", "eq", "lt", "ann", "is", "str", "co", "str", "gt", "lt", "bob", "is", "gt", "op",
      "str", "do", "op", "x", "add", "one", "co", "B", "cl", "to", "B",
      "match", "op", "x", "cl", "with", "op", "one", "cl", "str", "to", "B",
        "op", "any", "cl", "ifstr", "to", "EXIT", "end",
      "if", "op", "x", "plus", "x", "cl", "then", "str", "to", "B",
        "if", "op", "one", "cl", "then", "end",
      "else", "if", "op", "x", "cl", "then", "else", "str", "to", "EXIT", "end", "cl",
    "rename", "A", "to", "B",
    "B", "eq", "lt", "ann", "is", "str", "co", "gt", "do", "op", "x", "eq", "x", "co", "cl",
      "to", "START",
    "endmod">>)

Conditions == Text(
  <<"module", "m", "endmod", "module", "n",
    "START", "eq", "if", "op", "x", "same", "one", "cl", "then", "lt", "ann", "is", "str", "gt",
      "to", "START",
      "else", "if", "op", "x", "is", "true", "cl", "then",
        "match", "op", "x", "cl", "with", "op", "one", "cl", "lt", "ann", "is", "gt", "to", "EXIT",
          "op", "any", "cl", "lt", "ann", "is", "str", "gt", "op", "cl", "end",
      "else", "lt", "ann", "is", "gt", "op", "str", "to", "B", "cl", "end",
    "B", "eq", "lt", "bob", "is", "gt", "to", "EXIT",
    "endmod">>)

MCOriginals == {Choices, Conditions}
MCTokens == {Read(w) : w \in Words \cup DOMAIN Symbols \cup {"one", "str", "ifstr", "B"}}
MCFinals == {Spelled(M!Tree(M!Files[f])) : f \in DOMAIN M!Files}
=============================================================================
