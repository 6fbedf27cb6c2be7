------------------------------- MODULE Language -------------------------------
(***************************************************************************)
(* The language of dialogues, as a grammar.  Sources are typed and edited  *)
(* token by token, and then parsed; what the parser makes of them is       *)
(* compared with the grammar, and with how the tree is written.  Parsing   *)
(* is a function, so a state is a source and what it is parsed as.         *)
(***************************************************************************)
EXTENDS Spelling
LOCAL INSTANCE SequencesExt
LOCAL INSTANCE FiniteSetsExt
D == INSTANCE Destructor

CONSTANTS
  Alphabet,   \* tokens an expression is written with
  MaxTokens,  \* ... and how many of them
  Drafts,     \* longer beginnings of expressions
  Originals,  \* whole files, to be edited
  Tokens,     \* ... by tokens of these
  Finals      \* files to be parsed as they are

VARIABLES
  source,  \* the tokens as they are written
  place    \* what they are parsed as; "DRAFT", "FILE" or "FINAL" before that

vars == <<source, place>>

-----------------------------------------------------------------------------
(* Writing and parsing *)

(* In the condition of an if, in an effect, or as a file. *)
Parsed(where, tokens) ==
  CASE where = "CONDITION" ->
         parse_condition(Fresh(<<Tok("OPENPAREN")>> \o tokens
                               \o <<Tok("CLOSEPAREN"), Kw("then")>>), "then")
    [] where = "EFFECT" ->
         parse_effect(Fresh(<<Tok("OPENPAREN"), [type |-> "IDENT", value |-> "lhs"], Tok("SETEQ")>>
                            \o tokens \o <<Tok("CLOSEPAREN")>>))
    [] where = "SOURCE" -> quosi_ast_parse_from_src(tokens)

Write(t) ==
  /\ place = "DRAFT" /\ Len(source) < MaxTokens
  /\ source' = Append(source, t)
  /\ UNCHANGED place

(* One slip: a token replaced, doubled or left out, or the rest lost. *)
Edit(i) ==
  /\ place = "FILE" /\ place' = "FINAL"
  /\ \/ \E t \in Tokens : source' = ReplaceAt(source, i, t)
     \/ \E t \in Tokens : source' = InsertAt(source, i, t)
     \/ source' = RemoveAt(source, i)
     \/ source' = SubSeq(source, 1, i - 1)

Parse(where) ==
  /\ place \in IF where = "SOURCE" THEN {"FILE", "FINAL"} ELSE {"DRAFT"}
  /\ place' = where
  /\ UNCHANGED source

Init ==
  \/ source \in Drafts /\ place = "DRAFT"
  \/ source \in Originals /\ place = "FILE"
  \/ source \in Finals /\ place = "FINAL"

Next ==
  \/ \E t \in Alphabet : Write(t)
  \/ \E i \in DOMAIN source : Edit(i)
  \/ \E where \in {"CONDITION", "EFFECT", "SOURCE"} : Parse(where)

Spec == Init /\ [][Next]_vars

-----------------------------------------------------------------------------
(* The grammar of files.  Nonterminals map positions of the source to the  *)
(* positions after what they derive: Edge(S) is where an edge ends that    *)
(* begins somewhere in S.  lax admits what the parser looks past.          *)

At(p, types) == p <= Len(source) /\ source[p].type \in types
AtWord(p, words) == At(p, {"KEYWORD"}) /\ source[p].value \in words
T(S, types) == {p + 1 : p \in {q \in S : At(q, types)}}
K(S, word) == {p + 1 : p \in {q \in S : AtWord(q, {word})}}

(* Where the expression at p ends, if it is one. *)
Expr(S) ==
  LET From(p) == quosi_internal_parse_expr(Fresh(SubSeq(source, p, Len(source)))).ctx
  IN {Len(source) + 1 - Len(From(p).tokens) : p \in {q \in S : From(q).errors = <<>>}}
Cond(S, word) == K(Expr({p \in S : At(p, {"OPENPAREN"})}), word)
Literal(S) == T(S, {"IDENT", "NUMBER"}) \cup K(S, "true") \cup K(S, "false")

RECURSIVE Effects(_), Lines(_), LineSets(_)
Effects(S) ==
  LET name == T(S, {"IDENT"})
      effect == name \cup Expr(T(name, DOMAIN EffectOp))
  IN IF S = {} THEN {} ELSE S \cup effect \cup Effects(T(effect, {"COMMA"}))
Goto(S) ==
  LET effects == T(Effects(T(T(S, {"JOIN"}), {"OPENPAREN"})), {"CLOSEPAREN"})
  IN T(T(S \cup effects, {"ARROW"}), {"IDENT"})
Edge(S) == Goto(T(S, {"STRLIT"}))

Case(S) == T(Literal(T(S, {"OPENPAREN"})), {"CLOSEPAREN"})
Otherwise(S) == T(T(T(S, {"OPENPAREN"}), {"CATCHALL"}), {"CLOSEPAREN"})

(* The if of an else if, and the else of none. *)
IfString(p) == At(p, {"STRLIT"}) /\ source[p].value = <<"i", "f">>
Chain(S, lax) ==
  K(K(S, "else"), "if")
    \cup IF lax THEN {p + 1 : p \in {q \in K(S, "else") : IfString(q)}} ELSE {}
Else(S, lax) == {p \in K(S, "else") : ~ AtWord(p, {"if"}) /\ ~ (lax /\ IfString(p))}

RECURSIVE EdgeArms(_), Blocks(_, _), EdgeIf(_, _)
EdgeArms(S) == IF S = {} THEN {} ELSE S \cup EdgeArms(Edge(Case(S)))
EdgeMatch(S) ==
  LET arms == EdgeArms(Cond(K(S, "match"), "with"))
  IN K(arms \cup EdgeArms(Edge(Otherwise(arms))), "end")
EdgeIf(S, lax) ==
  LET body == Blocks(Cond(S, "then"), lax)
  IN IF S = {} THEN {}
     ELSE K(body \cup Blocks(Else(body, lax), lax), "end") \cup EdgeIf(Chain(body, lax), lax)
Blocks(S, lax) ==
  IF S = {} THEN {}
  ELSE S \cup Blocks(Edge(S) \cup EdgeMatch(S) \cup EdgeIf(K(S, "if"), lax), lax)

Lines(S) ==
  LET line == T(S, {"STRLIT"})
  IN IF S = {} THEN {} ELSE S \cup line \cup Lines(T(line, {"COMMA"}))
LineSets(S) ==
  LET said == T(Lines(T(T(T(S, {"LTH"}), {"IDENT"}), {"COLON"})), {"GTH"})
  IN IF S = {} THEN {} ELSE said \cup LineSets(said)
Vert(S, lax) ==
  LET said == LineSets(S)
  IN Goto(said) \cup T(Blocks(T(said, {"OPENPAREN"}), lax), {"CLOSEPAREN"})

RECURSIVE VertexArms(_, _), VertexIf(_, _), Body(_, _)
VertexArms(S, lax) == IF S = {} THEN {} ELSE S \cup VertexArms(Vert(Case(S), lax), lax)
VertexMatch(S, lax) ==
  LET arms == VertexArms(Cond(K(S, "match"), "with"), lax)
  IN K(VertexArms(Vert(Otherwise(arms), lax), lax), "end")
VertexIf(S, lax) ==
  LET body == Body(Cond(S, "then"), lax)
      other == {p + 1 : p \in {q \in body : At(q, {"KEYWORD"}) /\ ~ AtWord(q, {"else", "end"})}}
  IN IF S = {} THEN {}
     ELSE K(Body(Else(body, lax), lax), "end")
            \cup VertexIf(Chain(body, lax) \cup (IF lax THEN other ELSE {}), lax)
Body(S, lax) ==
  IF S = {} THEN {}
  ELSE Vert(S, lax) \cup VertexMatch(S, lax) \cup VertexIf(K(S, "if"), lax)
         \cup IF lax THEN {p \in S : At(p, {"KEYWORD"}) /\ ~ AtWord(p, {"match", "if"})} ELSE {}

RECURSIVE Vertices(_, _), Modules(_, _)
Vertices(S, lax) ==
  LET rename == T(T(T(K(S, "rename"), {"IDENT"}), {"ARROW"}), {"IDENT"})
  IN IF S = {} THEN {}
     ELSE S \cup Vertices(rename \cup Body(T(T(S, {"IDENT"}), {"SETEQ"}), lax), lax)
Modules(S, lax) ==
  IF S = {} THEN {}
  ELSE S \cup Modules(K(Vertices(T(K(S, "module"), {"IDENT"}), lax), "endmod"), lax)

InLanguage(lax) == Len(source) + 1 \in Modules({1}, lax)

-----------------------------------------------------------------------------
Types == {source[i].type : i \in DOMAIN source}
Compiled(tokens) ==
  LET ctx == quosi_ast_parse_from_src(tokens).ctx IN ctx.errors = <<>> /\ ~ ctx.hung

(* A ! with an operand before it. *)
InfixNot ==
  \E i \in 2 .. Len(source) :
    /\ source[i].type = "LOGNOT"
    /\ source[i - 1].type \in {"IDENT", "NUMBER", "KEYWORD", "CLOSEPAREN"}

(* An expression is compiled if and only if it belongs to the language and *)
(* assigns to variables only; it then has one reading, and is parsed as    *)
(* that.  Of effects this holds where there are no parentheses, and of ! as *)
(* a prefix: see below (expr.c:65-157).                                    *)
ReadAsWritten ==
  [][\A where \in {"CONDITION", "EFFECT"} :
       Parse(where) /\ (where = "EFFECT" => Types \cap {"OPENPAREN", "CLOSEPAREN", "COMMA"} = {})
       => LET readings == {e \in Readings(source, 1, FALSE) : Assignable(e)}
              parsed == Parsed(where, source)
          IN /\ Cardinality(readings) <= 1
             /\ ~ InfixNot => (parsed.ctx.errors = <<>> <=> readings # {})
             /\ readings # {} =>
                  (IF where = "EFFECT" THEN parsed.result[1].rhs ELSE parsed.result) \in readings
    ]_vars

(* Nothing is parsed after a critical error in an expression, however deep *)
(* in parentheses and operands it was raised: only bad assignments let the *)
(* parser go on, and then it does so to the end, with no critical error    *)
(* (error.h:8-10, after each call in expr.c).                              *)
StopsAtCritical ==
  [][\A where \in {"CONDITION", "EFFECT"} :
       Parse(where) =>
         LET ctx == Parsed(where, source).ctx
         IN /\ \A i \in 1 .. Len(ctx.errors) - 1 : ctx.errors[i] = "INVALID_ASSIGN"
            /\ ctx.critical <=> ctx.errors # <<>> /\ Last(ctx.errors) # "INVALID_ASSIGN"
    ]_vars

(* A file is compiled if and only if it derives from the grammar, with     *)
(* allowance for the keywords that parse.c:194-229 looks past: whatever    *)
(* was lost, doubled or replaced anywhere in it (parse.c:29-522).          *)
AcceptsTheLanguage == [][Parse("SOURCE") => (Compiled(source) <=> InLanguage(TRUE))]_vars

(* What a tree does not say: separators, the clauses that are parsed and   *)
(* dropped, an else with nothing after it, how a number is written.        *)
Meaningful(tokens) ==
  LET Renames(i) == \E r \in DOMAIN tokens \cap (i - 3 .. i) : tokens[r] = Kw("rename")
      Says(i) == /\ tokens[i].type \notin {"COMMA", "OPENPAREN", "CLOSEPAREN", "JOIN"}
                 /\ ~ Renames(i)
                 /\ ~ (tokens[i] = Kw("else") /\ tokens[i + 1] = Kw("end"))
      kept == SelectSeq([i \in DOMAIN tokens |-> i], Says)
      Said(t) == IF t.type = "NUMBER" \/ (t.type = "KEYWORD" /\ t.value \in {"true", "false"})
                 THEN [type |-> "NUMBER", value |-> Atom(t)] ELSE t
  IN [i \in DOMAIN kept |-> Said(tokens[kept[i]])]

(* The tree of a file that is compiled has every name, line, condition,    *)
(* effect, edge and arm of the source, in that order and nesting, and      *)
(* nothing else: written out again, it is the source (parse.c:29-522).     *)
NothingLost ==
  [][Parse("SOURCE") /\ Compiled(source) /\ InLanguage(FALSE) /\ ~ InfixNot =>
       Meaningful(Spelled(Parsed("SOURCE", source).result)) = Meaningful(source)]_vars

(* Freeing the tree of a file gives back every block that was allocated    *)
(* for it, once, and none before the blocks that are reached through it:   *)
(* of the vertices that do not leap with effects, and but for the right    *)
(* operand of an infix ! (ast.c:9-136).                                    *)
FreedOnce ==
  [][Parse("SOURCE") /\ Compiled(source) /\ ~ InfixNot =>
       LET Kept(v) == ~ D!LeapsWithEffects(v.data)
           modules == Parsed("SOURCE", source).result
           ast == [g \in DOMAIN modules |->
                     [modules[g] EXCEPT !.vertices = SelectSeq(@, Kept)]]
           freed == D!quosi_ast_free(ast)
       IN /\ Len(freed) = D!Allocated(ast)
          /\ \A j \in DOMAIN freed : \A i \in 1 .. j - 1 : ~ IsPrefix(freed[i], freed[j])]_vars

(* "atom in expression must be number, identifier, or (expression)"        *)
(* (error.c:78): what is read in a condition is read the same in an effect. *)
ParensAreAtoms ==
  [][Parse("EFFECT") =>
       \A e \in Readings(source, 1, FALSE) : Assignable(e) =>
         LET parsed == Parsed("EFFECT", source)
         IN parsed.ctx.errors = <<>> /\ parsed.result[1].rhs = e]_vars

(* "expected 'if', 'match' or edge definition" (error.c:60) is said of     *)
(* what begins no block in a choice: such a file is refused.               *)
BlocksAreRefused ==
  [][Parse("SOURCE") => Compiled(source) \/ Parsed("SOURCE", source).ctx.errors # <<>>]_vars

(* "must have one initial node 'START'", "cannot have duplicate node       *)
(* name", "node being pointed to does not exist" (error.c:65-75).          *)
Closed ==
  [][Parse("SOURCE") /\ Compiled(source) =>
       LET modules == Parsed("SOURCE", source).result IN
       \A g \in ToSet(modules) :
         LET names == [i \in DOMAIN g.vertices |-> g.vertices[i].name]
             Target(i) == /\ source[i].type = "IDENT" /\ source[i - 1].type = "ARROW"
                          /\ ~ (i > 3 /\ AtWord(i - 3, {"rename"}))
         IN /\ "START" \in ToSet(names)
            /\ IsInjective(names)
            /\ Len(modules) = 1 =>
                 \A i \in 2 .. Len(source) :
                   Target(i) => source[i].value \in ToSet(names) \cup {"EXIT"}]_vars
=============================================================================
