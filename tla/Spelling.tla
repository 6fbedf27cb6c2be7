------------------------------- MODULE Spelling -------------------------------
(***************************************************************************)
(* How a tree is written, so that the parser reads it: the tokens of a     *)
(* source for each tree of Codegen.                                        *)
(***************************************************************************)
EXTENDS Parser
LOCAL INSTANCE SequencesExt

Flat(seq, Spell(_)) == FlattenSeq([i \in DOMAIN seq |-> Spell(seq[i])])
Name(ident) == <<[type |-> "IDENT", value |-> ident]>>
Str(chars) == <<[type |-> "STRLIT", value |-> chars]>>
Paren(tokens) == <<Tok("OPENPAREN")>> \o tokens \o <<Tok("CLOSEPAREN")>>
Infix == {"LOGOR", "LOGAND", "EQU", "NEQ", "LTH", "GTH", "LEQ", "GEQ", "ADD", "SUB", "MUL",
          "DIV", "COLON"}

RECURSIVE SpelledExpr(_), SpelledBlock(_), SpelledBody(_)
SpelledExpr(e) ==
  LET Operand(x) == IF x.tag = "OP" THEN Paren(SpelledExpr(x)) ELSE SpelledExpr(x) IN
  CASE e.tag = "IDENT" -> Name(e.ident)
    [] e.tag = "IMM" -> <<[type |-> "NUMBER", value |-> <<e.imm>>]>>
    [] e.tag = "OP" /\ e.op = iLNOT -> <<Tok("LOGNOT")>> \o SpelledExpr(e.lhs)
    [] OTHER -> Operand(e.lhs) \o <<Tok(CHOOSE t \in Infix : opcode(t) = e.op)>>
                  \o Operand(e.rhs)

SpelledEffect(x) ==
  Name(x.lhs) \o (IF x.op = "EVENT" THEN <<>>
                  ELSE <<Tok(CHOOSE t \in DOMAIN EffectOp : EffectOp[t] = x.op)>>
                         \o SpelledExpr(x.rhs)) \o <<Tok("COMMA")>>
SpelledGoto(x) ==
  (IF x.effects = <<>> THEN <<>>
   ELSE <<Tok("JOIN")>> \o Paren(Flat(x.effects, SpelledEffect)))
  \o <<Tok("ARROW")>> \o Name(x.next)

SpelledEdge(e) == Str(e.line) \o SpelledGoto(e)
Catchall == Paren(<<Tok("CATCHALL")>>)
SpelledMatch(m, arms, catchall) ==
  <<Kw("match")>> \o Paren(SpelledExpr(m.expr)) \o <<Kw("with")>> \o arms \o catchall
    \o <<Kw("end")>>
SpelledIf(blocks, catchall) ==
  LET Arm(b) == <<Kw("if")>> \o Paren(SpelledExpr(b.cond)) \o <<Kw("then")>> \o b.body
  IN Arm(Head(blocks)) \o Flat(Tail(blocks), LAMBDA b : <<Kw("else")>> \o Arm(b))
       \o (IF catchall = <<>> THEN <<>> ELSE <<Kw("else")>> \o catchall) \o <<Kw("end")>>

SpelledBlock(b) ==
  CASE b.tag = "T" -> Flat(b.edges, SpelledEdge)
    [] b.tag = "MATCH" ->
         SpelledMatch(b, Flat(b.arms, LAMBDA a : Paren(SpelledExpr(a.cond)) \o SpelledEdge(a.body)),
                      Flat(b.catchall, LAMBDA e : Catchall \o SpelledEdge(e)))
    [] b.tag = "IFELSE" ->
         SpelledIf([i \in DOMAIN b.blocks |->
                      [cond |-> b.blocks[i].cond, body |-> Flat(b.blocks[i].body, SpelledBlock)]],
                   Flat(b.catchall, SpelledBlock))

SpelledLines(l) ==
  <<Tok("LTH")>> \o Name(l.speaker) \o <<Tok("COLON")>>
    \o Flat(l.lines, LAMBDA s : Str(s) \o <<Tok("COMMA")>>) \o <<Tok("GTH")>>
SpelledVertex(v) ==
  Flat(v.lineset, SpelledLines)
    \o IF v.type = "JUMP" THEN SpelledGoto(v) ELSE Paren(Flat(v.edges, SpelledBlock))

SpelledBody(b) ==
  CASE b.tag = "T" -> SpelledVertex(b.vertex)
    [] b.tag = "MATCH" ->
         SpelledMatch(b, Flat(b.arms, LAMBDA a : Paren(SpelledExpr(a.cond)) \o SpelledVertex(a.body)),
                      Catchall \o SpelledVertex(b.catchall))
    [] b.tag = "IFELSE" ->
         SpelledIf([i \in DOMAIN b.blocks |->
                      [cond |-> b.blocks[i].cond, body |-> SpelledBody(b.blocks[i].data)]],
                   SpelledBody(b.catchall))

Spelled(ast) ==
  Flat(ast, LAMBDA graph :
    <<Kw("module")>> \o Name(graph.name)
      \o Flat(graph.vertices, LAMBDA v : Name(v.name) \o <<Tok("SETEQ")>> \o SpelledBody(v.data))
      \o <<Kw("endmod")>>)
=============================================================================
