----------------------------- MODULE Expression ------------------------------
(***************************************************************************)
(* The expression parser (src/expr.c), with the stream of tokens it takes  *)
(* from and the errors it raises (src/error.c), and the language of        *)
(* expressions as a grammar.                                               *)
(*                                                                         *)
(* A token is a record of its type and its value: a name, the digits of a  *)
(* number, the characters of a string.  ctx is the C code's quosiParseCtx: *)
(* the tokens not yet taken, the errors so far, and whether one was        *)
(* critical.  Functions return ctx and the expression they filled in;      *)
(* NoExpr stands for memory that was not filled in.                        *)
(*                                                                         *)
(* Definitions named X_y are X with the defect y.  The specification does  *)
(* not use them: with one in place of X, TLC finds a property violated.    *)
(***************************************************************************)
EXTENDS Bytecode
LOCAL INSTANCE SequencesExt

NoExpr == [tag |-> "NONE"]
Tok(type) == [type |-> type, value |-> ""]

-----------------------------------------------------------------------------
(* The token stream, the error list *)

TPEEK(ctx) == IF ctx.tokens = <<>> THEN Tok("EOF") ELSE Head(ctx.tokens)
TNEXT(ctx) == [ctx EXCEPT !.tokens = IF @ = <<>> THEN @ ELSE Tail(@)]

(* quosi_error_is_critical *)
Tolerated == {"NO_ENTRY", "NO_ELSE", "NO_CATCHALL", "DUPLICATE_CASE", "DUPLICATE_VERTEX",
              "DANGLING_EDGE", "INVALID_ASSIGN"}
critical_notAtom(error) == error \notin Tolerated \cup {"INVALID_ATOM"}
critical(error) == error \notin Tolerated

error_handle(ctx, error) ==
  [ctx EXCEPT !.errors = Append(@, error), !.critical = @ \/ critical(error)]

error_check(ctx, tok, expect, failtype) ==
  CASE tok.type = "ERROR" -> error_handle(ctx, "INVALID_TOKEN")
    [] tok.type = "EOF" -> error_handle(ctx, "EARLY_EOF")
    [] tok.type \notin {"ERROR", "EOF", expect} -> error_handle(ctx, failtype)
    [] OTHER -> ctx

-----------------------------------------------------------------------------
(* Binding powers, in tenths; a token that is no operator has less than 0. *)
binding_flat(type) ==
  CASE type \in {"ADD", "SUB", "MUL", "DIV"} -> [lhs |-> 51, rhs |-> 50]
    [] type = "COLON" -> [lhs |-> 71, rhs |-> 70]
    [] type = "LOGNOT" -> [lhs |-> 0, rhs |-> 80]
    [] OTHER -> [lhs |-> -1, rhs |-> -1]
binding(type) ==
  CASE type = "LOGOR" -> [lhs |-> 11, rhs |-> 10]
    [] type = "LOGAND" -> [lhs |-> 21, rhs |-> 20]
    [] type \in {"EQU", "NEQ"} -> [lhs |-> 31, rhs |-> 30]
    [] type \in {"LTH", "GTH", "LEQ", "GEQ"} -> [lhs |-> 41, rhs |-> 40]
    [] type \in {"ADD", "SUB"} -> [lhs |-> 51, rhs |-> 50]
    [] type \in {"MUL", "DIV"} -> [lhs |-> 61, rhs |-> 60]
    [] type = "COLON" -> [lhs |-> 71, rhs |-> 70]
    [] type = "LOGNOT" -> [lhs |-> 0, rhs |-> 80]
    [] OTHER -> [lhs |-> -1, rhs |-> -1]

opcode(type) ==
  CASE type = "LOGOR" -> iLOR [] type = "LOGAND" -> iLAND [] type = "LOGNOT" -> iLNOT
    [] type = "EQU" -> iEQU [] type = "NEQ" -> iNEQ [] type = "LTH" -> iLTH
    [] type = "GTH" -> iGTH [] type = "LEQ" -> iLEQ [] type = "GEQ" -> iGEQ
    [] type = "ADD" -> iADD [] type = "SUB" -> iSUB [] type = "MUL" -> iMUL
    [] type = "DIV" -> iDIV [] type = "COLON" -> iSTORE [] OTHER -> iEOF

Ident(name) == [tag |-> "IDENT", ident |-> name]
Imm(n) == [tag |-> "IMM", imm |-> n]
Not(e) == [tag |-> "OP", op |-> iLNOT, lhs |-> e]
Op(type, l, r) == [tag |-> "OP", op |-> opcode(type), lhs |-> l, rhs |-> r]

-----------------------------------------------------------------------------
(* quosi_internal_parse_value *)
parse_value(ctx) ==
  LET n == TPEEK(ctx)
      Returns(e) == [ctx |-> TNEXT(ctx), result |-> e]
  IN CASE n.type = "IDENT" -> Returns(Ident(n.value))
       [] n.type = "KEYWORD" /\ n.value = "true" -> Returns(Imm(1))
       [] n.type = "KEYWORD" /\ n.value = "false" -> Returns(Imm(0))
       [] n.type = "NUMBER" ->
            Returns(Imm(FoldLeft(LAMBDA imm, digit : (10 * imm + digit) % WORD, 0, n.value)))
       [] OTHER -> [ctx |-> error_handle(TNEXT(ctx), "INVALID_ATOM"), result |-> NoExpr]

RECURSIVE parse_expr_impl(_, _, _), parse_operators(_, _, _)

(* What an expression begins with.  l counts the parentheses around it. *)
parse_expr_impl(ctx, minbp, l) ==
  LET n == TPEEK(ctx)
      Continue(e) == IF e.ctx.critical THEN e ELSE parse_operators(e, minbp, l)
  IN CASE n.type = "OPENPAREN" ->
            LET inner == parse_expr_impl(TNEXT(ctx), 0, l + 1)
                closed == [inner EXCEPT !.ctx = error_check(TNEXT(@), TPEEK(@),
                                                            "CLOSEPAREN", "UNCLOSED_PAREN")]
            IN IF inner.ctx.critical THEN inner
               ELSE IF l = 0 THEN closed ELSE Continue(closed)
       [] n.type = "LOGNOT" ->
            LET operand == parse_expr_impl(TNEXT(ctx), 0, l)
            IN Continue([operand EXCEPT !.result = Not(@)])
       [] n.type \in {"IDENT", "KEYWORD", "NUMBER"} -> Continue(parse_value(ctx))
       [] OTHER -> [ctx |-> error_handle(ctx, "INVALID_ATOM"), result |-> NoExpr]

(* The operators after it, as long as they bind as strongly as minbp. *)
parse_operators(left, minbp, l) ==
  LET op == TPEEK(left.ctx)
      bindstr == binding(op.type)
      right == parse_expr_impl(TNEXT(left.ctx), bindstr.rhs, l)
      node == [right EXCEPT !.result = Op(op.type, left.result, @)]
      assign == IF op.type = "COLON" /\ left.result.tag # "IDENT"
                THEN [node EXCEPT !.ctx = error_handle(@, "INVALID_ASSIGN")] ELSE node
  IN CASE op.type \in {"COMMA", "CLOSEPAREN"} -> left
       [] op.type \notin {"COMMA", "CLOSEPAREN"} /\ bindstr.lhs < 0 ->
            [left EXCEPT !.ctx = error_handle(@, "INVALID_OPERATOR")]
       [] 0 <= bindstr.lhs /\ bindstr.lhs < minbp -> left
       [] OTHER -> IF right.ctx.critical THEN right ELSE parse_operators(assign, minbp, l)

quosi_internal_parse_expr(ctx) == parse_expr_impl(ctx, 0, 0)

-----------------------------------------------------------------------------
(* The language of expressions, as a grammar.  Every operator associates   *)
(* to the right; ! takes everything to its right, whatever operator stands *)
(* there.                                                                  *)

Level(type) ==
  CASE type = "LOGOR" -> 1 [] type = "LOGAND" -> 2 [] type \in {"EQU", "NEQ"} -> 3
    [] type \in {"LTH", "GTH", "LEQ", "GEQ"} -> 4 [] type \in {"ADD", "SUB"} -> 5
    [] type \in {"MUL", "DIV"} -> 6 [] type = "COLON" -> 7 [] OTHER -> 0

RECURSIVE Value(_)
Value(digits) ==
  IF digits = <<>> THEN 0 ELSE 10 * Value(Front(digits)) + Last(digits)

Atom(t) ==
  CASE t.type = "IDENT" -> {Ident(t.value)}
    [] t.type = "NUMBER" -> {Imm(Value(t.value) % WORD)}
    [] t.type = "KEYWORD" /\ t.value = "true" -> {Imm(1)}
    [] t.type = "KEYWORD" /\ t.value = "false" -> {Imm(0)}
    [] OTHER -> {}

(* The expressions s may be read as, whose outermost operator has at least *)
(* the given level; left says that an operator follows, which a ! would    *)
(* swallow.                                                                *)
RECURSIVE Readings(_, _, _)
Readings(s, level, left) ==
  LET Inner == SubSeq(s, 2, Len(s) - 1)
      Binaries == {i \in 2 .. Len(s) - 1 : Level(s[i].type) >= level}
  IN UNION {
       IF Len(s) = 1 THEN Atom(s[1]) ELSE {},
       IF Len(s) > 2 /\ s[1].type = "OPENPAREN" /\ Last(s).type = "CLOSEPAREN"
       THEN Readings(Inner, 1, FALSE) ELSE {},
       IF Len(s) > 1 /\ s[1].type = "LOGNOT" /\ ~ left
       THEN {Not(e) : e \in Readings(Tail(s), 1, FALSE)} ELSE {},
       UNION {{Op(s[i].type, l, r) :
                 l \in Readings(SubSeq(s, 1, i - 1), Level(s[i].type) + 1, TRUE),
                 r \in Readings(SubSeq(s, i + 1, Len(s)), Level(s[i].type), left)}
              : i \in Binaries}}

(* Every assignment in an expression is to a variable. *)
RECURSIVE Assignable(_)
Assignable(e) ==
  e.tag = "OP" => /\ Assignable(e.lhs)
                  /\ e.op # iLNOT => Assignable(e.rhs)
                  /\ e.op = iSTORE => e.lhs.tag = "IDENT"
=============================================================================
