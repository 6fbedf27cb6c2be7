-------------------------------- MODULE Parser --------------------------------
(***************************************************************************)
(* The parser (src/parse.c): from tokens to the tree that gen.c compiles.  *)
(* Trees are as in Codegen, tokens and ctx as in Expression.               *)
(*                                                                         *)
(* The C code returns from a function when it raises a critical error      *)
(* (EH_CHECK, EH_FAIL), and its caller in turn if it asks whether there    *)
(* was one (EH_PROP).  ctx.stop says that the function has returned; at a  *)
(* call, Prop does what EH_PROP does and Resume is for callers that do not *)
(* ask.  Loops are functions of the ctx at their head.  ctx.hung is a loop *)
(* that changes nothing any more: nothing is parsed after it.              *)
(*                                                                         *)
(* A vertex of which nothing was filled in is that of fresh arena pages,   *)
(* all zeros: quosi_file_compile_from_src parses into an arena of its own. *)
(*                                                                         *)
(* Definitions named X_y are X with the defect y.  The specification does  *)
(* not use them: with one in place of X, TLC finds a property violated.    *)
(***************************************************************************)
EXTENDS Expression
LOCAL INSTANCE SequencesExt

Kw(word) == [type |-> "KEYWORD", value |-> word]
Fresh(tokens) ==
  [tokens |-> tokens, errors |-> <<>>, critical |-> FALSE, stop |-> FALSE, hung |-> FALSE]

Done(ctx, result) == [ctx |-> ctx, result |-> result]
Prop(r) == [r EXCEPT !.ctx.stop = r.ctx.critical \/ r.ctx.hung]
Resume(r) == [r EXCEPT !.ctx.stop = r.ctx.hung]
(* EH_PROP in a loop that changes nothing: it returns, or never does. *)
stuck(ctx) == [ctx EXCEPT !.stop = TRUE, !.hung = ~ ctx.critical]

(* EH_FAIL and EH_CHECK *)
fail(ctx, error) == [error_handle(ctx, error) EXCEPT !.stop = critical(error)]
check(ctx, tok, type, error) ==
  LET checked == error_check(ctx, tok, type, error)
  IN [checked EXCEPT !.stop = checked.errors # ctx.errors /\ critical(Last(checked.errors))]

(* Tokens of these types, or keywords, are taken one by one until one is   *)
(* not what it has to be.                                                  *)
Take(ctx, expected, error) ==
  LET One(c, e) ==
        IF c.stop THEN c
        ELSE LET n == TPEEK(c)
                 typed == check(TNEXT(c), n, e.type, error)
             IN IF e.type = "KEYWORD" /\ ~ typed.stop /\ n.value # e.value
                THEN fail(typed, error) ELSE typed
  IN FoldLeft(One, ctx, expected)

(* What a switch on the next token does: one of these types, or the error. *)
Among(ctx, types, error) ==
  IF TPEEK(ctx).type \in types THEN TNEXT(ctx) ELSE fail(TNEXT(ctx), error)

Peek(ctx, type) == check(ctx, TPEEK(ctx), type, "UNKNOWN")
IsWord(tok, words) == tok.type = "KEYWORD" /\ tok.value \in words
Unless(r, next) == IF r.ctx.stop THEN r ELSE next

-----------------------------------------------------------------------------
(* Effects *)

EffectOp ==
  [ADDEQ |-> "ADD", SUBEQ |-> "SUB", MULEQ |-> "MUL", DIVEQ |-> "DIV", SETEQ |-> "SET"]

(* The loop of parse_effect. *)
RECURSIVE parse_effects(_, _)
parse_effects(ctx, effects) ==
  LET n == TPEEK(ctx)
      name == Done(check(TNEXT(ctx), n, "IDENT", "INVALID_ASSIGN"), effects)
      op == TPEEK(name.ctx).type
      rhs == Prop(quosi_internal_parse_expr(TNEXT(name.ctx)))
      assigned == [op |-> EffectOp[op], lhs |-> n.value, rhs |-> rhs.result]
      After(c, effect, error) ==
        LET all == Append(effects, effect)
            next == Done(Among(c, {"COMMA", "CLOSEPAREN"}, error), all)
        IN IF TPEEK(c).type = "COMMA" THEN parse_effects(next.ctx, all) ELSE next
  IN IF n.type = "CLOSEPAREN" THEN Done(TNEXT(ctx), effects)
     ELSE Unless(name,
            IF op \in DOMAIN EffectOp
            THEN Unless(rhs, After(rhs.ctx, assigned, "UNCLOSED_PAREN"))
            ELSE After(name.ctx, [op |-> "EVENT", lhs |-> n.value], "INVALID_OPERATOR"))

parse_effect(ctx) ==
  LET open == Done(Take(ctx, <<Tok("OPENPAREN")>>, "UNKNOWN"), <<>>)
  IN Unless(open, parse_effects(open.ctx, <<>>))

(* => IDENT, or :: (EFFECTS) => IDENT *)
parse_next(ctx) ==
  LET join == TPEEK(ctx).type = "JOIN"
      effects == IF join THEN Prop(parse_effect(TNEXT(ctx))) ELSE Done(ctx, <<>>)
      arrow == IF join THEN Take(effects.ctx, <<Tok("ARROW")>>, "UNKNOWN")
               ELSE Among(ctx, {"ARROW"}, "UNKNOWN")
  IN Done(Take(arrow, <<Tok("IDENT")>>, "UNKNOWN"),
          [effects |-> effects.result, next |-> TPEEK(arrow).value])

-----------------------------------------------------------------------------
(* Conditions *)

(* (EXPR) and a keyword: "then", or "with" *)
parse_condition(ctx, word) ==
  LET open == Done(Peek(ctx, "OPENPAREN"), NoExpr)
      e == Prop(quosi_internal_parse_expr(open.ctx))
  IN Unless(open, Unless(e, [e EXCEPT !.ctx = Take(@, <<Kw(word)>>, "UNKNOWN")]))

(* The head of a match's arm: (VALUE), or (_), which has no value; and a   *)
(* look at what follows.                                                   *)
parse_case_twice(ctx, seen, follows) ==
  LET n == TNEXT(ctx)
      value == IF TPEEK(n).type = "CATCHALL" THEN Done(TNEXT(n), NoExpr)
               ELSE Resume(parse_value(n))
  IN [value EXCEPT !.ctx = Peek(Take(@, <<Tok("CLOSEPAREN")>>, "UNCLOSED_PAREN"), follows)]
parse_case(ctx, seen, follows) ==
  LET n == TNEXT(ctx)
      value == IF TPEEK(n).type # "CATCHALL" THEN Resume(parse_value(n))
               ELSE Done(IF seen THEN fail(TNEXT(n), "DUPLICATE_CASE") ELSE TNEXT(n), NoExpr)
      closed == [value EXCEPT !.ctx = Take(@, <<Tok("CLOSEPAREN")>>, "UNCLOSED_PAREN")]
  IN Unless(closed, [closed EXCEPT !.ctx = Peek(@, follows)])

(* Whether an else is followed by an if.  The value alone is looked at: a  *)
(* string that reads "if" is taken for the keyword.                        *)
AtIf(ctx) ==
  LET n == TPEEK(ctx)
  IN IsWord(n, {"if"}) \/ (n.type = "STRLIT" /\ n.value = <<"i", "f">>)

-----------------------------------------------------------------------------
(* Edges *)

parse_edge_plain(ctx) ==
  LET to == parse_next(TNEXT(ctx))
  IN Done(to.ctx, [line |-> TPEEK(ctx).value, effects |-> <<>>, next |-> to.result.next])
parse_edge(ctx) ==
  LET line == Done(Take(ctx, <<Tok("STRLIT")>>, "UNKNOWN"), NoExpr)
      to == parse_next(line.ctx)
  IN Unless(line, Done(to.ctx, [line |-> TPEEK(ctx).value, effects |-> to.result.effects,
                                next |-> to.result.next]))

RECURSIVE parse_edge_if_body(_, _, _), parse_edge_if(_, _), parse_edge_match(_, _)

(* The blocks of a choice, up to the ) of the whole choice (top), or to    *)
(* the else or end of an if.  Edges in succession are one block.           *)
parse_edge_if_body(ctx, blocks, top) ==
  LET n == TPEEK(ctx)
      Block(r) == LET b == Prop(r) IN [b EXCEPT !.result = Append(blocks, @)]
      edge == Prop(parse_edge(ctx))
      last_was_edge == blocks # <<>> /\ Last(blocks).tag = "T"
      edges == [edge EXCEPT !.result =
                  IF last_was_edge THEN [blocks EXCEPT ![Len(blocks)].edges = Append(@, edge.result)]
                  ELSE Append(blocks, [tag |-> "T", edges |-> <<edge.result>>])]
      block == CASE n.type = "STRLIT" -> edges
                 [] IsWord(n, {"match"}) ->
                      LET expr == parse_condition(TNEXT(ctx), "with")
                      IN Block(Unless(expr, parse_edge_match(expr.ctx,
                           [tag |-> "MATCH", expr |-> expr.result, arms |-> <<>>,
                            catchall |-> <<>>])))
                 [] OTHER -> Block(parse_edge_if(TNEXT(ctx), <<>>))
      Ends(here) == Done(IF here THEN ctx ELSE fail(ctx, "UNKNOWN"), blocks)
  IN CASE n.type = "STRLIT" \/ IsWord(n, {"match", "if"}) ->
            Unless(block, parse_edge_if_body(block.ctx, block.result, top))
       [] IsWord(n, {"else", "end"}) -> Ends(~ top)
       [] n.type = "CLOSEPAREN" -> Ends(top)
       [] n.type = "KEYWORD" /\ ~ IsWord(n, {"match", "if", "else", "end"}) ->
            Done(stuck(ctx), blocks)
       [] OTHER -> Done(fail(ctx, IF n.type = "EOF" /\ blocks = <<>> THEN "EARLY_EOF"
                                  ELSE "BAD_EDGE_BLOCK"), blocks)

(* The loop of parse_edge_if: a condition, a body, and what comes after. *)
parse_edge_if(ctx, blocks) ==
  LET cond == parse_condition(ctx, "then")
      body == Prop(parse_edge_if_body(cond.ctx, <<>>, FALSE))
      n == TPEEK(body.ctx)
      word == check(TNEXT(body.ctx), n, "KEYWORD", "UNKNOWN")
      all == Append(blocks, [cond |-> cond.result, body |-> body.result])
      catchall == Prop(parse_edge_if_body(word, <<>>, FALSE))
      If(c, edges) == Done(c, [tag |-> "IFELSE", blocks |-> all, catchall |-> edges])
      end == Take(catchall.ctx, <<Kw("end")>>, "UNCLOSED_CONDITIONAL")
  IN Unless(cond, Unless(body, Unless(If(word, <<>>),
       CASE n.value = "else" /\ AtIf(word) -> parse_edge_if(TNEXT(word), all)
         [] n.value = "else" /\ ~ AtIf(word) -> If(end, catchall.result)
         [] n.value = "end" -> If(word, <<>>)
         [] OTHER -> parse_edge_if(word, all))))

(* The loop of parse_edge_match over its arms; m is the match so far. *)
parse_edge_match(ctx, m) ==
  LET n == TPEEK(ctx)
      case == parse_case(ctx, m.catchall # <<>>, "STRLIT")
      edge == Prop(parse_edge(case.ctx))
      longer == IF case.result = NoExpr THEN [m EXCEPT !.catchall = <<edge.result>>]
                ELSE [m EXCEPT !.arms = Append(@, [cond |-> case.result, body |-> edge.result])]
  IN CASE n.type = "KEYWORD" -> Done(Take(ctx, <<Kw("end")>>, "UNCLOSED_CONDITIONAL"), m)
       [] n.type = "OPENPAREN" ->
            Unless(case, Unless(edge, parse_edge_match(edge.ctx, longer)))
       [] OTHER -> Done(fail(ctx, IF n.type = "EOF" THEN "EARLY_EOF" ELSE "UNKNOWN"), m)

-----------------------------------------------------------------------------
(* Vertices *)

(* The strings of < IDENT : STRING, ... > *)
RECURSIVE parse_strings(_, _)
parse_strings(ctx, lines) ==
  LET n == TPEEK(ctx)
      string == Take(ctx, <<Tok("STRLIT")>>, "UNKNOWN")
      all == Append(lines, n.value)
      next == Among(string, {"COMMA", "GTH"}, "UNCLOSED_ANGLE")
  IN IF n.type = "GTH" THEN Done(TNEXT(ctx), lines)
     ELSE IF string.stop THEN Done(string, lines)
     ELSE IF TPEEK(string).type = "COMMA" THEN parse_strings(next, all) ELSE Done(next, all)

RECURSIVE parse_lineset(_, _)
parse_lineset(ctx, lineset) ==
  LET head == Done(Take(TNEXT(ctx), <<Tok("IDENT"), Tok("COLON")>>, "UNKNOWN"), lineset)
      lines == parse_strings(head.ctx, <<>>)
  IN IF TPEEK(ctx).type # "LTH" THEN Done(ctx, lineset)
     ELSE Unless(head, Unless(lines, parse_lineset(lines.ctx,
            Append(lineset, [speaker |-> TPEEK(TNEXT(ctx)).value, lines |-> lines.result]))))

parse_vert(ctx) ==
  LET said == parse_lineset(ctx, <<>>)
      n == TPEEK(said.ctx)
      to == parse_next(said.ctx)
      choice == Prop(parse_edge_if_body(TNEXT(said.ctx), <<>>, TRUE))
  IN Unless(said,
       IF n.type = "OPENPAREN"
       THEN Done(Take(choice.ctx, <<Tok("CLOSEPAREN")>>, "UNCLOSED_PAREN"),
                 [type |-> "CHOICE", lineset |-> said.result, edges |-> choice.result])
       ELSE Done(to.ctx, [type |-> "JUMP", lineset |-> said.result,
                          effects |-> to.result.effects, next |-> to.result.next]))

Zeros == [type |-> "CHOICE", lineset |-> <<>>, edges |-> <<>>]
Vertex(v) == [tag |-> "T", vertex |-> v]

RECURSIVE parse_vert_if_body(_), parse_vert_if(_, _), parse_vert_match(_, _, _)

(* A vertex, or a match or if that leads to one.  Before another keyword   *)
(* nothing is parsed and nothing is wrong.                                 *)
parse_vert_if_body(ctx) ==
  LET n == TPEEK(ctx)
      expr == parse_condition(TNEXT(ctx), "with")
      vertex == parse_vert(ctx)
  IN CASE IsWord(n, {"match"}) ->
            Unless(expr, parse_vert_match(expr.ctx,
              [tag |-> "MATCH", expr |-> expr.result, arms |-> <<>>, catchall |-> Zeros], FALSE))
       [] IsWord(n, {"if"}) -> parse_vert_if(TNEXT(ctx), <<>>)
       [] n.type = "KEYWORD" /\ ~ IsWord(n, {"match", "if"}) -> Done(ctx, Vertex(Zeros))
       [] n.type = "LTH" -> [vertex EXCEPT !.result = Vertex(@)]
       [] OTHER -> Done(fail(ctx, "BAD_VERTEX_BLOCK"), Vertex(Zeros))

(* The loop of parse_vert_if *)
parse_vert_if(ctx, blocks) ==
  LET cond == parse_condition(ctx, "then")
      body == Prop(parse_vert_if_body(cond.ctx))
      n == TPEEK(body.ctx)
      word == check(TNEXT(body.ctx), n, "KEYWORD", "UNKNOWN")
      all == Append(blocks, [cond |-> cond.result, data |-> body.result])
      catchall == Resume(parse_vert_if_body(word))
      If(c, vertex) == Done(c, [tag |-> "IFELSE", blocks |-> all, catchall |-> vertex])
      end == Take(catchall.ctx, <<Kw("end")>>, "UNCLOSED_CONDITIONAL")
  IN Unless(cond, Unless(body, Unless(If(word, Vertex(Zeros)),
       CASE n.value = "else" /\ AtIf(word) -> parse_vert_if(TNEXT(word), all)
         [] n.value = "else" /\ ~ AtIf(word) -> If(end, catchall.result)
         [] n.value = "end" -> If(fail(word, "NO_ELSE"), Vertex(Zeros))
         [] OTHER -> parse_vert_if(word, all))))

(* The loop of parse_vert_match over its arms *)
parse_vert_match(ctx, m, has_catchall) ==
  LET n == TPEEK(ctx)
      end == Take(ctx, <<Kw("end")>>, "UNCLOSED_CONDITIONAL")
      case == parse_case(ctx, has_catchall, "LTH")
      vertex == Prop(parse_vert(case.ctx))
      catchall == case.result = NoExpr
      longer == IF catchall THEN [m EXCEPT !.catchall = vertex.result]
                ELSE [m EXCEPT !.arms = Append(@, [cond |-> case.result, body |-> vertex.result])]
  IN CASE n.type = "KEYWORD" ->
            Done(IF end.stop \/ has_catchall THEN end ELSE fail(end, "NO_CATCHALL"), m)
       [] n.type = "OPENPAREN" ->
            Unless(case, Unless(vertex,
              parse_vert_match(vertex.ctx, longer, has_catchall \/ catchall)))
       [] OTHER -> Done(fail(ctx, IF n.type = "EOF" THEN "EARLY_EOF" ELSE "BAD_MATCH_ARM"), m)

-----------------------------------------------------------------------------
(* Modules *)

RECURSIVE parse_graph(_, _)
parse_graph(ctx, vertices) ==
  LET n == TPEEK(ctx)
      rename == Take(TNEXT(ctx), <<Tok("IDENT"), Tok("ARROW"), Tok("IDENT")>>, "BAD_RENAME")
      name == Take(ctx, <<Tok("IDENT")>>, "BAD_VERTEX_BEGIN")
      head == Done(Take(name, <<Tok("SETEQ")>>, "MISPLACED_TOKEN"), vertices)
      body == Prop(parse_vert_if_body(head.ctx))
      all == Append(vertices, [name |-> n.value, data |-> body.result])
  IN CASE n.type = "EOF" -> Done(fail(ctx, "EARLY_EOF"), vertices)
       [] IsWord(n, {"endmod"}) -> Done(TNEXT(ctx), vertices)
       [] IsWord(n, {"rename"}) -> Unless(Done(rename, vertices), parse_graph(rename, vertices))
       [] n.type = "KEYWORD" /\ ~ IsWord(n, {"endmod", "rename"}) ->
            Done(fail(ctx, "BAD_VERTEX_BEGIN"), vertices)
       [] OTHER -> Unless(head, Unless(Done(body.ctx, all), parse_graph(body.ctx, all)))

RECURSIVE parse_modules(_, _)
parse_modules(ctx, modules) ==
  LET head == Done(Take(ctx, <<Kw("module"), Tok("IDENT")>>, "BAD_GRAPH_BEGIN"), modules)
      graph == Prop(parse_graph(head.ctx, <<>>))
      all == Append(modules, [name |-> TPEEK(TNEXT(ctx)).value, vertices |-> graph.result])
  IN IF TPEEK(ctx).type = "EOF" THEN Done(ctx, modules)
     ELSE Unless(head, Unless(Done(graph.ctx, all), parse_modules(graph.ctx, all)))

quosi_ast_parse_from_src(tokens) == parse_modules(Fresh(tokens), <<>>)
=============================================================================
