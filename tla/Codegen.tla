------------------------------- MODULE Codegen -------------------------------
(***************************************************************************)
(* The code generator (src/gen.c): from the tree of a source file to the   *)
(* code of its modules and their shared pool of strings.                   *)
(*                                                                         *)
(* The tree (include/quosi/ast.h) is a sequence of graphs, each a record   *)
(* of its name and its vertices; a tagged union of the C code is a record  *)
(* with the same tag, a null vector the empty sequence.  A string is a     *)
(* sequence of characters.  ctx is the C code's GenContext: every function *)
(* takes it and returns what it has become.                                *)
(*                                                                         *)
(* Definitions named X_y are X with the defect y.  The specification does  *)
(* not use them: with one in place of X, TLC finds a property violated.    *)
(***************************************************************************)
EXTENDS Bytecode

CONSTANTS
  data_lkp,    \* the host's quosiSymbolCtx: a key for each variable
  speaker_lkp  \* ... and an id for each speaker

NUL == "NUL"

(* The loops of gen.c: op for each member of seq in order, FoldLeft of the *)
(* community modules.  Written so that TLC computes what a turn is given   *)
(* before the turn itself, and a compiled file once and for all.           *)
Each(op(_, _), ctx, seq) ==
  LET turn[n \in 0 .. Len(seq)] ==
        IF n = 0 THEN ctx
        ELSE CHOOSE r \in {op(done, seq[n]) : done \in {turn[n - 1]}} : TRUE
  IN turn[Len(seq)]

-----------------------------------------------------------------------------
(* Emitting *)

Here(ctx) == Len(ctx.result)
emit(ctx, cells) == [ctx EXCEPT !.result = @ \o cells]

(* An operand to be filled in once all labels, or all strings, are placed. *)
emit_jump(ctx, label) ==
  emit([ctx EXCEPT !.jumps = Append(@, [referenced_at |-> Here(ctx), label |-> label])],
       <<0>>)
emit_string(ctx, str) ==
  emit([ctx EXCEPT !.strings = Append(@, [referenced_at |-> Here(ctx), value |-> str])],
       <<0>>)

(* Labels are numbered from 0, the first ones for the graph's vertices.    *)
NextLabel(ctx) == Len(ctx.labels)
gen_label(ctx) == [ctx EXCEPT !.labels = Append(@, 0)]
set_label(ctx, label) == [ctx EXCEPT !.labels[label + 1] = Here(ctx)]

(* The label of the vertex an edge names: the first of that name, and the  *)
(* first of all when there is none.                                        *)
resolve_edge(ctx, name) ==
  IF name = "EXIT" THEN EXIT_LABEL
  ELSE LET found == {i \in DOMAIN ctx.vertices : ctx.vertices[i].name = name}
       IN IF found = {} THEN 0 ELSE (CHOOSE i \in found : \A j \in found : i <= j) - 1

-----------------------------------------------------------------------------
(* Expressions and effects *)

RECURSIVE compile_expr(_, _, _)
compile_expr(ctx, e, ieq) ==
  CASE e.tag = "IDENT" -> emit(ctx, <<IF ieq THEN iIEQK ELSE iLOAD, data_lkp[e.ident]>>)
    [] e.tag = "IMM"   -> emit(ctx, <<IF ieq THEN iIEQV ELSE iPUSH, e.imm>>)
    [] e.tag = "OP" /\ e.op = iLNOT ->
         emit(compile_expr(ctx, e.lhs, FALSE), <<iLNOT>>)
    [] e.tag = "OP" /\ e.op = iSTORE ->
         emit(compile_expr(ctx, e.rhs, FALSE), <<iDUP, iSTORE, data_lkp[e.lhs.ident]>>)
    [] OTHER ->
         emit(compile_expr(compile_expr(ctx, e.lhs, FALSE), e.rhs, FALSE), <<e.op>>)

Arithmetic(op) ==
  CASE op = "ADD" -> <<iADD>> [] op = "SUB" -> <<iSUB>>
    [] op = "MUL" -> <<iMUL>> [] op = "DIV" -> <<iDIV>> [] OTHER -> <<>>

compile_effect_late(ctx, e) ==
  IF e.op = "EVENT" THEN emit_string(emit(ctx, <<iEVENT>>), e.lhs)
  ELSE LET rhs == compile_expr(ctx, e.rhs, FALSE)
           old == IF e.op = "SET" THEN rhs ELSE emit(rhs, <<iLOAD, data_lkp[e.lhs]>>)
       IN emit(old, Arithmetic(e.op) \o <<iSTORE, data_lkp[e.lhs]>>)
compile_effect(ctx, e) ==
  IF e.op = "EVENT"
  THEN emit_string(emit(ctx, <<iEVENT>>), e.lhs)
  ELSE LET old == IF e.op = "SET" THEN ctx
                  ELSE emit(ctx, <<iLOAD, data_lkp[e.lhs]>>)
       IN emit(compile_expr(old, e.rhs, FALSE),
               Arithmetic(e.op) \o <<iSTORE, data_lkp[e.lhs]>>)

compile_effects(ctx, effects) == Each(compile_effect, ctx, effects)

-----------------------------------------------------------------------------
(* Edges *)

(* An edge without effects goes to its vertex, another to its effects. *)
compile_edge(ctx, e) ==
  LET offered == emit(emit_string(emit(ctx, <<iPROP>>), e.line), <<ctx.edge_index % BYTE>>)
      label   == IF e.effects = <<>> THEN resolve_edge(ctx, e.next) ELSE NextLabel(ctx)
      placed  == IF e.effects = <<>> THEN offered ELSE gen_label(offered)
  IN [placed EXCEPT !.edge_index = @ + 1,
                    !.edges = Append(@, [edge |-> e, label |-> label])]

(* A condition, and the jump past its body when it fails. *)
Guarded(ctx, cond, ieq) ==
  emit_jump(emit(compile_expr(gen_label(ctx), cond, ieq), <<iJZ>>), NextLabel(ctx))

(* The matched value, which every comparison of a match leaves in place.   *)
DropMatched(ctx) == emit(ctx, <<iPOP>>)

RECURSIVE compile_eblock(_, _)
compile_eblock(ctx, b) ==
  LET end_lbl == NextLabel(ctx)
      ToEnd(c) == emit_jump(emit(c, <<iJUMP>>), end_lbl)
      MatchArm(c, arm) ==
        set_label(ToEnd(compile_edge(Guarded(c, arm.cond, TRUE), arm.body)),
                  NextLabel(c))
      Block(c, i) ==
        LET body == Each(compile_eblock, Guarded(c, b.blocks[i].cond, FALSE),
                             b.blocks[i].body)
            \* no jump from the last block when it already ends at end_lbl
            tail == IF b.catchall # <<>> \/ i < Len(b.blocks) THEN ToEnd(body) ELSE body
        IN set_label(tail, NextLabel(c))
  IN CASE b.tag = "T" -> Each(compile_edge, ctx, b.edges)
       [] b.tag = "MATCH" ->
            LET arms == Each(MatchArm, compile_expr(gen_label(ctx), b.expr, FALSE),
                                 b.arms)
            IN DropMatched(set_label(Each(compile_edge, arms, b.catchall), end_lbl))
       [] b.tag = "IFELSE" ->
            LET blocks == Each(Block, gen_label(ctx), [i \in DOMAIN b.blocks |-> i])
            IN set_label(Each(compile_eblock, blocks, b.catchall), end_lbl)

-----------------------------------------------------------------------------
(* Vertices *)

compile_lines(ctx, lines) ==
  Each(LAMBDA c, line :
             emit_string(emit(c, <<iLINE, speaker_lkp[lines.speaker]>>), line),
           ctx, lines.lines)

compile_effectful_jump(ctx, effects, next) ==
  emit_jump(emit(compile_effects(ctx, effects), <<iJUMP>>), resolve_edge(ctx, next))

compile_lineset(ctx, v) == Each(compile_lines, ctx, v.lineset)

compile_offers(ctx, blocks) ==
  Each(compile_eblock, [ctx EXCEPT !.edge_index = 0, !.edges = <<>>], blocks)

compile_table(ctx) ==
  Each(LAMBDA c, target : emit_jump(c, target.label), emit(ctx, <<iPICK, iSWITCH>>),
       ctx.edges)

(* The effects of the edges that have some, each at its edge's label. *)
compile_targets(ctx) ==
  LET Target(c, target) ==
        IF target.edge.effects = <<>> THEN c
        ELSE compile_effectful_jump(set_label(c, target.label),
                                    target.edge.effects, target.edge.next)
  IN Each(Target, ctx, ctx.edges)

compile_vertex(ctx, v) ==
  IF v.type = "JUMP"
  THEN compile_effectful_jump(compile_lineset(ctx, v), v.effects, v.next)
  ELSE compile_targets(compile_table(compile_offers(compile_lineset(ctx, v), v.edges)))

RECURSIVE compile_vblock(_, _)
compile_vblock(ctx, b) ==
  LET MatchArm(c, arm) ==
        set_label(compile_vertex(DropMatched(Guarded(c, arm.cond, TRUE)), arm.body),
                  NextLabel(c))
      Block(c, block) ==
        set_label(compile_vblock(Guarded(c, block.cond, FALSE), block.data), NextLabel(c))
  IN CASE b.tag = "T" -> compile_vertex(ctx, b.vertex)
       [] b.tag = "MATCH" ->
            compile_vertex(DropMatched(Each(MatchArm, compile_expr(ctx, b.expr, FALSE),
                                            b.arms)),
                           b.catchall)
       [] b.tag = "IFELSE" -> compile_vblock(Each(Block, ctx, b.blocks), b.catchall)

-----------------------------------------------------------------------------
(* A module's code, and the file's strings *)

NewContext(graph) ==
  [vertices |-> graph.vertices, result |-> <<>>, labels |-> <<>>, jumps |-> <<>>,
   edges |-> <<>>, strings |-> <<>>, edge_index |-> 0, entry |-> EXIT_LABEL]

(* The first labels are reserved for the vertices. *)
compile_graph(graph) ==
  LET Place(c, i) ==
        [set_label(c, i - 1) EXCEPT
           !.entry = IF graph.vertices[i].name = "START" THEN Here(c) ELSE @]
  IN Each(LAMBDA c, i : compile_vblock(Place(c, i), graph.vertices[i].data),
          Each(LAMBDA c, v : gen_label(c), NewContext(graph), graph.vertices),
          [i \in DOMAIN graph.vertices |-> i])

(* The cell at address a, once the operand that refers there is known.     *)
Patched(code, a, targets, Operand(_)) ==
  LET refs == {i \in DOMAIN targets : targets[i].referenced_at + 1 = a}
  IN IF refs = {} THEN code[a] ELSE Operand(CHOOSE i \in refs : TRUE)

(* Jump patching *)
patch_jumps(ctx) ==
  LET Label(i) == LET l == ctx.jumps[i].label
                  IN IF l = EXIT_LABEL THEN EXIT_LABEL ELSE ctx.labels[l + 1]
  IN [ctx EXCEPT !.result = [a \in DOMAIN @ |-> Patched(@, a, ctx.jumps, Label)]]

(* A backslash and the character after it: a known escape is replaced by   *)
(* what it means, another one is dropped.                                  *)
unescape(str) ==
  LET Meaning(c) == CASE c = "n" -> <<"LF">> [] c \in {"\"", "\\"} -> <<c>> [] OTHER -> <<>>
      Char(r, c) ==
        IF r.esc THEN [esc |-> FALSE, out |-> r.out \o Meaning(c)]
        ELSE IF c = "\\" THEN [r EXCEPT !.esc = TRUE]
        ELSE [r EXCEPT !.out = Append(@, c)]
  IN Each(Char, [esc |-> FALSE, out |-> <<>>], str).out

(* String patching: every string is appended to the pool of all modules. *)
patch_strings(ctx, strs) ==
  LET Pool(i) == Each(LAMBDA pool, str : Append(pool \o unescape(str.value), NUL),
                      strs, SubSeq(ctx.strings, 1, i))
      Pos(i) == Len(Pool(i - 1))
  IN [code |-> [a \in DOMAIN ctx.result |-> Patched(ctx.result, a, ctx.strings, Pos)],
      strs |-> Pool(Len(ctx.strings))]

add_module(file, name, ctx) ==
  LET patched == patch_strings(ctx, file.strs)
  IN [mods |-> Append(file.mods,
                      [name |-> name, entry |-> ctx.entry, code |-> patched.code]),
      strs |-> patched.strs]

(* quosi_compile_ast *)
compile_ast(ast) ==
  Each(LAMBDA file, graph : add_module(file, graph.name, patch_jumps(compile_graph(graph))),
       [mods |-> <<>>, strs |-> <<>>], ast)
=============================================================================
