------------------------------ MODULE Destructor ------------------------------
(***************************************************************************)
(* Freeing a tree (src/ast.c), and what the parser allocated for it.       *)
(* Trees are as in Codegen.                                                *)
(*                                                                         *)
(* A block of memory is named by the path that leads to it from the tree:  *)
(* the fields and elements on the way.  Elements of a vector lie in its    *)
(* block, so their paths begin with its.  Freeing is a sequence of such    *)
(* paths.  An empty vector is NULL, and nothing is freed for it.           *)
(*                                                                         *)
(* Definitions named X_y are X with the defect y.  The specification does  *)
(* not use them: with one in place of X, TLC finds a property violated.    *)
(***************************************************************************)
EXTENDS Bytecode
LOCAL INSTANCE SequencesExt
LOCAL INSTANCE Functions

Field(p, name) == Append(p, <<name, 0>>)
Elem(p, i) == Append(p, <<"", i>>)

(* No block of the tree: what is freed when memory is taken for what it is *)
(* not.                                                                    *)
Wild == <<>>

-----------------------------------------------------------------------------
(* Freeing *)

arrfree(vec, p) == IF vec = <<>> THEN <<>> ELSE <<p>>

(* Each element's blocks, then the vector. *)
Elements(Free(_, _), vec, p) == FlattenSeq([i \in DOMAIN vec |-> Free(vec[i], Elem(p, i))])
Vector(Free(_, _), vec, p) == Elements(Free, vec, p) \o arrfree(vec, p)

RECURSIVE expr_free(_, _)
expr_free(e, p) ==
  LET Operand(x, q) == Append(expr_free(x, q), q)
  IN IF e.tag # "OP" THEN <<>>
     ELSE Operand(e.lhs, Field(p, "lhs"))
            \o IF e.op \in {iNEG, iLNOT} THEN <<>> ELSE Operand(e.rhs, Field(p, "rhs"))

effect_free(x, p) == IF x.op = "EVENT" THEN <<>> ELSE expr_free(x.rhs, Field(p, "rhs"))
edge_free(e, p) == Vector(effect_free, e.effects, Field(p, "effects"))

edgematch_free_early(m, p) ==
  LET Arm(a, q) == expr_free(a.cond, Field(q, "cond")) \o edge_free(a.body, Field(q, "body"))
  IN expr_free(m.expr, Field(p, "expr")) \o arrfree(m.arms, Field(p, "arms"))
       \o Elements(Arm, m.arms, Field(p, "arms")) \o Elements(edge_free, m.catchall, Field(p, "catchall"))
edgematch_free(m, p) ==
  LET Arm(a, q) == expr_free(a.cond, Field(q, "cond")) \o edge_free(a.body, Field(q, "body"))
  IN expr_free(m.expr, Field(p, "expr")) \o Vector(Arm, m.arms, Field(p, "arms"))
       \o Elements(edge_free, m.catchall, Field(p, "catchall"))

RECURSIVE edgeblock_free(_, _)
edgeblock_free(b, p) ==
  LET Block(x, q) == expr_free(x.cond, Field(q, "cond"))
                       \o Vector(edgeblock_free, x.body, Field(q, "body"))
  IN CASE b.tag = "T" -> Vector(edge_free, b.edges, Field(p, "edges"))
       [] b.tag = "MATCH" -> edgematch_free(b, p)
       [] b.tag = "IFELSE" -> Vector(Block, b.blocks, Field(p, "blocks"))
                                \o Vector(edgeblock_free, b.catchall, Field(p, "catchall"))

(* The effects of a jump lie where the edges of a choice do, and are freed *)
(* as if they were edges; what they own is not.                            *)
vertex_free(v, p) ==
  LET Lines(l, q) == arrfree(l.lines, Field(q, "lines"))
  IN Vector(Lines, v.lineset, Field(p, "lineset"))
       \o IF v.type = "JUMP"
          THEN [i \in DOMAIN v.effects |-> Wild] \o arrfree(v.effects, Field(p, "effects"))
          ELSE Vector(edgeblock_free, v.edges, Field(p, "edges"))

RECURSIVE vertblock_free(_, _)
vertblock_free(b, p) ==
  LET Arm(a, q) == expr_free(a.cond, Field(q, "cond")) \o vertex_free(a.body, Field(q, "body"))
      Pointer(x, q) == Append(vertblock_free(x, q), q)
      Block(x, q) == expr_free(x.cond, Field(q, "cond")) \o Pointer(x.data, Field(q, "data"))
  IN CASE b.tag = "T" -> vertex_free(b.vertex, Field(p, "vertex"))
       [] b.tag = "MATCH" ->
            expr_free(b.expr, Field(p, "expr")) \o Vector(Arm, b.arms, Field(p, "arms"))
              \o vertex_free(b.catchall, Field(p, "catchall"))
       [] b.tag = "IFELSE" ->
            Vector(Block, b.blocks, Field(p, "blocks"))
              \o Pointer(b.catchall, Field(p, "catchall"))

graph_free(g, p) ==
  LET Named(v, q) == vertblock_free(v.data, Field(q, "data"))
  IN Vector(Named, g.vertices, Field(p, "vertices"))
quosi_ast_free(ast) == Vector(graph_free, ast, <<<<"modules", 0>>>>)

-----------------------------------------------------------------------------
(* What was allocated: a block for every vector that got an element, every *)
(* operand, and every vertex that an if leads to.                          *)

Blocks(Owned(_), vec) ==
  IF vec = <<>> THEN 0
  ELSE FoldFunction(LAMBDA n, sum : n + sum, 1, [i \in DOMAIN vec |-> Owned(vec[i])])

RECURSIVE ExprBlocks(_), EdgeBlocks(_), VertBlocks(_)
ExprBlocks(e) ==
  CASE e.tag # "OP" -> 0
    [] e.tag = "OP" /\ "rhs" \notin DOMAIN e -> 1 + ExprBlocks(e.lhs)
    [] OTHER -> 2 + ExprBlocks(e.lhs) + ExprBlocks(e.rhs)
Effects(xs) == Blocks(LAMBDA x : IF x.op = "EVENT" THEN 0 ELSE ExprBlocks(x.rhs), xs)
EdgeBlocks(b) ==
  LET Arm(a) == ExprBlocks(a.cond) + Effects(a.body.effects)
      Block(x) == ExprBlocks(x.cond) + Blocks(EdgeBlocks, x.body)
  IN CASE b.tag = "T" -> Blocks(LAMBDA e : Effects(e.effects), b.edges)
       [] b.tag = "MATCH" -> ExprBlocks(b.expr) + Blocks(Arm, b.arms)
                               + IF b.catchall = <<>> THEN 0 ELSE Effects(b.catchall[1].effects)
       [] b.tag = "IFELSE" -> Blocks(Block, b.blocks) + Blocks(EdgeBlocks, b.catchall)
VertexBlocks(v) ==
  Blocks(LAMBDA l : Blocks(LAMBDA x : 0, l.lines), v.lineset)
    + IF v.type = "JUMP" THEN Effects(v.effects) ELSE Blocks(EdgeBlocks, v.edges)
VertBlocks(b) ==
  LET Arm(a) == ExprBlocks(a.cond) + VertexBlocks(a.body)
      Block(x) == ExprBlocks(x.cond) + 1 + VertBlocks(x.data)
  IN CASE b.tag = "T" -> VertexBlocks(b.vertex)
       [] b.tag = "MATCH" -> ExprBlocks(b.expr) + Blocks(Arm, b.arms) + VertexBlocks(b.catchall)
       [] b.tag = "IFELSE" -> Blocks(Block, b.blocks) + 1 + VertBlocks(b.catchall)
Allocated(ast) == Blocks(LAMBDA g : Blocks(LAMBDA v : VertBlocks(v.data), g.vertices), ast)

(* A jump that has effects, somewhere in a vertex. *)
RECURSIVE LeapsWithEffects(_)
LeapsWithEffects(b) ==
  LET Leaps(v) == v.type = "JUMP" /\ v.effects # <<>>
  IN CASE b.tag = "T" -> Leaps(b.vertex)
       [] b.tag = "MATCH" -> Leaps(b.catchall) \/ \E i \in DOMAIN b.arms : Leaps(b.arms[i].body)
       [] b.tag = "IFELSE" -> \/ LeapsWithEffects(b.catchall)
                              \/ \E i \in DOMAIN b.blocks : LeapsWithEffects(b.blocks[i].data)
=============================================================================
