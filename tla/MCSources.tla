------------------------------ MODULE MCSources -------------------------------
(***************************************************************************)
(* Small dialogues, as the trees parse.c makes of their sources.           *)
(***************************************************************************)
EXTENDS Bytecode

-----------------------------------------------------------------------------
(* Shapes of source text.  Expressions: *)
X == [tag |-> "IDENT", ident |-> "x"]
Imm(n) == [tag |-> "IMM", imm |-> n]
Op(op, l, r) == [tag |-> "OP", op |-> op, lhs |-> l, rhs |-> r]
Not(e) == [tag |-> "OP", op |-> iLNOT, lhs |-> e]

Positive == Op(iGTH, X, Imm(0))
IsOne    == Op(iEQU, X, Imm(1))
SetToTwo == Op(iSTORE, X, Imm(2))                     \* x: 2, a condition
Decrease == Op(iNEQ, Op(iSTORE, X, Op(iSUB, X, Imm(1))), Imm(0))

(* Effects: *)
Set(op, e) == [op |-> op, lhs |-> "x", rhs |-> e]
Raise(ch) == [op |-> "EVENT", lhs |-> <<ch>>]

(* Edges, told apart by their text: *)
Edge(ch, effects, next) == [line |-> <<ch>>, effects |-> effects, next |-> next]
EdgeA == Edge("a", <<>>, "B")
EdgeB == Edge("b", <<Set("ADD", Imm(1))>>, "B")
EdgeC == Edge("c", <<Raise("e"), Set("SET", Imm(0)), Raise("f")>>, "START")
EdgeD == Edge("d", <<>>, "EXIT")
EdgeE == Edge("e", <<Set("SUB", X)>>, "EXIT")

T(edges) == [tag |-> "T", edges |-> edges]
Match(expr, arms, catchall) ==
  [tag |-> "MATCH", expr |-> expr, catchall |-> catchall,
   arms |-> [i \in DOMAIN arms |-> [cond |-> arms[i][1], body |-> arms[i][2]]]]
IfElse(blocks, catchall) ==
  [tag |-> "IFELSE", catchall |-> catchall,
   blocks |-> [i \in DOMAIN blocks |-> [cond |-> blocks[i][1], body |-> blocks[i][2]]]]

EdgeBlocks ==
  <<T(<<EdgeA>>), T(<<EdgeB, EdgeD>>),
    Match(X, << <<Imm(0), EdgeA>>, <<Imm(1), EdgeC>> >>, <<>>),
    Match(X, << <<Imm(1), EdgeB>> >>, <<EdgeE>>),
    Match(SetToTwo, << <<X, EdgeD>>, <<Imm(0), EdgeA>> >>, <<>>),
    IfElse(<< <<Positive, <<T(<<EdgeA>>)>> >> >>, <<>>),
    IfElse(<< <<IsOne, <<T(<<EdgeC>>)>> >>, <<Decrease, <<T(<<EdgeD, EdgeA>>)>> >> >>, <<>>),
    IfElse(<< <<Not(X), <<T(<<EdgeB>>), Match(X, << <<Imm(0), EdgeA>> >>, <<EdgeD>>)>> >> >>,
           <<T(<<EdgeC>>), IfElse(<< <<IsOne, <<T(<<EdgeE>>)>> >> >>, <<T(<<EdgeC>>)>>)>>) >>

(* Vertices: *)
Says(speaker, cs) == [speaker |-> speaker, lines |-> [i \in DOMAIN cs |-> <<cs[i]>>]]
Choice(lineset, edges) == [type |-> "CHOICE", lineset |-> lineset, edges |-> edges]
Leap(lineset, effects, next) ==
  [type |-> "JUMP", lineset |-> lineset, effects |-> effects, next |-> next]
V(v) == [tag |-> "T", vertex |-> v]
VMatch(expr, arms, catchall) ==
  [tag |-> "MATCH", expr |-> expr, catchall |-> catchall,
   arms |-> [i \in DOMAIN arms |-> [cond |-> arms[i][1], body |-> arms[i][2]]]]
VIf(blocks, catchall) ==
  [tag |-> "IFELSE", catchall |-> catchall,
   blocks |-> [i \in DOMAIN blocks |-> [cond |-> blocks[i][1], data |-> blocks[i][2]]]]

Named(name, data) == [name |-> name, data |-> data]
Farewell == V(Leap(<<Says("bob", <<"z">>)>>, <<Set("MUL", Imm(2)), Raise("q")>>, "EXIT"))

(* Each of them followed by each of these in one choice. *)
SecondBlocks == <<EdgeBlocks[2], EdgeBlocks[4], EdgeBlocks[5], EdgeBlocks[8]>>

(* Edges that follow each other are one block. *)
Joined(p, q) ==
  IF p.tag = "T" /\ q.tag = "T" THEN <<T(p.edges \o q.edges)>> ELSE <<p, q>>

ChoiceGraph(p, q) ==
  << Named("START", V(Choice(<<Says("ann", <<"s">>)>>, Joined(p, q)))),
     Named("B", Farewell) >>

Said(ch, effects, next) == Leap(<<Says("ann", <<ch>>)>>, effects, next)
VertexBlocks ==
  <<VMatch(X, << <<Imm(0), Said("i", <<Set("ADD", Imm(1))>>, "B")>>,
                 <<X, Said("j", <<Set("DIV", Imm(2))>>, "START")>> >>,
           Said("k", <<>>, "EXIT")),
    VIf(<< <<Decrease, V(Leap(<<Says("ann", <<>>)>>, <<>>, "START"))>>,
           <<IsOne, VMatch(X, << <<Imm(2), Said("m", <<>>, "B")>> >>,
                           Choice(<<Says("bob", <<>>)>>, <<T(<<EdgeA, EdgeC>>)>>))>>,
           <<Positive, V(Said("n", <<Set("SET", Op(iADD, X, X))>>, "B"))>> >>,
        V(Choice(<<Says("ann", <<"o">>), Says("bob", <<>>)>>, <<T(<<EdgeE>>)>>))) >>

VertexGraph(v, w) ==
  << Named("A", Farewell), Named("START", v), Named("B", w) >>

(* Files: each has a graph for every second member of a pair. *)
Files ==
  [p \in DOMAIN EdgeBlocks |->
     [q \in DOMAIN SecondBlocks |-> ChoiceGraph(EdgeBlocks[p], SecondBlocks[q])]]
  \o [v \in DOMAIN VertexBlocks |->
       [w \in DOMAIN VertexBlocks |-> VertexGraph(VertexBlocks[v], VertexBlocks[w])]]

ModuleNames == <<"m", "n", "o", "p">>
Tree(file) == [i \in DOMAIN file |-> [name |-> ModuleNames[i], vertices |-> file[i]]]
=============================================================================
