------------------------------- MODULE Dialogue -------------------------------
(***************************************************************************)
(* What playing a dialogue promises its host, said of the source graph     *)
(* alone (include/quosi/ast.h), with no code and no machine in it.         *)
(*                                                                         *)
(* The player sees the lines of a vertex one by one.  A vertex of jump     *)
(* type then performs its effects in order and goes on to the next vertex; *)
(* a choice offers the edges whose conditions hold at that moment, and the *)
(* one picked performs its own effects and goes to its vertex.  Conditions *)
(* see the game's variables as they are when the condition is reached, and *)
(* all that happens between two things shown happens at once.              *)
(***************************************************************************)
EXTENDS Bytecode
LOCAL INSTANCE SequencesExt

CONSTANTS
  Keys, data_lkp, speaker_lkp,  \* the host's variables and its symbols
  Graphs,                       \* the dialogues
  Text(_)                       \* what a string of the source reads as

VARIABLES
  graph,   \* the dialogue being played
  todo,    \* what is left to perform of the current vertex or edge
  shown,   \* what the host is given, or that it is not its turn
  mem      \* the game's variables

vars == <<graph, todo, shown, mem>>

-----------------------------------------------------------------------------
(* Expressions.  An assignment is an expression too, so evaluating one     *)
(* gives a value and the variables after it.                               *)
RECURSIVE Eval(_, _)
Eval(e, m) ==
  CASE e.tag = "IDENT" -> [val |-> m[data_lkp[e.ident]], mem |-> m]
    [] e.tag = "IMM"   -> [val |-> e.imm, mem |-> m]
    [] e.tag = "OP" /\ e.op = iLNOT ->
         LET x == Eval(e.lhs, m) IN [x EXCEPT !.val = Bit(@ = 0)]
    [] e.tag = "OP" /\ e.op = iSTORE ->
         LET x == Eval(e.rhs, m)
         IN [x EXCEPT !.mem[data_lkp[e.lhs.ident]] = x.val]
    [] OTHER ->
         LET x == Eval(e.lhs, m)
             y == Eval(e.rhs, x.mem)
         IN [y EXCEPT !.val = IF e.op = iDIV THEN x.val \div @ ELSE Alu(e.op, x.val, @)]

Perform(effect, m) ==
  LET key == data_lkp[effect.lhs]
      x == Eval(effect.rhs, m)
      new == CASE effect.op = "SET" -> x.val
               [] effect.op = "ADD" -> (m[key] + x.val) % WORD
               [] effect.op = "SUB" -> (m[key] - x.val) % WORD
               [] effect.op = "MUL" -> (m[key] * x.val) % WORD
               [] effect.op = "DIV" -> m[key] \div x.val
  IN [x.mem EXCEPT ![key] = new]

(* The number of the first arm that holds, 0 if none does, and the         *)
(* variables after the conditions that were looked at.                     *)
RECURSIVE FirstHolding(_, _)
FirstHolding(conds, m) ==
  IF conds = <<>> THEN [arm |-> 0, mem |-> m]
  ELSE LET x == Eval(Head(conds), m)
           rest == FirstHolding(Tail(conds), x.mem)
       IN IF x.val # 0 THEN [arm |-> 1, mem |-> x.mem]
          ELSE [rest EXCEPT !.arm = IF @ = 0 THEN 0 ELSE @ + 1]

(* The arm of a match or of an if a block selects. *)
Selected(b, m) ==
  IF b.tag = "MATCH"
  THEN LET x == Eval(b.expr, m)
       IN [arm |-> SelectInSeq(b.arms, LAMBDA a : Eval(a.cond, x.mem).val = x.val),
           mem |-> x.mem]
  ELSE FirstHolding([i \in DOMAIN b.blocks |-> b.blocks[i].cond], m)

-----------------------------------------------------------------------------
(* The edges of a choice, in the order of the source, and the places in    *)
(* that order of those on offer.                                           *)
RECURSIVE Edges(_)
Edges(blocks) ==
  LET Of(b) ==
        CASE b.tag = "T" -> b.edges
          [] b.tag = "MATCH" -> [i \in DOMAIN b.arms |-> b.arms[i].body] \o b.catchall
          [] b.tag = "IFELSE" ->
               FlattenSeq([i \in DOMAIN b.blocks |-> Edges(b.blocks[i].body)])
                 \o Edges(b.catchall)
  IN FlattenSeq([i \in DOMAIN blocks |-> Of(blocks[i])])

RECURSIVE Offered(_, _, _)
Offered(blocks, first, m) ==
  IF blocks = <<>> THEN [places |-> <<>>, mem |-> m]
  ELSE
    LET b == Head(blocks)
        From(n) == [i \in 1 .. n |-> first + i - 1]
        sel == Selected(b, m)
        \* edges of the bodies before the one selected
        Before(n) == Len(FlattenSeq([i \in 1 .. n |-> Edges(b.blocks[i].body)]))
        here ==
          CASE b.tag = "T" -> [places |-> From(Len(b.edges)), mem |-> m]
            [] b.tag = "MATCH" ->
                 [places |-> IF sel.arm # 0 THEN <<first + sel.arm - 1>>
                             ELSE IF b.catchall # <<>> THEN <<first + Len(b.arms)>>
                             ELSE <<>>,
                  mem |-> sel.mem]
            [] b.tag = "IFELSE" /\ sel.arm # 0 ->
                 Offered(b.blocks[sel.arm].body, first + Before(sel.arm - 1), sel.mem)
            [] OTHER ->
                 Offered(b.catchall, first + Before(Len(b.blocks)), sel.mem)
        rest == Offered(Tail(blocks), first + Len(Edges(<<b>>)), here.mem)
    IN [rest EXCEPT !.places = here.places \o @]

(* The vertex a block of conditions leads to. *)
RECURSIVE Chosen(_, _)
Chosen(b, m) ==
  LET sel == Selected(b, m)
  IN CASE b.tag = "T" -> [vertex |-> b.vertex, mem |-> m]
       [] b.tag = "MATCH" ->
            [vertex |-> IF sel.arm = 0 THEN b.catchall ELSE b.arms[sel.arm].body,
             mem |-> sel.mem]
       [] b.tag = "IFELSE" ->
            Chosen(IF sel.arm = 0 THEN b.catchall ELSE b.blocks[sel.arm].data, sel.mem)

-----------------------------------------------------------------------------
(* A todo list: lines and effects, then the edges of a choice or the name  *)
(* of a vertex to go to.                                                   *)
GotoItem(name) == [do |-> "GOTO", name |-> name]
EffectItems(effects) == [i \in DOMAIN effects |-> [do |-> "EFFECT", effect |-> effects[i]]]

Items(v) ==
  LET Lines(s) == [i \in DOMAIN s.lines |->
                     [do |-> "LINE", speaker |-> s.speaker, line |-> s.lines[i]]]
  IN FlattenSeq([i \in DOMAIN v.lineset |-> Lines(v.lineset[i])])
       \o IF v.type = "JUMP"
          THEN Append(EffectItems(v.effects), GotoItem(v.next))
          ELSE <<[do |-> "OFFER", edges |-> v.edges]>>

Block(g, name) ==
  g.vertices[CHOOSE i \in DOMAIN g.vertices : g.vertices[i].name = name].data

(* Perform a todo list up to the next thing to show. *)
RECURSIVE Run(_, _, _)
Run(g, items, m) ==
  LET it == Head(items)
      Shows(s) == [shown |-> s, todo |-> Tail(items), mem |-> m]
  IN CASE it.do = "LINE" ->
            Shows([kind |-> "LINE", speaker |-> speaker_lkp[it.speaker],
                   text |-> Text(it.line)])
       [] it.do = "EFFECT" /\ it.effect.op = "EVENT" ->
            Shows([kind |-> "EVENT", text |-> Text(it.effect.lhs)])
       [] it.do = "EFFECT" /\ it.effect.op # "EVENT" ->
            Run(g, Tail(items), Perform(it.effect, m))
       [] it.do = "OFFER" ->
            LET on == Offered(it.edges, 0, m)
                Offer(p) == [text |-> Text(Edges(it.edges)[p + 1].line), idx |-> p]
            IN [shown |-> [kind |-> "PICK",
                           offers |-> [i \in DOMAIN on.places |-> Offer(on.places[i])]],
                todo |-> items, mem |-> on.mem]
       [] it.do = "GOTO" /\ it.name = "EXIT" -> Shows([kind |-> "EXIT"])
       [] OTHER ->
            LET to == Chosen(Block(g, it.name), m) IN Run(g, Items(to.vertex), to.mem)

(* What is left to do once the edge at place p was picked. *)
Picked(items, p) ==
  LET e == Edges(Head(items).edges)[p + 1]
  IN Append(EffectItems(e.effects), GotoItem(e.next))

Beginning == <<GotoItem("START")>>

-----------------------------------------------------------------------------
Waiting == shown.kind \in {"INIT", "LINE", "EVENT", "PICK"}

Init ==
  /\ graph \in Graphs
  /\ todo = Beginning
  /\ shown = [kind |-> "INIT"]
  /\ mem \in [Keys -> Word]

(* The dialogue's turn: everything up to the next thing to show. *)
Answer ==
  /\ shown.kind = "THINKING"
  /\ LET r == Run(graph, todo, mem)
     IN shown' = r.shown /\ todo' = r.todo /\ mem' = r.mem
  /\ UNCHANGED graph

Resume ==
  /\ shown.kind \in {"INIT", "LINE", "EVENT"}
  /\ shown' = [kind |-> "THINKING"]
  /\ UNCHANGED <<graph, todo, mem>>

Pick ==
  /\ shown.kind = "PICK"
  /\ \E i \in DOMAIN shown.offers : todo' = Picked(todo, shown.offers[i].idx)
  /\ shown' = [kind |-> "THINKING"]
  /\ UNCHANGED <<graph, mem>>

(* The game changes a variable while the dialogue waits. *)
Write ==
  /\ Waiting
  /\ \E k \in Keys, v \in Word : mem' = [mem EXCEPT ![k] = v]
  /\ UNCHANGED <<graph, todo, shown>>

(* Another conversation begins. *)
Restart ==
  /\ Waiting \/ shown.kind = "EXIT"
  /\ graph' \in Graphs
  /\ todo' = Beginning
  /\ shown' = [kind |-> "INIT"]
  /\ UNCHANGED mem

Next == Answer \/ Resume \/ Pick \/ Write \/ Restart

Spec == Init /\ [][Next]_vars

(* The host does not wait for ever: the dialogue answers.                  *)
Answers == shown.kind = "THINKING" ~> shown.kind # "THINKING"
=============================================================================
