--------------------------------- MODULE Play ---------------------------------
(***************************************************************************)
(* The whole of it: sources parsed by parse.c, compiled by gen.c and       *)
(* played by vm.c, shown to do what Dialogue promises of the graphs.  The  *)
(* promise speaks of whole turns, the machine of single instructions:      *)
(* while the machine runs, Dialogue still waits at the beginning of the    *)
(* turn, with the variables as they were then; when the machine returns to *)
(* the host, all of the turn happens at once.                              *)
(*                                                                         *)
(* A module is a record of its code, entry and strings, as in a compiled   *)
(* file, with the graph it was compiled from.                              *)
(***************************************************************************)
EXTENDS Vm
LOCAL INSTANCE SequencesExt

CONSTANTS
  data_lkp, speaker_lkp   \* see Codegen

VARIABLES
  todo,        \* what Dialogue has left to do
  before       \* the variables at the beginning of the turn

playVars == <<vars, todo, before>>

G == INSTANCE Codegen
P == INSTANCE Parser

(* quosi_file_compile_from_src, before the program is laid out as a file:  *)
(* none if anything at all was wrong.  As in Codegen, TLC is given what    *)
(* was parsed before it is compiled.                                       *)
NoProgram == [mods |-> <<>>, strs |-> <<>>]
quosi_file_compile_from_src(tokens) ==
  LET parsed == P!quosi_ast_parse_from_src(tokens)
  IN IF parsed.ctx.errors = <<>>
     THEN CHOOSE p \in {G!compile_ast(ast) : ast \in {parsed.result}} : TRUE
     ELSE NoProgram

-----------------------------------------------------------------------------
(* What the host sees: quosi_vm_line, quosi_vm_id, quosi_vm_nq and the     *)
(* propositions of the queue, up to the NUL that ends each string.         *)
RECURSIVE CString(_)
CString(pos) ==
  LET char == module.strs[pos + 1]
  IN IF char = G!NUL THEN <<>> ELSE <<char>> \o CString(pos + 1)

Shown ==
  CASE upcall = "NONE"  -> [kind |-> "THINKING"]
    [] upcall = "LINE"  -> [kind |-> "LINE", speaker |-> A, text |-> CString(B)]
    [] upcall = "EVENT" -> [kind |-> "EVENT", text |-> CString(B)]
    [] upcall = "PICK"  ->
         [kind |-> "PICK",
          offers |-> [i \in 1 .. B |-> [text |-> CString(text[i - 1].pos),
                                        idx |-> text[i - 1].idx]]]
    [] OTHER -> [kind |-> upcall]

D == INSTANCE Dialogue WITH
       graph <- module.graph,
       Graphs <- {m.graph : m \in Modules},
       shown <- Shown,
       mem   <- IF upcall = "NONE" THEN before ELSE mem,
       Text  <- G!unescape

-----------------------------------------------------------------------------
(* The machine's steps, with what Dialogue has left to do beside them. *)
PlayInit == Init /\ todo = D!Beginning /\ before = mem

Runs == upcall = "NONE" /\ upcall' = "NONE" /\ UNCHANGED <<todo, before>>

Begins ==
  /\ upcall # "NONE" /\ upcall' = "NONE"
  /\ todo' = IF upcall = "PICK" THEN D!Picked(todo, top) ELSE todo
  /\ before' = mem

Returns ==
  /\ upcall = "NONE" /\ upcall' # "NONE"
  /\ todo' = D!Run(module.graph, todo, before).todo
  /\ before' = mem'

Waits ==
  /\ upcall # "NONE" /\ upcall' # "NONE"
  /\ todo' = IF upcall' = "INIT" THEN D!Beginning ELSE todo
  /\ before' = mem'

PlayNext == Next /\ (Runs \/ Begins \/ Returns \/ Waits)

PlaySpec == PlayInit /\ [][PlayNext]_playVars /\ WF_vars(Step)

-----------------------------------------------------------------------------
(* The dialogue a player sees is the one the source describes: the same    *)
(* lines by the same speakers, events and choices, in the same order, with *)
(* the same effects on the game's variables, whatever the game does to     *)
(* them meanwhile (gen.c:101-418, vm.c:40-209).                            *)
Implements == D!Spec

(* A call of quosi_vm_exec returns, for graphs in which every cycle shows  *)
(* something (vm.c:40-46).                                                 *)
ExecReturns == D!Answers
=============================================================================
