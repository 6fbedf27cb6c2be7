---------------------------------- MODULE Vm ----------------------------------
(***************************************************************************)
(* The virtual machine that plays a compiled dialogue (src/vm.c), with the *)
(* host program that drives it.  The host calls quosi_vm_exec, which runs  *)
(* instructions until one of them asks something of the host (an upcall);  *)
(* the host then shows a line, raises an event, or reads the propositions  *)
(* of a choice out of the queue and pushes the index of the one picked,    *)
(* and calls quosi_vm_exec again.  Between two calls the game may change   *)
(* the variables that the dialogue reads and writes.                       *)
(*                                                                         *)
(* Every instruction is an action.  Where the C code reads or writes       *)
(* outside its arrays the behaviour is undefined, and the machine stops in *)
(* "FAULT"; a division by zero may stop it in "TRAP".                      *)
(*                                                                         *)
(* Definitions named X_y are X with the defect y.  The specification does  *)
(* not use them: with one in place of X, TLC finds a property violated.    *)
(***************************************************************************)
EXTENDS Bytecode

CONSTANTS
  Keys,      \* the variables the host resolves for quosiVmCtx
  Modules    \* the modules of compiled files, records of code and entry

ASSUME ModuleAssumption ==
  \A m \in Modules : m.code \in Seq(Nat) /\ m.entry \in 0 .. U32 - 1

VARIABLES
  module,             \* the module being played
  PC, SP, A, B,       \* registers
  stack,              \* values; meaningful below SP
  text, TH, TT,       \* the propositions of the current choice
  upcall,             \* "NONE" inside quosi_vm_exec, else what it returned
  pindex,             \* host: indices of the propositions read so far
  pushed,             \* host: the answer to a PICK is on the stack
  mem                 \* the game's variables

registers == <<A, B>>
queue     == <<text, TH, TT>>
host      == <<pindex, pushed>>
vars == <<module, PC, SP, registers, stack, queue, upcall, host, mem>>

Upcall == {"INIT", "NONE", "LINE", "PICK", "EVENT", "EXIT", "ABORT",
           "FAULT", "TRAP"}

-----------------------------------------------------------------------------
(* A slot of the stack at or above SP, and one of the queue at or above    *)
(* TH, is written before it is read again; what it holds is forgotten.     *)
EmptyStack == [i \in 0 .. StackSize - 1 |-> 0]
EmptyText  == [i \in 0 .. QueueSize - 1 |-> [pos |-> 0, idx |-> 0]]

(* quosi_vm_init *)
Load_keepsSP(m) ==
  /\ module' = m
  /\ PC' = m.entry
  /\ TH' = 0 /\ TT' = 0 /\ A' = 0 /\ B' = 0
  /\ text' = EmptyText
  /\ UNCHANGED <<SP, stack>>
Load(m) ==
  /\ module' = m
  /\ PC' = m.entry
  /\ SP' = 0 /\ TH' = 0 /\ TT' = 0 /\ A' = 0 /\ B' = 0
  /\ stack' = EmptyStack /\ text' = EmptyText

Init ==
  /\ module \in Modules
  /\ PC = module.entry
  /\ SP = 0 /\ TH = 0 /\ TT = 0 /\ A = 0 /\ B = 0
  /\ stack = EmptyStack /\ text = EmptyText
  /\ upcall = "INIT"
  /\ pindex = <<>> /\ pushed = FALSE
  /\ mem \in [Keys -> Word]

-----------------------------------------------------------------------------
(* Fetching *)

Code       == module.code
Fetched    == PC < Len(Code)
Opcode     == Code[PC + 1]
Operand(n) == Code[PC + 1 + n]

(* What the instruction needs to stay inside code, stack and queue, and    *)
(* among the variables the host knows.  Only an instruction that grows the *)
(* stack writes above it: the check of SP that ends _vm_step comes after   *)
(* that write.                                                             *)
Defined(op) ==
  /\ PC + Operands(op) < Len(Code)
  /\ Reads(op) <= SP
  /\ Growth(op) = 1 => SP < StackSize
  /\ op \in {iLOAD, iSTORE, iIEQK} => Operand(1) \in Keys
  /\ op = iPROP => TH < QueueSize
  /\ op = iSWITCH => PC + 1 + stack[SP - 1] < Len(Code)

Fetch(op) == upcall = "NONE" /\ Fetched /\ Opcode = op /\ Defined(op)

(* The check that ends _vm_step. *)
Continue_late(sp) == upcall' = IF sp > StackSize + 1 THEN "ABORT" ELSE "NONE"
Continue(sp) == upcall' = IF sp > StackSize THEN "ABORT" ELSE "NONE"

(* Leave v in the stack's slot n, as its top. *)
Deposit(n, v) ==
  /\ stack' = [stack EXCEPT ![n] = v]
  /\ SP' = n + 1
  /\ Continue(n + 1)

(* Go to a label of the code, or end the dialogue, at stack height sp. *)
Goto_here(label, sp) ==
  /\ PC' = PC
  /\ IF label = EXIT_LABEL THEN upcall' = "EXIT" ELSE Continue(sp)
Goto(label, sp) ==
  /\ PC' = label
  /\ IF label = EXIT_LABEL THEN upcall' = "EXIT" ELSE Continue(sp)

top == stack[SP - 1]
under == stack[SP - 2]
Next1 == PC' = PC + 1 + Operands(Opcode)
-----------------------------------------------------------------------------
(* Instructions *)

Eof ==
  /\ Fetch(iEOF)
  /\ Next1 /\ upcall' = "EXIT"
  /\ UNCHANGED <<SP, stack, module, registers, queue, host, mem>>

(* Instructions that leave one value in place of those they read, or above *)
(* the value they look at.                                                 *)
Compute ==
  /\ \/ Fetch(iPUSH) /\ Deposit(SP, Operand(1))
     \/ Fetch(iDUP)  /\ Deposit(SP, top)
     \/ Fetch(iLOAD) /\ Deposit(SP, mem[Operand(1)])
     \/ Fetch(iLNOT) /\ Deposit(SP - 1, Bit(top = 0))
     \/ Fetch(iNEG)  /\ Deposit(SP - 1, (-top) % WORD)
     \/ Fetch(iIEQV) /\ Deposit(SP, Bit(top = Operand(1)))
     \/ Fetch(iIEQK) /\ Deposit(SP, Bit(top = mem[Operand(1)]))
     \/ \E op \in Binary : Fetch(op) /\ Deposit(SP - 2, Alu(op, under, top))
     \/ Fetch(iDIV) /\ top # 0 /\ Deposit(SP - 2, under \div top)
     \/ Fetch(iDIV) /\ top = 0 /\ Deposit(SP - 2, 0)  \* processors that do not trap
  /\ Next1
  /\ UNCHANGED <<module, registers, queue, host, mem>>

DivideByZero ==
  /\ Fetch(iDIV) /\ top = 0
  /\ upcall' = "TRAP"
  /\ UNCHANGED <<module, PC, SP, registers, stack, queue, host, mem>>

Pop_signed ==
  /\ Fetch(iPOP)
  /\ SP' = SP - 1
  /\ Continue(SP - 1) /\ Next1
  /\ UNCHANGED <<module, registers, stack, queue, host, mem>>
Pop ==
  /\ Fetch(iPOP)
  /\ SP' = (SP - 1) % U32
  /\ Continue(SP') /\ Next1
  /\ UNCHANGED <<module, registers, stack, queue, host, mem>>

Store ==
  /\ Fetch(iSTORE)
  /\ mem' = [mem EXCEPT ![Operand(1)] = top]
  /\ SP' = SP - 1
  /\ Continue(SP - 1) /\ Next1
  /\ UNCHANGED <<module, registers, stack, queue, host>>

Jump ==
  /\ Fetch(iJUMP)
  /\ Goto(Operand(1), SP)
  /\ UNCHANGED <<module, SP, registers, stack, queue, host, mem>>

Branch ==
  /\ Fetch(iJZ) \/ Fetch(iJNZ)
  /\ SP' = SP - 1
  /\ IF (top = 0) = (Opcode = iJZ)
       THEN Goto(Operand(1), SP - 1)
       ELSE Next1 /\ Continue(SP - 1)
  /\ UNCHANGED <<module, registers, stack, queue, host, mem>>

Switch_keeps ==
  /\ Fetch(iSWITCH)
  /\ Goto(Operand(1 + top), SP)
  /\ UNCHANGED <<module, SP, registers, stack, queue, host, mem>>
Switch ==
  /\ Fetch(iSWITCH)
  /\ SP' = SP - 1
  /\ Goto(Operand(1 + top), SP - 1)
  /\ UNCHANGED <<module, registers, stack, queue, host, mem>>

(* _vm_enq_iprop *)
Prop ==
  /\ Fetch(iPROP)
  /\ text' = [text EXCEPT ![TH] = [pos |-> Operand(1), idx |-> Operand(2)]]
  /\ TH' = TH + 1
  /\ Continue(SP) /\ Next1
  /\ UNCHANGED <<module, SP, registers, stack, TT, host, mem>>

Pick ==
  /\ Fetch(iPICK)
  /\ B' = TH
  /\ upcall' = "PICK" /\ Next1
  /\ UNCHANGED <<module, SP, A, stack, queue, host, mem>>

Line ==
  /\ Fetch(iLINE)
  /\ A' = Operand(1) /\ B' = Operand(2)
  /\ upcall' = "LINE" /\ Next1
  /\ UNCHANGED <<module, SP, stack, queue, host, mem>>

Event ==
  /\ Fetch(iEVENT)
  /\ B' = Operand(1)
  /\ upcall' = "EVENT" /\ Next1
  /\ UNCHANGED <<module, SP, A, stack, queue, host, mem>>

(* A byte that is no opcode falls through the switch statement. *)
Unknown ==
  /\ upcall = "NONE" /\ Fetched /\ Opcode \notin Instr
  /\ PC' = PC + 1
  /\ Continue(SP)
  /\ UNCHANGED <<module, SP, registers, stack, queue, host, mem>>

(* Reading or writing outside code, stack or queue.  A write just above    *)
(* the stack may leave SP intact, and is then noticed afterwards.          *)
Undefined ==
  /\ upcall = "NONE"
  /\ Fetched => Opcode \in Instr /\ ~Defined(Opcode)
  /\ \/ upcall' = "FAULT" /\ UNCHANGED SP
     \/ /\ Fetched /\ Opcode \in {iPUSH, iDUP, iLOAD, iIEQV, iIEQK}
        /\ SP = StackSize /\ SP' = SP + 1 /\ Continue(SP + 1)
  /\ UNCHANGED <<module, PC, registers, stack, queue, host, mem>>

(* _vm_step *)
Step ==
  \/ Eof \/ Compute \/ DivideByZero \/ Pop \/ Store \/ Jump \/ Branch \/ Switch
  \/ Prop \/ Pick \/ Line \/ Event \/ Unknown \/ Undefined

-----------------------------------------------------------------------------
(* The host: the loop of README.md and of test/test.c. *)

HostTurn == upcall \in {"INIT", "LINE", "PICK", "EVENT"}

(* quosi_vm_exec, up to its first instruction. *)
Exec_keepsTH ==
  /\ upcall \in {"INIT", "LINE", "EVENT"} \/ (upcall = "PICK" /\ pushed)
  /\ TT' = 0
  /\ upcall' = "NONE"
  /\ pindex' = <<>> /\ pushed' = FALSE
  /\ UNCHANGED <<module, PC, SP, registers, stack, text, TH, mem>>
Exec_keepsTT ==
  /\ upcall \in {"INIT", "LINE", "EVENT"} \/ (upcall = "PICK" /\ pushed)
  /\ TH' = 0 /\ text' = EmptyText
  /\ upcall' = "NONE"
  /\ pindex' = <<>> /\ pushed' = FALSE
  /\ UNCHANGED <<module, PC, SP, registers, stack, TT, mem>>
Exec ==
  /\ upcall \in {"INIT", "LINE", "EVENT"} \/ (upcall = "PICK" /\ pushed)
  /\ TH' = 0 /\ TT' = 0 /\ text' = EmptyText
  /\ upcall' = "NONE"
  /\ pindex' = <<>> /\ pushed' = FALSE
  /\ UNCHANGED <<module, PC, SP, registers, stack, mem>>

(* quosi_vm_dequeue_text, which the host calls quosi_vm_nq times. *)
Dequeue ==
  /\ upcall = "PICK" /\ Len(pindex) < B
  /\ IF TT < QueueSize
       THEN /\ pindex' = Append(pindex, text[TT].idx)
            /\ TT' = TT + 1
            /\ UNCHANGED upcall
       ELSE upcall' = "FAULT" /\ UNCHANGED <<pindex, TT>>
  /\ UNCHANGED <<module, PC, SP, registers, stack, text, TH, pushed, mem>>

(* quosi_vm_push_value of the index of the i-th proposition dequeued.  It  *)
(* does not look at SP either.                                             *)
PushValue(i) ==
  /\ upcall = "PICK" /\ Len(pindex) = B /\ ~pushed
  /\ i \in 1 .. B
  /\ IF SP < StackSize
       THEN /\ stack' = [stack EXCEPT ![SP] = pindex[i]]
            /\ SP' = SP + 1
            /\ pushed' = TRUE
            /\ UNCHANGED upcall
       ELSE upcall' = "FAULT" /\ UNCHANGED <<stack, SP, pushed>>
  /\ UNCHANGED <<module, PC, registers, queue, pindex, mem>>

(* quosi_vm_pop_value: the player changes their mind. *)
PopValue ==
  /\ upcall = "PICK" /\ pushed
  /\ SP' = SP - 1
  /\ pushed' = FALSE
  /\ UNCHANGED <<module, PC, registers, stack, queue, upcall, pindex, mem>>

(* The game changes a variable while the dialogue waits. *)
Write(k, v) ==
  /\ HostTurn
  /\ mem' = [mem EXCEPT ![k] = v]
  /\ UNCHANGED <<module, PC, SP, registers, stack, queue, upcall, host>>

(* quosi_vm_init for another conversation, after one ended, was aborted by *)
(* the machine, or was left by the player.                                 *)
Restart(m) ==
  /\ HostTurn \/ upcall \in {"EXIT", "ABORT"}
  /\ Load(m)
  /\ upcall' = "INIT"
  /\ pindex' = <<>> /\ pushed' = FALSE
  /\ UNCHANGED mem

Host ==
  \/ Exec \/ Dequeue \/ PopValue
  \/ \E i \in 1 .. QueueSize : PushValue(i)
  \/ \E k \in Keys, v \in Word : Write(k, v)
  \/ \E m \in Modules : Restart(m)

Next == Step \/ Host

(* quosi_vm_exec is a loop: it takes every step it can.  Nothing is asked  *)
(* of the host.                                                            *)
Spec == Init /\ [][Next]_vars /\ WF_vars(Step)

-----------------------------------------------------------------------------
(* The machine's variables have their types.  SP goes one above the stack  *)
(* when a push overflows it and to UINT32_MAX when a POP underflows it.    *)
TypeOK ==
  /\ module \in Modules
  /\ PC \in Nat
  /\ SP \in 0 .. U32 - 1
  /\ A \in Nat /\ B \in Nat
  /\ stack \in [0 .. StackSize - 1 -> Nat]
  /\ text \in [0 .. QueueSize - 1 -> [pos : Nat, idx : Nat]]
  /\ TH \in 0 .. QueueSize /\ TT \in 0 .. QueueSize
  /\ upcall \in Upcall
  /\ pindex \in Seq(Nat) /\ pushed \in BOOLEAN
  /\ mem \in [Keys -> Nat]

(* The stack pointer never leaves the stack unnoticed: at every return to  *)
(* the host that does not abort, and before every instruction, it is       *)
(* inside (vm.c:208).                                                      *)
Contained == upcall \notin {"ABORT", "FAULT"} => SP <= StackSize

(* A choice's answer comes from its propositions: when the host pushes it, *)
(* the nq propositions it read are those the queue holds, in their order,  *)
(* none lost or read twice, and the answer is the index of one of them     *)
(* (vm.c:187-196, 35-46).                                                  *)
AnswerOffered ==
  pushed => /\ TT = B /\ B = TH
            /\ pindex = [i \in 1 .. TH |-> text[i - 1].idx]
            /\ SP > 0 /\ \E i \in 1 .. TH : stack[SP - 1] = pindex[i]

(* What makes it so, from the moment quosi_vm_exec empties the queue. *)
ChoiceInv ==
  /\ upcall = "NONE" => TT = 0 /\ pindex = <<>>
  /\ upcall = "PICK" => /\ TT = Len(pindex) /\ TT <= B /\ B = TH
                       /\ \A i \in 1 .. TT : pindex[i] = text[i - 1].idx
  /\ pushed => /\ upcall = "PICK" /\ TT = B
               /\ SP \in 1 .. StackSize
               /\ \E i \in 1 .. TT : stack[SP - 1] = pindex[i]
=============================================================================
