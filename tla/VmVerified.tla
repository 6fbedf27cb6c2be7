------------------------------ MODULE VmVerified ------------------------------
(***************************************************************************)
(* What code must satisfy for the virtual machine to play it without ever  *)
(* leaving code, stack or queue.  The machine checks none of it: vm.c      *)
(* trusts what gen.c emits.  A module has a signature, m.sig, which no     *)
(* action looks at: for the address of each instruction that can be        *)
(* reached, the height of the stack there, a bound on the propositions     *)
(* already queued, and the number of entries in the table of the choice    *)
(* they belong to.                                                         *)
(***************************************************************************)
EXTENDS Vm

Addresses(m) == DOMAIN m.sig

ASSUME SigAssumption ==
  \A m \in Modules :
    /\ Addresses(m) \subseteq Nat
    /\ m.sig \in [Addresses(m) -> [depth : Nat, queued : Nat, fan : Nat]]

(* Control may reach address b with the stack at height d and at most q    *)
(* propositions queued for a choice of fan f.  The table of a choice is    *)
(* reached from its PICK alone.                                            *)
Flows(m, b, d, q, f) ==
  /\ b \in Addresses(m)
  /\ m.sig[b].depth = d
  /\ q <= m.sig[b].queued
  /\ q > 0 => m.sig[b].fan = f
  /\ m.code[b + 1] # iSWITCH

(* A label of the code: the end of the dialogue, or an address. *)
Leads(m, label, d, q, f) == label = EXIT_LABEL \/ Flows(m, label, d, q, f)

(* What the instruction at address a needs of the code around it. *)
InstructionOK(m, a) ==
  LET code == m.code
      op == code[a + 1]
      arg(n) == code[a + 1 + n]
      s == m.sig[a]
      d == s.depth + Growth(op)
      next == a + 1 + Operands(op)
  IN /\ next <= Len(code)
     /\ op \in Instr
     /\ Reads(op) <= s.depth /\ s.depth <= StackSize
     /\ d \in 0 .. StackSize
     /\ op \in {iLOAD, iSTORE, iIEQK} => arg(1) \in Keys
     /\ op \in {iJUMP, iJZ, iJNZ} => Leads(m, arg(1), d, s.queued, s.fan)
     /\ op = iPROP => /\ arg(2) < s.fan /\ s.queued < QueueSize
                      /\ Flows(m, next, d, s.queued + 1, s.fan)
     /\ op = iPICK => /\ next \in Addresses(m)
                      /\ code[next + 1] = iSWITCH
                      /\ m.sig[next].depth = s.depth + 1
                      /\ s.depth < StackSize
                      /\ s.queued > 0 => m.sig[next].fan = s.fan
     /\ op = iSWITCH => /\ a + s.fan < Len(code)
                        /\ \A i \in 1 .. s.fan : Leads(m, arg(i), d, 0, 0)
     /\ op \in {iLINE, iEVENT} => Flows(m, next, d, 0, 0)
     /\ op \notin {iEOF, iJUMP, iSWITCH, iPROP, iPICK, iLINE, iEVENT} =>
          Flows(m, next, d, s.queued, s.fan)

Verified(m) ==
  /\ Flows(m, m.entry, 0, 0, 0)
  /\ \A a \in Addresses(m) : InstructionOK(m, a)

ASSUME VerifiedAssumption == \A m \in Modules : Verified(m)

(* Code that is level shows what it shows, and ends, with nothing on the   *)
(* stack.                                                                  *)
Level(m) ==
  \A a \in Addresses(m) :
    LET op == m.code[a + 1]
        arg(n) == m.code[a + 1 + n]
        s == m.sig[a]
        d == s.depth + Growth(op)
    IN /\ op \in {iLINE, iEVENT, iEOF} => s.depth = 0
       /\ op \in {iJUMP, iJZ, iJNZ} /\ arg(1) = EXIT_LABEL => d = 0
       /\ op = iSWITCH => \A i \in 1 .. s.fan : arg(i) = EXIT_LABEL => d = 0

ASSUME LevelAssumption == \A m \in Modules : Level(m)

-----------------------------------------------------------------------------
(* No well-formed dialogue makes the machine read or write outside its     *)
(* arrays, overrun its queue, run off its code, or give up (vm.c:12-208).  *)
NoFault == upcall \notin {"FAULT", "ABORT"}

(* The stack is empty whenever the host is given a line or an event, or    *)
(* the dialogue ends: no path through conditions and matches leaves a      *)
(* value behind, however long the dialogue (gen.c:293, 340, 344).          *)
Balanced ==
  upcall \in {"INIT", "LINE", "EVENT", "EXIT"} => SP = 0

Here == module.sig[PC]

(* The propositions queued so far are those of the choice ahead. *)
QueueFits(n) == \A i \in 0 .. n - 1 : text[i].idx < Here.fan

(* What is true of the machine at the instruction it is to execute next. *)
AtInstruction ==
  /\ PC \in Addresses(module)
  /\ CASE upcall \in {"INIT", "LINE", "EVENT"} ->
            SP = Here.depth /\ Opcode # iSWITCH
       [] upcall = "PICK" ->
            /\ Opcode = iSWITCH /\ QueueFits(B)
            /\ SP = Here.depth - (IF pushed THEN 0 ELSE 1)
       [] OTHER ->  \* "NONE"
            /\ SP = Here.depth
            /\ IF Opcode = iSWITCH
               THEN TH = 0 /\ top < Here.fan
               ELSE TH <= Here.queued /\ QueueFits(TH)

(* The inductive invariant: with what holds of every file, the signature   *)
(* describes the machine until the dialogue ends.                          *)
IInv ==
  /\ TypeOK
  /\ ChoiceInv
  /\ NoFault
  /\ upcall \notin {"EXIT", "TRAP"} => AtInstruction
=============================================================================
