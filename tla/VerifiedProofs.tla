---------------------------- MODULE VerifiedProofs ----------------------------
(***************************************************************************)
(* Verified code plays without a fault: for every size of the machine's    *)
(* arrays, every set of modules with signatures and every order of the     *)
(* host's calls.                                                           *)
(***************************************************************************)
EXTENDS VmProofs

USE DEF registers, queue, host

(* The part of the inductive invariant that the signature is about.        *)
Flow == NoFault /\ (upcall \notin {"EXIT", "TRAP"} => AtInstruction)

(* What is known of the machine before each step. *)
Known == MachineInv /\ ChoiceInv /\ Flow

(* The signature's promise for the instruction the machine is at.          *)
LEMMA AtAddress ==
  ASSUME Known, upcall \notin {"EXIT", "TRAP"}
  PROVE  /\ PC \in Addresses(module) /\ PC \in Nat /\ module \in Modules
         /\ Here.depth \in Nat /\ Here.queued \in Nat /\ Here.fan \in Nat
         /\ InstructionOK(module, PC)
         /\ Opcode \in Instr /\ PC + Operands(Opcode) < Len(Code)
         /\ Reads(Opcode) <= Here.depth /\ Here.depth <= StackSize
         /\ Here.depth + Growth(Opcode) \in 0 .. StackSize
<1>1. PC \in Addresses(module) /\ module \in Modules
  BY DEF Known, Flow, AtInstruction, MachineInv, TypeOK
<1>2. /\ PC \in Nat
      /\ Here.depth \in Nat /\ Here.queued \in Nat /\ Here.fan \in Nat
  BY <1>1, SigAssumption DEF Here
<1>3. InstructionOK(module, PC)
  BY <1>1, VerifiedAssumption DEF Verified
<1>4. module.code \in Seq(Nat)
  BY <1>1, ModuleAssumption
<1>5. Operands(Opcode) \in Nat
  BY DEF Operands
<1>6. Opcode \in Instr /\ PC + 1 + Operands(Opcode) <= Len(Code)
  BY <1>3 DEF InstructionOK, Opcode, Code
<1>7. PC + Operands(Opcode) < Len(Code)
  BY <1>2, <1>4, <1>5, <1>6 DEF Code
<1>8. /\ Reads(Opcode) <= Here.depth /\ Here.depth <= StackSize
      /\ Here.depth + Growth(Opcode) \in 0 .. StackSize
  BY <1>3 DEF InstructionOK, Opcode, Code, Here
<1>9. QED
  BY <1>1, <1>2, <1>3, <1>6, <1>7, <1>8

(* At an instruction inside quosi_vm_exec the stack and the queue are as   *)
(* the signature says.                                                     *)
LEMMA Running ==
  ASSUME Known, upcall = "NONE"
  PROVE  /\ SP = Here.depth /\ SP \in Nat /\ TH \in Nat /\ ~pushed
         /\ Opcode = iSWITCH => TH = 0 /\ top < Here.fan
         /\ Opcode # iSWITCH => TH <= Here.queued /\ QueueFits(TH)
<1>1. AtInstruction
  BY DEF Known, Flow
<1>2. SP \in Nat /\ TH \in Nat /\ ~pushed
  BY SizeAssumption DEF Known, MachineInv, TypeOK, ChoiceInv
<1>3. QED
  BY <1>1, <1>2 DEF AtInstruction

(* So verified code never reads or writes outside its arrays.              *)
LEMMA AlwaysDefined ==
  ASSUME Known, upcall = "NONE"
  PROVE  Fetched /\ Opcode \in Instr /\ Defined(Opcode)
<1>1. /\ SP = Here.depth /\ TH \in Nat /\ SP \in Nat
      /\ Opcode = iSWITCH => top < Here.fan
      /\ Opcode # iSWITCH => TH <= Here.queued
  BY Running
<1>2. /\ Opcode \in Instr /\ PC \in Nat /\ PC + Operands(Opcode) < Len(Code)
      /\ Reads(Opcode) <= SP /\ SP + Growth(Opcode) \in 0 .. StackSize
      /\ Here.queued \in Nat /\ Here.fan \in Nat /\ InstructionOK(module, PC)
      /\ module \in Modules
  BY <1>1, AtAddress
<1>3. Operands(Opcode) \in Nat /\ Len(Code) \in Nat
  BY <1>2, ModuleAssumption DEF Operands, Code
<1>4. Fetched
  BY <1>2, <1>3 DEF Fetched
<1>5. Growth(Opcode) = 1 => SP < StackSize
  BY <1>1, <1>2, SizeAssumption
<1>6. Opcode \in {iLOAD, iSTORE, iIEQK} => Operand(1) \in Keys
  BY <1>2 DEF InstructionOK, Opcode, Operand, Code
<1>7. Opcode = iPROP => TH < QueueSize
  <2>1. Opcode = iPROP => Here.queued < QueueSize
    BY <1>2 DEF InstructionOK, Opcode, Here, Code
  <2>2. iPROP # iSWITCH
    BY DEF iPROP, iSWITCH
  <2>3. QED
    BY <1>1, <1>2, <2>1, <2>2, SizeAssumption
<1>8. Opcode = iSWITCH => PC + 1 + stack[SP - 1] < Len(Code)
  <2> SUFFICES ASSUME Opcode = iSWITCH PROVE PC + 1 + stack[SP - 1] < Len(Code)
    OBVIOUS
  <2>1. PC + Here.fan < Len(Code)
    BY <1>2 DEF InstructionOK, Opcode, Here, Code
  <2>2. SP >= 1
    BY <1>2, InstructionTable
  <2>3. top \in Nat
    BY <1>1, <2>2, AtAddress, SlotType DEF Known, MachineInv
  <2>4. QED
    BY <1>1, <1>2, <1>3, <2>1, <2>3 DEF top
<1>9. QED
  BY <1>2, <1>4, <1>5, <1>6, <1>7, <1>8 DEF Defined


-----------------------------------------------------------------------------
(* Arriving *)

(* A step to an address the signature allows, inside quosi_vm_exec.        *)
LEMMA Arrive ==
  ASSUME NEW d, NEW q \in Nat, NEW f \in Nat,
         module \in Modules, module' = module, upcall' = "NONE", SP' = d,
         Flows(module, PC', d, q, f),
         TH' \in Nat, TH' <= q, \A i \in 0 .. TH' - 1 : text'[i].idx < f
  PROVE  Flow'
<1>1. /\ PC' \in Addresses(module') /\ Opcode' # iSWITCH
      /\ Here'.depth = d /\ q <= Here'.queued /\ (q > 0 => Here'.fan = f)
  BY DEF Flows, Opcode, Code, Here
<1>2. Here'.queued \in Nat
  BY <1>1, SigAssumption DEF Here
<1>3. TH' <= Here'.queued
  BY <1>1, <1>2
<1>4. QueueFits(TH)'
  <2>1. CASE TH' = 0
    BY <2>1 DEF QueueFits
  <2>2. CASE TH' > 0
    <3>1. Here'.fan = f
      BY <1>1, <2>2
    <3>2. QED
      BY <3>1 DEF QueueFits
  <2>3. QED
    BY <2>1, <2>2
<1>5. QED
  BY <1>1, <1>3, <1>4 DEF Flow, NoFault, AtInstruction

(* A jump to a label the signature allows.                                 *)
LEMMA ArriveAtLabel ==
  ASSUME NEW label, NEW d \in Nat, d <= StackSize, NEW q \in Nat, NEW f \in Nat,
         module \in Modules, module' = module, SP' = d,
         Leads(module, label, d, q, f), Goto(label, d),
         TH' \in Nat, TH' <= q, \A i \in 0 .. TH' - 1 : text'[i].idx < f
  PROVE  Flow'
<1>1. CASE label = EXIT_LABEL
  BY <1>1 DEF Goto, Flow, NoFault
<1>2. CASE label # EXIT_LABEL
  <2>1. Flows(module, PC', d, q, f)
    BY <1>2 DEF Leads, Goto
  <2>2. upcall' = "NONE"
    BY <1>2, SizeAssumption DEF Goto, Continue
  <2>3. QED
    BY <2>1, <2>2, Arrive
<1>3. QED
  BY <1>1, <1>2

-----------------------------------------------------------------------------
(* Steps *)

(* An instruction that goes on to the next one and leaves the queue alone. *)
LEMMA NextInstruction ==
  ASSUME Known, upcall = "NONE",
         Opcode \notin {iEOF, iJUMP, iSWITCH, iPROP, iPICK, iLINE, iEVENT},
         Next1, SP' = SP + Growth(Opcode), upcall' = "NONE",
         UNCHANGED <<module, queue>>
  PROVE  Flow'
<1>1. SP = Here.depth /\ TH \in Nat /\ TH <= Here.queued /\ QueueFits(TH)
  BY Running
<1>2. /\ Here.queued \in Nat /\ Here.fan \in Nat /\ InstructionOK(module, PC)
      /\ module \in Modules
  BY AtAddress
<1>3. Flows(module, PC', SP', Here.queued, Here.fan)
  BY <1>1, <1>2 DEF InstructionOK, Opcode, Here, Code, Next1
<1>4. QED
  BY <1>1, <1>2, <1>3, Arrive DEF QueueFits

(* An instruction that leaves a value goes on to the next, as signed.      *)
LEMMA ComputeFlow == ASSUME Known, Compute PROVE Flow'
<1>1. /\ upcall = "NONE" /\ Next1 /\ UNCHANGED <<module, queue>>
  BY DEF Compute, Fetch
<1>2. SP \in Nat /\ SP + Growth(Opcode) \in 0 .. StackSize /\ SP = Here.depth
  BY <1>1, AtAddress, Running
<1>3. ASSUME NEW op \in Instr, Fetch(op), NEW v, Deposit(SP + Growth(op) - 1, v),
             op \notin {iEOF, iJUMP, iSWITCH, iPROP, iPICK, iLINE, iEVENT}
      PROVE  Flow'
  <2>1. Opcode = op
    BY <1>3 DEF Fetch
  <2>2. Growth(op) \in Int
    BY DEF Growth
  <2>3. SP' = SP + Growth(op) /\ upcall' = "NONE"
    BY <1>2, <1>3, <2>1, <2>2, SizeAssumption DEF Deposit, Continue
  <2>4. QED
    BY <1>1, <1>3, <2>1, <2>3, NextInstruction
<1>4. /\ \A op \in {iPUSH, iDUP, iLOAD, iIEQV, iIEQK} :
           op \in Instr /\ SP + Growth(op) - 1 = SP
      /\ \A op \in {iLNOT, iNEG} : op \in Instr /\ SP + Growth(op) - 1 = SP - 1
      /\ \A op \in Binary \cup {iDIV} : op \in Instr /\ SP + Growth(op) - 1 = SP - 2
  BY <1>2, InstructionTable
<1>5. \A op \in Binary \cup {iPUSH, iDUP, iLOAD, iIEQV, iIEQK, iLNOT, iNEG, iDIV} :
        op \notin {iEOF, iJUMP, iSWITCH, iPROP, iPICK, iLINE, iEVENT}
  BY DEF Binary, iEOF, iPUSH, iPOP, iDUP, iLOAD, iSTORE, iLAND, iLOR, iLNOT, iADD, iSUB,
     iMUL, iDIV, iNEG, iEQU, iNEQ, iIEQV, iIEQK, iLEQ, iLTH, iGEQ, iGTH, iJUMP, iJZ,
     iJNZ, iSWITCH, iPROP, iPICK, iLINE, iEVENT
<1>6. \A op \in {iPUSH, iDUP, iLOAD, iIEQV, iIEQK} :
        \A v : Fetch(op) /\ Deposit(SP, v) => Flow'
  BY <1>3, <1>4, <1>5
<1>7. \A op \in {iLNOT, iNEG} : \A v : Fetch(op) /\ Deposit(SP - 1, v) => Flow'
  BY <1>3, <1>4, <1>5
<1>8. \A op \in Binary \cup {iDIV} : \A v : Fetch(op) /\ Deposit(SP - 2, v) => Flow'
  BY <1>3, <1>4, <1>5
<1>9. QED
  BY <1>6, <1>7, <1>8 DEF Compute

(* POP and STORE go on to the next instruction with one value less.        *)
LEMMA StackFlow == ASSUME Known, Pop \/ Store PROVE Flow'
<1>1. upcall = "NONE" /\ Next1 /\ UNCHANGED <<module, queue>>
  BY DEF Pop, Store, Fetch
<1>2. Opcode \in {iPOP, iSTORE} /\ Growth(Opcode) = -1
  BY InstructionTable DEF Pop, Store, Fetch
<1>3. SP \in 1 .. StackSize
  BY <1>1, <1>2, AtAddress, Running
<1>4. (SP - 1) % U32 = SP - 1
  BY <1>3, SizeAssumption
<1>5. SP' = SP - 1 /\ Continue(SP - 1)
  BY <1>4 DEF Pop, Store
<1>6. upcall' = "NONE"
  BY <1>3, <1>5, SizeAssumption DEF Continue
<1>7. Opcode \notin {iEOF, iJUMP, iSWITCH, iPROP, iPICK, iLINE, iEVENT}
  BY <1>2 DEF iEOF, iPOP, iSTORE, iJUMP, iSWITCH, iPROP, iPICK, iLINE, iEVENT
<1>8. QED
  BY <1>1, <1>2, <1>3, <1>5, <1>6, <1>7, NextInstruction


(* A jump, taken or not, arrives where the signature allows it.            *)
LEMMA JumpFlow == ASSUME Known, Jump \/ Branch PROVE Flow'
<1>1. upcall = "NONE" /\ UNCHANGED <<module, queue>>
  BY DEF Jump, Branch, Fetch
<1>2. Opcode \in {iJUMP, iJZ, iJNZ}
  BY DEF Jump, Branch, Fetch
<1>3. /\ SP = Here.depth /\ SP + Growth(Opcode) \in 0 .. StackSize
      /\ Here.queued \in Nat /\ Here.fan \in Nat /\ module \in Modules
      /\ InstructionOK(module, PC)
  BY <1>1, AtAddress, Running
<1>4. Opcode # iSWITCH
  BY <1>2 DEF iJUMP, iJZ, iJNZ, iSWITCH
<1>5. TH \in Nat /\ TH <= Here.queued /\ \A i \in 0 .. TH - 1 : text[i].idx < Here.fan
  BY <1>1, <1>4, Running DEF QueueFits
<1>6. Leads(module, Operand(1), SP + Growth(Opcode), Here.queued, Here.fan)
  BY <1>2, <1>3 DEF InstructionOK, Opcode, Operand, Here, Code
<1>7. SP' = SP + Growth(Opcode)
  <2>1. SP \in Nat
    BY <1>1, Running
  <2>2. CASE Jump
    BY <2>1, <2>2, InstructionTable DEF Jump, Fetch
  <2>3. CASE Branch
    <3>1. Growth(Opcode) = -1 /\ SP' = SP - 1
      BY <2>3, InstructionTable DEF Branch, Fetch
    <3>2. QED
      BY <2>1, <3>1
  <2>4. QED
    BY <2>2, <2>3
<1>8. CASE Goto(Operand(1), SP')
  BY <1>1, <1>3, <1>5, <1>6, <1>7, <1>8, ArriveAtLabel
<1>9. CASE Branch /\ Next1 /\ Continue(SP')
  <2>1. upcall' = "NONE"
    BY <1>3, <1>7, <1>9, SizeAssumption DEF Continue
  <2>2. Opcode \notin {iEOF, iJUMP, iSWITCH, iPROP, iPICK, iLINE, iEVENT}
    BY <1>9 DEF Branch, Fetch, iJZ, iJNZ, iEOF, iJUMP, iSWITCH, iPROP, iPICK, iLINE, iEVENT
  <2>3. QED
    BY <1>1, <1>7, <1>9, <2>1, <2>2, NextInstruction
<1>10. Jump => Goto(Operand(1), SP')
  BY DEF Jump
<1>11. Branch => Goto(Operand(1), SP') \/ (Next1 /\ Continue(SP'))
  BY DEF Branch
<1>12. QED
  BY <1>8, <1>9, <1>10, <1>11

(* The answer on top of the stack chooses an entry of the table.           *)
LEMMA SwitchFlow == ASSUME Known, Switch PROVE Flow'
<1>1. upcall = "NONE" /\ Opcode = iSWITCH /\ UNCHANGED <<module, queue>>
  BY DEF Switch, Fetch
<1>2. /\ SP = Here.depth /\ SP + Growth(Opcode) \in 0 .. StackSize
      /\ Here.fan \in Nat /\ module \in Modules /\ TH = 0 /\ top < Here.fan
      /\ SP >= 1 /\ SP <= StackSize /\ InstructionOK(module, PC)
  BY <1>1, AtAddress, Running, InstructionTable
<1>3. top \in Nat
  BY <1>2, SlotType DEF Known, MachineInv
<1>4. SP' = SP + Growth(Opcode) /\ SP' = SP - 1
  BY <1>1, <1>2, InstructionTable DEF Switch
<1>5. 1 + top \in 1 .. Here.fan
  BY <1>2, <1>3
<1>6. Leads(module, Operand(1 + top), SP', 0, 0)
  BY <1>1, <1>2, <1>4, <1>5 DEF InstructionOK, Opcode, Operand, Here, Code
<1>7. Goto(Operand(1 + top), SP')
  BY <1>4 DEF Switch
<1>8. /\ SP' \in Nat /\ SP' <= StackSize /\ TH' \in Nat /\ TH' <= 0
      /\ \A i \in 0 .. TH' - 1 : text'[i].idx < 0
  BY <1>1, <1>2, <1>4, SizeAssumption
<1>9. QED
  BY <1>1, <1>2, <1>6, <1>7, <1>8, ArriveAtLabel

(* A proposition queued fits the queue and indexes the table ahead.        *)
LEMMA PropFlow == ASSUME Known, Prop PROVE Flow'
<1>1. upcall = "NONE" /\ Opcode = iPROP /\ UNCHANGED <<module, SP>>
  BY DEF Prop, Fetch
<1>2. Opcode # iSWITCH
  BY <1>1 DEF iPROP, iSWITCH
<1>3. /\ SP = Here.depth /\ SP \in Nat /\ SP <= StackSize
      /\ Here.queued \in Nat /\ Here.fan \in Nat /\ module \in Modules
      /\ InstructionOK(module, PC)
  BY <1>1, AtAddress, Running
<1>4. TH \in Nat /\ TH <= Here.queued /\ \A i \in 0 .. TH - 1 : text[i].idx < Here.fan
  BY <1>1, <1>2, Running DEF QueueFits
<1>5. Growth(Opcode) = 0 /\ Here.depth \in Nat
  BY <1>1, AtAddress, InstructionTable
<1>6. /\ Operand(2) < Here.fan /\ Here.queued < QueueSize
      /\ Flows(module, PC', SP, Here.queued + 1, Here.fan)
  BY <1>1, <1>3, <1>5 DEF InstructionOK, Opcode, Operand, Here, Code, Prop, Next1
<1>7. TH \in 0 .. QueueSize - 1 /\ TH' = TH + 1 /\ TH' <= Here.queued + 1
  BY <1>3, <1>4, <1>6, SizeAssumption DEF Prop
<1>8. \A i \in 0 .. TH' - 1 : text'[i].idx < Here.fan
  BY <1>4, <1>6, <1>7 DEF Prop, Known, MachineInv, TypeOK
<1>9. upcall' = "NONE"
  BY <1>3, SizeAssumption DEF Prop, Continue
<1>10. QED
  BY <1>1, <1>3, <1>6, <1>7, <1>8, <1>9, Arrive

(* PICK freezes the queue, and the table is next. *)
LEMMA PickFlow == ASSUME Known, Pick PROVE Flow'
<1>1. /\ upcall = "NONE" /\ Opcode = iPICK
      /\ upcall' = "PICK" /\ Next1 /\ B' = TH /\ UNCHANGED <<module, SP, queue, host>>
  BY DEF Pick, Fetch
<1>2. Opcode # iSWITCH
  BY <1>1 DEF iPICK, iSWITCH
<1>3. /\ SP = Here.depth /\ SP \in Nat /\ ~pushed
      /\ Here.queued \in Nat /\ Here.fan \in Nat /\ module \in Modules
      /\ InstructionOK(module, PC)
  BY <1>1, AtAddress, Running
<1>4. TH \in Nat /\ TH <= Here.queued /\ \A i \in 0 .. TH - 1 : text[i].idx < Here.fan
  BY <1>1, <1>2, Running DEF QueueFits
<1>5. /\ PC' \in Addresses(module) /\ Code[PC' + 1] = iSWITCH
      /\ module.sig[PC'].depth = Here.depth + 1
      /\ Here.queued > 0 => module.sig[PC'].fan = Here.fan
  BY <1>1, <1>3 DEF InstructionOK, Opcode, Here, Code, Next1
<1>6. Opcode' = iSWITCH /\ SP' = Here'.depth - 1
  BY <1>1, <1>3, <1>5, SizeAssumption DEF Opcode, Code, Here
<1>7. QueueFits(B)'
  <2>1. CASE TH = 0
    BY <1>1, <2>1 DEF QueueFits
  <2>2. CASE TH > 0
    <3>1. Here'.fan = Here.fan
      BY <1>1, <1>3, <1>4, <1>5, <2>2 DEF Here
    <3>2. QED
      BY <1>1, <1>4, <3>1 DEF QueueFits
  <2>3. QED
    BY <1>4, <2>1, <2>2
<1>8. QED
  BY <1>1, <1>3, <1>5, <1>6, <1>7 DEF Flow, NoFault, AtInstruction

(* After a line or an event the host finds an instruction that is signed.  *)
LEMMA SpeakFlow == ASSUME Known, Line \/ Event PROVE Flow'
<1>1. /\ upcall = "NONE" /\ Opcode \in {iLINE, iEVENT}
      /\ upcall' \in {"LINE", "EVENT"} /\ Next1 /\ UNCHANGED <<module, SP>>
  BY DEF Line, Event, Fetch
<1>2. /\ SP = Here.depth /\ SP \in Nat /\ module \in Modules
      /\ InstructionOK(module, PC) /\ Growth(Opcode) = 0
  BY <1>1, AtAddress, Running, InstructionTable
<1>3. Flows(module, PC', SP, 0, 0)
  BY <1>1, <1>2 DEF InstructionOK, Opcode, Here, Code, Next1
<1>4. PC' \in Addresses(module) /\ Opcode' # iSWITCH /\ Here'.depth = SP
  BY <1>1, <1>3 DEF Flows, Opcode, Code, Here
<1>5. QED
  BY <1>1, <1>4 DEF Flow, NoFault, AtInstruction

(* Every instruction keeps what the signature says.                        *)
LEMMA StepFlow == ASSUME Known, Step PROVE Flow'
<1>1. CASE Eof \/ DivideByZero
  BY <1>1 DEF Eof, DivideByZero, Flow, NoFault
<1>2. CASE Unknown \/ Undefined
  <2>1. upcall = "NONE"
    BY <1>2 DEF Unknown, Undefined
  <2>2. QED
    BY <1>2, <2>1, AlwaysDefined DEF Unknown, Undefined
<1>3. QED
  BY <1>1, <1>2, ComputeFlow, StackFlow, JumpFlow, SwitchFlow, PropFlow, PickFlow,
     SpeakFlow DEF Step


(* The host's calls keep what the signature says of the stack and queue.   *)
LEMMA HostFlow == ASSUME Known, Host PROVE Flow'
<1>1. TypeOK /\ ChoiceInv /\ Flow
  BY DEF Known, MachineInv
<1>2. CASE Exec
  <2>1. upcall \notin {"EXIT", "TRAP"} /\ AtInstruction
    BY <1>1, <1>2 DEF Exec, Flow
  <2>2. Here.queued \in Nat /\ Here.fan \in Nat
    BY <2>1, AtAddress
  <2>3. SP = Here.depth /\ (Opcode = iSWITCH => top < Here.fan)
    <3>1. CASE upcall \in {"INIT", "LINE", "EVENT"}
      BY <2>1, <3>1 DEF AtInstruction
    <3>2. CASE upcall = "PICK" /\ pushed
      <4>1. SP = Here.depth /\ QueueFits(B)
        BY <2>1, <3>2, AtAddress DEF AtInstruction
      <4>2. PICK i \in 1 .. TT : top = pindex[i]
        BY <1>1, <3>2 DEF ChoiceInv, top
      <4>3. TT = B /\ TT \in Nat /\ pindex[i] = text[i - 1].idx
        BY <1>1, <3>2, <4>2, SizeAssumption DEF ChoiceInv, TypeOK
      <4>4. i - 1 \in 0 .. B - 1
        BY <4>3
      <4>5. QED
        BY <4>1, <4>2, <4>3, <4>4 DEF QueueFits
    <3>3. QED
      BY <1>2, <3>1, <3>2 DEF Exec
  <2>4. /\ Here' = Here /\ Opcode' = Opcode /\ top' = top /\ SP' = SP
        /\ TH' = 0 /\ upcall' = "NONE" /\ PC' \in Addresses(module')
    BY <1>2, <2>1 DEF Exec, Here, Opcode, Code, top, AtInstruction
  <2>5. QueueFits(TH)'
    BY <2>4 DEF QueueFits
  <2>6. QED
    BY <2>2, <2>3, <2>4, <2>5 DEF Flow, NoFault, AtInstruction
<1>3. CASE Dequeue
  <2>1. /\ upcall = "PICK" /\ TT < B /\ B = TH /\ TH <= QueueSize /\ TT \in Nat /\ B \in Nat
    BY <1>1, <1>3, SizeAssumption DEF Dequeue, ChoiceInv, TypeOK
  <2>2. UNCHANGED <<module, PC, SP, B, text, upcall, pushed>>
    BY <1>3, <2>1, SizeAssumption DEF Dequeue
  <2>3. QED
    BY <1>1, <2>1, <2>2 DEF Flow, NoFault, AtInstruction, Here, Opcode, Code, QueueFits
<1>4. CASE PopValue
  <2>1. /\ upcall = "PICK" /\ pushed /\ ~pushed' /\ SP' = SP - 1
        /\ UNCHANGED <<module, PC, B, text, upcall>>
    BY <1>4 DEF PopValue
  <2>2. AtInstruction
    BY <1>1, <2>1 DEF Flow
  <2>3. SP = Here.depth
    BY <2>1, <2>2, AtAddress DEF AtInstruction
  <2>4. QED
    BY <2>1, <2>2, <2>3 DEF Flow, NoFault, AtInstruction, Here, Opcode, Code, QueueFits
<1>5. ASSUME NEW i \in 1 .. QueueSize, PushValue(i) PROVE Flow'
  <2>1. upcall = "PICK" /\ ~pushed
    BY <1>5 DEF PushValue
  <2>2. AtInstruction
    BY <1>1, <2>1 DEF Flow
  <2>3. SP = Here.depth - 1 /\ Here.depth \in Nat /\ Here.depth <= StackSize
    BY <2>1, <2>2, AtAddress DEF AtInstruction
  <2>4. SP < StackSize /\ SP + 1 = Here.depth
    BY <2>3, SizeAssumption
  <2>5. pushed' /\ SP' = SP + 1 /\ UNCHANGED <<module, PC, B, text, upcall>>
    BY <1>5, <2>4 DEF PushValue
  <2>6. QED
    BY <2>1, <2>2, <2>3, <2>4, <2>5
       DEF Flow, NoFault, AtInstruction, Here, Opcode, Code, QueueFits
<1>6. ASSUME NEW k \in Keys, NEW v \in Word, Write(k, v) PROVE Flow'
  <2>1. UNCHANGED <<module, PC, SP, B, TH, text, stack, upcall, pushed>>
    BY <1>6 DEF Write
  <2>2. QED
    BY <1>1, <2>1 DEF Flow, NoFault, AtInstruction, Here, Opcode, Code, QueueFits, top
<1>7. ASSUME NEW m \in Modules, Restart(m) PROVE Flow'
  <2>1. module' = m /\ PC' = m.entry /\ SP' = 0 /\ upcall' = "INIT"
    BY <1>7 DEF Restart, Load
  <2>2. Flows(m, m.entry, 0, 0, 0)
    BY VerifiedAssumption DEF Verified
  <2>3. QED
    BY <2>1, <2>2 DEF Flow, NoFault, AtInstruction, Flows, Here, Opcode, Code
<1>8. QED
  BY <1>2, <1>3, <1>4, <1>5, <1>6, <1>7 DEF Host

(* The entry of a module is signed with an empty stack.                    *)
LEMMA InitFlow == ASSUME Init PROVE Flow
<1>1. module \in Modules /\ PC = module.entry /\ SP = 0 /\ upcall = "INIT"
  BY DEF Init
<1>2. Flows(module, module.entry, 0, 0, 0)
  BY <1>1, VerifiedAssumption DEF Verified
<1>3. QED
  BY <1>1, <1>2 DEF Flow, NoFault, AtInstruction, Flows, Here, Opcode, Code

-----------------------------------------------------------------------------
(* No step of the machine or of its host breaks what is known.             *)
LEMMA KnownKept == ASSUME Known, [Next]_vars PROVE Known'
<1>1. MachineInv /\ ChoiceInv /\ Flow
  BY DEF Known
<1>2. CASE Step
  BY <1>1, <1>2, StepMachine, ChoiceStep, StepFlow DEF Known
<1>3. CASE Host
  BY <1>1, <1>3, HostMachine, ChoiceHost, HostFlow DEF Known
<1>4. CASE UNCHANGED vars
  BY <1>1, <1>4 DEF vars, Known, MachineInv, TypeOK, Contained, ChoiceInv, Flow,
     NoFault, AtInstruction, Here, Opcode, Code, QueueFits, top
<1>5. QED
  BY <1>2, <1>3, <1>4 DEF Next

(* The signature of verified code describes every state of the machine     *)
(* until the dialogue ends: the inductive invariant.                       *)
THEOREM SignatureHolds == Spec => []IInv
<1>1. Init => Known
  BY MachineInit, ChoiceInit, InitFlow DEF Known
<1>2. Known /\ [Next]_vars => Known'
  BY KnownKept
<1>3. Known => IInv
  BY DEF Known, MachineInv, Flow, IInv
<1>4. QED
  BY <1>1, <1>2, <1>3, PTL DEF Spec

(* Verified code never makes the machine read or write outside its code,   *)
(* stack or queue, or give up, however long the dialogue and whatever the  *)
(* host does to the variables (vm.c:12-208).                               *)
THEOREM VerifiedNeverFaults == Spec => []NoFault
<1>1. IInv => NoFault
  BY DEF IInv
<1>2. QED
  BY <1>1, SignatureHolds, PTL

-----------------------------------------------------------------------------
(* Balance *)

(* Reaching the end, at a label that level code allows, the stack is empty.*)
LEMMA LevelGoto ==
  ASSUME NEW label, NEW d \in 0 .. StackSize, label = EXIT_LABEL => d = 0,
         Goto(label, d), SP' = d
  PROVE  Balanced'
<1>1. CASE label = EXIT_LABEL
  BY <1>1 DEF Balanced
<1>2. CASE label # EXIT_LABEL
  <2>1. upcall' = "NONE"
    BY <1>2, SizeAssumption DEF Goto, Continue
  <2>2. QED
    BY <2>1 DEF Balanced
<1>3. QED
  BY <1>1, <1>2

(* What level code says of the instruction the machine is at.              *)
LEMMA LevelHere ==
  ASSUME Known, upcall = "NONE"
  PROVE  /\ Opcode \in {iLINE, iEVENT, iEOF} => SP = 0
         /\ Opcode \in {iJUMP, iJZ, iJNZ} /\ Operand(1) = EXIT_LABEL =>
              SP + Growth(Opcode) = 0
         /\ Opcode = iSWITCH => \A i \in 1 .. Here.fan :
              Operand(i) = EXIT_LABEL => SP + Growth(Opcode) = 0
<1>1. PC \in Addresses(module) /\ module \in Modules /\ SP = Here.depth
  BY AtAddress, Running
<1>2. Level(module)
  BY <1>1, LevelAssumption
<1>3. QED
  BY <1>1, <1>2 DEF Level, Opcode, Operand, Code, Here

(* Every instruction that shows something, or ends the dialogue, finds the *)
(* stack empty.                                                            *)
LEMMA StepBalanced == ASSUME Known, Step PROVE Balanced'
<1>1. CASE Eof \/ Line \/ Event
  <2>1. upcall = "NONE" /\ Opcode \in {iLINE, iEVENT, iEOF} /\ SP' = SP
    BY <1>1 DEF Eof, Line, Event, Fetch
  <2>2. QED
    BY <2>1, LevelHere DEF Balanced
<1>2. CASE Jump
  <2>1. upcall = "NONE" /\ Opcode = iJUMP /\ Goto(Operand(1), SP) /\ SP' = SP
    BY <1>2 DEF Jump, Fetch
  <2>2. Growth(Opcode) = 0 /\ SP \in 0 .. StackSize
    BY <2>1, AtAddress, Running, InstructionTable
  <2>3. Operand(1) = EXIT_LABEL => SP = 0
    BY <2>1, <2>2, LevelHere
  <2>4. QED
    BY <2>1, <2>2, <2>3, LevelGoto
<1>3. CASE Branch
  <2>1. upcall = "NONE" /\ Opcode \in {iJZ, iJNZ} /\ SP' = SP - 1
    BY <1>3 DEF Branch, Fetch
  <2>2. Growth(Opcode) = -1 /\ SP - 1 \in 0 .. StackSize
    BY <2>1, AtAddress, Running, InstructionTable
  <2>3. Operand(1) = EXIT_LABEL => SP - 1 = 0
    BY <2>1, <2>2, Running, LevelHere
  <2>4. CASE Goto(Operand(1), SP - 1)
    BY <2>1, <2>2, <2>3, <2>4, LevelGoto
  <2>5. CASE Continue(SP - 1)
    BY <2>2, <2>5, SizeAssumption DEF Continue, Balanced
  <2>6. QED
    BY <1>3, <2>4, <2>5 DEF Branch
<1>4. CASE Switch
  <2>1. /\ upcall = "NONE" /\ Opcode = iSWITCH /\ SP' = SP - 1
        /\ Goto(Operand(1 + top), SP - 1)
    BY <1>4 DEF Switch, Fetch
  <2>2. /\ Growth(Opcode) = -1 /\ SP - 1 \in 0 .. StackSize
        /\ top < Here.fan /\ Here.fan \in Nat
    BY <2>1, AtAddress, Running, InstructionTable
  <2>3. top \in Nat
    BY <2>2, AtAddress, SlotType, <2>1, Running DEF Known, MachineInv
  <2>4. Operand(1 + top) = EXIT_LABEL => SP - 1 = 0
    BY <2>1, <2>2, <2>3, Running, LevelHere
  <2>5. QED
    BY <2>1, <2>2, <2>4, LevelGoto
<1>5. CASE Compute \/ Pop \/ Store \/ Prop \/ Pick \/ DivideByZero \/ Unknown \/ Undefined
  <2>1. upcall' \notin {"INIT", "LINE", "EVENT", "EXIT"}
    BY <1>5 DEF Compute, Pop, Store, Prop, Pick, DivideByZero, Unknown, Undefined,
       Deposit, Continue
  <2>2. QED
    BY <2>1 DEF Balanced
<1>6. QED
  BY <1>1, <1>2, <1>3, <1>4, <1>5 DEF Step

(* The host changes the stack only while it answers a choice.              *)
LEMMA HostBalanced == ASSUME Balanced, Host PROVE Balanced'
<1>1. CASE Exec
  BY <1>1 DEF Exec, Balanced
<1>2. CASE Dequeue
  BY <1>2 DEF Dequeue, Balanced
<1>3. CASE PopValue
  BY <1>3 DEF PopValue, Balanced
<1>4. ASSUME NEW i \in 1 .. QueueSize, PushValue(i) PROVE Balanced'
  BY <1>4 DEF PushValue, Balanced
<1>5. ASSUME NEW k \in Keys, NEW v \in Word, Write(k, v) PROVE Balanced'
  BY <1>5 DEF Write, Balanced
<1>6. ASSUME NEW m \in Modules, Restart(m) PROVE Balanced'
  BY <1>6 DEF Restart, Load, Balanced
<1>7. QED
  BY <1>1, <1>2, <1>3, <1>4, <1>5, <1>6 DEF Host

(* Level code leaves nothing on the stack at a line, an event or the end,  *)
(* however long the dialogue (gen.c:293, 340, 344).                        *)
THEOREM VerifiedBalanced == Spec => []Balanced
<1>1. Init => Known /\ Balanced
  BY MachineInit, ChoiceInit, InitFlow DEF Known, Init, Balanced
<1>2. Known /\ Balanced /\ [Next]_vars => Known' /\ Balanced'
  <2> SUFFICES ASSUME Known, Balanced, [Next]_vars PROVE Known' /\ Balanced'
    OBVIOUS
  <2>1. Known'
    BY KnownKept
  <2>2. CASE Step
    BY <2>1, <2>2, StepBalanced
  <2>3. CASE Host
    BY <2>1, <2>3, HostBalanced
  <2>4. CASE UNCHANGED vars
    BY <2>1, <2>4 DEF vars, Balanced
  <2>5. QED
    BY <2>2, <2>3, <2>4 DEF Next
<1>3. QED
  BY <1>1, <1>2, PTL DEF Spec
=============================================================================
