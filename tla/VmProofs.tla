------------------------------- MODULE VmProofs -------------------------------
(***************************************************************************)
(* Theorems about the virtual machine, for every size of its arrays, every *)
(* width of its integers and every set of modules.                         *)
(***************************************************************************)
EXTENDS VmVerified, TLAPS

-----------------------------------------------------------------------------
(* Operators *)

(* A remainder is a natural number below the divisor. *)
LEMMA Remainder ==
  ASSUME NEW a \in Int, NEW n \in Nat \ {0}
  PROVE  a % n \in 0 .. n - 1
OBVIOUS

(* The instructions of Binary compute natural numbers. *)
LEMMA AluType ==
  ASSUME NEW op \in Binary, NEW lhs \in Nat, NEW rhs \in Nat
  PROVE  Alu(op, lhs, rhs) \in Nat
<1>1. lhs * rhs \in Int
  OBVIOUS
<1>2. /\ (lhs + rhs) % WORD \in Nat
      /\ (lhs - rhs) % WORD \in Nat
      /\ (lhs * rhs) % WORD \in Nat
  BY <1>1, Remainder, SizeAssumption
<1>3. \A b \in BOOLEAN : Bit(b) \in Nat
  BY DEF Bit
<1>4. QED
  BY <1>2, <1>3 DEF Alu, Binary, iLAND, iLOR, iADD, iSUB, iMUL, iEQU, iNEQ, iLEQ, iLTH,
     iGEQ, iGTH, Bit


(* What Reads, Growth and Operands say of each instruction. *)
LEMMA InstructionTable ==
  /\ \A op \in Binary \cup {iDIV} :
       op \in Instr /\ Reads(op) = 2 /\ Growth(op) = -1 /\ Operands(op) = 0
  /\ \A op \in {iPUSH, iDUP, iLOAD, iIEQV, iIEQK} : Growth(op) = 1
  /\ \A op \in {iPOP, iSTORE, iJZ, iJNZ, iSWITCH} : Growth(op) = -1
  /\ \A op \in {iEOF, iLNOT, iNEG, iJUMP, iPROP, iPICK, iLINE, iEVENT} : Growth(op) = 0
  /\ \A op \in {iDUP, iSTORE, iLNOT, iNEG, iIEQV, iIEQK, iJZ, iJNZ, iSWITCH} :
       op \in Instr /\ Reads(op) = 1
  /\ \A op \in {iEOF, iPUSH, iPOP, iLOAD, iJUMP, iPROP, iPICK, iLINE, iEVENT} :
       op \in Instr /\ Reads(op) = 0
  /\ \A op \in {iPUSH, iLOAD, iSTORE, iIEQV, iIEQK, iJUMP, iJZ, iJNZ, iEVENT} :
       Operands(op) = 1
  /\ \A op \in {iPROP, iLINE} : Operands(op) = 2
  /\ \A op \in {iEOF, iPOP, iDUP, iLNOT, iNEG, iSWITCH, iPICK} : Operands(op) = 0
  BY DEF Instr, Reads, Growth, Operands, Binary, iEOF, iPUSH, iPOP, iDUP, iLOAD, iSTORE,
     iLAND, iLOR, iLNOT, iADD, iSUB, iMUL, iDIV, iNEG, iEQU, iNEQ, iIEQV, iIEQK, iLEQ,
     iLTH, iGEQ, iGTH, iJUMP, iJZ, iJNZ, iSWITCH, iPROP, iPICK, iLINE, iEVENT

(* What a fetched instruction finds: its operands are numbers of the code, *)
(* and the values it reads are on the stack.                               *)
LEMMA FetchFacts ==
  ASSUME TypeOK, NEW op \in Instr, Fetch(op)
  PROVE  /\ upcall = "NONE" /\ Opcode = op
         /\ PC + Operands(op) < Len(Code)
         /\ Reads(op) <= SP
         /\ Growth(op) = 1 => SP < StackSize
         /\ op \in {iLOAD, iSTORE, iIEQK} => Operand(1) \in Keys
         /\ op = iPROP => TH < QueueSize
         /\ op = iSWITCH => PC + 1 + stack[SP - 1] < Len(Code)
  BY DEF Fetch, Defined

(* Every cell of the code is a number. *)
LEMMA CellType ==
  ASSUME TypeOK
  PROVE  /\ Code \in Seq(Nat) /\ Len(Code) \in Nat
         /\ \A n \in Nat : PC + n < Len(Code) => Code[PC + 1 + n] \in Nat
<1>1. Code \in Seq(Nat) /\ PC \in Nat
  BY ModuleAssumption DEF TypeOK, Code
<1>2. Len(Code) \in Nat
  BY <1>1
<1>3. ASSUME NEW n \in Nat, PC + n < Len(Code)
      PROVE  Code[PC + 1 + n] \in Nat
  <2>1. PC + 1 + n \in 1 .. Len(Code)
    BY <1>1, <1>2, <1>3
  <2> QED BY <1>1, <2>1
<1> QED BY <1>1, <1>2, <1>3

(* Slots below the stack pointer and of the queue hold numbers. *)
LEMMA SlotType ==
  ASSUME TypeOK, SP <= StackSize
  PROVE  /\ SP >= 1 => top \in Nat
         /\ SP >= 2 => under \in Nat
  BY SizeAssumption DEF TypeOK, top, under

(* The check of SP leaves the upcall in Upcall. *)
LEMMA ContinueType ==
  ASSUME NEW sp, Continue(sp)
  PROVE  upcall' \in {"NONE", "ABORT"}
  BY DEF Continue

(* A jump leaves a program counter and an upcall of their types.           *)
LEMMA GotoType ==
  ASSUME NEW sp, NEW label \in Nat, Goto(label, sp)
  PROVE  PC' \in Nat /\ upcall' \in {"NONE", "ABORT", "EXIT"}
  BY DEF Goto, Continue


-----------------------------------------------------------------------------
(* Types and the stack pointer.  Neither is inductive alone: an            *)
(* instruction finds numbers on the stack only if SP is inside it.         *)
MachineInv == TypeOK /\ Contained

USE DEF registers, queue, host

(* quosi_vm_init leaves every variable in its type and the stack empty.    *)
LEMMA MachineInit == Init => MachineInv
<1> SUFFICES ASSUME Init PROVE MachineInv
  OBVIOUS
<1>1. mem \in [Keys -> Nat]
  BY SizeAssumption DEF Init, Word
<1>2. stack \in [0 .. StackSize - 1 -> Nat]
  BY DEF Init, EmptyStack
<1>3. text \in [0 .. QueueSize - 1 -> [pos : Nat, idx : Nat]]
  BY DEF Init, EmptyText
<1>4. /\ module \in Modules /\ PC \in Nat
      /\ SP \in 0 .. U32 - 1 /\ SP <= StackSize
      /\ TH \in 0 .. QueueSize /\ TT \in 0 .. QueueSize
  BY SizeAssumption, ModuleAssumption DEF Init
<1>5. upcall \in Upcall /\ pindex \in Seq(Nat)
  BY DEF Init, Upcall
<1>6. A \in Nat /\ B \in Nat
  BY DEF Init
<1>7. pushed \in BOOLEAN
  BY DEF Init
<1>8. QED
  BY <1>1, <1>2, <1>3, <1>4, <1>5, <1>6, <1>7 DEF MachineInv, TypeOK, Contained

(* An instruction that leaves a number on top of the stack. *)
LEMMA DepositMachine ==
  ASSUME MachineInv, NEW n \in 0 .. StackSize - 1, NEW v \in Nat,
         Deposit(n, v), PC' \in Nat,
         UNCHANGED <<module, registers, queue, host, mem>>
  PROVE  MachineInv'
<1>1. stack' \in [0 .. StackSize - 1 -> Nat]
  BY DEF MachineInv, TypeOK, Deposit
<1>2. SP' \in 0 .. U32 - 1 /\ SP' <= StackSize
  BY SizeAssumption DEF Deposit
<1>3. upcall' \in Upcall
  BY ContinueType DEF Deposit, Upcall
<1>4. QED
  BY <1>1, <1>2, <1>3 DEF MachineInv, TypeOK, Contained

(* The instructions that leave a value keep the types and the stack's limit. *)
LEMMA ComputeMachine == ASSUME MachineInv, Compute PROVE MachineInv'
<1>1. TypeOK /\ Contained
  BY DEF MachineInv
<1>2. /\ upcall = "NONE" /\ SP \in Nat /\ SP <= StackSize
      /\ Next1 /\ UNCHANGED <<module, registers, queue, host, mem>>
  BY <1>1 DEF Compute, Fetch, Contained, TypeOK
<1>3. PC' \in Nat
  BY <1>1, <1>2 DEF Next1, Operands, TypeOK
<1>4. (SP >= 1 => top \in Nat) /\ (SP >= 2 => under \in Nat)
  BY <1>1, <1>2, SlotType
<1>5. ASSUME NEW n \in Nat, n < StackSize, NEW v \in Nat, Deposit(n, v)
      PROVE  MachineInv'
  BY <1>2, <1>3, <1>5, SizeAssumption, DepositMachine
<1>6. \A b \in BOOLEAN : Bit(b) \in Nat
  BY DEF Bit
<1>7. ASSUME NEW op \in {iPUSH, iDUP, iLOAD, iIEQV, iIEQK}, Fetch(op)
      PROVE  SP < StackSize
  BY <1>1, <1>7, InstructionTable, FetchFacts
<1>8. CASE Fetch(iPUSH) /\ Deposit(SP, Operand(1))
  <2>1. Operand(1) \in Nat
    BY <1>1, <1>8, InstructionTable, FetchFacts, CellType DEF Operand
  <2>2. QED
    BY <1>2, <1>5, <1>7, <1>8, <2>1
<1>9. CASE Fetch(iDUP) /\ Deposit(SP, top)
  <2>1. top \in Nat
    BY <1>1, <1>2, <1>4, <1>9, InstructionTable, FetchFacts
  <2>2. QED
    BY <1>2, <1>5, <1>7, <1>9, <2>1
<1>10. CASE Fetch(iLOAD) /\ Deposit(SP, mem[Operand(1)])
  <2>1. mem[Operand(1)] \in Nat
    BY <1>1, <1>10, InstructionTable, FetchFacts DEF TypeOK
  <2>2. QED
    BY <1>2, <1>5, <1>7, <1>10, <2>1
<1>11. CASE Fetch(iIEQV) /\ Deposit(SP, Bit(top = Operand(1)))
  BY <1>2, <1>5, <1>6, <1>7, <1>11
<1>12. CASE Fetch(iIEQK) /\ Deposit(SP, Bit(top = mem[Operand(1)]))
  BY <1>2, <1>5, <1>6, <1>7, <1>12
<1>13. CASE Fetch(iLNOT) /\ Deposit(SP - 1, Bit(top = 0))
  <2>1. SP >= 1
    BY <1>1, <1>13, InstructionTable, FetchFacts
  <2>2. Bit(top = 0) \in Nat
    BY DEF Bit
  <2>3. QED
    BY <1>2, <1>5, <1>13, <2>1, <2>2, SizeAssumption
<1>14. CASE Fetch(iNEG) /\ Deposit(SP - 1, (-top) % WORD)
  <2>1. SP >= 1
    BY <1>1, <1>14, InstructionTable, FetchFacts
  <2>2. (-top) % WORD \in Nat
    BY <1>4, <2>1, Remainder, SizeAssumption
  <2>3. QED
    BY <1>2, <1>5, <1>14, <2>1, <2>2, SizeAssumption
<1>15. ASSUME NEW op \in Binary \cup {iDIV}, Fetch(op)
       PROVE  SP >= 2 /\ top \in Nat /\ under \in Nat
  BY <1>1, <1>2, <1>4, <1>15, InstructionTable, FetchFacts
<1>16. CASE \E op \in Binary : Fetch(op) /\ Deposit(SP - 2, Alu(op, under, top))
  <2>1. PICK op \in Binary : Fetch(op) /\ Deposit(SP - 2, Alu(op, under, top))
    BY <1>16
  <2>2. Alu(op, under, top) \in Nat /\ SP >= 2
    BY <1>15, <2>1, AluType
  <2>3. QED
    BY <1>2, <1>5, <2>1, <2>2, SizeAssumption
<1>17. CASE Fetch(iDIV) /\ top # 0 /\ Deposit(SP - 2, under \div top)
  <2>1. SP >= 2 /\ under \div top \in Nat
    BY <1>15, <1>17
  <2>2. QED
    BY <1>2, <1>5, <1>17, <2>1, SizeAssumption
<1>18. CASE Fetch(iDIV) /\ top = 0 /\ Deposit(SP - 2, 0)
  <2>1. SP >= 2
    BY <1>15, <1>18
  <2>2. QED
    BY <1>2, <1>5, <1>18, <2>1, SizeAssumption
<1>19. QED
  BY <1>8, <1>9, <1>10, <1>11, <1>12, <1>13, <1>14, <1>16, <1>17, <1>18 DEF Compute


(* So does every instruction.                                              *)
LEMMA StepMachine == ASSUME MachineInv, Step PROVE MachineInv'
<1>1. TypeOK /\ Contained
  BY DEF MachineInv
<1>2. upcall = "NONE"
  BY DEF Step, Eof, Compute, DivideByZero, Pop, Store, Jump, Branch, Switch, Prop, Pick,
     Line, Event, Unknown, Undefined, Fetch
<1>3. SP \in 0 .. U32 - 1 /\ SP <= StackSize /\ PC \in Nat
  BY <1>1, <1>2 DEF TypeOK, Contained
<1>4. Next1 => PC' \in Nat
  BY <1>3 DEF Next1, Operands
<1>5. \A op \in Instr, n \in 1 .. 2 :
        Fetch(op) /\ Operands(op) >= n => Operand(n) \in Nat
  <2>1. \A op : Operands(op) \in Nat
    BY DEF Operands
  <2>2. SUFFICES ASSUME NEW op \in Instr, NEW n \in 1 .. 2, Fetch(op), Operands(op) >= n
                 PROVE  Operand(n) \in Nat
    OBVIOUS
  <2>3. PC + n < Len(Code)
    BY <1>1, <1>3, <2>1, <2>2, FetchFacts, CellType
  <2>4. QED
    BY <1>1, <2>3, CellType DEF Operand
<1>6. CASE Eof
  BY <1>1, <1>3, <1>4, <1>6 DEF Eof, MachineInv, TypeOK, Contained, Upcall
<1>7. CASE Compute
  BY <1>7, ComputeMachine
<1>8. CASE DivideByZero
  BY <1>1, <1>3, <1>8 DEF DivideByZero, MachineInv, TypeOK, Contained, Upcall
<1>9. CASE Pop
  <2>1. SP' \in 0 .. U32 - 1
    BY <1>3, <1>9, Remainder, SizeAssumption DEF Pop
  <2>2. /\ SP' > StackSize => upcall' = "ABORT"
        /\ SP' <= StackSize => upcall' = "NONE"
    BY <1>9, <2>1, SizeAssumption DEF Pop, Continue
  <2>3. PC' \in Nat
    BY <1>4, <1>9 DEF Pop
  <2>4. QED
    BY <1>1, <1>9, <2>1, <2>2, <2>3, SizeAssumption
       DEF Pop, MachineInv, TypeOK, Contained, Upcall
<1>10. CASE Store
  <2>1. SP >= 1 /\ top \in Nat /\ PC' \in Nat
    BY <1>1, <1>3, <1>4, <1>10, InstructionTable, FetchFacts, SlotType DEF Store
  <2>2. mem' \in [Keys -> Nat]
    BY <1>1, <1>10, <2>1 DEF Store, TypeOK
  <2>3. upcall' = "NONE" /\ SP' = SP - 1
    BY <1>3, <1>10, <2>1, SizeAssumption DEF Store, Continue
  <2>4. QED
    BY <1>1, <1>3, <1>10, <2>1, <2>2, <2>3, SizeAssumption
       DEF Store, MachineInv, TypeOK, Contained, Upcall
<1>11. CASE Jump
  <2>1. Operand(1) \in Nat
    BY <1>5, <1>11, InstructionTable DEF Jump
  <2>2. PC' \in Nat /\ upcall' \in {"NONE", "ABORT", "EXIT"}
    BY <1>11, <2>1, GotoType DEF Jump
  <2>3. QED
    BY <1>1, <1>3, <1>11, <2>2 DEF Jump, MachineInv, TypeOK, Contained, Upcall
<1>12. CASE Branch
  <2>1. Operand(1) \in Nat /\ SP >= 1
    BY <1>1, <1>5, <1>12, InstructionTable, FetchFacts DEF Branch
  <2>2. PC' \in Nat /\ upcall' \in {"NONE", "ABORT", "EXIT"}
    BY <1>4, <1>12, <2>1, GotoType, ContinueType DEF Branch
  <2>3. QED
    BY <1>1, <1>3, <1>12, <2>1, <2>2, SizeAssumption
       DEF Branch, MachineInv, TypeOK, Contained, Upcall
<1>13. CASE Switch
  <2>1. SP >= 1 /\ top \in Nat /\ PC + 1 + top < Len(Code)
    BY <1>1, <1>3, <1>13, InstructionTable, FetchFacts, SlotType DEF Switch, top
  <2>2. Operand(1 + top) \in Nat
    BY <1>1, <1>3, <2>1, CellType DEF Operand
  <2>3. PC' \in Nat /\ upcall' \in {"NONE", "ABORT", "EXIT"}
    BY <1>13, <2>2, GotoType DEF Switch
  <2>4. QED
    BY <1>1, <1>3, <1>13, <2>1, <2>3, SizeAssumption
       DEF Switch, MachineInv, TypeOK, Contained, Upcall
<1>14. CASE Prop
  <2>1. Operand(1) \in Nat /\ Operand(2) \in Nat /\ TH < QueueSize
    BY <1>1, <1>5, <1>14, InstructionTable, FetchFacts DEF Prop
  <2>2. text' \in [0 .. QueueSize - 1 -> [pos : Nat, idx : Nat]]
    BY <1>1, <1>14, <2>1 DEF Prop, TypeOK
  <2>3. TH' \in 0 .. QueueSize
    BY <1>1, <1>14, <2>1, SizeAssumption DEF Prop, TypeOK
  <2>4. PC' \in Nat /\ upcall' \in {"NONE", "ABORT"}
    BY <1>4, <1>14, ContinueType DEF Prop
  <2>5. QED
    BY <1>1, <1>3, <1>14, <2>2, <2>3, <2>4 DEF Prop, MachineInv, TypeOK, Contained, Upcall
<1>15. CASE Pick
  BY <1>1, <1>3, <1>4, <1>15 DEF Pick, MachineInv, TypeOK, Contained, Upcall
<1>16. CASE Line
  <2>1. Operand(1) \in Nat /\ Operand(2) \in Nat
    BY <1>5, <1>16, InstructionTable DEF Line
  <2>2. QED
    BY <1>1, <1>3, <1>4, <1>16, <2>1 DEF Line, MachineInv, TypeOK, Contained, Upcall
<1>17. CASE Event
  <2>1. Operand(1) \in Nat
    BY <1>5, <1>17, InstructionTable DEF Event
  <2>2. QED
    BY <1>1, <1>3, <1>4, <1>17, <2>1 DEF Event, MachineInv, TypeOK, Contained, Upcall
<1>18. CASE Unknown
  <2>1. upcall' \in {"NONE", "ABORT"}
    BY <1>18, ContinueType DEF Unknown
  <2>2. QED
    BY <1>1, <1>3, <1>18, <2>1 DEF Unknown, MachineInv, TypeOK, Contained, Upcall
<1>19. CASE Undefined
  <2>1. CASE upcall' = "FAULT" /\ UNCHANGED SP
    BY <1>1, <1>3, <1>19, <2>1 DEF Undefined, MachineInv, TypeOK, Contained, Upcall
  <2>2. CASE SP = StackSize /\ SP' = SP + 1 /\ Continue(SP + 1)
    <3>1. SP' \in 0 .. U32 - 1 /\ upcall' = "ABORT"
      BY <2>2, SizeAssumption DEF Continue
    <3>2. QED
      BY <1>1, <1>19, <3>1 DEF Undefined, MachineInv, TypeOK, Contained, Upcall
  <2>3. QED
    BY <1>19, <2>1, <2>2 DEF Undefined
<1>20. QED
  BY <1>6, <1>7, <1>8, <1>9, <1>10, <1>11, <1>12, <1>13, <1>14, <1>15, <1>16, <1>17,
     <1>18, <1>19 DEF Step


(* So does every call of the host.                                         *)
LEMMA HostMachine == ASSUME MachineInv, ChoiceInv, Host PROVE MachineInv'
<1>1. TypeOK /\ Contained
  BY DEF MachineInv
<1>2. CASE Exec
  <2>1. text' \in [0 .. QueueSize - 1 -> [pos : Nat, idx : Nat]]
    BY <1>2 DEF Exec, EmptyText
  <2>2. TH' \in 0 .. QueueSize /\ TT' \in 0 .. QueueSize /\ pindex' \in Seq(Nat)
    BY <1>2, SizeAssumption DEF Exec
  <2>3. SP <= StackSize
    BY <1>1, <1>2 DEF Exec, Contained
  <2>4. QED
    BY <1>1, <1>2, <2>1, <2>2, <2>3 DEF Exec, MachineInv, TypeOK, Contained, Upcall
<1>3. CASE Dequeue
  <2>1. SP <= StackSize
    BY <1>1, <1>3 DEF Dequeue, Contained
  <2>2. CASE TT < QueueSize
    <3>1. text[TT].idx \in Nat /\ TT' \in 0 .. QueueSize
      BY <1>1, <1>3, <2>2, SizeAssumption DEF Dequeue, TypeOK
    <3>2. pindex' \in Seq(Nat)
      <4>1. pindex \in Seq(Nat) /\ pindex' = Append(pindex, text[TT].idx)
        BY <1>1, <1>3, <2>2 DEF Dequeue, TypeOK
      <4>2. QED
        BY <3>1, <4>1
    <3>3. UNCHANGED <<module, PC, SP, A, B, stack, text, TH, upcall, pushed, mem>>
      BY <1>3, <2>2 DEF Dequeue
    <3>4. QED
      BY <1>1, <2>1, <3>1, <3>2, <3>3 DEF MachineInv, TypeOK, Contained
  <2>3. CASE ~(TT < QueueSize)
    BY <1>1, <1>3, <2>1, <2>3 DEF Dequeue, MachineInv, TypeOK, Contained, Upcall
  <2>4. QED
    BY <2>2, <2>3
<1>4. CASE PopValue
  <2>1. SP <= StackSize
    BY <1>1, <1>4 DEF PopValue, Contained
  <2>2. SP # 0
    BY <1>4 DEF PopValue, ChoiceInv
  <2>3. SP \in 0 .. U32 - 1 /\ SP' = SP - 1
    BY <1>1, <1>4 DEF PopValue, TypeOK
  <2>4. SP' \in 0 .. U32 - 1 /\ SP' <= StackSize
    BY <2>1, <2>2, <2>3, SizeAssumption
  <2>5. pushed' \in BOOLEAN
    BY <1>4 DEF PopValue
  <2>6. UNCHANGED <<module, PC, A, B, stack, text, TH, TT, upcall, pindex, mem>>
    BY <1>4 DEF PopValue
  <2>7. QED
    BY <1>1, <2>4, <2>5, <2>6 DEF MachineInv, TypeOK, Contained
<1>5. ASSUME NEW i \in 1 .. QueueSize, PushValue(i) PROVE MachineInv'
  <2>1. SP \in Nat /\ SP <= StackSize
    BY <1>1, <1>5 DEF PushValue, TypeOK, Contained
  <2>2. CASE SP < StackSize
    <3>1. pindex[i] \in Nat
      BY <1>1, <1>5 DEF PushValue, TypeOK
    <3>2. stack' \in [0 .. StackSize - 1 -> Nat]
      BY <1>1, <1>5, <2>2, <3>1 DEF PushValue, TypeOK
    <3>3. SP' \in 0 .. U32 - 1 /\ SP' <= StackSize /\ pushed' \in BOOLEAN
      BY <1>5, <2>1, <2>2, SizeAssumption DEF PushValue
    <3>4. UNCHANGED <<module, PC, A, B, text, TH, TT, upcall, pindex, mem>>
      BY <1>5, <2>2 DEF PushValue
    <3>5. QED
      BY <1>1, <3>2, <3>3, <3>4 DEF MachineInv, TypeOK, Contained
  <2>3. CASE ~(SP < StackSize)
    BY <1>1, <1>5, <2>1, <2>3 DEF PushValue, MachineInv, TypeOK, Contained, Upcall
  <2>4. QED
    BY <2>2, <2>3
<1>6. ASSUME NEW k \in Keys, NEW v \in Word, Write(k, v) PROVE MachineInv'
  <2>1. mem' \in [Keys -> Nat]
    BY <1>1, <1>6, SizeAssumption DEF Write, TypeOK, Word
  <2>2. QED
    BY <1>1, <1>6, <2>1 DEF Write, MachineInv, TypeOK, Contained
<1>7. ASSUME NEW m \in Modules, Restart(m) PROVE MachineInv'
  <2>1. stack' \in [0 .. StackSize - 1 -> Nat]
    BY <1>7 DEF Restart, Load, EmptyStack
  <2>2. text' \in [0 .. QueueSize - 1 -> [pos : Nat, idx : Nat]]
    BY <1>7 DEF Restart, Load, EmptyText
  <2>3. /\ PC' \in Nat /\ SP' \in 0 .. U32 - 1 /\ SP' <= StackSize
        /\ TH' \in 0 .. QueueSize /\ TT' \in 0 .. QueueSize
    BY <1>7, SizeAssumption, ModuleAssumption DEF Restart, Load
  <2>4. A' \in Nat /\ B' \in Nat /\ module' \in Modules
    BY <1>7 DEF Restart, Load
  <2>5. upcall' \in Upcall /\ pindex' \in Seq(Nat)
    BY <1>7 DEF Restart, Upcall
  <2>6. pushed' \in BOOLEAN /\ mem' = mem
    BY <1>7 DEF Restart
  <2>7. QED
    BY <1>1, <2>1, <2>2, <2>3, <2>4, <2>5, <2>6 DEF MachineInv, TypeOK, Contained
<1>8. QED
  BY <1>2, <1>3, <1>4, <1>5, <1>6, <1>7 DEF Host


-----------------------------------------------------------------------------
(* Choices.  quosi_vm_exec empties the queue, PICK freezes it, and the     *)
(* host reads it from the front.                                           *)

(* No instruction disturbs what is known of the choice at hand. *)
LEMMA ChoiceStep == ASSUME MachineInv, ChoiceInv, Step PROVE ChoiceInv'
<1>1. upcall = "NONE" /\ TT = 0 /\ pindex = <<>> /\ pushed = FALSE
  BY DEF Step, Eof, Compute, DivideByZero, Pop, Store, Jump, Branch, Switch, Prop, Pick,
     Line, Event, Unknown, Undefined, Fetch, ChoiceInv, MachineInv, TypeOK
<1>2. TT' = TT /\ pindex' = pindex /\ pushed' = pushed
  BY DEF Step, Eof, Compute, DivideByZero, Pop, Store, Jump, Branch, Switch, Prop, Pick,
     Line, Event, Unknown, Undefined
<1>3. upcall' = "PICK" => B' = TH /\ TH' = TH
  <2>1. ASSUME NEW sp PROVE Continue(sp) => upcall' # "PICK"
    BY DEF Continue
  <2>2. ASSUME NEW sp, NEW label PROVE Goto(label, sp) => upcall' # "PICK"
    BY <2>1 DEF Goto
  <2>3. Pick => B' = TH /\ TH' = TH
    BY DEF Pick
  <2>4. Compute => upcall' # "PICK"
    BY <2>1 DEF Compute, Deposit
  <2>5. Eof \/ DivideByZero \/ Line \/ Event => upcall' # "PICK"
    BY DEF Eof, DivideByZero, Line, Event
  <2>6. Pop \/ Store \/ Jump \/ Branch \/ Switch \/ Prop \/ Unknown \/ Undefined
          => upcall' # "PICK"
    BY <2>1, <2>2 DEF Pop, Store, Jump, Branch, Switch, Prop, Unknown, Undefined
  <2>7. QED
    BY <2>3, <2>4, <2>5, <2>6 DEF Step
<1>4. TH \in Nat
  BY SizeAssumption DEF MachineInv, TypeOK
<1>5. Len(pindex') = 0
  BY <1>1, <1>2
<1>6. QED
  BY <1>1, <1>2, <1>3, <1>4, <1>5 DEF ChoiceInv

(* The host reads a choice in order and answers with what it read.         *)
LEMMA ChoiceHost == ASSUME MachineInv, ChoiceInv, Host PROVE ChoiceInv'
<1>1. TypeOK
  BY DEF MachineInv
<1>2. CASE Exec
  BY <1>2 DEF Exec, ChoiceInv
<1>3. CASE Dequeue
  <2>1. /\ upcall = "PICK" /\ pushed = FALSE
        /\ TT = Len(pindex) /\ TT < B /\ B = TH
        /\ \A i \in 1 .. TT : pindex[i] = text[i - 1].idx
    BY <1>1, <1>3 DEF Dequeue, ChoiceInv, TypeOK
  <2>2. CASE TT < QueueSize
    <3>1. /\ UNCHANGED <<upcall, text, TH, B, pushed>> /\ TT' = TT + 1
          /\ pindex' = Append(pindex, text[TT].idx)
      BY <1>3, <2>2 DEF Dequeue
    <3>2. TT \in Nat /\ B \in Nat /\ pindex \in Seq(Nat) /\ text[TT].idx \in Nat
      BY <1>1, <2>2, SizeAssumption DEF TypeOK
    <3>3. Len(pindex') = TT + 1
      BY <2>1, <3>1, <3>2
    <3>4. \A i \in 1 .. TT + 1 : pindex'[i] = text[i - 1].idx
      BY <2>1, <3>1, <3>2
    <3>5. TT + 1 <= B
      BY <2>1, <3>2
    <3>6. QED
      BY <2>1, <3>1, <3>3, <3>4, <3>5 DEF ChoiceInv
  <2>3. CASE ~(TT < QueueSize)
    BY <1>3, <2>1, <2>3 DEF Dequeue, ChoiceInv
  <2>4. QED
    BY <2>2, <2>3
<1>4. CASE PopValue
  BY <1>4 DEF PopValue, ChoiceInv
<1>5. ASSUME NEW i \in 1 .. QueueSize, PushValue(i) PROVE ChoiceInv'
  <2>1. /\ upcall = "PICK" /\ pushed = FALSE
        /\ TT = Len(pindex) /\ TT = B /\ B = TH
        /\ \A j \in 1 .. TT : pindex[j] = text[j - 1].idx
    BY <1>1, <1>5 DEF PushValue, ChoiceInv, TypeOK
  <2>2. SP \in Nat /\ TT \in Nat /\ i \in 1 .. TT
    BY <1>1, <1>5, <2>1 DEF TypeOK, PushValue
  <2>3. CASE SP < StackSize
    <3>1. /\ UNCHANGED <<upcall, text, TT, TH, B, pindex>>
          /\ SP' = SP + 1 /\ stack' = [stack EXCEPT ![SP] = pindex[i]]
      BY <1>5, <2>3 DEF PushValue
    <3>2. stack'[SP' - 1] = pindex'[i]
      BY <1>1, <2>2, <2>3, <3>1, SizeAssumption DEF TypeOK
    <3>3. SP' \in 1 .. StackSize
      BY <2>2, <2>3, <3>1, SizeAssumption
    <3>4. QED
      BY <2>1, <2>2, <3>1, <3>2, <3>3 DEF ChoiceInv
  <2>4. CASE ~(SP < StackSize)
    BY <1>5, <2>1, <2>4 DEF PushValue, ChoiceInv
  <2>5. QED
    BY <2>3, <2>4
<1>6. ASSUME NEW k \in Keys, NEW v \in Word, Write(k, v) PROVE ChoiceInv'
  BY <1>6 DEF Write, HostTurn, ChoiceInv
<1>7. ASSUME NEW m \in Modules, Restart(m) PROVE ChoiceInv'
  BY <1>7 DEF Restart, ChoiceInv
<1>8. QED
  BY <1>2, <1>3, <1>4, <1>5, <1>6, <1>7 DEF Host


(* Before the first call nothing was offered and nothing answered.         *)
LEMMA ChoiceInit == Init => ChoiceInv
  BY DEF Init, ChoiceInv

(* The answer pushed is the index of a proposition still in the queue.     *)
LEMMA ChoiceGivesAnswer == TypeOK /\ ChoiceInv => AnswerOffered
<1> SUFFICES ASSUME TypeOK, ChoiceInv, pushed PROVE AnswerOffered
  BY DEF AnswerOffered
<1>1. /\ TT = B /\ B = TH /\ TT = Len(pindex) /\ SP > 0
      /\ \A i \in 1 .. TT : pindex[i] = text[i - 1].idx
      /\ \E i \in 1 .. TT : stack[SP - 1] = pindex[i]
  BY DEF ChoiceInv
<1>2. pindex \in Seq(Nat)
  BY DEF TypeOK
<1>3. pindex = [i \in 1 .. TH |-> text[i - 1].idx]
  BY <1>1, <1>2
<1>4. QED
  BY <1>1, <1>3 DEF AnswerOffered

-----------------------------------------------------------------------------
(* What holds of every behaviour of the machine, whatever code it is given *)

(* Types, the stack's limit and the choice, in every behaviour.            *)
LEMMA MachineSpec == Spec => [](MachineInv /\ ChoiceInv)
<1>1. Init => MachineInv /\ ChoiceInv
  BY MachineInit, ChoiceInit
<1>2. MachineInv /\ ChoiceInv /\ [Next]_vars => (MachineInv /\ ChoiceInv)'
  <2> SUFFICES ASSUME MachineInv, ChoiceInv, [Next]_vars
               PROVE  (MachineInv /\ ChoiceInv)'
    OBVIOUS
  <2>1. CASE Step
    BY <2>1, StepMachine, ChoiceStep
  <2>2. CASE Host
    BY <2>2, HostMachine, ChoiceHost
  <2>3. CASE UNCHANGED vars
    BY <2>3 DEF vars, MachineInv, TypeOK, Contained, ChoiceInv
  <2>4. QED
    BY <2>1, <2>2, <2>3 DEF Next
<1>3. QED
  BY <1>1, <1>2, PTL DEF Spec

(* The machine's variables keep their types in every behaviour.            *)
THEOREM TypeCorrect == Spec => []TypeOK
<1>1. MachineInv /\ ChoiceInv => TypeOK
  BY DEF MachineInv
<1>2. QED
  BY <1>1, MachineSpec, PTL

(* SP leaves the stack only together with an abort or undefined behaviour, *)
(* whatever bytes the code is made of (the check that ends _vm_step).      *)
THEOREM StackContained == Spec => []Contained
<1>1. MachineInv /\ ChoiceInv => Contained
  BY DEF MachineInv
<1>2. QED
  BY <1>1, MachineSpec, PTL

(* What the host pushes for a choice is the index of a proposition of that *)
(* choice, for every queue size, every code and every order of calls.      *)
THEOREM AnswersAreOffered == Spec => []AnswerOffered
<1>1. MachineInv /\ ChoiceInv => AnswerOffered
  BY ChoiceGivesAnswer DEF MachineInv
<1>2. QED
  BY <1>1, MachineSpec, PTL
=============================================================================
