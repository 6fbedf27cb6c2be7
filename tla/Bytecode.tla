------------------------------ MODULE Bytecode ------------------------------
(***************************************************************************)
(* The instruction set of a compiled dialogue (include/quosi/bc.h) and the *)
(* sizes the virtual machine is built with (include/quosi/vm.h).           *)
(*                                                                         *)
(* Code is a sequence of cells, one per opcode and one per operand: where  *)
(* the C code lays an operand over 1, 4 or 8 bytes, it takes one cell      *)
(* here.  Addresses count cells from 0, as PC counts bytes, so the cell at *)
(* address a of a sequence is code[a + 1].                                 *)
(***************************************************************************)
EXTENDS Integers, Sequences, FiniteSets

CONSTANTS
  U32,        \* number of values of a uint32_t; UINT32_MAX is U32 - 1
  WORD,       \* number of values of a uint64_t, the values programs compute
  BYTE,       \* number of values of a uint8_t, the index of a proposition
  StackSize,  \* QUOSI_VALUE_STACK_SIZE
  QueueSize   \* QUOSI_PROP_QUEUE_SIZE

ASSUME SizeAssumption ==
  /\ U32 \in Nat \ {0} /\ WORD \in Nat \ {0, 1} /\ BYTE \in Nat \ {0}
  /\ StackSize \in Nat /\ StackSize < U32 - 1
  /\ QueueSize \in Nat /\ QueueSize < U32

(* QUOSI_VERTEX_EXIT, the jump target that ends the dialogue. *)
EXIT_LABEL == U32 - 1

Word == 0 .. WORD - 1

-----------------------------------------------------------------------------
(* enum quosiInstr *)
iEOF == 0
iPUSH == 1
iPOP == 2
iDUP == 3
iLOAD == 4
iSTORE == 5
iLAND == 6
iLOR == 7
iLNOT == 8
iADD == 9
iSUB == 10
iMUL == 11
iDIV == 12
iNEG == 13
iEQU == 14
iNEQ == 15
iIEQV == 16
iIEQK == 17
iLEQ == 18
iLTH == 19
iGEQ == 20
iGTH == 21
iJUMP == 22
iJZ == 23
iJNZ == 24
iSWITCH == 25
iPROP == 26
iPICK == 27
iLINE == 28
iEVENT == 29

Instr == 0 .. 29

(* The instructions that take two values and leave one; iDIV may trap. *)
Binary == {iLAND, iLOR, iADD, iSUB, iMUL, iEQU, iNEQ, iLEQ, iLTH, iGEQ, iGTH}

(* How many operand cells follow an opcode.  A SWITCH is followed by its   *)
(* table, of a length the code itself does not say.                        *)
Operands(op) ==
  CASE op \in {iPUSH, iLOAD, iSTORE, iIEQV, iIEQK, iJUMP, iJZ, iJNZ, iEVENT} -> 1
    [] op \in {iPROP, iLINE} -> 2
    [] OTHER -> 0

(* How many of the topmost values an instruction reads, and how many       *)
(* values the stack holds more (or less) after it.  POP reads none: it     *)
(* only moves SP.                                                          *)
Reads(op) ==
  CASE op \in Binary \cup {iDIV} -> 2
    [] op \in {iDUP, iSTORE, iLNOT, iNEG, iIEQV, iIEQK, iJZ, iJNZ, iSWITCH} -> 1
    [] OTHER -> 0

Growth(op) ==
  CASE op \in {iPUSH, iDUP, iLOAD, iIEQV, iIEQK} -> 1
    [] op \in Binary \cup {iDIV, iPOP, iSTORE, iJZ, iJNZ, iSWITCH} -> -1
    [] OTHER -> 0

-----------------------------------------------------------------------------
Bit(b) == IF b THEN 1 ELSE 0

(* The value an instruction of Binary computes, on unsigned words. *)
Alu(op, lhs, rhs) ==
  CASE op = iLAND -> Bit(lhs # 0 /\ rhs # 0)
    [] op = iLOR  -> Bit(lhs # 0 \/ rhs # 0)
    [] op = iADD  -> (lhs + rhs) % WORD
    [] op = iSUB  -> (lhs - rhs) % WORD
    [] op = iMUL  -> (lhs * rhs) % WORD
    [] op = iEQU  -> Bit(lhs = rhs)
    [] op = iNEQ  -> Bit(lhs # rhs)
    [] op = iLEQ  -> Bit(lhs <= rhs)
    [] op = iLTH  -> Bit(lhs < rhs)
    [] op = iGEQ  -> Bit(lhs >= rhs)
    [] OTHER      -> Bit(lhs > rhs)  \* iGTH
=============================================================================
