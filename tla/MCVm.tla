-------------------------------- MODULE MCVm --------------------------------
(***************************************************************************)
(* Small hand-written code for the virtual machine: every instruction, and *)
(* code no compiler should emit, which meets each limit of the machine.    *)
(***************************************************************************)
EXTENDS Vm

(* 2 - x compared and combined in every way, then stored. *)
Arithmetic ==
  <<iPUSH, 2, iLOAD, 0, iSUB, iDUP, iMUL, iNEG, iPUSH, 3, iDIV,
           iLOAD, 0, iADD, iSTORE, 0,
           iLOAD, 0, iPUSH, 1, iLEQ, iLOAD, 0, iPUSH, 2, iGTH, iLOR, iLNOT,
           iLOAD, 0, iPUSH, 3, iEQU, iNEQ, iJNZ, EXIT_LABEL, iEOF>>

(* match x: 1 or x = x, through the comparisons that keep what they match. *)
Match ==
  <<iLOAD, 0, iIEQV, 1, iJZ, 10, iPOP, iEVENT, 0, iEOF,
           iIEQK, 0, iJZ, 6, iPUSH, 2, iLTH, iPUSH, 1, iGEQ, iJZ, 0,
           iJUMP, EXIT_LABEL>>

(* A line, then a choice in a loop of one or two propositions. *)
Choice ==
  <<iLINE, 1, 0, iPROP, 0, 0, iLOAD, 0, iJZ, 13, iPROP, 0, 1,
           iPICK, iSWITCH, 0, EXIT_LABEL>>

(* One value more on every turn of the loop, of a dialogue that speaks. *)
Leak == <<iLINE, 1, 0, iPUSH, 1, iJUMP, 0>>

Underflow == <<iPUSH, 1, iPOP, iPOP, iEOF>>
TooFew    == <<iPUSH, 1, iADD, iEOF>>
ByZero    == <<iPUSH, 1, iLOAD, 0, iDIV, iSTORE, 0, iEOF>>
RunsOut   == <<iLOAD, 0, iLNOT, iJZ, 5, 30>>
Crowded   == <<iPROP, 0, 0, iPROP, 0, 1, iPROP, 0, 2, iPICK, iSWITCH, 0, 0, 0>>
OffTable  == <<iLOAD, 0, iSWITCH, 0>>
FullPick  == <<iPUSH, 1, iDUP, iDUP, iPROP, 0, 0, iPICK, iSWITCH, 0>>
Conjoin   == <<iLOAD, 0, iLOAD, 0, iLAND, iJZ, EXIT_LABEL, iJUMP, 0>>

MCModules ==
  {[code |-> code, entry |-> 0] :
     code \in {Arithmetic, Match, Choice, Leak, Underflow, TooFew, ByZero, RunsOut,
              Crowded, OffTable, FullPick, Conjoin}}
MCKeys == {0}
=============================================================================
