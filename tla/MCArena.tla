------------------------------- MODULE MCArena -------------------------------
(***************************************************************************)
(* Arenas of pages of four bytes, in blocks of multiples of two: enough to *)
(* start with one page, double it, outgrow the reservation in a leap, and  *)
(* come back to one page after a reset.                                    *)
(***************************************************************************)
EXTENDS Arena, TLC

MCConfigs ==
  [initial : {3}, max_reserve : {12}, source : {"PAGE", "MALLOC"},
   lazyinit : BOOLEAN, growth_policy : {"STATIC", "LINEAR"}]

MCSizes == {1, 3, 6}

Interchangeable == Permutations(Blocks)
=============================================================================
