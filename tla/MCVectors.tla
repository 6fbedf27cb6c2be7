------------------------------ MODULE MCVectors -------------------------------
(***************************************************************************)
(* Two vectors and another block in arenas of pages of four bytes, with    *)
(* blocks of multiples of two: enough for a vector to grow where it is,    *)
(* to be moved twice over its neighbours, and to outgrow a reservation.    *)
(* A reservation of one page is outgrown by the first block.               *)
(***************************************************************************)
EXTENDS Vectors, TLC

MCConfigs ==
  [initial : {3}, max_reserve : {20}, source : {"PAGE", "MALLOC"},
   lazyinit : BOOLEAN, growth_policy : {"LINEAR"}]
    \cup [initial : {6}, max_reserve : {3}, source : {"PAGE"},
          lazyinit : BOOLEAN, growth_policy : {"LINEAR"}]

MCSizes == {1, 3, 4, 5, 6, 9}
MCAdds == {0, 1, 3}
=============================================================================
