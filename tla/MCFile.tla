-------------------------------- MODULE MCFile --------------------------------
(***************************************************************************)
(* Files of up to two modules, whose names share beginnings of every       *)
(* length.  A byte has eight values and a word four bytes, so offsets fill *)
(* one byte or two, as those of a file of a few kilobytes do.              *)
(***************************************************************************)
EXTENDS File

MCNames == {<<1>>, <<1, 2, 3>>, <<1, 2, 3, 4>>, <<1, 2, 3, 5, 6>>, <<2, 1>>}

Mods == [name : MCNames, code : {<<5>>, <<6, 0, 7>>}, entry : {0, 1}]

MCPrograms ==
  [mods : {<<>>} \cup {<<m>> : m \in Mods} \cup {<<m, n>> : m \in Mods, n \in Mods},
   strs : {<<>>, <<3, 3, 0>>}]
=============================================================================
