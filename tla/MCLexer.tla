------------------------------- MODULE MCLexer --------------------------------
(***************************************************************************)
(* Every text of up to three characters of an alphabet that has one of     *)
(* each kind, most of four, and longer ones with words, pairs and          *)
(* unfinished ends.                                                        *)
(***************************************************************************)
EXTENDS Lexicon

Chars == {"i", "f", "_", "7", ".", " ", "\n", "\"", "\\", "#", "=", ">", ":", "(", "@"}
Short == UNION {[1 .. n -> Chars] : n \in 0 .. 3} \cup [1 .. 4 -> Chars \ {"_", ".", "(", "@"}]

Pairs == {<<g, h, "a">> : g, h \in Glyphs}
Words == {s \o e : s \in Keywords, e \in {<<>>, <<"x">>, <<".", "1">>, <<"\r", "\n">>, <<"(">>}}
Broken == {<<"[", "]", "{", "}", ",">>,
           <<"a", "#", "\"", "\n", "\t", "\"", "\\", "\n", "\"", "b">>,
           <<"\"", "\\", "\"", "\"", "9", "\n", "\n", "x", "&", "&", "&">>,
           <<"1", "#", "\n", "\n", "#">>, <<"\"", "a", "\n", "\\">>}

MCTexts == Short \cup Pairs \cup Words \cup Broken
=============================================================================
