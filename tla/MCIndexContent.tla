--------------------------- MODULE MCIndexContent ---------------------------
(***************************************************************************)
(* IndexContent for TLC: files without chunks, with one, and with two, the *)
(* first of them moved.                                                    *)
(***************************************************************************)
EXTENDS IndexContent, TLC

MCContents == {<<>>, <<"a">>, <<"b", "a">>}

Symmetry == Permutations(Files) \cup Permutations(Jobs)
=============================================================================
