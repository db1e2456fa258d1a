------------------------------- MODULE MCStore -------------------------------
(* Two files with the same first part and one with another.                  *)
EXTENDS Store, TLC
MCContents == {<<"h", "x">>, <<"h", "y">>, <<"g">>}
Symmetry == Permutations(Cmds)
==============================================================================
