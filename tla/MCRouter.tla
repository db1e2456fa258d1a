------------------------------ MODULE MCRouter ------------------------------
(* Two hosts that move two addresses between them, one peer outside.         *)
EXTENDS Router, TLC
Symmetry == Permutations(Macs)
=============================================================================
