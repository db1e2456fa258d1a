------------------------------- MODULE MCDhcp -------------------------------
(* Three addresses, the first two of them the configured pool.              *)
EXTENDS Dhcp, TLC
MCPool == <<1, 2>>
MCAddrs == 1..3
Symmetry == Permutations(Macs)
=============================================================================
