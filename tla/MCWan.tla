------------------------------- MODULE MCWan -------------------------------
(* Two hosts behind one link.  Their flows to the remote share a port number; *)
(* two of them share the protocol as well.                                   *)
EXTENDS Wan
CONSTANTS h1, h2, r1
Flow(host, proto) == [host |-> host, remote |-> r1, proto |-> proto, port |-> 1]
MCFlows == {Flow(h1, "tcp"), Flow(h2, "tcp"), Flow(h2, "icmp")}
MCCuts == {<<0>>, <<0, 2, 4>>}
=============================================================================
