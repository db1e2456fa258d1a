------------------------------ MODULE LeaseBook ------------------------------
(***************************************************************************)
(* What a DHCP server promises, without saying how it keeps its pool: an   *)
(* address is granted to one client for ever (the bridge never expires or  *)
(* releases a lease), and a client only configures an address that is      *)
(* granted to it.  Dhcp is shown to implement this module.                 *)
(***************************************************************************)
CONSTANTS Macs,     \* hardware addresses of the clients
          Addrs,    \* IPv4 addresses
          NoMac,    \* "no client", not in Macs
          NoIp      \* "no address", not in Addrs

VARIABLES owner,    \* owner[a]: the client address a is granted to
          holds     \* holds[m]: the address client m has configured

bookVars == <<owner, holds>>

Init ==
    /\ owner = [a \in Addrs |-> NoMac]
    /\ holds = [m \in Macs |-> NoIp]

\* An address nobody owns is granted to a client.
Grant(a, m) ==
    /\ owner[a] = NoMac
    /\ owner' = [owner EXCEPT ![a] = m]
    /\ UNCHANGED holds

\* A client configures an address it owns.
Bind(a, m) ==
    /\ owner[a] = m
    /\ holds' = [holds EXCEPT ![m] = a]
    /\ UNCHANGED owner

\* A client gives its address up; the server does not take it back.
Unbind(m) ==
    /\ holds' = [holds EXCEPT ![m] = NoIp]
    /\ UNCHANGED owner

Next ==
    \/ \E a \in Addrs, m \in Macs : Grant(a, m) \/ Bind(a, m)
    \/ \E m \in Macs : Unbind(m)

Spec == Init /\ [][Next]_bookVars
=============================================================================
