------------------------------- MODULE Router -------------------------------
(***************************************************************************)
(* The layer 3 router of the bridge (oathgate-bridge/src/net/router.rs):   *)
(* one thread that takes messages from an unbounded channel.  The threads  *)
(* of the devices put LAN frames into the channel (through the switch      *)
(* port), the WAN thread puts packets of the outside into it.              *)
(*                                                                         *)
(* A packet is abstracted to its kind, the hardware address of the frame   *)
(* it came in, its source and target address, and `local`, what the        *)
(* protocol handler makes of its contents if the router is its target.     *)
(* Hosts are honest: they announce addresses they have taken.              *)
(***************************************************************************)
EXTENDS Sequences, Naturals

CONSTANTS Macs,       \* hosts on the LAN
          NoMac,      \* absent hardware address
          LanIps,     \* addresses of the subnet other than the router's
          WanIps,     \* addresses outside the subnet
          RouterIp, BcastIp,
          NoIp,       \* 0.0.0.0, the source of a host without an address
          MaxInbox    \* bound: messages in the channel

ASSUME AddressAssumption ==
    /\ NoMac \notin Macs
    /\ LanIps \cap WanIps = {} /\ {RouterIp, BcastIp, NoIp} \cap (LanIps \cup WanIps) = {}
    /\ RouterIp # BcastIp /\ NoIp \notin {RouterIp, BcastIp}

VARIABLES inbox,      \* the channel, oldest message first
          arp,        \* arp[ip]: ARP cache, NoMac where it has no entry
          wan,        \* there is a WAN link and its thread is alive
          out,        \* what became of the last message
          owner       \* owner[ip]: the host that took address ip last

vars == <<inbox, arp, wan, out, owner>>

Ips == LanIps \cup WanIps \cup {RouterIp, BcastIp, NoIp}
LanKinds == {"arp", "ip4", "ip6", "bad"}
Outcomes == {"answer", "silent", "error"}

Packets == [kind : LanKinds \cup {"wan4"}, mac : Macs \cup {NoMac},
            from : Ips, to : Ips, local : Outcomes]

Actions == [to : {"lan", "wan", "none"}, mac : Macs \cup {NoMac}, ip : Ips]

Nothing == [to |-> "none", mac |-> NoMac, ip |-> NoIp]

\* RouterBuilder::spawn: the link is optional and may fail to start.
Init ==
    /\ inbox = <<>>
    /\ arp = [ip \in Ips |-> NoMac]
    /\ wan \in BOOLEAN
    /\ out = Nothing
    /\ owner = [ip \in LanIps |-> NoMac]

-----------------------------------------------------------------------------
(* Routing decisions.  An action names the address a packet goes to.        *)

ToLan(ip) == [to |-> "lan", mac |-> NoMac, ip |-> ip]
ToWan(ip) == [to |-> "wan", mac |-> NoMac, ip |-> ip]

is_local(ip) == ip = RouterIp
is_broadcast(ip) == ip = BcastIp
contains(ip) == ip \in LanIps \cup {RouterIp}

\* A handler that answers sends to the packet's source; one that has nothing
\* to say, fails or is not registered drops the packet.
handle_local_ipv4(pkt) == IF pkt.local = "answer" THEN ToLan(pkt.from) ELSE Nothing

route_ip4(pkt) ==
    IF is_local(pkt.to) \/ is_broadcast(pkt.to) THEN handle_local_ipv4(pkt)
    ELSE IF contains(pkt.to) THEN ToLan(pkt.to)
    ELSE ToWan(pkt.to)

\* handle_arp answers a question for the router's address; learning is LearnArp.
handle_arp(pkt) ==
    IF is_local(pkt.to) \/ is_broadcast(pkt.to) THEN ToLan(pkt.from) ELSE Nothing

\* Fault: an entry is never overwritten.
LearnArpOnce(pkt) ==
    IF pkt.kind = "arp" /\ arp[pkt.from] = NoMac THEN [arp EXCEPT ![pkt.from] = pkt.mac]
    ELSE arp

\* The ARP cache after the packet: the sender's pair is inserted.
LearnArp(pkt) == IF pkt.kind = "arp" THEN [arp EXCEPT ![pkt.from] = pkt.mac] ELSE arp

\* A packet that is too short or of an unknown kind is an error, IPv6 is dropped.
\* Hosts do not send ARP packets whose lengths exceed them, which would panic.
route(pkt) ==
    CASE pkt.kind = "arp" -> handle_arp(pkt)
      [] pkt.kind = "ip4" -> route_ip4(pkt)
      [] OTHER -> Nothing

write_to_switch(mac, ip) == [to |-> "lan", mac |-> mac, ip |-> ip]

\* Without a link, or when its thread is gone, the packet is dropped.
forward_packet(ip) == IF wan THEN ToWan(ip) ELSE Nothing

\* Fault: the cache is used for every packet, a known sender or not.
HandleActionCacheOnly(action, dst, table) ==
    IF action.to = "wan" THEN forward_packet(action.ip)
    ELSE IF action.to = "none" \/ table[action.ip] = NoMac THEN Nothing
    ELSE write_to_switch(table[action.ip], action.ip)

\* handle_action: a packet for the LAN goes to `dst`, the sender of the frame
\* that caused it, if there is one, otherwise to the host the ARP cache names.
handle_action(action, dst, table) ==
    LET mac == IF dst # NoMac THEN dst ELSE table[action.ip]
    IN  IF action.to = "wan" THEN forward_packet(action.ip)
        ELSE IF action.to = "none" \/ mac = NoMac THEN Nothing
        ELSE write_to_switch(mac, action.ip)

-----------------------------------------------------------------------------
(* The router thread *)

FromLan ==
    /\ inbox # <<>> /\ Head(inbox).kind \in LanKinds
    /\ inbox' = Tail(inbox)
    /\ arp' = LearnArp(Head(inbox))
    /\ out' = handle_action(route(Head(inbox)), Head(inbox).mac, arp')
    /\ UNCHANGED <<wan, owner>>

FromWan ==
    /\ inbox # <<>> /\ Head(inbox).kind = "wan4"
    /\ inbox' = Tail(inbox)
    /\ out' = handle_action(route_ip4(Head(inbox)), NoMac, arp)
    /\ UNCHANGED <<arp, wan, owner>>

-----------------------------------------------------------------------------
(* The hosts and the WAN thread *)

\* RouterHandle::enqueue and route_ipv4 send into the channel.
Enqueue(kind, mac, from, to, local) ==
    /\ Len(inbox) < MaxInbox
    /\ inbox' = Append(inbox, [kind |-> kind, mac |-> mac, from |-> from, to |-> to,
                               local |-> local])
    /\ UNCHANGED <<arp, wan, out>>

\* A host takes an address, from another host perhaps, and announces it.
TakeAddress(m, ip) ==
    /\ Enqueue("arp", m, ip, ip, "silent")
    /\ owner' = [owner EXCEPT ![ip] = m]

\* A host asks for the hardware address of the router or of another host.
AskArp(m, ip, to) ==
    /\ owner[ip] = m
    /\ Enqueue("arp", m, ip, to, "silent")
    /\ UNCHANGED owner

\* A host sends an IPv4 packet, from 0.0.0.0 while it has no address.
SendIp4(m, from, to, local) ==
    /\ from # NoIp => owner[from] = m
    /\ Enqueue("ip4", m, from, to, local)
    /\ UNCHANGED owner

SendOther(m, kind) ==
    /\ Enqueue(kind, m, NoIp, NoIp, "silent")
    /\ UNCHANGED owner

\* The WAN thread delivers a packet, or ends.
SendWan(from, to, local) ==
    /\ wan
    /\ Enqueue("wan4", NoMac, from, to, local)
    /\ UNCHANGED owner

WanDies ==
    /\ wan
    /\ wan' = FALSE
    /\ UNCHANGED <<inbox, arp, out, owner>>

Targets == LanIps \cup WanIps \cup {RouterIp, BcastIp}

Hosts(m) ==
    \/ \E ip \in LanIps : TakeAddress(m, ip)
    \/ \E ip \in LanIps, to \in LanIps \cup {RouterIp} : AskArp(m, ip, to)
    \/ \E from \in LanIps \cup {NoIp}, to \in Targets, local \in Outcomes :
           SendIp4(m, from, to, local)
    \/ \E kind \in {"ip6", "bad"} : SendOther(m, kind)

Outside ==
    \/ \E from \in WanIps, to \in Targets, local \in Outcomes : SendWan(from, to, local)
    \/ WanDies

Next == FromLan \/ FromWan \/ (\E m \in Macs : Hosts(m)) \/ Outside

Spec == Init /\ [][Next]_vars

-----------------------------------------------------------------------------
(* Properties *)

\* Every variable keeps its type.
TypeOK ==
    /\ inbox \in Seq(Packets)
    /\ arp \in [Ips -> Macs \cup {NoMac}]
    /\ wan \in BOOLEAN
    /\ out \in Actions
    /\ owner \in [LanIps -> Macs \cup {NoMac}]

Announces(msg, ip) == msg.kind = "arp" /\ msg.from = ip
PendingArp(ip) == \E i \in 1..Len(inbox) : Announces(inbox[i], ip)

\* The ARP cache catches up with the hosts: when no announcement of an address
\* is waiting in the channel, the cache names the host that took the address
\* last, however often it moved between hosts and whoever asked meanwhile.
CacheFollowsOwners ==
    \A ip \in LanIps : ~PendingArp(ip) => arp[ip] = owner[ip]

\* A packet from the WAN for a LAN address is delivered to the host that has
\* the address, or announcements of that address are still under way; it is
\* never delivered to a host that gave the address up long ago.
WanReachesOwner ==
    [][FromWan /\ Head(inbox).to \in LanIps =>
          \/ out'.to = "lan" /\ out'.mac = owner[Head(inbox).to]
          \/ owner[Head(inbox).to] = NoMac /\ out'.to = "none"
          \/ PendingArp(Head(inbox).to)]_vars

\* What the router answers itself (ARP for its address, echo, DHCP) goes to
\* the host that asked, even one that has no address yet or that the cache
\* does not know.
AnswersReturnToAsker ==
    [][FromLan /\ Head(inbox).to \in {RouterIp, BcastIp} /\
       (Head(inbox).kind = "ip4" => Head(inbox).local = "answer") /\
       Head(inbox).kind \in {"arp", "ip4"}
          => out'.to = "lan" /\ out'.mac = Head(inbox).mac]_vars

-----------------------------------------------------------------------------
(* The inductive invariant *)

\* The last announcement of an address that is waiting comes from the host
\* that took the address last.
NewestIsOwner ==
    \A ip \in LanIps, i \in 1..Len(inbox) :
        (/\ Announces(inbox[i], ip)
         /\ \A j \in (i + 1)..Len(inbox) : ~Announces(inbox[j], ip))
            => inbox[i].mac = owner[ip]

\* Frames carry the hardware address of the host that sent them.
LanFramesHaveSender ==
    \A i \in 1..Len(inbox) : inbox[i].kind \in LanKinds => inbox[i].mac # NoMac

IInv == TypeOK /\ CacheFollowsOwners /\ NewestIsOwner /\ LanFramesHaveSender
=============================================================================
