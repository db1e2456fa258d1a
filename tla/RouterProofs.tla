---------------------------- MODULE RouterProofs ----------------------------
(* The ARP cache of the router follows addresses that move between hosts,   *)
(* for any number of hosts, addresses and waiting messages.                 *)
EXTENDS Router, TLAPS

-----------------------------------------------------------------------------
(* The routing operators *)

\* Every packet gets a decision.
LEMMA DecisionType ==
    ASSUME NEW pkt \in Packets
    PROVE  route(pkt) \in Actions /\ route_ip4(pkt) \in Actions
<1> USE DEF Packets, Actions, Ips, ToLan, ToWan, Nothing, LanKinds
<1>1. handle_local_ipv4(pkt) \in Actions
  BY DEF handle_local_ipv4
<1>2. route_ip4(pkt) \in Actions
  BY <1>1 DEF route_ip4
<1>3. handle_arp(pkt) \in Actions
  BY DEF handle_arp
<1>4. route(pkt) \in Actions
  BY <1>2, <1>3 DEF route
<1> QED BY <1>2, <1>4

\* Every decision is carried out as one.
LEMMA HandledType ==
    ASSUME NEW action \in Actions, NEW dst \in Macs \cup {NoMac},
           NEW table \in [Ips -> Macs \cup {NoMac}]
    PROVE  handle_action(action, dst, table) \in Actions
<1>1. action.ip \in Ips /\ table[action.ip] \in Macs \cup {NoMac}
  BY DEF Actions
<1>2. NoIp \in Ips
  BY DEF Ips
<1> QED
  BY <1>1, <1>2 DEF handle_action, forward_packet, write_to_switch, ToWan, Nothing, Actions

\* Learning keeps the cache a table of addresses.
LEMMA LearnedType ==
    ASSUME arp \in [Ips -> Macs \cup {NoMac}], NEW pkt \in Packets
    PROVE  LearnArp(pkt) \in [Ips -> Macs \cup {NoMac}]
BY DEF LearnArp, Packets

\* The channel without its first message.
LEMMA Dequeued ==
    ASSUME inbox \in Seq(Packets), inbox # <<>>
    PROVE  /\ Head(inbox) \in Packets /\ Head(inbox) = inbox[1]
           /\ Tail(inbox) \in Seq(Packets)
           /\ Len(inbox) \in Nat /\ Len(inbox) >= 1
           /\ Len(Tail(inbox)) = Len(inbox) - 1
           /\ \A i \in 1..(Len(inbox) - 1) : Tail(inbox)[i] = inbox[i + 1]
  OBVIOUS

\* The channel with one message more.
LEMMA Enqueued ==
    ASSUME inbox \in Seq(Packets), NEW pkt \in Packets
    PROVE  /\ Append(inbox, pkt) \in Seq(Packets)
           /\ Len(inbox) \in Nat
           /\ Len(Append(inbox, pkt)) = Len(inbox) + 1
           /\ \A i \in 1..Len(inbox) : Append(inbox, pkt)[i] = inbox[i]
           /\ Append(inbox, pkt)[Len(inbox) + 1] = pkt
  OBVIOUS

-----------------------------------------------------------------------------
(* What the two ends of the channel preserve *)

\* Taking the oldest message keeps the order of announcements, provided the
\* cache has learned from it.
LEMMA TakePreserves ==
    ASSUME IInv, inbox # <<>>, inbox' = Tail(inbox), owner' = owner,
           arp' = LearnArp(Head(inbox))
    PROVE  CacheFollowsOwners' /\ NewestIsOwner' /\ LanFramesHaveSender'
<1> DEFINE pkt == Head(inbox)
<1>0. /\ inbox \in Seq(Packets) /\ arp \in [Ips -> Macs \cup {NoMac}]
      /\ LanIps \subseteq Ips
  BY DEF IInv, TypeOK, Ips
<1>1. /\ pkt \in Packets /\ pkt = inbox[1]
      /\ Len(inbox) \in Nat /\ Len(inbox) >= 1
      /\ Len(inbox') = Len(inbox) - 1
      /\ \A i \in 1..(Len(inbox) - 1) : inbox'[i] = inbox[i + 1]
  BY <1>0, Dequeued
<1>2. NewestIsOwner'
  <2> SUFFICES ASSUME NEW ip \in LanIps, NEW i \in 1..Len(inbox'),
                      Announces(inbox'[i], ip),
                      \A j \in (i + 1)..Len(inbox') : ~Announces(inbox'[j], ip)
               PROVE  inbox'[i].mac = owner[ip]
    BY DEF NewestIsOwner
  <2>1. i + 1 \in 1..Len(inbox) /\ inbox'[i] = inbox[i + 1]
    BY <1>1
  <2>2. Announces(inbox[i + 1], ip)
    BY <2>1 DEF Announces
  <2>3. ASSUME NEW j \in (i + 2)..Len(inbox) PROVE ~Announces(inbox[j], ip)
    <3>1. j - 1 \in (i + 1)..Len(inbox') /\ inbox'[j - 1] = inbox[j]
      BY <1>1
    <3>2. ~Announces(inbox'[j - 1], ip)
      BY <3>1
    <3> QED BY <3>1, <3>2 DEF Announces
  <2> QED BY <2>1, <2>2, <2>3, <1>1 DEF IInv, NewestIsOwner
<1>3. CacheFollowsOwners'
  <2> SUFFICES ASSUME NEW ip \in LanIps, ~PendingArp(ip)'
               PROVE  arp'[ip] = owner[ip]
    BY DEF CacheFollowsOwners
  <2>1. \A j \in 2..Len(inbox) : ~Announces(inbox[j], ip)
    <3> SUFFICES ASSUME NEW j \in 2..Len(inbox) PROVE ~Announces(inbox[j], ip)
      OBVIOUS
    <3>1. j - 1 \in 1..Len(inbox') /\ inbox'[j - 1] = inbox[j]
      BY <1>1
    <3> QED BY <3>1 DEF PendingArp, Announces
  <2>2. CASE Announces(inbox[1], ip)
    <3>1. inbox[1].mac = owner[ip]
      BY <2>1, <2>2, <1>1 DEF IInv, NewestIsOwner
    <3>2. arp' = [arp EXCEPT ![ip] = inbox[1].mac]
      BY <2>2, <1>1 DEF LearnArp, Announces
    <3> QED BY <3>1, <3>2, <1>0
  <2>3. CASE ~Announces(inbox[1], ip)
    <3>1. ~PendingArp(ip)
      BY <2>1, <2>3, <1>1 DEF PendingArp, Announces
    <3>2. arp[ip] = owner[ip]
      BY <3>1 DEF IInv, CacheFollowsOwners
    <3>3. arp'[ip] = arp[ip]
      BY <2>3, <1>0, <1>1 DEF LearnArp, Announces, Packets
    <3> QED BY <3>2, <3>3
  <2> QED BY <2>2, <2>3
<1>4. LanFramesHaveSender'
  <2> SUFFICES ASSUME NEW i \in 1..Len(inbox'), inbox'[i].kind \in LanKinds
               PROVE  inbox'[i].mac # NoMac
    BY DEF LanFramesHaveSender
  <2>1. i + 1 \in 1..Len(inbox) /\ inbox'[i] = inbox[i + 1]
    BY <1>1
  <2> QED BY <2>1 DEF IInv, LanFramesHaveSender
<1> QED BY <1>2, <1>3, <1>4

\* A message that announces nothing may be sent at any time; an announcement
\* has to come from the host that owns its address afterwards.
LEMMA SendPreserves ==
    ASSUME IInv, NEW pkt \in Packets, inbox' = Append(inbox, pkt), arp' = arp,
           pkt.kind \in LanKinds => pkt.mac # NoMac,
           \A ip \in LanIps : owner'[ip] # owner[ip] => pkt.kind = "arp" /\ pkt.from = ip,
           \A ip \in LanIps : pkt.kind = "arp" /\ pkt.from = ip => owner'[ip] = pkt.mac
    PROVE  CacheFollowsOwners' /\ NewestIsOwner' /\ LanFramesHaveSender'
<1>1. /\ Len(inbox) \in Nat /\ Len(inbox') = Len(inbox) + 1
      /\ \A i \in 1..Len(inbox) : inbox'[i] = inbox[i]
      /\ inbox'[Len(inbox) + 1] = pkt
  BY Enqueued DEF IInv, TypeOK
<1>2. CacheFollowsOwners'
  <2> SUFFICES ASSUME NEW ip \in LanIps, ~PendingArp(ip)'
               PROVE  arp[ip] = owner'[ip]
    BY DEF CacheFollowsOwners
  <2>1. ~(pkt.kind = "arp" /\ pkt.from = ip)
    BY <1>1 DEF PendingArp, Announces
  <2>2. ~PendingArp(ip)
    BY <1>1 DEF PendingArp, Announces
  <2> QED BY <2>1, <2>2 DEF IInv, CacheFollowsOwners
<1>3. NewestIsOwner'
  <2> SUFFICES ASSUME NEW ip \in LanIps, NEW i \in 1..Len(inbox'),
                      Announces(inbox'[i], ip),
                      \A j \in (i + 1)..Len(inbox') : ~Announces(inbox'[j], ip)
               PROVE  inbox'[i].mac = owner'[ip]
    BY DEF NewestIsOwner
  <2>1. CASE i = Len(inbox) + 1
    BY <2>1, <1>1 DEF Announces
  <2>2. CASE i # Len(inbox) + 1
    <3>1. i \in 1..Len(inbox) /\ Len(inbox) + 1 \in (i + 1)..Len(inbox')
      BY <2>2, <1>1
    <3>2. ~Announces(inbox'[Len(inbox) + 1], ip)
      BY <3>1
    <3>3. owner'[ip] = owner[ip]
      BY <3>2, <1>1 DEF Announces
    <3>4. Announces(inbox[i], ip) /\ inbox'[i] = inbox[i]
      BY <3>1, <1>1 DEF Announces
    <3>5. ASSUME NEW j \in (i + 1)..Len(inbox) PROVE ~Announces(inbox[j], ip)
      <4>1. j \in (i + 1)..Len(inbox') /\ inbox'[j] = inbox[j]
        BY <3>1, <1>1
      <4>2. ~Announces(inbox'[j], ip)
        BY <4>1
      <4> QED BY <4>1, <4>2 DEF Announces
    <3> QED BY <3>1, <3>3, <3>4, <3>5 DEF IInv, NewestIsOwner
  <2> QED BY <2>1, <2>2
<1>4. LanFramesHaveSender'
  <2> SUFFICES ASSUME NEW i \in 1..Len(inbox'), inbox'[i].kind \in LanKinds
               PROVE  inbox'[i].mac # NoMac
    BY DEF LanFramesHaveSender
  <2> QED BY <1>1 DEF IInv, LanFramesHaveSender
<1> QED BY <1>2, <1>3, <1>4

-----------------------------------------------------------------------------
(* The invariant *)

\* Nobody has an address at first.
LEMMA InitInv == Init => IInv
<1> SUFFICES ASSUME Init PROVE IInv
  OBVIOUS
<1>1. TypeOK
  BY DEF Init, TypeOK, Nothing, Actions, Ips
<1>2. CacheFollowsOwners /\ NewestIsOwner /\ LanFramesHaveSender
  BY DEF Init, CacheFollowsOwners, NewestIsOwner, LanFramesHaveSender, Ips
<1> QED BY <1>1, <1>2 DEF IInv

\* A message of host m keeps the invariant; what differs between the senders is
\* which message it is and what it does to `owner`.
LEMMA EnqueueInv ==
    ASSUME IInv, NEW kind, NEW mac, NEW from, NEW to, NEW local,
           [kind |-> kind, mac |-> mac, from |-> from, to |-> to, local |-> local]
               \in Packets,
           Enqueue(kind, mac, from, to, local),
           kind \in LanKinds => mac # NoMac,
           owner' \in [LanIps -> Macs \cup {NoMac}],
           \A ip \in LanIps : owner'[ip] # owner[ip] => kind = "arp" /\ from = ip,
           \A ip \in LanIps : kind = "arp" /\ from = ip => owner'[ip] = mac
    PROVE  IInv'
<1> DEFINE pkt == [kind |-> kind, mac |-> mac, from |-> from, to |-> to,
                   local |-> local]
<1>1. pkt \in Packets /\ inbox' = Append(inbox, pkt) /\ arp' = arp
      /\ wan' = wan /\ out' = out
  BY DEF Enqueue
<1>2. pkt.kind = kind /\ pkt.mac = mac /\ pkt.from = from
  OBVIOUS
<1>3. inbox' \in Seq(Packets)
  BY <1>1, Enqueued DEF IInv, TypeOK
<1>4. TypeOK'
  BY <1>1, <1>3 DEF IInv, TypeOK
<1> HIDE DEF pkt
<1>5. CacheFollowsOwners' /\ NewestIsOwner' /\ LanFramesHaveSender'
  BY <1>1, <1>2, SendPreserves
<1> QED BY <1>4, <1>5 DEF IInv

\* Handling a LAN frame.
LEMMA FromLanInv == IInv /\ FromLan => IInv'
<1> SUFFICES ASSUME IInv, FromLan PROVE IInv'
  OBVIOUS
<1>1. /\ inbox \in Seq(Packets) /\ inbox # <<>>
      /\ arp \in [Ips -> Macs \cup {NoMac}]
  BY DEF IInv, TypeOK, FromLan
<1>2. Head(inbox) \in Packets /\ Tail(inbox) \in Seq(Packets)
  BY <1>1, Dequeued
<1>3. arp' \in [Ips -> Macs \cup {NoMac}]
  BY <1>1, <1>2, LearnedType DEF FromLan
<1>4. out' \in Actions
  BY <1>2, <1>3, DecisionType, HandledType DEF FromLan, Packets
<1>5. TypeOK'
  BY <1>2, <1>3, <1>4 DEF IInv, TypeOK, FromLan
<1>6. CacheFollowsOwners' /\ NewestIsOwner' /\ LanFramesHaveSender'
  BY <1>1, TakePreserves DEF FromLan
<1> QED BY <1>5, <1>6 DEF IInv

\* Handling a WAN packet, which teaches the cache nothing.
LEMMA FromWanInv == IInv /\ FromWan => IInv'
<1> SUFFICES ASSUME IInv, FromWan PROVE IInv'
  OBVIOUS
<1>1. /\ inbox \in Seq(Packets) /\ inbox # <<>>
      /\ arp \in [Ips -> Macs \cup {NoMac}]
  BY DEF IInv, TypeOK, FromWan
<1>2. Head(inbox) \in Packets /\ Tail(inbox) \in Seq(Packets)
  BY <1>1, Dequeued
<1>3. out' \in Actions
  BY <1>1, <1>2, DecisionType, HandledType DEF FromWan
<1>4. TypeOK'
  BY <1>2, <1>3 DEF IInv, TypeOK, FromWan
<1>5. arp' = LearnArp(Head(inbox))
  BY DEF FromWan, LearnArp
<1>6. CacheFollowsOwners' /\ NewestIsOwner' /\ LanFramesHaveSender'
  BY <1>1, <1>5, TakePreserves DEF FromWan
<1> QED BY <1>4, <1>6 DEF IInv

\* A host takes an address and announces it, asks, or sends.
LEMMA HostsInv ==
    ASSUME IInv, NEW m \in Macs, Hosts(m)
    PROVE  IInv'
<1>0. /\ owner \in [LanIps -> Macs \cup {NoMac}] /\ m # NoMac
      /\ NoIp \notin LanIps
  BY AddressAssumption DEF IInv, TypeOK
<1> USE DEF Packets, LanKinds, Outcomes, Ips
<1>1. ASSUME NEW ip \in LanIps, TakeAddress(m, ip) PROVE IInv'
  <2>1. owner' = [owner EXCEPT ![ip] = m] /\ Enqueue("arp", m, ip, ip, "silent")
    BY <1>1 DEF TakeAddress
  <2>2. /\ owner' \in [LanIps -> Macs \cup {NoMac}]
        /\ \A x \in LanIps : owner'[x] # owner[x] => ip = x
        /\ owner'[ip] = m
    BY <1>0, <2>1
  <2> QED BY <1>0, <2>1, <2>2, EnqueueInv
<1>2. ASSUME NEW ip \in LanIps, NEW to \in LanIps \cup {RouterIp}, AskArp(m, ip, to)
      PROVE  IInv'
  <2>1. owner' = owner /\ owner[ip] = m /\ Enqueue("arp", m, ip, to, "silent")
    BY <1>2 DEF AskArp
  <2> QED BY <1>0, <2>1, EnqueueInv
<1>3. ASSUME NEW from \in LanIps \cup {NoIp}, NEW to \in Targets,
             NEW local \in Outcomes, SendIp4(m, from, to, local)
      PROVE  IInv'
  <2>1. owner' = owner /\ Enqueue("ip4", m, from, to, local)
    BY <1>3 DEF SendIp4
  <2> QED BY <1>0, <2>1, EnqueueInv DEF Targets
<1>4. ASSUME NEW kind \in {"ip6", "bad"}, SendOther(m, kind) PROVE IInv'
  <2>1. owner' = owner /\ Enqueue(kind, m, NoIp, NoIp, "silent")
    BY <1>4 DEF SendOther
  <2> QED BY <1>0, <2>1, EnqueueInv
<1> QED BY <1>1, <1>2, <1>3, <1>4 DEF Hosts

\* A packet comes from outside, or the WAN thread ends.
LEMMA OutsideInv == IInv /\ Outside => IInv'
<1> SUFFICES ASSUME IInv, Outside PROVE IInv'
  OBVIOUS
<1>1. ASSUME NEW from \in WanIps, NEW to \in Targets, NEW local \in Outcomes,
             SendWan(from, to, local)
      PROVE  IInv'
  <2>1. owner' = owner /\ Enqueue("wan4", NoMac, from, to, local)
    BY <1>1 DEF SendWan
  <2>2. owner \in [LanIps -> Macs \cup {NoMac}]
    BY DEF IInv, TypeOK
  <2> QED BY <2>1, <2>2, EnqueueInv DEF Packets, LanKinds, Ips, Targets
<1>2. ASSUME WanDies PROVE IInv'
  BY <1>2 DEF WanDies, IInv, TypeOK, CacheFollowsOwners, PendingArp, NewestIsOwner,
              LanFramesHaveSender
<1> QED BY <1>1, <1>2 DEF Outside

\* Every step keeps the invariant.
LEMMA NextInv == IInv /\ [Next]_vars => IInv'
<1> SUFFICES ASSUME IInv, [Next]_vars PROVE IInv'
  OBVIOUS
<1>1. CASE FromLan
  BY <1>1, FromLanInv
<1>2. CASE FromWan
  BY <1>2, FromWanInv
<1>3. ASSUME NEW m \in Macs, Hosts(m) PROVE IInv'
  BY <1>3, HostsInv
<1>4. CASE Outside
  BY <1>4, OutsideInv
<1>5. CASE UNCHANGED vars
  BY <1>5 DEF vars, IInv, TypeOK, CacheFollowsOwners, PendingArp, NewestIsOwner,
              LanFramesHaveSender
<1> QED BY <1>1, <1>2, <1>3, <1>4, <1>5 DEF Next

\* The invariant holds throughout.
THEOREM IInvHolds == Spec => []IInv
BY InitInv, NextInv, PTL DEF Spec

-----------------------------------------------------------------------------
(* What the router promises *)

\* Every reachable state of the router is well typed.
THEOREM RouterTypes == Spec => []TypeOK
<1>1. IInv => TypeOK
  BY DEF IInv
<1> QED BY <1>1, IInvHolds, PTL

\* The ARP cache catches up with addresses that move, for any number of hosts
\* and however long the channel is.
THEOREM CacheCatchesUp == Spec => []CacheFollowsOwners
<1>1. IInv => CacheFollowsOwners
  BY DEF IInv
<1> QED BY <1>1, IInvHolds, PTL

\* A packet from the WAN for a LAN address goes to the host that has it.
THEOREM WanPacketsReachOwner == Spec => WanReachesOwner
<1> DEFINE A ==
      FromWan /\ Head(inbox).to \in LanIps =>
          \/ out'.to = "lan" /\ out'.mac = owner[Head(inbox).to]
          \/ owner[Head(inbox).to] = NoMac /\ out'.to = "none"
          \/ PendingArp(Head(inbox).to)
<1>1. IInv => A
  <2> SUFFICES ASSUME IInv, FromWan, Head(inbox).to \in LanIps,
                      ~PendingArp(Head(inbox).to)
               PROVE  \/ out'.to = "lan" /\ out'.mac = owner[Head(inbox).to]
                      \/ owner[Head(inbox).to] = NoMac /\ out'.to = "none"
    OBVIOUS
  <2> DEFINE ip == Head(inbox).to
  <2>1. ip \notin {RouterIp, BcastIp}
    BY AddressAssumption
  <2>2. route_ip4(Head(inbox)) = ToLan(ip)
    BY <2>1 DEF route_ip4, is_local, is_broadcast, contains
  <2>3. arp[ip] = owner[ip]
    BY DEF IInv, CacheFollowsOwners
  <2>4. out' = handle_action(ToLan(ip), NoMac, arp)
    BY <2>2 DEF FromWan
  <2> HIDE DEF ip
  <2>5. out' = IF arp[ip] = NoMac THEN Nothing ELSE write_to_switch(arp[ip], ip)
    BY <2>4 DEF handle_action, ToLan
  <2>6. \/ out'.to = "lan" /\ out'.mac = owner[ip]
        \/ owner[ip] = NoMac /\ out'.to = "none"
    BY <2>3, <2>5 DEF Nothing, write_to_switch
  <2> QED BY <2>6 DEF ip
<1>2. Spec => [][A]_vars
  BY <1>1, IInvHolds, PTL DEF Spec
<1> QED BY <1>2 DEF WanReachesOwner

\* What the router answers itself goes to the host that asked.
THEOREM AnswersReturn == Spec => AnswersReturnToAsker
<1> DEFINE A ==
      FromLan /\ Head(inbox).to \in {RouterIp, BcastIp} /\
      (Head(inbox).kind = "ip4" => Head(inbox).local = "answer") /\
      Head(inbox).kind \in {"arp", "ip4"}
          => out'.to = "lan" /\ out'.mac = Head(inbox).mac
<1>1. IInv => A
  <2> SUFFICES ASSUME IInv, FromLan, Head(inbox).to \in {RouterIp, BcastIp},
                      Head(inbox).kind = "ip4" => Head(inbox).local = "answer",
                      Head(inbox).kind \in {"arp", "ip4"}
               PROVE  out'.to = "lan" /\ out'.mac = Head(inbox).mac
    OBVIOUS
  <2>1. inbox \in Seq(Packets) /\ inbox # <<>>
    BY DEF IInv, TypeOK, FromLan
  <2>2. Head(inbox) = inbox[1] /\ 1 \in 1..Len(inbox)
    BY <2>1, Dequeued
  <2>3. Head(inbox).mac # NoMac
    BY <2>2 DEF IInv, LanFramesHaveSender, FromLan
  <2>4. route(Head(inbox)) = ToLan(Head(inbox).from)
    BY DEF route, handle_arp, route_ip4, handle_local_ipv4, is_local, is_broadcast
  <2>5. out' = handle_action(ToLan(Head(inbox).from), Head(inbox).mac, arp')
    BY <2>4 DEF FromLan
  <2>6. out' = write_to_switch(Head(inbox).mac, Head(inbox).from)
    BY <2>3, <2>5 DEF handle_action, ToLan
  <2> QED BY <2>6 DEF write_to_switch
<1>2. Spec => [][A]_vars
  BY <1>1, IInvHolds, PTL DEF Spec
<1> QED BY <1>2 DEF AnswersReturnToAsker
=============================================================================
