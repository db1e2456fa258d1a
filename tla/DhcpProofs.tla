----------------------------- MODULE DhcpProofs -----------------------------
(***************************************************************************)
(* The safety of the DHCP server for every pool, every set of clients and  *)
(* every bound on the messages in flight; and of the constructor's loop    *)
(* that builds the pool, for addresses of any width.                       *)
(***************************************************************************)
EXTENDS Dhcp, AddressPool, TLAPS

\* The server's initial state satisfies the inductive invariant.
LEMMA InitIInv == Init => IInv
  BY PoolAssumption, AbsentAssumption
  DEF Init, IInv, TypeOK, PoolConserved, GrantsAreOwned

\* Retain removes the address it is given and nothing else, and keeps the
\* entries distinct.
LEMMA RetainProperties ==
  ASSUME NEW q \in Seq(Addrs), NEW ria \in Addrs,
         \A i, j \in 1..Len(q) : q[i] = q[j] => i = j
  PROVE  /\ Retain(q, ria) \in Seq(Addrs)
         /\ \A i, j \in 1..Len(Retain(q, ria)) :
               Retain(q, ria)[i] = Retain(q, ria)[j] => i = j
         /\ \A i \in 1..Len(Retain(q, ria)) : Retain(q, ria)[i] # ria
         /\ \A i \in 1..Len(Retain(q, ria)) :
               \E j \in 1..Len(q) : Retain(q, ria)[i] = q[j]
         /\ \A j \in 1..Len(q) : q[j] # ria =>
               \E i \in 1..Len(Retain(q, ria)) : Retain(q, ria)[i] = q[j]
<1> DEFINE r == Retain(q, ria)
<1>1. CASE \A i \in 1..Len(q) : q[i] # ria
  BY <1>1 DEF Retain
<1>2. CASE \E i \in 1..Len(q) : q[i] = ria
  <2> DEFINE k == CHOOSE i \in 1..Len(q) : q[i] = ria
             n == Len(q) - 1
             f == [j \in 1..n |-> IF j < k THEN q[j] ELSE q[j + 1]]
  <2>1. k \in 1..Len(q) /\ q[k] = ria
    BY <1>2
  <2>2. r = f
    BY <1>2 DEF Retain
  <2> HIDE DEF k
  <2>3. n \in Nat
    BY <2>1
  <2>4. \A j \in 1..n : f[j] \in Addrs
    BY <2>1, <2>3
  <2>5. f \in Seq(Addrs) /\ Len(f) = n
    BY <2>3, <2>4
  <2>6. \A i, j \in 1..n : f[i] = f[j] => i = j
    BY <2>1, <2>3
  <2>7. \A i \in 1..n : f[i] # ria
    BY <2>1, <2>3
  <2>8. \A i \in 1..n : \E j \in 1..Len(q) : f[i] = q[j]
    BY <2>1, <2>3
  <2>9. ASSUME NEW j \in 1..Len(q), q[j] # ria
        PROVE  \E i \in 1..n : f[i] = q[j]
    <3>1. CASE j < k
      <4>1. j \in 1..n /\ f[j] = q[j]
        BY <3>1, <2>1, <2>3
      <4>2. QED BY <4>1
    <3>2. CASE j > k
      <4>1. (j - 1) \in 1..n /\ f[j - 1] = q[j]
        BY <3>2, <2>1, <2>3
      <4>2. QED BY <4>1
    <3>3. QED BY <3>1, <3>2, <2>1, <2>9
  <2> HIDE DEF f, n
  <2>10. QED BY <2>2, <2>5, <2>6, <2>7, <2>8, <2>9
<1>3. QED BY <1>1, <1>2

\* What one call of lease_ip does to the pool and to the leases: the pool stays
\* conserved, no lease changes hands, and what is selected ends up leased to
\* the client that asked.
LEMMA LeaseStep ==
  ASSUME TypeOK, PoolConserved,
         NEW mac \in Macs, NEW ria \in Addrs \cup {NoIp},
         lease_ip(mac, ria)
  PROVE  /\ available' \in Seq(Addrs)
         /\ leased' \in [Addrs -> Macs \cup {NoMac}]
         /\ PoolConserved'
         /\ \A a \in Addrs : leased[a] # NoMac => leased'[a] = leased[a]
         /\ Selected(mac, ria) # NoIp =>
               /\ Selected(mac, ria) \in Addrs
               /\ leased[Selected(mac, ria)] \in {NoMac, mac}
               /\ leased' = [leased EXCEPT ![Selected(mac, ria)] = mac]
         /\ Selected(mac, ria) = NoIp => leased' = leased
<1> USE AbsentAssumption DEF TypeOK
<1>1. CASE RequestHonoured(mac, ria)
  <2>1. ria \in Addrs /\ Selected(mac, ria) = ria /\ leased[ria] \in {NoMac, mac}
    BY <1>1 DEF RequestHonoured, Selected
  <2>2. available' = Retain(available, ria) /\ leased' = [leased EXCEPT ![ria] = mac]
    BY <1>1, <2>1 DEF lease_ip
  <2>3. \A i, j \in 1..Len(available) : available[i] = available[j] => i = j
    BY DEF PoolConserved
  <2> DEFINE r == Retain(available, ria)
  <2>r. /\ r \in Seq(Addrs)
        /\ \A i, j \in 1..Len(r) : r[i] = r[j] => i = j
        /\ \A i \in 1..Len(r) : r[i] # ria
        /\ \A i \in 1..Len(r) : \E j \in 1..Len(available) : r[i] = available[j]
        /\ \A j \in 1..Len(available) : available[j] # ria =>
              \E i \in 1..Len(r) : r[i] = available[j]
    <3>1. available \in Seq(Addrs)
      OBVIOUS
    <3>2. QED BY <3>1, <2>1, <2>3, RetainProperties, Zenon
  <2>s. available' = r
    BY <2>2
  <2> HIDE DEF r
  <2>4. /\ available' \in Seq(Addrs)
        /\ \A i, j \in 1..Len(available') : available'[i] = available'[j] => i = j
        /\ \A i \in 1..Len(available') : available'[i] # ria
        /\ \A i \in 1..Len(available') :
              \E j \in 1..Len(available) : available'[i] = available[j]
        /\ \A j \in 1..Len(available) : available[j] # ria =>
              \E i \in 1..Len(available') : available'[i] = available[j]
    BY <2>r, <2>s, Zenon
  <2>5. ASSUME NEW i \in 1..Len(available')
        PROVE  leased'[available'[i]] = NoMac
    <3>1. PICK j \in 1..Len(available) : available'[i] = available[j]
      BY <2>4
    <3>2. available[j] # ria /\ available[j] \in Addrs /\ leased[available[j]] = NoMac
      BY <3>1, <2>4 DEF PoolConserved
    <3>3. QED BY <3>1, <3>2, <2>2
  <2>6. ASSUME NEW k \in 1..Len(Pool)
        PROVE  \/ leased'[Pool[k]] # NoMac
               \/ \E i \in 1..Len(available') : available'[i] = Pool[k]
    <3>1. Pool[k] \in Addrs
      BY PoolAssumption
    <3>2. CASE Pool[k] = ria
      BY <3>1, <3>2, <2>1, <2>2
    <3>3. CASE Pool[k] # ria /\ leased[Pool[k]] # NoMac
      BY <3>1, <3>3, <2>2
    <3>4. CASE Pool[k] # ria /\ leased[Pool[k]] = NoMac
      <4>1. PICK j \in 1..Len(available) : available[j] = Pool[k]
        BY <3>4 DEF PoolConserved
      <4>2. QED BY <4>1, <3>4, <2>4
    <3>5. QED BY <3>2, <3>3, <3>4
  <2>7. PoolConserved'
    BY <2>4, <2>5, <2>6 DEF PoolConserved
  <2>8. QED BY <2>1, <2>2, <2>4, <2>7
<1>2. CASE ~RequestHonoured(mac, ria) /\ available = <<>>
  <2>1. available' = available /\ leased' = leased /\ Selected(mac, ria) = NoIp
    BY <1>2 DEF lease_ip, Selected
  <2>2. QED BY <2>1 DEF PoolConserved
<1>3. CASE ~RequestHonoured(mac, ria) /\ available # <<>>
  <2> DEFINE h == Head(available)
  <2>1. /\ h \in Addrs /\ h = available[1] /\ 1 \in 1..Len(available)
        /\ leased[h] = NoMac
    BY <1>3 DEF PoolConserved
  <2>2. /\ Selected(mac, ria) = h
        /\ available' = Tail(available)
        /\ leased' = [leased EXCEPT ![h] = mac]
    BY <1>3, <2>1 DEF lease_ip, Selected
  <2>3. /\ available' \in Seq(Addrs)
        /\ Len(available') = Len(available) - 1
        /\ \A i \in 1..Len(available') : available'[i] = available[i + 1]
    BY <1>3, <2>2
  <2>d. \A i \in 1..Len(available') :
           /\ i + 1 \in 1..Len(available)
           /\ available'[i] = available[i + 1]
    BY <2>3
  <2>e. \A j \in 1..Len(available) : j # 1 =>
           /\ j - 1 \in 1..Len(available')
           /\ available'[j - 1] = available[j]
    BY <2>3
  <2> HIDE DEF h
  <2>4. \A i, j \in 1..Len(available') : available'[i] = available'[j] => i = j
    <3> SUFFICES ASSUME NEW i \in 1..Len(available'), NEW j \in 1..Len(available'),
                        available'[i] = available'[j]
                 PROVE  i = j
      OBVIOUS
    <3>1. i + 1 = j + 1
      BY <2>d DEF PoolConserved
    <3>2. QED BY <3>1
  <2>5. ASSUME NEW i \in 1..Len(available')
        PROVE  leased'[available'[i]] = NoMac
    <3>1. i + 1 \in 1..Len(available) /\ available[i + 1] # h
      <4>1. i + 1 \in 1..Len(available) /\ i + 1 # 1
        BY <2>d
      <4>2. available[i + 1] = available[1] => i + 1 = 1
        BY <4>1, <2>1 DEF PoolConserved
      <4>3. QED BY <4>1, <4>2, <2>1
    <3>2. QED BY <3>1, <2>1, <2>2, <2>d DEF PoolConserved
  <2>6. ASSUME NEW k \in 1..Len(Pool)
        PROVE  \/ leased'[Pool[k]] # NoMac
               \/ \E i \in 1..Len(available') : available'[i] = Pool[k]
    <3>1. Pool[k] \in Addrs
      BY PoolAssumption
    <3>2. CASE Pool[k] = h
      BY <3>1, <3>2, <2>1, <2>2
    <3>3. CASE Pool[k] # h /\ leased[Pool[k]] # NoMac
      BY <3>1, <3>3, <2>2
    <3>4. CASE Pool[k] # h /\ leased[Pool[k]] = NoMac
      <4>1. PICK j \in 1..Len(available) : available[j] = Pool[k]
        BY <3>4 DEF PoolConserved
      <4>2. j - 1 \in 1..Len(available') /\ available'[j - 1] = Pool[k]
        BY <4>1, <3>4, <2>1, <2>e
      <4>3. QED BY <4>2
    <3>5. QED BY <3>2, <3>3, <3>4
  <2>7. PoolConserved'
    BY <2>4, <2>5, <2>6 DEF PoolConserved
  <2>8. QED BY <2>1, <2>2, <2>3, <2>7
<1>4. QED BY <1>1, <1>2, <1>3

\* The head of a non-empty queue of requests is a request, the rest a queue.
LEMMA ReceiveType ==
  ASSUME TypeOK, NEW type, Receive(type)
  PROVE  /\ Head(inbox) \in Requests
         /\ inbox' \in Seq(Requests)
         /\ Head(inbox).mac \in Macs
         /\ Head(inbox).req \in Addrs \cup {NoIp}
<1>1. inbox \in Seq(Requests) /\ inbox # <<>> /\ inbox' = Tail(inbox)
  BY DEF TypeOK, Receive
<1>2. Head(inbox) \in Requests /\ inbox' \in Seq(Requests)
  BY <1>1
<1>3. QED BY <1>2 DEF Requests

\* A reply that carries an address goes to the client the address is leased to;
\* the other queues of replies keep theirs.
LEMMA GrantPreserved ==
  ASSUME IInv, NEW mac \in Macs, NEW ria \in Addrs \cup {NoIp},
         NEW type \in {"OFFER", "ACK"},
         lease_ip(mac, ria), Respond(mac, type, Selected(mac, ria)),
         UNCHANGED bound
  PROVE  replies' \in [Macs -> Seq(Replies)] /\ GrantsAreOwned'
<1> DEFINE ip == Selected(mac, ria)
           msg == [type |-> type, ip |-> ip]
<1> USE AbsentAssumption
<1>1. /\ leased' \in [Addrs -> Macs \cup {NoMac}]
      /\ \A a \in Addrs : leased[a] # NoMac => leased'[a] = leased[a]
      /\ ip # NoIp => ip \in Addrs /\ leased'[ip] = mac
  <2>1. TypeOK /\ PoolConserved
    BY DEF IInv
  <2>2. QED BY <2>1, LeaseStep DEF TypeOK
<1> HIDE DEF ip
<1>2. \A m \in Macs : bound'[m] # NoIp => leased'[bound'[m]] = m
  BY <1>1 DEF IInv, TypeOK, GrantsAreOwned
<1>3. \A m \in Macs : \A i \in 1..Len(replies[m]) :
         replies[m][i].type \in {"OFFER", "ACK"} =>
            /\ replies[m][i].ip # NoIp
            /\ leased'[replies[m][i].ip] = m
  <2> SUFFICES ASSUME NEW m \in Macs, NEW i \in 1..Len(replies[m]),
                      replies[m][i].type \in {"OFFER", "ACK"}
               PROVE  /\ replies[m][i].ip # NoIp
                      /\ leased'[replies[m][i].ip] = m
    OBVIOUS
  <2>1. replies[m][i] \in Replies
    BY DEF IInv, TypeOK
  <2>2. replies[m][i].ip # NoIp /\ leased[replies[m][i].ip] = m
    BY DEF IInv, GrantsAreOwned
  <2>3. QED BY <2>1, <2>2, <1>1 DEF Replies
<1>4. CASE ip = NoIp
  <2>1. replies' = replies
    BY <1>4 DEF Respond, ip
  <2>2. QED BY <2>1, <1>2, <1>3 DEF IInv, TypeOK, GrantsAreOwned
<1>5. CASE ip # NoIp
  <2>1. replies' = [replies EXCEPT ![mac] = Append(@, msg)]
    BY <1>5 DEF Respond, ip
  <2>2. msg \in Replies
    BY <1>1, <1>5 DEF Replies, ReplyType
  <2>3. replies \in [Macs -> Seq(Replies)]
    BY DEF IInv, TypeOK
  <2>4. replies' \in [Macs -> Seq(Replies)]
    BY <2>1, <2>2, <2>3
  <2>5. ASSUME NEW m \in Macs, NEW i \in 1..Len(replies'[m]),
               replies'[m][i].type \in {"OFFER", "ACK"}
        PROVE  /\ replies'[m][i].ip # NoIp
               /\ leased'[replies'[m][i].ip] = m
    <3>1. CASE m # mac
      BY <3>1, <2>1, <2>3, <2>5, <1>3
    <3>2. CASE m = mac /\ i \in 1..Len(replies[m])
      <4>1. replies'[m][i] = replies[m][i]
        BY <3>2, <2>1, <2>3
      <4>2. QED BY <4>1, <3>2, <2>5, <1>3
    <3>3. CASE m = mac /\ i \notin 1..Len(replies[m])
      <4>1. replies'[m][i] = msg
        BY <3>3, <2>1, <2>3
      <4>2. QED BY <4>1, <3>3, <1>1, <1>5
    <3>4. QED BY <3>1, <3>2, <3>3
  <2>6. QED BY <2>4, <2>5, <1>2 DEF GrantsAreOwned
<1>6. QED BY <1>4, <1>5

\* Taking the oldest reply off a client's queue.
LEMMA NextReplyStep ==
  ASSUME IInv, NEW m \in Macs, replies[m] # <<>>,
         replies' = [replies EXCEPT ![m] = Tail(@)],
         UNCHANGED leased
  PROVE  /\ Head(replies[m]) \in Replies
         /\ replies' \in [Macs -> Seq(Replies)]
         /\ Head(replies[m]).type \in {"OFFER", "ACK"} =>
               /\ Head(replies[m]).ip \in Addrs
               /\ leased[Head(replies[m]).ip] = m
         /\ \A n \in Macs : \A i \in 1..Len(replies'[n]) :
               replies'[n][i].type \in {"OFFER", "ACK"} =>
                  /\ replies'[n][i].ip # NoIp
                  /\ leased'[replies'[n][i].ip] = n
<1>1. replies \in [Macs -> Seq(Replies)] /\ replies[m] \in Seq(Replies)
  BY DEF IInv, TypeOK
<1>2. /\ Head(replies[m]) \in Replies
      /\ Head(replies[m]) = replies[m][1] /\ 1 \in 1..Len(replies[m])
  BY <1>1
<1>3. replies' \in [Macs -> Seq(Replies)]
  BY <1>1
<1>4. Head(replies[m]).type \in {"OFFER", "ACK"} =>
         /\ Head(replies[m]).ip \in Addrs
         /\ leased[Head(replies[m]).ip] = m
  BY <1>2 DEF IInv, GrantsAreOwned, Replies
<1>5. ASSUME NEW n \in Macs, NEW i \in 1..Len(replies'[n]),
             replies'[n][i].type \in {"OFFER", "ACK"}
      PROVE  /\ replies'[n][i].ip # NoIp
             /\ leased'[replies'[n][i].ip] = n
  <2>1. CASE n # m
    BY <2>1, <1>1, <1>5 DEF IInv, GrantsAreOwned
  <2>2. CASE n = m
    <3>1. i + 1 \in 1..Len(replies[m]) /\ replies'[n][i] = replies[m][i + 1]
      BY <2>2, <1>1
    <3>2. QED BY <3>1, <2>2, <1>5 DEF IInv, GrantsAreOwned
  <2>3. QED BY <2>1, <2>2
<1>6. QED BY <1>2, <1>3, <1>4, <1>5

\* Appending a well-formed request leaves the queue well-formed.
LEMMA SendType ==
  ASSUME TypeOK, NEW type \in RequestType, NEW m \in Macs,
         NEW r \in Addrs \cup {NoIp}, Send(type, m, r)
  PROVE  inbox' \in Seq(Requests)
<1>1. [type |-> type, mac |-> m, req |-> r] \in Requests
  BY DEF Requests
<1>2. QED BY <1>1 DEF TypeOK, Send

\* The server's actions preserve the invariant.
LEMMA ServerStep == IInv /\ Server => IInv'
<1> SUFFICES ASSUME IInv, Server PROVE IInv'
  OBVIOUS
<1>t. TypeOK /\ PoolConserved /\ GrantsAreOwned
  BY DEF IInv
<1>1. CASE handle_discover
  <2> DEFINE msg == Head(inbox)
  <2>1. /\ Receive("DISCOVER") /\ lease_ip(msg.mac, msg.req)
        /\ Respond(msg.mac, "OFFER", Selected(msg.mac, msg.req)) /\ UNCHANGED bound
    BY <1>1 DEF handle_discover
  <2>2. /\ msg.mac \in Macs /\ msg.req \in Addrs \cup {NoIp}
        /\ inbox' \in Seq(Requests)
    BY <1>t, <2>1, ReceiveType
  <2> HIDE DEF msg
  <2>3. /\ available' \in Seq(Addrs) /\ leased' \in [Addrs -> Macs \cup {NoMac}]
        /\ PoolConserved'
    BY <1>t, <2>1, <2>2, LeaseStep
  <2>4. replies' \in [Macs -> Seq(Replies)] /\ GrantsAreOwned'
    BY <2>1, <2>2, GrantPreserved
  <2>5. QED BY <1>t, <2>1, <2>2, <2>3, <2>4 DEF IInv, TypeOK
<1>2. CASE handle_request
  <2> DEFINE msg == Head(inbox)
  <2>1. /\ Receive("REQUEST") /\ lease_ip(msg.mac, msg.req)
        /\ Respond(msg.mac, "ACK", Selected(msg.mac, msg.req)) /\ UNCHANGED bound
    BY <1>2 DEF handle_request
  <2>2. /\ msg.mac \in Macs /\ msg.req \in Addrs \cup {NoIp}
        /\ inbox' \in Seq(Requests)
    BY <1>t, <2>1, ReceiveType
  <2> HIDE DEF msg
  <2>3. /\ available' \in Seq(Addrs) /\ leased' \in [Addrs -> Macs \cup {NoMac}]
        /\ PoolConserved'
    BY <1>t, <2>1, <2>2, LeaseStep
  <2>4. replies' \in [Macs -> Seq(Replies)] /\ GrantsAreOwned'
    BY <2>1, <2>2, GrantPreserved
  <2>5. QED BY <1>t, <2>1, <2>2, <2>3, <2>4 DEF IInv, TypeOK
<1>3. CASE handle_other
  <2> DEFINE mac == Head(inbox).mac
             e == [type |-> "EMPTY", ip |-> NoIp]
  <2>1. /\ Receive("OTHER") /\ UNCHANGED <<available, leased, bound>>
        /\ replies' = [replies EXCEPT ![mac] = Append(@, e)]
    BY <1>3 DEF handle_other
  <2>2. mac \in Macs /\ inbox' \in Seq(Requests)
    BY <1>t, <2>1, ReceiveType
  <2> HIDE DEF mac
  <2>3. e \in Replies /\ e.type = "EMPTY"
    BY DEF Replies, ReplyType
  <2> HIDE DEF e
  <2>4. replies \in [Macs -> Seq(Replies)]
    BY <1>t DEF TypeOK
  <2>5. replies' \in [Macs -> Seq(Replies)]
    BY <2>1, <2>2, <2>3, <2>4
  <2>6. ASSUME NEW m \in Macs, NEW i \in 1..Len(replies'[m]),
               replies'[m][i].type \in {"OFFER", "ACK"}
        PROVE  i \in 1..Len(replies[m]) /\ replies'[m][i] = replies[m][i]
    BY <2>1, <2>2, <2>3, <2>4, <2>6
  <2>7. GrantsAreOwned'
    BY <1>t, <2>1, <2>6 DEF GrantsAreOwned
  <2>8. QED BY <1>t, <2>1, <2>2, <2>5, <2>7 DEF IInv, TypeOK, PoolConserved
<1>4. QED BY <1>1, <1>2, <1>3 DEF Server

\* The clients' actions preserve the invariant.
LEMMA ClientStep == ASSUME IInv, NEW m \in Macs, Client(m) PROVE IInv'
<1>t. TypeOK /\ PoolConserved /\ GrantsAreOwned
  BY DEF IInv
<1>1. ASSUME NEW r \in Addrs \cup {NoIp}, SendDiscover(m, r) \/ SendRequest(m, r)
      PROVE  IInv'
  <2>1. inbox' \in Seq(Requests)
    BY <1>1, <1>t, SendType DEF SendDiscover, SendRequest, RequestType
  <2>2. UNCHANGED <<available, leased, replies, bound>>
    BY <1>1 DEF SendDiscover, SendRequest
  <2>3. QED
    BY <1>t, <2>1, <2>2 DEF IInv, TypeOK, PoolConserved, GrantsAreOwned
<1>2. CASE SendRelease(m)
  <2>1. inbox' \in Seq(Requests)
    BY <1>2, <1>t, SendType DEF SendRelease, RequestType
  <2>2. /\ UNCHANGED <<available, leased, replies>>
        /\ bound' = [bound EXCEPT ![m] = NoIp]
    BY <1>2 DEF SendRelease
  <2>3. QED
    BY <1>t, <2>1, <2>2 DEF IInv, TypeOK, PoolConserved, GrantsAreOwned
<1>3. CASE RecvOffer(m)
  <2>1. /\ replies[m] # <<>> /\ replies' = [replies EXCEPT ![m] = Tail(@)]
        /\ Head(replies[m]).type = "OFFER"
        /\ UNCHANGED <<available, leased, bound>>
        /\ Send("REQUEST", m, Head(replies[m]).ip)
    BY <1>3 DEF RecvOffer, NextReply
  <2>2. /\ Head(replies[m]).ip \in Addrs \cup {NoIp}
        /\ replies' \in [Macs -> Seq(Replies)]
        /\ \A n \in Macs : \A i \in 1..Len(replies'[n]) :
               replies'[n][i].type \in {"OFFER", "ACK"} =>
                  /\ replies'[n][i].ip # NoIp
                  /\ leased'[replies'[n][i].ip] = n
    BY <2>1, NextReplyStep
  <2>3. inbox' \in Seq(Requests)
    BY <2>1, <2>2, <1>t, SendType DEF RequestType
  <2>4. QED
    BY <1>t, <2>1, <2>2, <2>3 DEF IInv, TypeOK, PoolConserved, GrantsAreOwned
<1>4. CASE RecvAck(m)
  <2>1. /\ replies[m] # <<>> /\ replies' = [replies EXCEPT ![m] = Tail(@)]
        /\ Head(replies[m]).type = "ACK"
        /\ UNCHANGED <<available, leased, inbox>>
        /\ bound' = [bound EXCEPT ![m] = Head(replies[m]).ip]
    BY <1>4 DEF RecvAck, NextReply
  <2>2. /\ Head(replies[m]).ip \in Addrs
        /\ leased[Head(replies[m]).ip] = m
        /\ replies' \in [Macs -> Seq(Replies)]
        /\ \A n \in Macs : \A i \in 1..Len(replies'[n]) :
               replies'[n][i].type \in {"OFFER", "ACK"} =>
                  /\ replies'[n][i].ip # NoIp
                  /\ leased'[replies'[n][i].ip] = n
    BY <2>1, NextReplyStep
  <2>3. QED
    BY <1>t, <2>1, <2>2 DEF IInv, TypeOK, PoolConserved, GrantsAreOwned
<1>5. CASE LoseReply(m)
  <2>1. /\ replies[m] # <<>> /\ replies' = [replies EXCEPT ![m] = Tail(@)]
        /\ UNCHANGED <<available, leased, inbox, bound>>
    BY <1>5 DEF LoseReply
  <2>2. /\ replies' \in [Macs -> Seq(Replies)]
        /\ \A n \in Macs : \A i \in 1..Len(replies'[n]) :
               replies'[n][i].type \in {"OFFER", "ACK"} =>
                  /\ replies'[n][i].ip # NoIp
                  /\ leased'[replies'[n][i].ip] = n
    BY <2>1, NextReplyStep
  <2>3. QED
    BY <1>t, <2>1, <2>2 DEF IInv, TypeOK, PoolConserved, GrantsAreOwned
<1>6. QED BY <1>1, <1>2, <1>3, <1>4, <1>5 DEF Client

\* The inductive invariant holds in every reachable state of the server.
THEOREM IInvHolds == Spec => []IInv
<1>1. IInv /\ [Next]_vars => IInv'
  <2> SUFFICES ASSUME IInv, [Next]_vars PROVE IInv'
    OBVIOUS
  <2>1. CASE Next
    BY <2>1, ServerStep, ClientStep DEF Next
  <2>2. CASE UNCHANGED vars
    BY <2>2 DEF vars, IInv, TypeOK, PoolConserved, GrantsAreOwned
  <2>3. QED BY <2>1, <2>2
<1>2. QED BY InitIInv, <1>1, PTL DEF Spec

\* Type correctness of the server and its clients.
THEOREM TypeCorrect == Spec => []TypeOK
<1>1. IInv => TypeOK
  BY DEF IInv
<1>2. QED BY <1>1, IInvHolds, PTL

\* lease_ip neither loses nor duplicates an address of the pool.
THEOREM PoolIsConserved == Spec => []PoolConserved
<1>1. IInv => PoolConserved
  BY DEF IInv
<1>2. QED BY <1>1, IInvHolds, PTL

\* Every offer and acknowledgement on its way names an address leased to its
\* receiver, however replies are lost and requests repeated.
THEOREM GrantsAreAlwaysOwned == Spec => []GrantsAreOwned
<1>1. IInv => GrantsAreOwned
  BY DEF IInv
<1>2. QED BY <1>1, IInvHolds, PTL

\* No two clients ever have the same address configured.
THEOREM AddressesAreExclusive == Spec => []NoSharedAddress
<1>1. IInv => NoSharedAddress
  BY DEF IInv, GrantsAreOwned, NoSharedAddress
<1>2. QED BY <1>1, IInvHolds, PTL

\* The server with its clients implements the abstract lease book.
THEOREM Refinement == Spec => ImplementsLeaseBook
<1>1. Init => Book!Init
  BY DEF Init, Book!Init
<1>2. ASSUME IInv, NEW mac \in Macs, NEW ria \in Addrs \cup {NoIp},
             lease_ip(mac, ria), UNCHANGED bound
      PROVE  [Book!Next]_(Book!bookVars)
  <2> DEFINE ip == Selected(mac, ria)
  <2>1. TypeOK /\ PoolConserved
    BY <1>2 DEF IInv
  <2>2. /\ ip # NoIp => /\ ip \in Addrs
                        /\ leased[ip] \in {NoMac, mac}
                        /\ leased' = [leased EXCEPT ![ip] = mac]
        /\ ip = NoIp => leased' = leased
    BY <2>1, <1>2, LeaseStep
  <2> HIDE DEF ip
  <2>3. CASE ip # NoIp /\ leased[ip] = NoMac
    BY <2>2, <2>3, <1>2 DEF Book!Next, Book!Grant
  <2>4. CASE ip = NoIp \/ leased[ip] = mac
    <3>1. leased' = leased
      BY <2>1, <2>2, <2>4 DEF TypeOK
    <3>2. QED BY <3>1, <1>2 DEF Book!bookVars
  <2>5. QED BY <2>2, <2>3, <2>4
<1>3. IInv /\ [Next]_vars => [Book!Next]_(Book!bookVars)
  <2> SUFFICES ASSUME IInv, [Next]_vars PROVE [Book!Next]_(Book!bookVars)
    OBVIOUS
  <2>t. TypeOK
    BY DEF IInv
  <2>1. CASE handle_discover
    BY <2>1, <2>t, <1>2, ReceiveType DEF handle_discover
  <2>2. CASE handle_request
    BY <2>2, <2>t, <1>2, ReceiveType DEF handle_request
  <2>3. CASE handle_other
    BY <2>3 DEF handle_other, Book!bookVars
  <2>4. ASSUME NEW m \in Macs, Client(m)
        PROVE  [Book!Next]_(Book!bookVars)
    <3>1. CASE SendRelease(m)
      BY <3>1 DEF SendRelease, Book!Next, Book!Unbind
    <3>2. CASE RecvAck(m)
      <4>1. /\ replies[m] # <<>> /\ replies' = [replies EXCEPT ![m] = Tail(@)]
            /\ Head(replies[m]).type = "ACK" /\ UNCHANGED leased
            /\ bound' = [bound EXCEPT ![m] = Head(replies[m]).ip]
        BY <3>2 DEF RecvAck, NextReply
      <4>2. Head(replies[m]).ip \in Addrs /\ leased[Head(replies[m]).ip] = m
        BY <4>1, NextReplyStep
      <4>3. QED BY <4>1, <4>2 DEF Book!Next, Book!Bind
    <3>3. CASE ~SendRelease(m) /\ ~RecvAck(m)
      BY <2>4, <3>3 DEF Client, SendDiscover, SendRequest, RecvOffer, LoseReply,
                        Book!bookVars
    <3>4. QED BY <3>1, <3>2, <3>3
  <2>5. CASE UNCHANGED vars
    BY <2>5 DEF vars, Book!bookVars
  <2>6. QED BY <2>1, <2>2, <2>3, <2>4, <2>5 DEF Next, Server
<1>4. QED BY <1>1, <1>3, IInvHolds, PTL DEF Spec, ImplementsLeaseBook, Book!Spec

-----------------------------------------------------------------------------
(* The pool the server starts from (module AddressPool), for addresses of  *)
(* any width.  The loop runs straight from start to its end, or, when      *)
(* start is the very last address, wraps to address 0 and runs straight    *)
(* from there; it cannot reach the last address a second time, since that  *)
(* is the broadcast address of its subnet.                                 *)

\* Multiples of m are m apart.
LEMMA Multiples ==
    ASSUME NEW m \in Nat, NEW a \in Nat, NEW b \in Nat, a < b
    PROVE  m * a + m <= m * b
<1>1. PICK x \in Nat : b = a + 1 + x
    <2>1. b - a - 1 \in Nat /\ b = a + 1 + (b - a - 1)
        OBVIOUS
    <2> QED BY <2>1
<1>2. m * x \in Nat /\ m * b = m * a + m + m * x
    BY <1>1
<1> QED BY <1>2

\* The subnet of m addresses that address ip is in.
LEMMA SubnetOf ==
    ASSUME NEW m \in Nat \ {0}, NEW ip \in Nat
    PROVE  \E q \in Nat : ip - (ip % m) = m * q /\ m * q \in Nat /\ m * q <= ip /\ ip < m * q + m
<1>1. ip % m = ip - m * (ip \div m) /\ ip % m \in Nat /\ ip % m < m /\ ip \div m \in Nat
    OBVIOUS
<1>2. PICK q \in Nat : q = ip \div m
    BY <1>1
<1>3. m * q \in Nat
    OBVIOUS
<1> QED BY <1>1, <1>2, <1>3

\* Two addresses of one subnet have the addresses between them in it.
LEMMA SubnetConvex ==
    ASSUME NEW m \in Nat \ {0}, NEW a \in Nat, NEW b \in Nat, NEW c \in Nat, a <= b, b <= c,
           a - (a % m) = c - (c % m)
    PROVE  b - (b % m) = a - (a % m)
<1>1. PICK q \in Nat : a - (a % m) = m * q /\ m * q \in Nat /\ m * q <= a /\ a < m * q + m
    BY SubnetOf
<1>2. PICK r \in Nat : b - (b % m) = m * r /\ m * r \in Nat /\ m * r <= b /\ b < m * r + m
    BY SubnetOf
<1>3. c < m * q + m
    <2>1. PICK s \in Nat : c - (c % m) = m * s /\ m * s \in Nat /\ m * s <= c /\ c < m * s + m
        BY SubnetOf
    <2>2. m * s = m * q
        BY <1>1, <2>1
    <2> QED BY <2>1, <2>2
<1>4. ~(q < r)
    <2>1. q < r => m * q + m <= m * r
        BY Multiples
    <2> QED BY <1>1, <1>2, <1>3, <2>1
<1>5. ~(r < q)
    <2>1. r < q => m * r + m <= m * q
        BY Multiples
    <2> QED BY <1>1, <1>2, <2>1
<1>6. q = r
    BY <1>4, <1>5
<1> QED BY <1>1, <1>2, <1>6

\* The last address of the last subnet is the last of all, and the one before it
\* is in the same subnet.
LEMMA LastSubnet ==
    ASSUME NEW m \in Nat \ {0}, NEW k \in Nat, NEW T \in Nat, T = k * m, NEW ip \in 0..(T - 1)
    PROVE  /\ ip - (ip % m) + m - 1 <= T - 1
           /\ m # 1 /\ ip + 1 = T - 1 => ip - (ip % m) + m - 1 = T - 1
<1> m \in Nat \ {0} /\ ip \in Nat
    OBVIOUS
<1>1. PICK q \in Nat : ip - (ip % m) = m * q /\ m * q \in Nat /\ m * q <= ip /\ ip < m * q + m
    BY SubnetOf
<1>2. m * k = T
    OBVIOUS
<1>3. q < k
    <2>1. k < q => m * k + m <= m * q
        BY Multiples
    <2>2. q # k
        BY <1>1, <1>2
    <2> QED BY <1>1, <1>2, <2>1, <2>2
<1>4. m * q + m <= T
    BY <1>2, <1>3, Multiples
<1>5. ASSUME m # 1, ip + 1 = T - 1 PROVE m * q + m = T
    <2>1. q + 1 < k => m * (q + 1) + m <= m * k
        BY Multiples
    <2>2. m * (q + 1) = m * q + m
        OBVIOUS
    <2>3. ~(q + 1 < k)
        BY <1>1, <1>2, <1>5, <2>1, <2>2
    <2>4. k = q + 1
        BY <1>3, <2>3
    <2> QED BY <1>2, <2>2, <2>4
<1> QED BY <1>1, <1>4, <1>5

\* Ipv4Network on the addresses 0..(last - 1), last being one past the end.
NetworkFacts(last) ==
    /\ last \in Nat /\ last >= 2 /\ Addresses = 0..(last - 1)
    /\ \A ip \in 0..(last - 1) :
         /\ network(ip) \in Nat /\ broadcast(ip) \in Nat
         /\ network(ip) <= ip /\ ip <= broadcast(ip)
         /\ broadcast(ip) <= last - 1
         /\ bits # Width /\ ip + 1 = last - 1 => broadcast(ip) = last - 1
         /\ bits = Width => broadcast(ip) = ip
         /\ ip < last - 1 => WrappingSucc(ip) = ip + 1
         /\ ip = last - 1 => WrappingSucc(ip) = 0
    /\ \A a, b, c \in 0..(last - 1) : a <= b /\ b <= c /\ contains(a, c) =>
         network(b) = network(a) /\ broadcast(b) = broadcast(a)

\* They hold whatever the prefix.
LEMMA NetworkHolds ==
    ASSUME bits \in 0..Width
    PROVE  NetworkFacts(2^Width)
<1>1. PICK T : T = 2^Width
    OBVIOUS
<1>2. PICK m : m = 2^(Width - bits)
    OBVIOUS
<1>3. T \in Nat /\ m \in Nat \ {0} /\ (m = 1 <=> bits = Width)
    BY <1>1, <1>2, PowersAssumption
<1>4. PICK k \in 1..T : T = k * m
    BY <1>1, <1>2, PowersAssumption
<1>5. T >= 2 /\ k \in Nat
    <2>1. Width \in Nat \ {0} /\ Width - 0 = Width /\ 0 \in 0..Width
        BY WidthAssumption
    <2>2. 2^(Width - 0) \in Nat \ {0} /\ (2^(Width - 0) = 1 <=> 0 = Width)
        BY <2>1, PowersAssumption
    <2>3. 2^Width \in Nat \ {0} /\ (2^Width = 1 <=> 0 = Width)
        BY ONLY <2>1, <2>2, Zenon
    <2> QED BY <1>1, <1>3, <1>4, <2>1, <2>3
<1>6. /\ \A ip : network(ip) = ip - (ip % m)
      /\ \A ip : broadcast(ip) = network(ip) + m - 1
      /\ \A ip : WrappingSucc(ip) = (ip + 1) % T
      /\ \A a, c : contains(a, c) <=> network(c) = network(a)
      /\ Addresses = 0..(T - 1)
    BY <1>1, <1>2 DEF network, broadcast, WrappingSucc, contains,
                      Addresses, SubnetSize
<1>7. ASSUME NEW ip \in 0..(T - 1)
      PROVE  /\ network(ip) \in Nat /\ broadcast(ip) \in Nat
             /\ network(ip) <= ip /\ ip <= broadcast(ip)
             /\ broadcast(ip) <= T - 1
             /\ bits # Width /\ ip + 1 = T - 1 => broadcast(ip) = T - 1
             /\ bits = Width => broadcast(ip) = ip
             /\ ip < T - 1 => WrappingSucc(ip) = ip + 1
             /\ ip = T - 1 => WrappingSucc(ip) = 0
    <2>1. ip \in Nat
        BY <1>3
    <2>2. PICK n : n = ip - (ip % m)
        OBVIOUS
    <2>3. n \in Nat /\ n <= ip /\ ip < n + m
        BY <1>3, <2>1, <2>2, SubnetOf
    <2>4. n + m - 1 <= T - 1 /\ (m # 1 /\ ip + 1 = T - 1 => n + m - 1 = T - 1)
        BY <1>3, <1>4, <1>5, <2>2, LastSubnet
    <2>5. network(ip) = n /\ broadcast(ip) = n + m - 1
        BY <1>6, <2>2
    <2>6. ip < T - 1 => (ip + 1) % T = ip + 1
        BY <1>3, <1>5
    <2>7. ip = T - 1 => (ip + 1) % T = 0
        BY <1>3, <1>5
    <2>8. /\ ip < T - 1 => WrappingSucc(ip) = ip + 1
          /\ ip = T - 1 => WrappingSucc(ip) = 0
        BY <1>6, <2>6, <2>7
    <2> QED BY <1>3, <2>1, <2>3, <2>4, <2>5, <2>8
<1>8. ASSUME NEW a \in 0..(T - 1), NEW b \in 0..(T - 1), NEW c \in 0..(T - 1), a <= b, b <= c,
             contains(a, c)
      PROVE  network(b) = network(a) /\ broadcast(b) = broadcast(a)
    <2>1. a \in Nat /\ b \in Nat /\ c \in Nat /\ a - (a % m) = c - (c % m)
        BY <1>3, <1>6, <1>8
    <2>2. b - (b % m) = a - (a % m)
        BY <1>3, <1>8, <2>1, SubnetConvex
    <2> QED BY <1>6, <2>2
<1>9. NetworkFacts(T)
    BY <1>3, <1>5, <1>6, <1>7, <1>8 DEF NetworkFacts
<1> QED BY <1>1, <1>9

\* The pool so far, with `last` addresses in all: it has run straight from start,
\* or from start, the last address, on to 0 and straight from there.  The last
\* address itself is reached only by starting there.
Straight(last) ==
    /\ start <= next_avail
    /\ Len(pool) + start = IF done THEN next_avail + 1 ELSE next_avail
    /\ \A i \in 1..Len(pool) : pool[i] = start + i - 1
    /\ next_avail = last - 1 => start = last - 1

Wrapped(last) ==
    /\ start = last - 1 /\ next_avail < last - 1
    /\ Len(pool) = IF done THEN next_avail + 2 ELSE next_avail + 1
    /\ \A i \in 1..Len(pool) : pool[i] = IF i = 1 THEN start ELSE i - 2

\* Where the loop goes on.
GoesOn == HasNext(next_avail) /\ WrappingSucc(next_avail) <= end

BuildTypes(last) ==
    /\ bits \in 0..Width
    /\ start \in 0..(last - 1) /\ end \in 0..(last - 1) /\ next_avail \in 0..(last - 1)
    /\ done \in BOOLEAN
    /\ pool \in Seq(Nat)

\* A range inside one subnet keeps the loop inside it, short of the broadcast
\* address.
Within ==
    Sensible =>
        start <= next_avail /\ next_avail <= end /\ next_avail # broadcast(start)

Shaped(last) ==
    /\ Straight(last) \/ Wrapped(last)
    /\ Within
    /\ done => ~GoesOn

\* All this holds of a loop that ends.
Bounded(last) == bits # Width \/ end # last - 1
BuildInv(last) == BuildTypes(last) /\ (Bounded(last) => Shaped(last))

\* The constructor starts so.
LEMMA BuildInit ==
    ASSUME PoolInit
    PROVE  BuildInv(2^Width)
<1>1. PICK T : T = 2^Width
    OBVIOUS
<1>2. /\ bits \in 0..Width
      /\ start \in 0..(T - 1) /\ end \in 0..(T - 1)
      /\ next_avail = start /\ pool = <<>> /\ done = FALSE
    BY <1>1 DEF PoolInit, Addresses
<1>3. T \in Nat
    BY <1>1, PowersAssumption
<1>4. BuildTypes(T)
    <2>1. done \in BOOLEAN
        BY <1>2
    <2>2. pool \in Seq(Nat)
        BY <1>2
    <2>3. next_avail \in 0..(T - 1)
        BY <1>2
    <2> QED BY <1>2, <2>1, <2>2, <2>3 DEF BuildTypes
<1>5. Straight(T)
    BY <1>2, <1>3 DEF Straight
<1>6. Within
    BY <1>2, <1>3 DEF Within, Sensible
<1> QED BY <1>1, <1>2, <1>4, <1>5, <1>6 DEF BuildInv, Shaped

\* A round leaves the configuration alone, and with it the subnets.
LEMMA SubnetsStay ==
    ASSUME bits' = bits, start' = start, end' = end
    PROVE  /\ Sensible' <=> Sensible
           /\ broadcast(start)' = broadcast(start)
<1> QED BY DEF Sensible, contains, broadcast, network, SubnetSize

\* Where the loop goes on, the address is not the broadcast address of its subnet,
\* and so not the last one of all.
LEMMA GoingOn ==
    ASSUME NEW T, NetworkFacts(T), BuildTypes(T), Bounded(T), GoesOn
    PROVE  \/ /\ next_avail < T - 2
              /\ WrappingSucc(next_avail) = next_avail + 1
              /\ next_avail + 1 <= end
              /\ next_avail + 1 # broadcast(next_avail)
           \/ /\ next_avail = T - 1
              /\ WrappingSucc(next_avail) = 0
<1>1. T \in Nat /\ T >= 2 /\ next_avail \in 0..(T - 1)
    BY DEF NetworkFacts, BuildTypes
<1>2. /\ bits # Width /\ next_avail + 1 = T - 1 => broadcast(next_avail) = T - 1
      /\ next_avail < T - 1 => WrappingSucc(next_avail) = next_avail + 1
      /\ next_avail = T - 1 => WrappingSucc(next_avail) = 0
    BY <1>1 DEF NetworkFacts
<1>3. /\ WrappingSucc(next_avail) # broadcast(next_avail)
      /\ WrappingSucc(next_avail) <= end
    BY DEF GoesOn, HasNext
<1>4. (bits # Width \/ end < T - 1) /\ end \in 0..(T - 1)
    BY <1>1 DEF Bounded, BuildTypes
<1> QED BY <1>1, <1>2, <1>3, <1>4

\* A round that goes on.
LEMMA RoundOn ==
    ASSUME NEW T, NetworkFacts(T), BuildTypes(T), Bounded(T), Shaped(T), done = FALSE, GoesOn,
           pool' = Append(pool, next_avail), next_avail' = WrappingSucc(next_avail),
           done' = FALSE, bits' = bits, start' = start, end' = end
    PROVE  Shaped(T)'
<1>1. (Straight(T) \/ Wrapped(T)) /\ Within
    BY DEF Shaped
<1>2. /\ T \in Nat /\ T >= 2
      /\ start \in 0..(T - 1) /\ end \in 0..(T - 1) /\ next_avail \in 0..(T - 1)
      /\ pool \in Seq(Nat)
    BY <1>1 DEF NetworkFacts, BuildTypes
<1>3. /\ pool' \in Seq(Nat) /\ Len(pool) \in Nat /\ Len(pool') = Len(pool) + 1
      /\ pool'[Len(pool) + 1] = next_avail
      /\ \A i \in 1..Len(pool) : pool'[i] = pool[i]
    BY <1>2
<1>4. \/ /\ next_avail < T - 2 /\ next_avail' = next_avail + 1
         /\ next_avail + 1 <= end /\ next_avail + 1 # broadcast(next_avail)
      \/ next_avail = T - 1 /\ next_avail' = 0
    BY <1>1, GoingOn
<1>6. Straight(T)' \/ Wrapped(T)'
    <2>1. CASE Straight(T) /\ next_avail < T - 2 /\ next_avail' = next_avail + 1
        <3>1. Len(pool) + start = next_avail /\ \A i \in 1..Len(pool) : pool[i] = start + i - 1
            BY <2>1 DEF Straight
        <3>2. \A i \in 1..Len(pool') : pool'[i] = start + i - 1
            <4>1. SUFFICES ASSUME NEW i \in 1..Len(pool') PROVE pool'[i] = start + i - 1
                OBVIOUS
            <4>2. CASE i \in 1..Len(pool)
                BY <1>3, <3>1, <4>2
            <4>3. CASE i = Len(pool) + 1
                BY <1>2, <1>3, <3>1, <4>3
            <4> QED BY <1>3, <4>2, <4>3
        <3>3. Len(pool') + start = next_avail' /\ start <= next_avail' /\ next_avail' # T - 1
            BY <1>2, <1>3, <2>1, <3>1
        <3> QED BY <3>2, <3>3 DEF Straight
    <2>2. CASE Straight(T) /\ next_avail = T - 1 /\ next_avail' = 0
        <3>1. start = T - 1 /\ Len(pool) + start = next_avail
            BY <2>2 DEF Straight
        <3>2. Len(pool) = 0
            BY <1>2, <1>3, <2>2, <3>1
        <3>3. Len(pool') = 1 /\ pool'[1] = start
            BY <1>3, <2>2, <3>1, <3>2
        <3>4. next_avail' < T - 1 /\ Len(pool') = next_avail' + 1
            BY <1>2, <2>2, <3>3
        <3>5. \A i \in 1..Len(pool') : pool'[i] = IF i = 1 THEN start ELSE i - 2
            BY <3>3
        <3> QED BY <3>1, <3>4, <3>5 DEF Wrapped
    <2>3. CASE Wrapped(T)
        <3>1. /\ Len(pool) = next_avail + 1 /\ start = T - 1 /\ next_avail < T - 1
              /\ \A i \in 1..Len(pool) : pool[i] = IF i = 1 THEN start ELSE i - 2
            BY <2>3 DEF Wrapped
        <3>2. next_avail < T - 2 /\ next_avail' = next_avail + 1
            BY <1>2, <1>4, <3>1
        <3>3. \A i \in 1..Len(pool') : pool'[i] = IF i = 1 THEN start ELSE i - 2
            <4>1. SUFFICES ASSUME NEW i \in 1..Len(pool')
                           PROVE  pool'[i] = IF i = 1 THEN start ELSE i - 2
                OBVIOUS
            <4>2. CASE i \in 1..Len(pool)
                BY <1>3, <3>1, <4>2
            <4>3. CASE i = Len(pool) + 1
                BY <1>2, <1>3, <3>1, <4>3
            <4> QED BY <1>3, <4>2, <4>3
        <3>4. Len(pool') = next_avail' + 1 /\ next_avail' < T - 1
            BY <1>2, <1>3, <3>1, <3>2
        <3> QED BY <3>1, <3>3, <3>4 DEF Wrapped
    <2> QED BY <1>1, <1>4, <2>1, <2>2, <2>3
<1>7. Within'
    <2>1. SUFFICES ASSUME Sensible
                   PROVE  /\ start <= next_avail' /\ next_avail' <= end
                          /\ next_avail' # broadcast(start)
        BY SubnetsStay DEF Within
    <2>2. start <= next_avail /\ next_avail <= end /\ next_avail # broadcast(start)
        BY <1>1, <2>1 DEF Within
    <2>3. broadcast(next_avail) = broadcast(start)
        BY <1>2, <2>1, <2>2 DEF NetworkFacts, Sensible
    <2>4. broadcast(next_avail) \in Nat /\ next_avail <= broadcast(next_avail)
          /\ broadcast(next_avail) <= T - 1
        BY <1>2 DEF NetworkFacts
    <2>5. next_avail # T - 1
        BY <1>2, <2>2, <2>3, <2>4
    <2> QED BY <1>2, <1>4, <2>2, <2>3, <2>5
<1> QED BY <1>6, <1>7 DEF Shaped

\* The last round.
LEMMA RoundLast ==
    ASSUME NEW T, NetworkFacts(T), BuildTypes(T), Shaped(T), done = FALSE, ~GoesOn,
           pool' = Append(pool, next_avail), next_avail' = next_avail,
           done' = TRUE, bits' = bits, start' = start, end' = end
    PROVE  Shaped(T)'
<1>1. (Straight(T) \/ Wrapped(T)) /\ Within
    BY DEF Shaped
<1>2. /\ T \in Nat /\ T >= 2
      /\ start \in 0..(T - 1) /\ end \in 0..(T - 1) /\ next_avail \in 0..(T - 1)
      /\ pool \in Seq(Nat)
    BY <1>1 DEF NetworkFacts, BuildTypes
<1>3. /\ pool' \in Seq(Nat) /\ Len(pool) \in Nat /\ Len(pool') = Len(pool) + 1
      /\ pool'[Len(pool) + 1] = next_avail
      /\ \A i \in 1..Len(pool) : pool'[i] = pool[i]
    BY <1>2
<1>5. Straight(T)' \/ Wrapped(T)'
    <2>1. CASE Straight(T)
        <3>1. /\ Len(pool) + start = next_avail /\ start <= next_avail
              /\ \A i \in 1..Len(pool) : pool[i] = start + i - 1
              /\ next_avail = T - 1 => start = T - 1
            BY <2>1 DEF Straight
        <3>2. \A i \in 1..Len(pool') : pool'[i] = start + i - 1
            <4>1. SUFFICES ASSUME NEW i \in 1..Len(pool') PROVE pool'[i] = start + i - 1
                OBVIOUS
            <4>2. CASE i \in 1..Len(pool)
                BY <1>3, <3>1, <4>2
            <4>3. CASE i = Len(pool) + 1
                BY <1>2, <1>3, <3>1, <4>3
            <4> QED BY <1>3, <4>2, <4>3
        <3>3. Len(pool') + start = next_avail + 1
            BY <1>2, <1>3, <3>1
        <3> QED BY <3>1, <3>2, <3>3 DEF Straight
    <2>2. CASE Wrapped(T)
        <3>1. /\ Len(pool) = next_avail + 1 /\ start = T - 1 /\ next_avail < T - 1
              /\ \A i \in 1..Len(pool) : pool[i] = IF i = 1 THEN start ELSE i - 2
            BY <2>2 DEF Wrapped
        <3>2. \A i \in 1..Len(pool') : pool'[i] = IF i = 1 THEN start ELSE i - 2
            <4>1. SUFFICES ASSUME NEW i \in 1..Len(pool')
                           PROVE  pool'[i] = IF i = 1 THEN start ELSE i - 2
                OBVIOUS
            <4>2. CASE i \in 1..Len(pool)
                BY <1>3, <3>1, <4>2
            <4>3. CASE i = Len(pool) + 1
                BY <1>2, <1>3, <3>1, <4>3
            <4> QED BY <1>3, <4>2, <4>3
        <3>3. Len(pool') = next_avail + 2
            BY <1>2, <1>3, <3>1
        <3> QED BY <3>1, <3>2, <3>3 DEF Wrapped
    <2> QED BY <1>1, <2>1, <2>2
<1>6. Within'
    BY <1>1, SubnetsStay DEF Within
<1>7. ~GoesOn'
    BY DEF GoesOn, HasNext, WrappingSucc, broadcast, network,
           SubnetSize
<1> QED BY <1>5, <1>6, <1>7 DEF Shaped

\* Every step of the constructor keeps the invariant.
LEMMA BuildStep ==
    ASSUME BuildInv(2^Width),
           [PoolNext]_poolVars
    PROVE  BuildInv(2^Width)'
<1>1. PICK T : T = 2^Width
    OBVIOUS
<1>2. BuildTypes(T) /\ (Bounded(T) => Shaped(T)) /\ bits \in 0..Width /\ done \in BOOLEAN
    BY <1>1 DEF BuildInv, BuildTypes
<1>3. NetworkFacts(T)
    BY <1>1, <1>2, NetworkHolds
<1>4. CASE Step
    <2> SUFFICES BuildInv(T)'
        BY <1>1
    <2>1. /\ pool' = Append(pool, next_avail)
          /\ bits' = bits /\ start' = start /\ end' = end
          /\ IF GoesOn THEN next_avail' = WrappingSucc(next_avail) /\ done' = done
             ELSE done' = TRUE /\ next_avail' = next_avail
        BY <1>4 DEF Step, GoesOn
    <2>2. ~done
        BY <1>4, Zenon DEF Step
    <2>3. done = FALSE
        BY <1>2, <2>2
    <2>4. BuildTypes(T)'
        <3>1. /\ T \in Nat /\ T >= 2 /\ next_avail \in 0..(T - 1) /\ pool \in Seq(Nat)
              /\ start \in 0..(T - 1) /\ end \in 0..(T - 1)
            BY <1>2, <1>3 DEF NetworkFacts, BuildTypes
        <3>2. WrappingSucc(next_avail) \in 0..(T - 1)
            <4>1. /\ next_avail < T - 1 => WrappingSucc(next_avail) = next_avail + 1
                  /\ next_avail = T - 1 => WrappingSucc(next_avail) = 0
                BY <1>3, <3>1 DEF NetworkFacts
            <4> QED BY <3>1, <4>1
        <3>3. next_avail' \in 0..(T - 1) /\ done' \in BOOLEAN
            BY <2>1, <2>3, <3>1, <3>2
        <3>4. pool' \in Seq(Nat)
            BY <2>1, <3>1
        <3> QED BY <1>2, <2>1, <3>1, <3>3, <3>4 DEF BuildTypes
    <2>5. ASSUME Bounded(T) PROVE Shaped(T)'
        <3>1. CASE GoesOn
            BY <1>2, <1>3, <2>1, <2>3, <2>5, <3>1, RoundOn
        <3>2. CASE ~GoesOn
            BY <1>2, <1>3, <2>1, <2>3, <2>5, <3>2, RoundLast
        <3> QED BY <3>1, <3>2
    <2>6. Bounded(T)' => Bounded(T)
        BY <2>1 DEF Bounded
    <2> QED BY <2>4, <2>5, <2>6 DEF BuildInv
<1>5. CASE UNCHANGED poolVars
    BY <1>5 DEF poolVars, BuildInv, BuildTypes, Bounded, Shaped, Straight, Wrapped, Within,
                GoesOn, HasNext, WrappingSucc, Sensible, contains, broadcast, network,
                SubnetSize
<1> QED BY <1>4, <1>5 DEF PoolNext, Finished

\* The invariant gives the pool.
LEMMA BuildGives ==
    ASSUME BuildInv(2^Width)
    PROVE  PoolIsTheRange
<1>1. PICK T : T = 2^Width
    OBVIOUS
<1>2. /\ BuildTypes(T)
      /\ Bounded(T) => (Straight(T) \/ Wrapped(T)) /\ Within /\ (done => ~GoesOn)
    BY <1>1 DEF BuildInv, Shaped
<1>3. NetworkFacts(T)
    BY <1>1, <1>2, NetworkHolds DEF BuildTypes
<1>4. /\ T \in Nat /\ T >= 2 /\ Addresses = 0..(T - 1)
      /\ start \in 0..(T - 1) /\ end \in 0..(T - 1) /\ next_avail \in 0..(T - 1)
      /\ pool \in Seq(Nat) /\ Len(pool) \in Nat
    BY <1>2, <1>3 DEF NetworkFacts, BuildTypes
<1>5. ASSUME ~Endless
      PROVE  \A i, j \in 1..Len(pool) : pool[i] = pool[j] => i = j
    <2>0. Straight(T) \/ Wrapped(T)
        BY <1>1, <1>2, <1>5 DEF Endless, Bounded
    <2>1. CASE Straight(T)
        BY <1>4, <2>1 DEF Straight
    <2>2. CASE Wrapped(T)
        <3>1. /\ start = T - 1 /\ next_avail < T - 1 /\ Len(pool) <= next_avail + 2
              /\ \A i \in 1..Len(pool) : pool[i] = IF i = 1 THEN start ELSE i - 2
            BY <1>4, <2>2 DEF Wrapped
        <3>2. \A i \in 1..Len(pool) : i # 1 => pool[i] < start
            BY <1>4, <3>1
        <3> QED BY <1>4, <3>1, <3>2
    <2> QED BY <2>0, <2>1, <2>2
<1>6. ASSUME done, Sensible
      PROVE  /\ {pool[i] : i \in 1..Len(pool)} =
                    {a \in 0..(T - 1) : start <= a /\ a <= end /\ a # broadcast(start)}
             /\ \A i \in 1..Len(pool) : pool[i] = start + i - 1
    <2>0. (Straight(T) \/ Wrapped(T)) /\ Within /\ ~GoesOn
        <3>1. bits # Width
            BY <1>3, <1>4, <1>6 DEF NetworkFacts, Sensible
        <3> QED BY <1>2, <1>6, <3>1 DEF Bounded
    <2>1. /\ start <= next_avail /\ next_avail <= end /\ next_avail # broadcast(start)
          /\ start # broadcast(start) /\ contains(start, end)
        BY <2>0, <1>6 DEF Within, Sensible
    <2>2. \A ip \in 0..(T - 1) : /\ broadcast(ip) \in Nat /\ ip <= broadcast(ip)
                                 /\ broadcast(ip) <= T - 1
        BY <1>3 DEF NetworkFacts
    <2>3. start # T - 1
        BY <1>4, <2>1, <2>2
    <2>4. Straight(T)
        BY <2>0, <2>3 DEF Wrapped
    <2>5. done = TRUE
        BY <1>2, <1>6 DEF BuildTypes
    <2>6. Len(pool) + start = next_avail + 1 /\ \A i \in 1..Len(pool) : pool[i] = start + i - 1
        BY <2>4, <2>5 DEF Straight
    <2>7. /\ broadcast(next_avail) = broadcast(start)
          /\ broadcast(end) = broadcast(start)
        BY <1>3, <1>4, <2>1 DEF NetworkFacts
    <2>8. PICK B \in Nat : B = broadcast(start)
        BY <1>4, <2>2
    <2>9. next_avail < B /\ end <= B
        BY <1>4, <2>1, <2>2, <2>7, <2>8
    <2>10. next_avail < end => next_avail + 1 = B
        <3>1. SUFFICES ASSUME next_avail < end PROVE next_avail + 1 = B
            OBVIOUS
        <3>2. next_avail < T - 1
            BY <1>4, <3>1
        <3>3. WrappingSucc(next_avail) = next_avail + 1
            BY <1>3, <1>4, <3>2 DEF NetworkFacts
        <3>4. next_avail + 1 <= end
            BY <1>4, <3>1
        <3>5. next_avail + 1 \in {network(next_avail), broadcast(next_avail)}
            BY <2>0, <3>3, <3>4 DEF GoesOn, HasNext
        <3>6. network(next_avail) \in Nat /\ network(next_avail) <= next_avail
            BY <1>3, <1>4 DEF NetworkFacts
        <3> QED BY <1>4, <2>7, <2>8, <3>5, <3>6
    <2>11. \A a \in 0..(T - 1) :
              start <= a /\ a <= end /\ a # B <=> start <= a /\ a <= next_avail
        BY <1>4, <2>1, <2>8, <2>9, <2>10
    <2>12. ASSUME NEW i \in 1..Len(pool)
           PROVE  pool[i] \in 0..(T - 1) /\ start <= pool[i] /\ pool[i] <= next_avail
        BY <1>4, <2>6, <2>12
    <2>13. ASSUME NEW a \in 0..(T - 1), start <= a, a <= next_avail
           PROVE  \E i \in 1..Len(pool) : pool[i] = a
        <3>1. a - start + 1 \in 1..Len(pool)
            BY <1>4, <2>6, <2>13
        <3>2. pool[a - start + 1] = start + (a - start + 1) - 1
            BY <2>6, <3>1
        <3>3. pool[a - start + 1] = a
            BY <1>4, <3>2
        <3> QED BY <3>1, <3>3
    <2>14. {pool[i] : i \in 1..Len(pool)} =
              {a \in 0..(T - 1) : start <= a /\ a <= end /\ a # B}
        BY <2>11, <2>12, <2>13
    <2> QED BY <2>6, <2>8, <2>14
<1> QED BY <1>4, <1>5, <1>6 DEF PoolIsTheRange

\* The constructor's loop puts no address into the pool twice, whatever the
\* configuration it ends for, and turns a range inside one subnet into exactly its addresses.
THEOREM PoolIsBuiltRight == PoolSpec => []PoolIsTheRange
<1>1. PoolInit => BuildInv(2^Width)
    BY BuildInit
<1>2. BuildInv(2^Width) /\ [PoolNext]_poolVars => BuildInv(2^Width)'
    BY BuildStep
<1>3. BuildInv(2^Width) => PoolIsTheRange
    BY BuildGives
<1> QED BY <1>1, <1>2, <1>3, PTL DEF PoolSpec
=============================================================================
