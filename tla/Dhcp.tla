-------------------------------- MODULE Dhcp --------------------------------
(***************************************************************************)
(* The bridge's DHCPv4 server (oathgate-bridge/src/net/dhcp.rs) with the   *)
(* clients that talk to it through the router's message channel.           *)
(*                                                                         *)
(* A request is abstracted to its message type, the client's hardware      *)
(* address (chaddr) and the optional "requested IP address" option; a      *)
(* reply to its type and yiaddr.  Addresses are opaque: how the pool is    *)
(* computed from the configuration is module AddressPool's subject.        *)
(***************************************************************************)
EXTENDS Naturals, Sequences

CONSTANTS Macs,        \* hardware addresses of the clients
          Addrs,       \* addresses a client may ask for
          Pool,        \* the sequence DhcpServer::new puts in `available`
          NoMac, NoIp, \* absent values
          MaxInbox,    \* bound: requests waiting in the router's channel
          MaxReplies   \* bound: replies waiting for one client

ASSUME PoolAssumption ==
    /\ Pool \in Seq(Addrs)
    /\ \A i, j \in 1..Len(Pool) : Pool[i] = Pool[j] => i = j

ASSUME AbsentAssumption == NoMac \notin Macs /\ NoIp \notin Addrs

ASSUME BoundAssumption == MaxInbox \in Nat /\ MaxReplies \in Nat

VARIABLES available,  \* VecDeque<Ipv4Addr>, front first
          leased,     \* HashMap<Ipv4Addr, MacAddress>
          inbox,      \* requests on their way to the server, in order
          replies,    \* replies[m]: replies on their way to client m
          bound       \* bound[m]: the address client m has configured

serverVars == <<available, leased>>
vars == <<available, leased, inbox, replies, bound>>

RequestType == {"DISCOVER", "REQUEST", "OTHER"}
ReplyType   == {"OFFER", "ACK", "EMPTY"}

Requests == [type : RequestType, mac : Macs, req : Addrs \cup {NoIp}]
Replies  == [type : ReplyType, ip : Addrs \cup {NoIp}]

Init ==
    /\ available = Pool
    /\ leased = [a \in Addrs |-> NoMac]
    /\ inbox = <<>>
    /\ replies = [m \in Macs |-> <<>>]
    /\ bound = [m \in Macs |-> NoIp]

-----------------------------------------------------------------------------
(* The server *)

\* Fault: the granted address is left in the pool.
RetainNothing(q, ria) == q

\* VecDeque::retain(|ip| *ip != ria); `available` holds no address twice
\* (PoolConserved), so there is at most one entry to remove.
Retain(q, ria) ==
    IF \A i \in 1..Len(q) : q[i] # ria
    THEN q
    ELSE LET k == CHOOSE i \in 1..Len(q) : q[i] = ria
         IN  [j \in 1..(Len(q) - 1) |-> IF j < k THEN q[j] ELSE q[j + 1]]

\* Fault: a requested address is granted without looking for another lease.
RequestHonouredUnchecked(mac, ria) == ria # NoIp

\* The requested address is honoured when it is free or already this client's:
\* the code does not look whether it belongs to the pool.
RequestHonoured(mac, ria) ==
    /\ ria # NoIp
    /\ leased[ria] \in {NoMac, mac}

\* The address lease_ip selects; NoIp when the pool is exhausted.
Selected(mac, ria) ==
    IF RequestHonoured(mac, ria) THEN ria
    ELSE IF available = <<>> THEN NoIp
    ELSE Head(available)

\* Fault: the owner of a granted address is not recorded.
LeaseUnrecorded(mac, ria) ==
    /\ available' = IF available = <<>> THEN <<>> ELSE Tail(available)
    /\ leased' = leased

\* lease_ip: take the address out of `available` and record its owner.
lease_ip(mac, ria) ==
    /\ available' = IF RequestHonoured(mac, ria) THEN Retain(available, ria)
                    ELSE IF available = <<>> THEN <<>>
                    ELSE Tail(available)
    /\ leased' = IF Selected(mac, ria) = NoIp THEN leased
                 ELSE [leased EXCEPT ![Selected(mac, ria)] = mac]

\* build_message and the way back: an exhausted pool is an error the router
\* answers by dropping the request.
Respond(mac, type, ip) ==
    replies' = IF ip = NoIp THEN replies
               ELSE [replies EXCEPT ![mac] = Append(@, [type |-> type, ip |-> ip])]

\* The router hands the oldest request to the server (handle_port).
Receive(type) ==
    /\ inbox # <<>>
    /\ Head(inbox).type = type
    /\ Len(replies[Head(inbox).mac]) < MaxReplies
    /\ inbox' = Tail(inbox)

handle_discover ==
    LET msg == Head(inbox) IN
    /\ Receive("DISCOVER")
    /\ lease_ip(msg.mac, msg.req)
    /\ Respond(msg.mac, "OFFER", Selected(msg.mac, msg.req))
    /\ UNCHANGED bound

handle_request ==
    LET msg == Head(inbox) IN
    /\ Receive("REQUEST")
    /\ lease_ip(msg.mac, msg.req)
    /\ Respond(msg.mac, "ACK", Selected(msg.mac, msg.req))
    /\ UNCHANGED bound

\* Fault: a release drops leases the client still has configured or on offer.
ReleaseForgets ==
    /\ Receive("OTHER")
    /\ leased' = [a \in Addrs |-> IF leased[a] = Head(inbox).mac THEN NoMac
                                  ELSE leased[a]]
    /\ UNCHANGED <<available, replies, bound>>

\* Release, Decline and every other type: nothing is recorded, and the UDP
\* handler sends a reply with an empty body.
handle_other ==
    /\ Receive("OTHER")
    /\ replies' = [replies EXCEPT ![Head(inbox).mac] =
                       Append(@, [type |-> "EMPTY", ip |-> NoIp])]
    /\ UNCHANGED <<available, leased, bound>>

-----------------------------------------------------------------------------
(* The clients: they may retransmit, ask for any address, reboot, release,  *)
(* and lose replies.                                                        *)

Send(type, m, r) ==
    /\ Len(inbox) < MaxInbox
    /\ inbox' = Append(inbox, [type |-> type, mac |-> m, req |-> r])

SendDiscover(m, r) ==
    /\ Send("DISCOVER", m, r)
    /\ UNCHANGED <<available, leased, replies, bound>>

\* A renewal (no requested address option) or a reboot with a known address.
SendRequest(m, r) ==
    /\ Send("REQUEST", m, r)
    /\ UNCHANGED <<available, leased, replies, bound>>

SendRelease(m) ==
    /\ bound[m] # NoIp
    /\ Send("OTHER", m, NoIp)
    /\ bound' = [bound EXCEPT ![m] = NoIp]
    /\ UNCHANGED <<available, leased, replies>>

NextReply(m, type) ==
    /\ replies[m] # <<>>
    /\ Head(replies[m]).type = type
    /\ replies' = [replies EXCEPT ![m] = Tail(@)]

RecvOffer(m) ==
    /\ NextReply(m, "OFFER")
    /\ Send("REQUEST", m, Head(replies[m]).ip)
    /\ UNCHANGED <<available, leased, bound>>

RecvAck(m) ==
    /\ NextReply(m, "ACK")
    /\ bound' = [bound EXCEPT ![m] = Head(replies[m]).ip]
    /\ UNCHANGED <<available, leased, inbox>>

\* A reply is lost on the way, or discarded by the client.
LoseReply(m) ==
    /\ replies[m] # <<>>
    /\ replies' = [replies EXCEPT ![m] = Tail(@)]
    /\ UNCHANGED <<available, leased, inbox, bound>>

-----------------------------------------------------------------------------
Server == handle_discover \/ handle_request \/ handle_other

Client(m) ==
    \/ \E r \in Addrs \cup {NoIp} : SendDiscover(m, r) \/ SendRequest(m, r)
    \/ SendRelease(m) \/ RecvOffer(m) \/ RecvAck(m) \/ LoseReply(m)

Next == Server \/ \E m \in Macs : Client(m)

Spec == Init /\ [][Next]_vars

-----------------------------------------------------------------------------
(* Properties *)

\* Every variable keeps its type.
TypeOK ==
    /\ available \in Seq(Addrs)
    /\ leased \in [Addrs -> Macs \cup {NoMac}]
    /\ inbox \in Seq(Requests)
    /\ replies \in [Macs -> Seq(Replies)]
    /\ bound \in [Macs -> Addrs \cup {NoIp}]

\* Whatever mixture of retransmitted, renewed and lost messages, lease_ip
\* neither duplicates nor loses an address of the pool: each is either
\* waiting once in `available` or leased, never both.
PoolConserved ==
    /\ \A i, j \in 1..Len(available) : available[i] = available[j] => i = j
    /\ \A i \in 1..Len(available) : leased[available[i]] = NoMac
    /\ \A k \in 1..Len(Pool) :
          \/ leased[Pool[k]] # NoMac
          \/ \E i \in 1..Len(available) : available[i] = Pool[k]

\* Two clients never have the same address configured, however their DISCOVER
\* and REQUEST messages interleave in the router's channel.
NoSharedAddress ==
    \A m, n \in Macs : bound[m] = bound[n] /\ bound[m] # NoIp => m = n

Book == INSTANCE LeaseBook WITH owner <- leased, holds <- bound

\* The server with its clients implements the abstract lease book: a lease
\* never passes to another client, and an address is only configured by the
\* client it is leased to.
ImplementsLeaseBook == Book!Spec

\* Strengthening of NoSharedAddress: an acknowledgement on its way, like a
\* configured address, belongs to the client it is addressed to.
GrantsAreOwned ==
    /\ \A m \in Macs : bound[m] # NoIp => leased[bound[m]] = m
    /\ \A m \in Macs : \A i \in 1..Len(replies[m]) :
          replies[m][i].type \in {"OFFER", "ACK"} =>
              /\ replies[m][i].ip # NoIp
              /\ leased[replies[m][i].ip] = m

IInv == TypeOK /\ PoolConserved /\ GrantsAreOwned

=============================================================================
