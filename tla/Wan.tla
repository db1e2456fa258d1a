-------------------------------- MODULE Wan --------------------------------
(***************************************************************************)
(* The WAN links: the handle the router writes to, the thread behind it,   *)
(* the NAT table, and the reassembly of fragments.  A LAN host asks a      *)
(* remote one a question; the remote answers it whole or in fragments,     *)
(* which the network may lose, reorder or repeat.                          *)
(*                                                                         *)
(* Packets are counted in cells of four bytes: a header is five cells, a   *)
(* fragment offset is an even number of cells.  What a cell holds is a     *)
(* tuple <<tag, a, b>>.                                                    *)
(***************************************************************************)
EXTENDS Naturals, Sequences, FiniteSets, SequencesExt

CONSTANTS Hosts,            \* LAN addresses
          WanIp,            \* the address of the wireguard device
          Flows,            \* what may be asked: host, remote, protocol and the
                            \* source port (or ICMP id)
          Cuts,             \* where answers are cut: offsets of their fragments
          Links,            \* the kinds of link examined
          MaxAsk,           \* bound: questions asked
          MaxSock,          \* bound: fragments in the socket
          MaxMishaps        \* bound: kinds of trouble in one behaviour

ASSUME WanAssumption ==
    /\ \A f \in Flows : f.host \in Hosts /\ f.proto \in {"icmp", "tcp", "udp", "other"}
    /\ Links \subseteq {"wireguard", "tap", "udp"}
    /\ Cuts \subseteq {<<0>>, <<0, 2>>, <<0, 4>>, <<0, 2, 4>>}
    /\ WanIp \notin Hosts /\ MaxAsk \in Nat /\ MaxMishaps \in Nat /\ MaxSock \in Nat

VARIABLES
    link,       \* the configured WAN
    rx,         \* channel from the router to the WAN thread
    writing,    \* the router is between tx.send and waker.wake
    woken,      \* the waker's event is pending
    batch,      \* packets drained from rx, not yet encapsulated
    pc,         \* the WAN thread: where it is, or how it ended
    tun,        \* boringtun: session, handshake under way, packets it holds
    nat, cache, \* NatTable, and first fragments by identification
    hello,      \* a handshake initiation is on its way to the peer
    net, sock,  \* net[n]: fragments of answer n on their way; the socket
    edge,       \* the socket's readable event is pending
    wire,       \* questions that left, in order
    lan,        \* packets handed to the router, in order
    unknown,    \* answers dropped for want of a NAT entry
    questions,  \* what the router wrote, in order
    answered, mishaps

handleVars == <<rx, writing, questions>>
threadVars == <<woken, batch, pc, tun, nat, cache, edge>>
outVars == <<hello, wire, lan, unknown>>
netVars == <<net, answered, mishaps>>
vars == <<link, handleVars, threadVars, outVars, netVars, sock>>

----------------------------------------------------------------------------
(* Packets.                                                                *)

HeaderCells == 5
PayloadCells == 6

\* The cell NatTable reads the port or ICMP id from, and the one that holds
\* the transport checksum (0: none).
KeyCell(proto) == IF proto = "icmp" THEN 2 ELSE 1
SumCell(proto) == CASE proto = "tcp" -> 5 [] proto = "udp" -> 2 [] OTHER -> 0

Header == [i \in 1..HeaderCells |-> <<"header", 0, i>>]
Padding(k) == [i \in 1..k |-> <<"zero", 0, 0>>]

\* The transport segment number n, its checksum computed for one end's address.
Segment(n, proto, port, addr) ==
    [i \in 1..PayloadCells |->
        CASE i = SumCell(proto) -> <<"sum", addr, 0>>
          [] i = KeyCell(proto) -> <<"key", port, 0>>
          [] OTHER -> <<"body", n, i>>]

payload(pkt) == SubSeq(pkt.data, HeaderCells + 1, Len(pkt.data))

\* Vec::resize.
resize(data, k) ==
    IF Len(data) >= k THEN SubSeq(data, 1, k) ELSE data \o Padding(k - Len(data))

\* Fault: the end of the data is taken for the end of the payload.
AddAtEndOfData(pkt, offset, new) ==
    IF offset = Len(pkt.data) THEN [pkt EXCEPT !.data = @ \o new]
    ELSE [pkt EXCEPT !.data =
            [i \in 1..Len(@) |-> IF i \in (offset + 1)..(offset + Len(new))
                                 THEN new[i - offset] ELSE @[i]]]

\* Ipv4Packet::add_fragment_data.  Only the first case counts from the start
\* of the payload; the other two count from the start of the header.  The slice
\* of the last case is long enough here: a fragment has PayloadCells cells at
\* most, and data holds a header more than the payload (a longer fragment inside
\* a short packet would panic).
add_fragment_data(pkt, offset, new) ==
    LET end == Len(payload(pkt))
        grown == resize(pkt.data, offset) \o new
    IN  CASE offset = end ->
               [pkt EXCEPT !.data = @ \o new, !.length = @ + Len(new)]
          [] offset > end ->
               [pkt EXCEPT !.data = grown, !.length = offset + Len(new)]
          [] OTHER ->
               [pkt EXCEPT !.data =
                   [i \in 1..Len(@) |-> IF i \in (offset + 1)..(offset + Len(new))
                                        THEN new[i - offset] ELSE @[i]]]

\* Header::as_bytes writes the header over the first cells of the data; a
\* slice that is too short for it panics.
as_bytes(pkt) ==
    [pkt EXCEPT !.data = Header \o SubSeq(@, HeaderCells + 1, Len(@))]

finalize(pkt) == as_bytes([pkt EXCEPT !.mf = FALSE, !.off = 0])

\* fix_transport_checksum computes the sum afresh, over whatever is there.
fix_transport_checksum(pkt, addr) ==
    IF SumCell(pkt.proto) = 0 THEN pkt
    ELSE [pkt EXCEPT !.data[HeaderCells + SumCell(pkt.proto)] = <<"sum", addr, 0>>]

masquerade(pkt, ip) == fix_transport_checksum(as_bytes([pkt EXCEPT !.src = ip]), ip)
unmasquerade(pkt, ip) == fix_transport_checksum(as_bytes([pkt EXCEPT !.dst = ip]), ip)

----------------------------------------------------------------------------
(* NAT.                                                                    *)

\* NatEntry: protocol, remote address, and the cell holding port or id.
NatEntry(proto, remote, cell) == <<proto, remote, cell>>

\* Fault: an entry that is there already is kept.
InsertOnce(table, pkt) ==
    LET entry == NatEntry(pkt.proto, pkt.dst, payload(pkt)[KeyCell(pkt.proto)])
    IN  IF pkt.proto = "other" \/ entry \in DOMAIN table THEN table
        ELSE [e \in DOMAIN table \cup {entry} |-> IF e = entry THEN pkt.src ELSE table[e]]

\* NatTable::insert; other protocols are not tracked.
insert(table, pkt) ==
    LET entry == NatEntry(pkt.proto, pkt.dst, payload(pkt)[KeyCell(pkt.proto)])
    IN  IF pkt.proto = "other" THEN table
        ELSE [e \in DOMAIN table \cup {entry} |-> IF e = entry THEN pkt.src ELSE table[e]]

\* Where NatTable::get looks; only meaningful when the payload has the cell.
NatKey(pkt) == NatEntry(pkt.proto, pkt.src, payload(pkt)[KeyCell(pkt.proto)])

----------------------------------------------------------------------------
\* Wan::spawn: the handle is made before the thread starts.
Init ==
    /\ link \in Links
    /\ rx = <<>> /\ writing = FALSE /\ woken = FALSE /\ batch = <<>>
    /\ pc = "poll"
    /\ tun = [session |-> FALSE, handshake |-> FALSE, queue |-> <<>>]
    /\ nat = <<>> /\ cache = <<>> /\ hello = FALSE
    /\ net = [n \in 1..MaxAsk |-> <<>>] /\ sock = <<>> /\ edge = FALSE
    /\ wire = <<>> /\ lan = <<>> /\ unknown = {}
    /\ questions = <<>> /\ answered = {} /\ mishaps = {}

Mishap(kind) ==
    /\ kind \notin mishaps /\ Cardinality(mishaps) < MaxMishaps
    /\ mishaps' = mishaps \cup {kind}

----------------------------------------------------------------------------
(* The router's side.                                                      *)

Question(f) ==
    LET n == Len(questions) + 1 IN
    [n |-> n, src |-> f.host, dst |-> f.remote, proto |-> f.proto, port |-> f.port,
     mf |-> FALSE, off |-> 0, length |-> HeaderCells + PayloadCells,
     data |-> Header \o Segment(n, f.proto, f.port, f.host)]

\* WanHandle::write of wireguard and tap: the packet is in the channel before
\* the thread is woken.  Once the wireguard thread has ended the send fails.
Send(f) ==
    /\ link # "udp" /\ ~writing /\ pc # "dead" /\ Len(questions) < MaxAsk
    /\ LET q == Question(f) IN
       /\ questions' = Append(questions, q)
       /\ rx' = Append(rx, q)
    /\ writing' = TRUE
    /\ UNCHANGED <<link, threadVars, outVars, netVars, sock>>

Wake ==
    /\ writing /\ writing' = FALSE
    /\ woken' = TRUE
    /\ UNCHANGED <<link, rx, questions, batch, pc, tun, nat, cache, edge, outVars,
                   netVars, sock>>

\* UdpDeviceHandle::write sends from the router's own thread; the error of a
\* failed sendmsg is the router's to handle.  The handle keeps the number of the
\* descriptor: when the thread has ended and closed it, nothing is sent here.
WriteUdp(f) ==
    /\ link = "udp" /\ Len(questions) < MaxAsk
    /\ LET q == Question(f) IN
       /\ questions' = Append(questions, q)
       /\ \/ pc # "dead" /\ wire' = Append(wire, q) /\ UNCHANGED mishaps
          \/ pc # "dead" /\ Mishap("unwritten") /\ UNCHANGED wire
          \/ pc = "dead" /\ UNCHANGED <<wire, mishaps>>
    /\ UNCHANGED <<link, rx, writing, threadVars, hello, lan, unknown, net, answered, sock>>

----------------------------------------------------------------------------
(* The WAN thread.                                                         *)

Die ==
    /\ pc' = "dead" /\ rx' = <<>> /\ batch' = <<>>
    /\ UNCHANGED <<woken, tun, nat, edge>>

\* The loop over drain() ends with its last packet.
Draining(packets) == IF packets = <<>> THEN "poll" ELSE "drain"

\* Fault: one packet is taken per event.
StartDrainOne ==
    /\ pc = "poll" /\ woken
    /\ woken' = FALSE /\ pc' = Draining(rx)
    /\ batch' = SubSeq(rx, 1, 1) /\ rx' = SubSeq(rx, 2, Len(rx))
    /\ UNCHANGED <<link, writing, questions, tun, nat, cache, edge, outVars, netVars, sock>>

\* The waker's event: everything in the channel now is drained.
StartDrain ==
    /\ pc = "poll" /\ woken
    /\ woken' = FALSE /\ pc' = Draining(rx)
    /\ batch' = rx /\ rx' = <<>>
    /\ UNCHANGED <<link, writing, questions, tun, nat, cache, edge, outVars, netVars, sock>>

\* TunTap::write_to_device; an error is logged and the packet lost.
WriteTap ==
    /\ link = "tap" /\ pc = "drain"
    /\ batch' = Tail(batch) /\ pc' = Draining(Tail(batch))
    /\ \/ wire' = Append(wire, Head(batch)) /\ UNCHANGED mishaps
       \/ Mishap("unwritten") /\ UNCHANGED wire
    /\ UNCHANGED <<link, handleVars, woken, tun, nat, cache, edge, hello, lan,
                   unknown, net, answered, sock>>

\* Tunn::encapsulate: without a session the packet is held, and a handshake
\* is started if none is under way.
encapsulate(pkt) ==
    \/ /\ tun.session /\ wire' = Append(wire, pkt)
       /\ UNCHANGED <<tun, hello>>
    \/ /\ ~tun.session
       /\ tun' = [tun EXCEPT !.queue = Append(@, pkt), !.handshake = TRUE]
       /\ hello' = (hello \/ ~tun.handshake)
       /\ UNCHANGED wire

\* Each drained packet: note who asked, masquerade, encapsulate.
Encapsulate ==
    /\ link = "wireguard" /\ pc = "drain"
    /\ nat' = insert(nat, Head(batch))
    /\ encapsulate(masquerade(Head(batch), WanIp))
    /\ batch' = Tail(batch) /\ pc' = Draining(Tail(batch))
    /\ UNCHANGED <<link, handleVars, woken, cache, edge, lan, unknown, netVars, sock>>

\* sock.send_to fails (a full buffer, no route): the error ends the thread.  What
\* is sent is a packet, a handshake, or a keepalive of the timer or after a
\* handshake response.
SendFails ==
    /\ link = "wireguard"
    /\ \/ pc = "drain" /\ (tun.session \/ ~tun.handshake)
       \/ pc = "flush" /\ tun.queue # <<>>
       \/ pc = "poll" /\ (tun.session \/ tun.handshake)
       \/ pc = "read" /\ sock # <<>> /\ Head(sock).kind = "response"
    /\ Mishap("unsent") /\ Die
    /\ UNCHANGED <<link, writing, questions, cache, outVars, net, answered, sock>>

\* recv_from fails for another reason than an empty socket: the thread ends.
RecvFails ==
    /\ \/ link = "wireguard" /\ pc = "read"
       \/ link = "udp" /\ pc = "poll"
    /\ Mishap("unread") /\ Die
    /\ UNCHANGED <<link, writing, questions, cache, outVars, net, answered, sock>>

\* The timer's event repeats a handshake that is still unanswered (bound: not
\* while the response is on its way; boringtun waits five seconds).
Timer ==
    /\ link = "wireguard" /\ pc = "poll" /\ tun.handshake /\ ~hello
    /\ \A f \in ToSet(sock) : f.kind # "response"
    /\ hello' = TRUE
    /\ UNCHANGED <<link, handleVars, threadVars, wire, lan, unknown, netVars, sock>>

\* ... or gives it up: ConnectionExpired, and boringtun drops what it holds.
Expire ==
    /\ link = "wireguard" /\ pc = "poll" /\ tun.handshake
    /\ Mishap("expired")
    /\ tun' = [session |-> FALSE, handshake |-> FALSE, queue |-> <<>>]
    /\ UNCHANGED <<link, handleVars, woken, batch, pc, nat, cache, edge, outVars, 
                   net, answered, sock>>

\* The socket's event: read until it would block.
StartRead ==
    /\ link = "wireguard" /\ pc = "poll" /\ edge
    /\ edge' = FALSE /\ pc' = "read"
    /\ UNCHANGED <<link, handleVars, woken, batch, tun, nat, cache, outVars, netVars, sock>>

\* Fault: the loop may be left with datagrams unread.
EndReadEarly ==
    /\ pc = "read" /\ pc' = "poll"
    /\ UNCHANGED <<link, handleVars, woken, batch, tun, nat, cache, edge, outVars,
                   netVars, sock>>

EndRead ==
    /\ pc = "read" /\ sock = <<>> /\ pc' = "poll"
    /\ UNCHANGED <<link, handleVars, woken, batch, tun, nat, cache, edge, outVars,
                   netVars, sock>>

\* A handshake response: a keepalive goes out (WriteToNetwork), so the loop
\* calls decapsulate again with an empty datagram.
ReadResponse ==
    /\ link = "wireguard" /\ pc = "read" /\ sock # <<>> /\ Head(sock).kind = "response"
    /\ sock' = Tail(sock)
    /\ tun' = [tun EXCEPT !.session = TRUE, !.handshake = FALSE]
    /\ pc' = "flush"
    /\ UNCHANGED <<link, handleVars, woken, batch, nat, cache, edge, outVars, netVars>>

\* Fault: decapsulate is not repeated.
FlushNone ==
    /\ pc = "flush" /\ pc' = "read"
    /\ UNCHANGED <<link, handleVars, woken, batch, tun, nat, cache, edge, outVars, netVars,
                   sock>>

\* With an empty datagram boringtun sends one packet it holds; the loop goes
\* on until it has none.
Flush ==
    /\ pc = "flush"
    /\ \/ tun.queue = <<>> /\ pc' = "read" /\ UNCHANGED <<tun, wire>>
       \/ /\ tun.queue # <<>>
          /\ wire' = Append(wire, Head(tun.queue))
          /\ tun' = [tun EXCEPT !.queue = Tail(@)]
          /\ UNCHANGED pc
    /\ UNCHANGED <<link, handleVars, woken, batch, nat, cache, edge, hello, lan, unknown,
                   netVars, sock>>

----------------------------------------------------------------------------
(* handle_tun_result, WriteToTunnelV4.                                     *)

\* A payload without the cell that the lookup indexes panics.
Short(pkt) == pkt.proto # "other" /\ Len(payload(pkt)) < KeyCell(pkt.proto)
Known(pkt) == pkt.proto # "other" /\ ~Short(pkt) /\ NatKey(pkt) \in DOMAIN nat

\* Undo the NAT and route, or drop.  Recomputing a checksum that is beyond the
\* end of the payload panics as well.
Deliver(pkt) ==
    \/ /\ ~Short(pkt) /\ ~Known(pkt)
       /\ unknown' = unknown \cup {pkt.n}
       /\ UNCHANGED <<rx, batch, pc, woken, tun, nat, edge, lan>>
    \/ /\ Known(pkt) /\ Len(payload(pkt)) >= SumCell(pkt.proto)
       /\ lan' = Append(lan, unmasquerade(pkt, nat[NatKey(pkt)]))
       /\ UNCHANGED <<rx, batch, pc, woken, tun, nat, edge, unknown>>
    \/ /\ Short(pkt) \/ (Known(pkt) /\ Len(payload(pkt)) < SumCell(pkt.proto))
       /\ Die /\ UNCHANGED <<lan, unknown>>

Kept == UNCHANGED <<rx, batch, pc, woken, tun, nat, edge, lan, unknown>>
Without(id) == [i \in DOMAIN cache \ {id} |-> cache[i]]

\* (true, offset): added to the cached packet, ignored when there is none.
Cached(pkt) ==
    IF pkt.id \in DOMAIN cache
    THEN cache' = [cache EXCEPT ![pkt.id] = add_fragment_data(@, pkt.off, payload(pkt))]
    ELSE UNCHANGED cache

\* (false, offset): the packet is complete; with nothing cached the error
\* ends the thread.
Completed(pkt) ==
    LET whole == finalize(add_fragment_data(cache[pkt.id], pkt.off, payload(pkt))) IN
    \/ pkt.id \notin DOMAIN cache /\ Die /\ UNCHANGED <<cache, lan, unknown>>
    \/ /\ pkt.id \in DOMAIN cache
       /\ cache' = Without(pkt.id)
       /\ Deliver(whole)

handle_tun_result ==
    /\ link = "wireguard" /\ pc = "read" /\ sock # <<>> /\ Head(sock).kind = "ip"
    /\ sock' = Tail(sock)
    /\ LET pkt == Head(sock) IN
       \/ ~pkt.mf /\ pkt.off = 0 /\ Deliver(pkt) /\ UNCHANGED cache
       \/ /\ pkt.mf /\ pkt.off = 0 /\ Kept
          /\ cache' = [i \in DOMAIN cache \cup {pkt.id} |->
                          IF i = pkt.id THEN pkt ELSE cache[i]]
       \/ pkt.mf /\ pkt.off # 0 /\ Cached(pkt) /\ Kept
       \/ ~pkt.mf /\ pkt.off # 0 /\ Completed(pkt)
    /\ UNCHANGED <<link, writing, questions, hello, wire, netVars>>

\* UdpDevice::run: parse and route as it is.  An unknown IP version is logged;
\* a bad IPv4 header or an empty datagram ends the thread.
ReadUdp ==
    /\ link = "udp" /\ pc = "poll" /\ sock # <<>>
    /\ sock' = Tail(sock)
    /\ \/ Head(sock).kind = "ip" /\ lan' = Append(lan, Head(sock)) /\ UNCHANGED pc
       \/ Head(sock).kind = "malformed" /\ pc' \in {"poll", "dead"} /\ UNCHANGED lan
    /\ UNCHANGED <<link, handleVars, woken, batch, tun, nat, cache, edge, hello, wire,
                   unknown, netVars>>

\* TunTap::read_from_device reads one packet per event and drops it.
ReadTap ==
    /\ link = "tap" /\ pc = "poll" /\ edge /\ sock # <<>>
    /\ sock' = Tail(sock) /\ edge' = FALSE
    /\ UNCHANGED <<link, handleVars, woken, batch, pc, tun, nat, cache, outVars, netVars>>

----------------------------------------------------------------------------
(* The peer and the network.                                               *)

Enter(f) == sock' = Append(sock, f) /\ edge' = TRUE

\* The wireguard peer answers a handshake.
Respond ==
    /\ hello /\ hello' = FALSE
    /\ Enter([kind |-> "response"])
    /\ UNCHANGED <<link, handleVars, woken, batch, pc, tun, nat, cache, wire, lan, unknown,
                   netVars>>

LoseHello ==
    /\ hello /\ hello' = FALSE /\ Mishap("lost")
    /\ UNCHANGED <<link, handleVars, threadVars, wire, lan, unknown, net, answered, sock>>

\* The fragments of the answer to question q.
Fragments(q, id, cut) ==
    LET segment == Segment(q.n, q.proto, q.port, q.src)
        end(i) == IF i = Len(cut) THEN PayloadCells ELSE cut[i + 1]
    IN  [i \in 1..Len(cut) |->
           [kind |-> "ip", n |-> q.n, src |-> q.dst, dst |-> q.src, proto |-> q.proto,
            port |-> q.port, id |-> id, mf |-> i < Len(cut), off |-> cut[i],
            length |-> HeaderCells + end(i) - cut[i],
            data |-> Header \o SubSeq(segment, cut[i] + 1, end(i))]]

\* A remote answers.  Remotes number their datagrams independently: one that
\* draws the identification of another answer is a mishap.  The other links
\* never look at the fragment fields: their answers come whole.
Answer(q, cut) ==
    /\ q.n \notin answered /\ (link # "wireguard" => cut = <<0>>)
    /\ answered' = answered \cup {q.n}
    /\ \/ net' = [net EXCEPT ![q.n] = Fragments(q, q.n, cut)] /\ UNCHANGED mishaps
       \/ \E n \in answered : /\ Mishap("same id")
                             /\ net' = [net EXCEPT ![q.n] = Fragments(q, n, cut)]
    /\ UNCHANGED <<link, handleVars, threadVars, outVars, sock>>

\* The next fragment of answer n arrives; or it arrives and is repeated, the
\* one behind it overtakes it, or it is lost or damaged on the way.
Arrive(n) == Enter(Head(net[n])) /\ net' = [net EXCEPT ![n] = Tail(@)] /\ UNCHANGED mishaps
Repeat(n) == Enter(Head(net[n])) /\ UNCHANGED net /\ Mishap("repeated")
Overtake(n) ==
    /\ Len(net[n]) > 1 /\ Enter(net[n][2]) /\ net' = [net EXCEPT ![n] = RemoveAt(@, 2)]
    /\ Mishap("reordered")
Lose(n) == net' = [net EXCEPT ![n] = Tail(@)] /\ Mishap("lost") /\ UNCHANGED <<sock, edge>>
Damage(n) ==
    /\ link = "udp" /\ Enter([kind |-> "malformed"]) /\ net' = [net EXCEPT ![n] = Tail(@)]
    /\ Mishap("malformed")

Network ==
    /\ \E n \in answered :
          /\ net[n] # <<>> /\ Len(sock) < MaxSock
          /\ Arrive(n) \/ Repeat(n) \/ Overtake(n) \/ Lose(n) \/ Damage(n)
    /\ UNCHANGED <<link, handleVars, woken, batch, pc, tun, nat, cache, outVars, answered>>

Thread ==
    \/ StartDrain \/ WriteTap \/ Encapsulate \/ StartRead \/ EndRead
    \/ ReadResponse \/ Flush \/ handle_tun_result \/ ReadUdp \/ ReadTap

Next ==
    \/ \E f \in Flows : Send(f) \/ WriteUdp(f)
    \/ Wake \/ Thread \/ SendFails \/ RecvFails \/ Timer \/ Expire
    \/ Respond \/ LoseHello
    \/ \E q \in ToSet(wire), cut \in Cuts : Answer(q, cut)
    \/ Network

Spec == Init /\ [][Next]_vars

\* The thread, the router, the timer and the peer's wireguard keep going.
FairSpec ==
    /\ Spec
    /\ WF_vars(Wake) /\ WF_vars(Thread) /\ WF_vars(Timer) /\ WF_vars(Respond)

----------------------------------------------------------------------------
(* Properties.                                                             *)

\* The numbers of a sequence of packets, in order.
Numbers(s) == [i \in 1..Len(s) |-> s[i].n]

\* wireguard.rs, waker and decapsulate loops; tap.rs: packets leave in the
\* order the router wrote them, also those held until the handshake is over.
LeaveInOrder ==
    (\A k \in mishaps : k \notin {"expired", "unwritten", "unsent"}) /\ pc # "dead" =>
        Numbers(wire \o tun.queue \o batch \o rx) = Numbers(questions)

\* NatTable with masquerade and unmasquerade: in the absence of mishaps an
\* answer is handed to the host that was the last to ask that remote from that
\* port with that protocol, no answer to a tracked protocol finds its entry
\* missing, also when the question waited for a handshake, and the thread lives.
Sent == wire \o tun.queue
SameFlow(q, p) == q.proto = p.proto /\ q.dst = p.src /\ q.port = p.port
AnswersReachAsker ==
    [][mishaps' = {} =>
          /\ pc' # "dead"
          /\ \A n \in unknown' : questions[n].proto = "other"
          /\ link = "wireguard" /\ lan' # lan =>
               LET p == Last(lan') IN
               \E i \in 1..Len(Sent) :
                  /\ SameFlow(Sent[i], p) /\ p.dst = questions[Sent[i].n].src
                  /\ \A j \in (i + 1)..Len(Sent) : ~SameFlow(Sent[j], p)]_vars

\* The fragment cache and add_fragment_data: with no loss, no reordering and
\* identifications that differ, the guest gets exactly the segment that was
\* sent, with a checksum for its own address and a length that matches.
ReassembledExactly ==
    link = "wireguard" /\ mishaps = {} =>
        \A i \in 1..Len(lan) : LET p == lan[i] IN
            /\ payload(p) = Segment(p.n, p.proto, p.port, p.dst)
            /\ p.length = Len(p.data) /\ ~p.mf

\* A packet the router wrote leaves, unless the thread ends, the write fails
\* or the handshake is given up: no wake-up is lost, and packets held for
\* want of a session are sent once there is one.
QuestionsLeave ==
    \A n \in 1..MaxAsk :
        Len(questions) >= n ~>
            \/ \E i \in 1..Len(wire) : wire[i].n = n
            \/ pc = "dead" \/ {"expired", "unwritten"} \cap mishaps # {}

\* Edge-triggered reading leaves nothing behind on wireguard and udp.
SocketDrains == sock # <<>> /\ link # "tap" ~> sock = <<>> \/ pc = "dead"

----------------------------------------------------------------------------
(* The inductive invariant behind LeaveInOrder.                            *)

Remotes == {f.remote : f \in Flows}
Ports == {f.port : f \in Flows}
Cells == {"header", "zero", "sum", "key", "body"}
            \X (Hosts \cup {WanIp} \cup Ports \cup Nat) \X Nat
Packets ==
    [n : Nat, src : Hosts \cup {WanIp}, dst : Remotes,
     proto : {"icmp", "tcp", "udp", "other"}, port : Ports, mf : BOOLEAN, off : Nat,
     length : Nat, data : Seq(Cells)]

\* Types of what is on its way out.
OutTypes ==
    /\ link \in {"wireguard", "tap", "udp"}
    /\ pc \in {"poll", "drain", "read", "flush", "dead"}
    /\ rx \in Seq(Packets) /\ batch \in Seq(Packets)
    /\ wire \in Seq(Packets) /\ questions \in Seq(Packets)
    /\ tun \in [session : BOOLEAN, handshake : BOOLEAN, queue : Seq(Packets)]

\* A link uses its own way out only: packets are held by wireguard alone, and
\* udp writes past the channel.
OwnWayOut ==
    /\ link # "wireguard" => tun.queue = <<>> /\ pc # "flush"
    /\ link = "udp" => rx = <<>> /\ batch = <<>>

\* The thread has packets in hand exactly while it drains them, and with a
\* session packets are held only until the flush is over.
HeldForAReason ==
    /\ batch # <<>> <=> pc = "drain"
    /\ tun.session = TRUE /\ tun.queue # <<>> => pc \in {"flush", "dead"}

\* Questions are numbered in the order they were asked, and so is each stage
\* of their way out, from the number the stage before it ends with.
NumberedFrom(s, k) == \A i \in 1..Len(s) : s[i].n = k + i
Unharmed == mishaps \cap {"expired", "unwritten", "unsent"} = {} /\ pc # "dead"
InStages(sent, held, drained, waiting, m) ==
    /\ Len(sent) + Len(held) + Len(drained) + Len(waiting) = m
    /\ NumberedFrom(sent, 0)
    /\ NumberedFrom(held, Len(sent))
    /\ NumberedFrom(drained, Len(sent) + Len(held))
    /\ NumberedFrom(waiting, Len(sent) + Len(held) + Len(drained))
StagesNumbered ==
    /\ NumberedFrom(questions, 0)
    /\ Unharmed => InStages(wire, tun.queue, batch, rx, Len(questions))

IInv == OutTypes /\ OwnWayOut /\ HeldForAReason /\ StagesNumbered
=============================================================================
