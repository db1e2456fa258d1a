----------------------------- MODULE WanProofs -----------------------------
EXTENDS Wan, SequenceTheorems, TLAPS

(* Proofs about the WAN links, first the way out.  A packet the router      *)
(* wrote is in the channel, drained from it, held for want of a session, or *)
(* sent.                                                                    *)
(* IInv says that the four stages hold the numbers of all questions without *)
(* a gap: each stage goes on where the one before it ends.  A step then     *)
(* moves one packet, or the whole channel, to the end of the next stage,    *)
(* and the only stage that may be passed by is the one of held packets,     *)
(* which is empty whenever a packet is drained while there is a session.    *)
(*                                                                          *)
(* The second half is about the way back, as long as there is no mishap     *)
(* (BackInv).  For each answer some number g of its cells has been read.    *)
(* Those g cells are the cached packet, unless g is none or all of them;    *)
(* the fragments in the socket cover the cells from g to e in order and     *)
(* without a gap, and those in the network the cells from e to the end.     *)
(* Hence the fragment that is read next starts at g, which is the one case  *)
(* of add_fragment_data that counts offsets from the payload.  The NAT      *)
(* table has, for each entry, the host that was the last to use it among    *)
(* the questions that were masqueraded.                                     *)

-----------------------------------------------------------------------------
(* Packets. *)

\* A header is cells.
LEMMA HeaderCellsFacts == Header \in Seq(Cells) /\ Len(Header) = HeaderCells /\ HeaderCells = 5
<1>1. HeaderCells = 5
    BY DEF HeaderCells
<1>2. \A i \in 1..5 : <<"header", 0, i>> \in Cells
    BY DEF Cells
<1>3. Header = [i \in 1..5 |-> <<"header", 0, i>>]
    BY <1>1 DEF Header
<1> QED BY <1>1, <1>2, <1>3

\* A question is a packet with the next number.
LEMMA QuestionFacts ==
    ASSUME NEW f \in Flows, questions \in Seq(Packets)
    PROVE  Question(f) \in Packets /\ Question(f).n = Len(questions) + 1
<1> DEFINE m == Len(questions) + 1
           seg == Segment(m, f.proto, f.port, f.host)
<1>1. m \in Nat
    OBVIOUS
<1>2. /\ f.host \in Hosts /\ f.proto \in {"icmp", "tcp", "udp", "other"}
      /\ f.remote \in Remotes /\ f.port \in Ports
    BY WanAssumption DEF Remotes, Ports
<1>3. seg \in Seq(Cells)
    <2> DEFINE c(i) == CASE i = SumCell(f.proto) -> <<"sum", f.host, 0>>
                         [] i = KeyCell(f.proto) -> <<"key", f.port, 0>>
                         [] OTHER -> <<"body", m, i>>
    <2>1. ASSUME NEW i \in 1..6 PROVE c(i) \in Cells
        <3>1. /\ <<"sum", f.host, 0>> \in Cells /\ <<"key", f.port, 0>> \in Cells
              /\ <<"body", m, i>> \in Cells
            BY <1>1, <1>2 DEF Cells
        <3> QED BY <3>1
    <2>2. seg = [i \in 1..6 |-> c(i)]
        BY DEF Segment, PayloadCells
    <2> HIDE DEF c, seg
    <2> QED BY <2>1, <2>2
<1> HIDE DEF seg
<1>4. Header \o seg \in Seq(Cells)
    BY <1>3, HeaderCellsFacts
<1>5. HeaderCells + PayloadCells \in Nat
    BY DEF HeaderCells, PayloadCells
<1> DEFINE d == Header \o seg
           l == HeaderCells + PayloadCells
<1>6. Question(f) = [n |-> m, src |-> f.host, dst |-> f.remote, proto |-> f.proto,
                     port |-> f.port, mf |-> FALSE, off |-> 0, length |-> l, data |-> d]
    BY DEF Question, seg
<1> HIDE DEF d, l, m
<1>7. m \in Nat /\ l \in Nat /\ d \in Seq(Cells)
    BY <1>1, <1>4, <1>5 DEF d, l
<1>8. Question(f) \in Packets /\ Question(f).n = m
    BY <1>2, <1>6, <1>7 DEF Packets
<1> QED BY <1>8 DEF m

\* as_bytes leaves the number alone.
LEMMA AsBytesFacts ==
    ASSUME NEW p \in Packets
    PROVE  as_bytes(p) \in Packets /\ as_bytes(p).n = p.n
<1> DEFINE d == Header \o SubSeq(p.data, HeaderCells + 1, Len(p.data))
<1>1. p.data \in Seq(Cells)
    BY DEF Packets
<1>2. SubSeq(p.data, HeaderCells + 1, Len(p.data)) \in Seq(Cells)
    BY <1>1 DEF HeaderCells
<1>3. d \in Seq(Cells)
    BY <1>2, HeaderCellsFacts
<1>4. as_bytes(p) = [p EXCEPT !.data = d]
    BY DEF as_bytes
<1> HIDE DEF d
<1> QED BY <1>3, <1>4 DEF Packets

\* fix_transport_checksum leaves the number alone.
LEMMA ChecksumFacts ==
    ASSUME NEW p \in Packets, NEW addr \in Hosts \cup {WanIp}
    PROVE  fix_transport_checksum(p, addr) \in Packets /\ fix_transport_checksum(p, addr).n = p.n
<1>1. CASE SumCell(p.proto) = 0
    BY <1>1 DEF fix_transport_checksum
<1>2. CASE SumCell(p.proto) # 0
    <2> DEFINE k == HeaderCells + SumCell(p.proto)
               c == <<"sum", addr, 0>>
               d == [p.data EXCEPT ![k] = c]
    <2>1. c \in Cells
        BY DEF Cells
    <2>2. p.data \in Seq(Cells)
        BY DEF Packets
    <2>3. fix_transport_checksum(p, addr) = [p EXCEPT !.data[k] = c]
        BY <1>2 DEF fix_transport_checksum
    <2> HIDE DEF c, k
    <2>4. d \in Seq(Cells)
        <3>1. p.data \in [1..Len(p.data) -> Cells] /\ Len(p.data) \in Nat
            BY <2>2
        <3>2. d \in [1..Len(p.data) -> Cells]
            BY <2>1, <3>1
        <3> HIDE DEF d
        <3> QED BY <3>1, <3>2
    <2>5. [p EXCEPT !.data[k] = c] = [p EXCEPT !.data = d]
        OBVIOUS
    <2> HIDE DEF d
    <2> QED BY <2>3, <2>4, <2>5 DEF Packets
<1> QED BY <1>1, <1>2

\* masquerade leaves the number alone.
LEMMA MasqueradeFacts ==
    ASSUME NEW p \in Packets
    PROVE  masquerade(p, WanIp) \in Packets /\ masquerade(p, WanIp).n = p.n
<1> DEFINE a == [p EXCEPT !.src = WanIp]
           b == as_bytes(a)
<1>1. a \in Packets /\ a.n = p.n
    BY DEF Packets
<1> HIDE DEF a
<1>2. b \in Packets /\ b.n = a.n
    BY <1>1, AsBytesFacts
<1> HIDE DEF b
<1>3. /\ fix_transport_checksum(b, WanIp) \in Packets
      /\ fix_transport_checksum(b, WanIp).n = b.n
    BY <1>2, ChecksumFacts
<1> QED BY <1>1, <1>2, <1>3 DEF masquerade, a, b

-----------------------------------------------------------------------------
(* Numbered sequences. *)

\* What is taken from the front has the next number.
LEMMA NumberedTail ==
    ASSUME NEW s \in Seq(Packets), s # <<>>, NEW k \in Nat, NumberedFrom(s, k)
    PROVE  /\ Head(s) \in Packets /\ Head(s).n = k + 1
           /\ Tail(s) \in Seq(Packets) /\ Len(s) \in Nat /\ Len(Tail(s)) = Len(s) - 1
           /\ NumberedFrom(Tail(s), k + 1)
<1>1. /\ Head(s) \in Packets /\ Head(s) = s[1] /\ 1 \in 1..Len(s) /\ Len(s) \in Nat
      /\ Tail(s) \in Seq(Packets) /\ Len(Tail(s)) = Len(s) - 1
      /\ \A i \in 1..Len(Tail(s)) : Tail(s)[i] = s[i + 1] /\ i + 1 \in 1..Len(s)
    OBVIOUS
<1>2. Head(s).n = k + 1
    BY <1>1 DEF NumberedFrom
<1>3. ASSUME NEW i \in 1..Len(Tail(s)) PROVE Tail(s)[i].n = (k + 1) + i
    <2>1. s[i + 1].n = k + (i + 1)
        BY <1>1 DEF NumberedFrom
    <2> QED BY <1>1, <2>1
<1> QED BY <1>1, <1>2, <1>3 DEF NumberedFrom

\* What is added with the next number keeps the sequence numbered.
LEMMA NumberedAppend ==
    ASSUME NEW s \in Seq(Packets), NEW x \in Packets, NEW k \in Nat, NumberedFrom(s, k),
           x.n = k + Len(s) + 1
    PROVE  /\ Append(s, x) \in Seq(Packets) /\ Len(s) \in Nat
           /\ Len(Append(s, x)) = Len(s) + 1 /\ NumberedFrom(Append(s, x), k)
<1>1. /\ Append(s, x) \in Seq(Packets) /\ Len(s) \in Nat
      /\ Len(Append(s, x)) = Len(s) + 1 /\ Append(s, x)[Len(s) + 1] = x
      /\ \A i \in 1..Len(s) : Append(s, x)[i] = s[i]
      /\ \A i \in 1..(Len(s) + 1) : i \in 1..Len(s) \/ i = Len(s) + 1
    OBVIOUS
<1>2. ASSUME NEW i \in 1..(Len(s) + 1) PROVE Append(s, x)[i].n = k + i
    <2>1. CASE i \in 1..Len(s)
        BY <1>1, <2>1 DEF NumberedFrom
    <2>2. CASE i = Len(s) + 1
        BY <1>1, <2>2
    <2> QED BY <1>1, <2>1, <2>2
<1> QED BY <1>1, <1>2 DEF NumberedFrom

\* Stages put together.
LEMMA NumberedConcat ==
    ASSUME NEW s \in Seq(Packets), NEW t \in Seq(Packets), NEW k \in Nat,
           NumberedFrom(s, k), NumberedFrom(t, k + Len(s))
    PROVE  /\ s \o t \in Seq(Packets) /\ Len(s \o t) = Len(s) + Len(t)
           /\ NumberedFrom(s \o t, k)
<1>1. /\ s \o t \in Seq(Packets) /\ Len(s \o t) = Len(s) + Len(t)
      /\ Len(s) \in Nat /\ Len(t) \in Nat
    OBVIOUS
<1>2. ASSUME NEW i \in 1..(Len(s) + Len(t)) PROVE (s \o t)[i].n = k + i
    <2>1. CASE i <= Len(s)
        <3>1. (s \o t)[i] = s[i] /\ i \in 1..Len(s)
            BY <1>1, <2>1
        <3> QED BY <3>1 DEF NumberedFrom
    <2>2. CASE i > Len(s)
        <3>1. (s \o t)[i] = t[i - Len(s)] /\ i - Len(s) \in 1..Len(t)
            BY <1>1, <2>2
        <3>2. t[i - Len(s)].n = (k + Len(s)) + (i - Len(s))
            BY <3>1 DEF NumberedFrom
        <3> QED BY <1>1, <3>1, <3>2
    <2> QED BY <1>1, <2>1, <2>2
<1> QED BY <1>1, <1>2 DEF NumberedFrom

-----------------------------------------------------------------------------
(* Packets that move from one stage to the next. *)

\* Lengths are numbers, and nothing is numbered anyhow.
LEMMA LenFacts ==
    /\ \A s \in Seq(Packets) : Len(s) \in Nat
    /\ <<>> \in Seq(Packets) /\ Len(<<>>) = 0 /\ \A k : NumberedFrom(<<>>, k)
  BY DEF NumberedFrom

\* The router writes to the channel.
LEMMA AskStage ==
    ASSUME NEW w \in Seq(Packets), NEW q \in Seq(Packets), NEW b \in Seq(Packets),
           NEW r \in Seq(Packets), NEW m \in Nat, InStages(w, q, b, r, m),
           NEW x \in Packets, x.n = m + 1
    PROVE  InStages(w, q, b, Append(r, x), m + 1)
<1> DEFINE k == Len(w) + Len(q) + Len(b)
<1>1. /\ Len(w) \in Nat /\ Len(q) \in Nat /\ Len(b) \in Nat /\ Len(r) \in Nat /\ k \in Nat
      /\ k + Len(r) = m
    BY LenFacts DEF InStages
<1>2. NumberedFrom(r, k) /\ x.n = k + Len(r) + 1
    BY <1>1 DEF InStages
<1>3. Len(Append(r, x)) = Len(r) + 1 /\ NumberedFrom(Append(r, x), k)
    BY <1>1, <1>2, NumberedAppend
<1> QED BY <1>1, <1>3 DEF InStages

\* The thread drains the channel.
LEMMA DrainStage ==
    ASSUME NEW w \in Seq(Packets), NEW q \in Seq(Packets), NEW r \in Seq(Packets),
           NEW m \in Nat, InStages(w, q, <<>>, r, m)
    PROVE  InStages(w, q, r, <<>>, m)
<1>1. Len(w) \in Nat /\ Len(q) \in Nat /\ Len(r) \in Nat
    BY LenFacts
<1>2. Len(w) + Len(q) + 0 = Len(w) + Len(q)
      /\ Len(w) + Len(q) + Len(r) + 0 = Len(w) + Len(q) + Len(r)
    BY <1>1
<1> QED BY <1>1, <1>2, LenFacts DEF InStages

\* A drained packet is sent while none is held.
LEMMA SendStage ==
    ASSUME NEW w \in Seq(Packets), NEW b \in Seq(Packets), NEW r \in Seq(Packets),
           NEW m \in Nat, InStages(w, <<>>, b, r, m), b # <<>>,
           NEW x \in Packets, x.n = Head(b).n
    PROVE  InStages(Append(w, x), <<>>, Tail(b), r, m)
<1>1. Len(w) \in Nat /\ Len(b) \in Nat /\ Len(r) \in Nat /\ Len(<<>>) = 0
    BY LenFacts
<1>2. /\ NumberedFrom(b, Len(w)) /\ NumberedFrom(r, Len(w) + Len(b)) /\ NumberedFrom(w, 0)
      /\ Len(w) + Len(b) + Len(r) = m
    BY <1>1 DEF InStages
<1>3. /\ Head(b).n = Len(w) + 1 /\ Len(Tail(b)) = Len(b) - 1
      /\ NumberedFrom(Tail(b), Len(w) + 1)
    BY <1>1, <1>2, NumberedTail
<1>4. Len(Append(w, x)) = Len(w) + 1 /\ NumberedFrom(Append(w, x), 0)
    BY <1>1, <1>2, <1>3, NumberedAppend
<1>5. (Len(w) + 1) + 0 + (Len(b) - 1) = Len(w) + Len(b) /\ (Len(w) + 1) + 0 = Len(w) + 1
    BY <1>1
<1> QED BY <1>1, <1>2, <1>3, <1>4, <1>5, LenFacts DEF InStages

\* A drained packet is held behind those that are held already.
LEMMA HoldStage ==
    ASSUME NEW w \in Seq(Packets), NEW q \in Seq(Packets), NEW b \in Seq(Packets),
           NEW r \in Seq(Packets), NEW m \in Nat, InStages(w, q, b, r, m), b # <<>>,
           NEW x \in Packets, x.n = Head(b).n
    PROVE  InStages(w, Append(q, x), Tail(b), r, m)
<1>1. Len(w) \in Nat /\ Len(q) \in Nat /\ Len(b) \in Nat /\ Len(r) \in Nat
    BY LenFacts
<1>2. /\ NumberedFrom(w, 0) /\ NumberedFrom(q, Len(w)) /\ NumberedFrom(b, Len(w) + Len(q))
      /\ NumberedFrom(r, Len(w) + Len(q) + Len(b))
      /\ Len(w) + Len(q) + Len(b) + Len(r) = m /\ Len(w) + Len(q) \in Nat
    BY <1>1 DEF InStages
<1>3. /\ Head(b).n = Len(w) + Len(q) + 1 /\ Len(Tail(b)) = Len(b) - 1
      /\ NumberedFrom(Tail(b), Len(w) + Len(q) + 1)
    BY <1>1, <1>2, NumberedTail
<1>4. Len(Append(q, x)) = Len(q) + 1 /\ NumberedFrom(Append(q, x), Len(w))
    BY <1>1, <1>2, <1>3, NumberedAppend
<1>5. /\ Len(w) + (Len(q) + 1) + (Len(b) - 1) = Len(w) + Len(q) + Len(b)
      /\ Len(w) + (Len(q) + 1) = Len(w) + Len(q) + 1
    BY <1>1
<1> QED BY <1>1, <1>2, <1>3, <1>4, <1>5 DEF InStages

\* The packet held longest is sent.
LEMMA FlushStage ==
    ASSUME NEW w \in Seq(Packets), NEW q \in Seq(Packets), NEW b \in Seq(Packets),
           NEW r \in Seq(Packets), NEW m \in Nat, InStages(w, q, b, r, m), q # <<>>
    PROVE  InStages(Append(w, Head(q)), Tail(q), b, r, m)
<1>1. Len(w) \in Nat /\ Len(q) \in Nat /\ Len(b) \in Nat /\ Len(r) \in Nat
    BY LenFacts
<1>2. /\ NumberedFrom(w, 0) /\ NumberedFrom(q, Len(w)) /\ NumberedFrom(b, Len(w) + Len(q))
      /\ NumberedFrom(r, Len(w) + Len(q) + Len(b))
      /\ Len(w) + Len(q) + Len(b) + Len(r) = m
    BY <1>1 DEF InStages
<1>3. /\ Head(q) \in Packets /\ Head(q).n = Len(w) + 1 /\ Len(Tail(q)) = Len(q) - 1
      /\ NumberedFrom(Tail(q), Len(w) + 1)
    BY <1>1, <1>2, NumberedTail
<1>4. Len(Append(w, Head(q))) = Len(w) + 1 /\ NumberedFrom(Append(w, Head(q)), 0)
    BY <1>1, <1>2, <1>3, NumberedAppend
<1>5. (Len(w) + 1) + (Len(q) - 1) = Len(w) + Len(q)
    BY <1>1
<1> QED BY <1>1, <1>2, <1>3, <1>4, <1>5 DEF InStages

\* udp sends from the router's thread.
LEMMA WriteStage ==
    ASSUME NEW w \in Seq(Packets), NEW m \in Nat, InStages(w, <<>>, <<>>, <<>>, m),
           NEW x \in Packets, x.n = m + 1
    PROVE  InStages(Append(w, x), <<>>, <<>>, <<>>, m + 1)
<1>1. Len(w) \in Nat /\ Len(<<>>) = 0
    BY LenFacts
<1>2. NumberedFrom(w, 0) /\ Len(w) = m
    BY <1>1 DEF InStages
<1>3. Len(Append(w, x)) = Len(w) + 1 /\ NumberedFrom(Append(w, x), 0)
    BY <1>1, <1>2, NumberedAppend
<1>4. (m + 1) + 0 + 0 + 0 = m + 1
    OBVIOUS
<1> QED BY <1>1, <1>2, <1>3, <1>4, LenFacts DEF InStages

\* Stages put together are the questions in order.
LEMMA StagesInOrder ==
    ASSUME NEW w \in Seq(Packets), NEW q \in Seq(Packets), NEW b \in Seq(Packets),
           NEW r \in Seq(Packets), NEW s \in Seq(Packets), NumberedFrom(s, 0),
           InStages(w, q, b, r, Len(s))
    PROVE  Numbers(w \o q \o b \o r) = Numbers(s)
<1>1. Len(w) \in Nat /\ Len(q) \in Nat /\ Len(b) \in Nat /\ Len(r) \in Nat /\ Len(s) \in Nat
    BY LenFacts
<1>2. /\ NumberedFrom(w, 0) /\ NumberedFrom(q, 0 + Len(w)) /\ NumberedFrom(b, Len(w) + Len(q))
      /\ NumberedFrom(r, Len(w) + Len(q) + Len(b))
      /\ Len(w) + Len(q) + Len(b) + Len(r) = Len(s)
    BY <1>1 DEF InStages
<1> DEFINE a == w \o q
<1>3. a \in Seq(Packets) /\ Len(a) = Len(w) + Len(q) /\ NumberedFrom(a, 0)
    BY <1>2, NumberedConcat
<1> HIDE DEF a
<1> DEFINE c == a \o b
<1>4. NumberedFrom(b, 0 + Len(a))
    BY <1>1, <1>2, <1>3
<1>5. c \in Seq(Packets) /\ Len(c) = Len(a) + Len(b) /\ NumberedFrom(c, 0)
    BY <1>3, <1>4, NumberedConcat
<1> HIDE DEF c
<1> DEFINE d == c \o r
<1>6. NumberedFrom(r, 0 + Len(c))
    BY <1>1, <1>2, <1>3, <1>5
<1>7. d \in Seq(Packets) /\ Len(d) = Len(c) + Len(r) /\ NumberedFrom(d, 0)
    BY <1>5, <1>6, NumberedConcat
<1> HIDE DEF d
<1>8. Len(d) = Len(s)
    BY <1>1, <1>2, <1>3, <1>5, <1>7
<1>9. Numbers(d) = Numbers(s)
    BY <1>1, <1>7, <1>8 DEF Numbers, NumberedFrom
<1> QED BY <1>9 DEF a, c, d

-----------------------------------------------------------------------------
(* Steps. *)

Tunnels == [session : BOOLEAN, handshake : BOOLEAN, queue : Seq(Packets)]

\* A step that moves no packet.
QuietOut ==
    /\ UNCHANGED <<link, rx, batch, wire, questions>> /\ mishaps \subseteq mishaps'
    /\ \/ /\ UNCHANGED tun
          /\ \/ pc' = pc
             \/ pc = "poll" /\ pc' = "read"
             \/ pc = "read" /\ pc' = "poll"
             \/ pc = "poll" /\ pc' = "dead"
       \/ /\ tun' = [tun EXCEPT !.session = TRUE, !.handshake = FALSE]
          /\ link = "wireguard" /\ pc = "read" /\ pc' = "flush"

\* The thread ends with an error.
Died ==
    /\ pc' = "dead" /\ rx' = <<>> /\ batch' = <<>>
    /\ UNCHANGED <<link, tun, wire, questions>>

\* Steps that move no packet.
LEMMA QuietKeeps ==
    ASSUME IInv, QuietOut
    PROVE  IInv'
<1>1. /\ OutTypes /\ OwnWayOut /\ HeldForAReason /\ StagesNumbered
    BY DEF IInv
<1>2. tun' \in Tunnels /\ tun'.queue = tun.queue
    BY <1>1 DEF QuietOut, OutTypes, Tunnels
<1>3. OutTypes'
    BY <1>1, <1>2 DEF QuietOut, OutTypes, Tunnels
<1>4. OwnWayOut'
    BY <1>1, <1>2 DEF QuietOut, OwnWayOut
<1>5. HeldForAReason'
    BY <1>1, <1>2 DEF QuietOut, HeldForAReason, OutTypes
<1>6. Unharmed' => Unharmed
    BY DEF Unharmed, QuietOut
<1>7. UNCHANGED <<wire, batch, rx, questions>>
    BY DEF QuietOut
<1>8. StagesNumbered'
    BY <1>1, <1>2, <1>6, <1>7 DEF StagesNumbered
<1> QED BY <1>3, <1>4, <1>5, <1>8 DEF IInv

\* The end of the thread.
LEMMA DiedKeeps ==
    ASSUME IInv, Died
    PROVE  IInv'
<1>1. /\ OutTypes /\ OwnWayOut /\ HeldForAReason /\ StagesNumbered
    BY DEF IInv
<1>2. OutTypes'
    BY <1>1, LenFacts DEF Died, OutTypes
<1>3. OwnWayOut' /\ HeldForAReason'
    BY <1>1 DEF Died, OwnWayOut, HeldForAReason
<1>4. StagesNumbered'
    BY <1>1 DEF Died, StagesNumbered, Unharmed
<1> QED BY <1>2, <1>3, <1>4 DEF IInv

\* The router writes to the channel.
LEMMA SendKeeps ==
    ASSUME IInv, NEW f \in Flows, Send(f)
    PROVE  IInv'
<1>1. /\ OutTypes /\ OwnWayOut /\ HeldForAReason /\ StagesNumbered
    BY DEF IInv
<1>2. PICK q \in Packets : q = Question(f) /\ q.n = Len(questions) + 1
    BY <1>1, QuestionFacts DEF OutTypes
<1>3. /\ link # "udp" /\ questions' = Append(questions, q) /\ rx' = Append(rx, q)
      /\ UNCHANGED <<link, pc, batch, tun, wire, mishaps>>
    BY <1>2 DEF Send, threadVars, outVars, netVars
<1>4. OutTypes'
    BY <1>1, <1>3 DEF OutTypes
<1>5. OwnWayOut' /\ HeldForAReason'
    BY <1>1, <1>3 DEF OwnWayOut, HeldForAReason
<1>6. questions \in Seq(Packets) /\ NumberedFrom(questions, 0) /\ Len(questions) \in Nat
    BY <1>1, LenFacts DEF OutTypes, StagesNumbered
<1>7. Len(questions') = Len(questions) + 1 /\ NumberedFrom(questions', 0)
    <2>1. q.n = 0 + Len(questions) + 1
        BY <1>2, <1>6
    <2> QED BY <1>3, <1>6, <2>1, NumberedAppend
<1>8. Unharmed' => Unharmed
    BY <1>3 DEF Unharmed
<1>9. ASSUME Unharmed PROVE InStages(wire, tun.queue, batch, Append(rx, q), Len(questions) + 1)
    <2>1. InStages(wire, tun.queue, batch, rx, Len(questions))
        BY <1>1, <1>9 DEF StagesNumbered
    <2>2. /\ wire \in Seq(Packets) /\ tun.queue \in Seq(Packets) /\ batch \in Seq(Packets)
          /\ rx \in Seq(Packets)
        BY <1>1 DEF OutTypes
    <2> QED BY <1>2, <1>6, <2>1, <2>2, AskStage
<1>10. StagesNumbered'
    BY <1>3, <1>7, <1>8, <1>9 DEF StagesNumbered
<1> QED BY <1>4, <1>5, <1>10 DEF IInv

\* udp writes to the wire, or fails to.
LEMMA WriteUdpKeeps ==
    ASSUME IInv, NEW f \in Flows, WriteUdp(f)
    PROVE  IInv'
<1>1. /\ OutTypes /\ OwnWayOut /\ HeldForAReason /\ StagesNumbered
    BY DEF IInv
<1>2. PICK q \in Packets : q = Question(f) /\ q.n = Len(questions) + 1
    BY <1>1, QuestionFacts DEF OutTypes
<1>3. /\ link = "udp" /\ questions' = Append(questions, q)
      /\ \/ wire' = Append(wire, q) /\ UNCHANGED mishaps
         \/ "unwritten" \in mishaps' /\ UNCHANGED wire
         \/ pc = "dead" /\ UNCHANGED wire
      /\ UNCHANGED <<link, pc, batch, tun, rx>>
    BY <1>2 DEF WriteUdp, Mishap, threadVars
<1>4. OutTypes'
    <2>1. wire \in Seq(Packets) /\ questions \in Seq(Packets)
        BY <1>1 DEF OutTypes
    <2>2. Append(wire, q) \in Seq(Packets) /\ questions' \in Seq(Packets)
        BY <1>2, <1>3, <2>1
    <2>3. wire' \in Seq(Packets)
        BY <1>3, <2>1, <2>2
    <2> QED BY <1>1, <1>3, <2>2, <2>3 DEF OutTypes
<1>5. OwnWayOut' /\ HeldForAReason'
    BY <1>1, <1>3 DEF OwnWayOut, HeldForAReason
<1>6. questions \in Seq(Packets) /\ NumberedFrom(questions, 0) /\ Len(questions) \in Nat
    BY <1>1, LenFacts DEF OutTypes, StagesNumbered
<1>7. Len(questions') = Len(questions) + 1 /\ NumberedFrom(questions', 0)
    <2>1. q.n = 0 + Len(questions) + 1
        BY <1>2, <1>6
    <2> QED BY <1>3, <1>6, <2>1, NumberedAppend
<1>8. Unharmed' => Unharmed /\ wire' = Append(wire, q)
    BY <1>3 DEF Unharmed
<1>9. tun.queue = <<>> /\ batch = <<>> /\ rx = <<>> /\ wire \in Seq(Packets)
    BY <1>1, <1>3 DEF OwnWayOut, OutTypes
<1>10. ASSUME Unharmed PROVE InStages(Append(wire, q), <<>>, <<>>, <<>>, Len(questions) + 1)
    <2>1. InStages(wire, <<>>, <<>>, <<>>, Len(questions))
        BY <1>1, <1>9, <1>10 DEF StagesNumbered
    <2> QED BY <1>2, <1>6, <1>9, <2>1, WriteStage
<1>11. StagesNumbered'
    BY <1>3, <1>7, <1>8, <1>9, <1>10 DEF StagesNumbered
<1> QED BY <1>4, <1>5, <1>11 DEF IInv

\* The channel is drained.
LEMMA StartDrainKeeps ==
    ASSUME IInv, StartDrain
    PROVE  IInv'
<1>1. /\ OutTypes /\ OwnWayOut /\ HeldForAReason /\ StagesNumbered
    BY DEF IInv
<1>2. /\ pc = "poll" /\ pc' = Draining(rx) /\ batch' = rx /\ rx' = <<>>
      /\ UNCHANGED <<link, questions, tun, wire, mishaps>>
    BY DEF StartDrain, outVars, netVars
<1>3. OutTypes'
    BY <1>1, <1>2, LenFacts DEF OutTypes, Draining
<1>4. OwnWayOut' /\ HeldForAReason'
    BY <1>1, <1>2 DEF OwnWayOut, HeldForAReason, Draining
<1>5. batch = <<>>
    BY <1>1, <1>2 DEF HeldForAReason
<1>6. Unharmed' => Unharmed
    BY <1>2 DEF Unharmed
<1>7. ASSUME Unharmed PROVE InStages(wire, tun.queue, rx, <<>>, Len(questions))
    <2>1. InStages(wire, tun.queue, <<>>, rx, Len(questions))
        BY <1>1, <1>5, <1>7 DEF StagesNumbered
    <2>2. /\ wire \in Seq(Packets) /\ tun.queue \in Seq(Packets) /\ rx \in Seq(Packets)
          /\ Len(questions) \in Nat
        BY <1>1, LenFacts DEF OutTypes
    <2> QED BY <2>1, <2>2, DrainStage
<1>8. StagesNumbered'
    BY <1>1, <1>2, <1>6, <1>7 DEF StagesNumbered
<1> QED BY <1>3, <1>4, <1>8 DEF IInv

\* tap writes a drained packet, or fails to.
LEMMA WriteTapKeeps ==
    ASSUME IInv, WriteTap
    PROVE  IInv'
<1>1. /\ OutTypes /\ OwnWayOut /\ HeldForAReason /\ StagesNumbered
    BY DEF IInv
<1>2. /\ link = "tap" /\ pc = "drain" /\ batch' = Tail(batch) /\ pc' = Draining(Tail(batch))
      /\ \/ wire' = Append(wire, Head(batch)) /\ UNCHANGED mishaps
         \/ "unwritten" \in mishaps' /\ UNCHANGED wire
      /\ UNCHANGED <<link, rx, questions, tun>>
    BY DEF WriteTap, Mishap, handleVars
<1>3. batch # <<>> /\ tun.queue = <<>>
    BY <1>1, <1>2 DEF HeldForAReason, OwnWayOut
<1>4. Head(batch) \in Packets /\ Tail(batch) \in Seq(Packets)
    BY <1>1, <1>3 DEF OutTypes
<1>5. OutTypes'
    <2>1. wire \in Seq(Packets)
        BY <1>1 DEF OutTypes
    <2>2. Append(wire, Head(batch)) \in Seq(Packets)
        BY <1>4, <2>1
    <2>3. wire' \in Seq(Packets) /\ pc' \in {"poll", "drain"}
        BY <1>2, <2>1, <2>2 DEF Draining
    <2> QED BY <1>1, <1>2, <1>4, <2>3 DEF OutTypes
<1>6. OwnWayOut' /\ HeldForAReason'
    BY <1>1, <1>2, <1>3 DEF OwnWayOut, HeldForAReason, Draining
<1>7. Unharmed' => Unharmed /\ wire' = Append(wire, Head(batch))
    BY <1>2 DEF Unharmed
<1>8. ASSUME Unharmed
      PROVE  InStages(Append(wire, Head(batch)), <<>>, Tail(batch), rx, Len(questions))
    <2>1. InStages(wire, <<>>, batch, rx, Len(questions))
        BY <1>1, <1>3, <1>8 DEF StagesNumbered
    <2>2. wire \in Seq(Packets) /\ batch \in Seq(Packets) /\ rx \in Seq(Packets)
          /\ Len(questions) \in Nat
        BY <1>1, LenFacts DEF OutTypes
    <2> QED BY <1>3, <1>4, <2>1, <2>2, SendStage
<1>9. StagesNumbered'
    BY <1>1, <1>2, <1>3, <1>7, <1>8 DEF StagesNumbered
<1> QED BY <1>5, <1>6, <1>9 DEF IInv

\* wireguard sends a drained packet or holds it.
LEMMA EncapsulateKeeps ==
    ASSUME IInv, Encapsulate
    PROVE  IInv'
<1>1. /\ OutTypes /\ OwnWayOut /\ HeldForAReason /\ StagesNumbered
    BY DEF IInv
<1>2. /\ link = "wireguard" /\ pc = "drain"
      /\ batch' = Tail(batch) /\ pc' = Draining(Tail(batch))
      /\ UNCHANGED <<link, rx, questions, mishaps>>
    BY DEF Encapsulate, handleVars, netVars
<1>3. batch # <<>> /\ batch \in Seq(Packets) /\ rx \in Seq(Packets) /\ wire \in Seq(Packets)
      /\ tun \in Tunnels /\ tun.queue \in Seq(Packets) /\ Len(questions) \in Nat
    BY <1>1, <1>2, LenFacts DEF HeldForAReason, OutTypes, Tunnels
<1>4. Head(batch) \in Packets /\ Tail(batch) \in Seq(Packets)
    BY <1>3
<1>5. PICK x \in Packets : x = masquerade(Head(batch), WanIp) /\ x.n = Head(batch).n
    BY <1>4, MasqueradeFacts
<1>6. encapsulate(x)
    BY <1>5 DEF Encapsulate
<1>7. Unharmed' => Unharmed
    BY <1>2 DEF Unharmed
<1>8. CASE tun.session /\ wire' = Append(wire, x) /\ UNCHANGED tun
    <2>1. tun.session = TRUE /\ tun.queue = <<>>
        BY <1>1, <1>2, <1>3, <1>8 DEF HeldForAReason, Tunnels
    <2>2. OutTypes'
        BY <1>1, <1>2, <1>4, <1>8 DEF OutTypes, Draining
    <2>3. OwnWayOut' /\ HeldForAReason'
        BY <1>1, <1>2, <1>8, <2>1 DEF OwnWayOut, HeldForAReason, Draining
    <2>4. ASSUME Unharmed PROVE InStages(Append(wire, x), <<>>, Tail(batch), rx, Len(questions))
        <3>1. InStages(wire, <<>>, batch, rx, Len(questions))
            BY <1>1, <2>1, <2>4 DEF StagesNumbered
        <3> QED BY <1>3, <1>5, <3>1, SendStage
    <2>5. StagesNumbered'
        BY <1>1, <1>2, <1>7, <1>8, <2>1, <2>4 DEF StagesNumbered
    <2> QED BY <2>2, <2>3, <2>5 DEF IInv
<1>9. CASE /\ ~tun.session /\ UNCHANGED wire
           /\ tun' = [tun EXCEPT !.queue = Append(@, x), !.handshake = TRUE]
    <2>1. Append(tun.queue, x) \in Seq(Packets)
        BY <1>3
    <2>2. /\ tun' \in Tunnels /\ tun'.queue = Append(tun.queue, x) /\ tun'.session = tun.session
          /\ tun.session = FALSE
        BY <1>3, <1>9, <2>1 DEF Tunnels
    <2>3. OutTypes'
        BY <1>1, <1>2, <1>4, <1>9, <2>2 DEF OutTypes, Draining, Tunnels
    <2>4. OwnWayOut' /\ HeldForAReason'
        BY <1>1, <1>2, <1>9, <2>2 DEF OwnWayOut, HeldForAReason, Draining
    <2>5. ASSUME Unharmed
          PROVE  InStages(wire, Append(tun.queue, x), Tail(batch), rx, Len(questions))
        <3>1. InStages(wire, tun.queue, batch, rx, Len(questions))
            BY <1>1, <2>5 DEF StagesNumbered
        <3> QED BY <1>3, <1>5, <3>1, HoldStage
    <2>6. StagesNumbered'
        BY <1>1, <1>2, <1>7, <1>9, <2>2, <2>5 DEF StagesNumbered
    <2> QED BY <2>3, <2>4, <2>6 DEF IInv
<1> QED BY <1>6, <1>8, <1>9 DEF encapsulate

\* A packet that was held is sent, or none is left.
LEMMA FlushKeeps ==
    ASSUME IInv, Flush
    PROVE  IInv'
<1>1. /\ OutTypes /\ OwnWayOut /\ HeldForAReason /\ StagesNumbered
    BY DEF IInv
<1>2. pc = "flush" /\ UNCHANGED <<link, rx, questions, batch, mishaps>>
    BY DEF Flush, handleVars, netVars
<1>3. Unharmed' => Unharmed
    BY <1>1, <1>2 DEF Unharmed
<1>4. CASE tun.queue = <<>> /\ pc' = "read" /\ UNCHANGED <<tun, wire>>
    <2>1. OutTypes'
        BY <1>1, <1>2, <1>4 DEF OutTypes
    <2>2. OwnWayOut' /\ HeldForAReason'
        BY <1>1, <1>2, <1>4 DEF OwnWayOut, HeldForAReason
    <2>3. StagesNumbered'
        BY <1>1, <1>2, <1>3, <1>4 DEF StagesNumbered
    <2> QED BY <2>1, <2>2, <2>3 DEF IInv
<1>5. CASE /\ tun.queue # <<>> /\ wire' = Append(wire, Head(tun.queue))
           /\ tun' = [tun EXCEPT !.queue = Tail(@)] /\ UNCHANGED pc
    <2>1. /\ tun.queue \in Seq(Packets) /\ tun \in Tunnels /\ wire \in Seq(Packets)
          /\ batch \in Seq(Packets) /\ rx \in Seq(Packets) /\ Len(questions) \in Nat
        BY <1>1, LenFacts DEF OutTypes, Tunnels
    <2>2. Head(tun.queue) \in Packets /\ Tail(tun.queue) \in Seq(Packets)
        BY <1>5, <2>1
    <2>3. tun' \in Tunnels /\ tun'.queue = Tail(tun.queue)
        BY <1>5, <2>1, <2>2 DEF Tunnels
    <2>4. OutTypes'
        BY <1>1, <1>2, <1>5, <2>2, <2>3 DEF OutTypes, Tunnels
    <2>5. link = "wireguard"
        BY <1>1, <1>5 DEF OwnWayOut
    <2>6. OwnWayOut' /\ HeldForAReason'
        BY <1>1, <1>2, <1>5, <2>5 DEF OwnWayOut, HeldForAReason
    <2>7. ASSUME Unharmed
          PROVE  InStages(Append(wire, Head(tun.queue)), Tail(tun.queue), batch, rx,
                          Len(questions))
        <3>1. InStages(wire, tun.queue, batch, rx, Len(questions))
            BY <1>1, <2>7 DEF StagesNumbered
        <3> QED BY <1>5, <2>1, <3>1, FlushStage
    <2>8. StagesNumbered'
        BY <1>1, <1>2, <1>3, <1>5, <2>3, <2>7 DEF StagesNumbered
    <2> QED BY <2>4, <2>6, <2>8 DEF IInv
<1> QED BY <1>4, <1>5 DEF Flush

\* The handshake is given up.
LEMMA ExpireKeeps ==
    ASSUME IInv, Expire
    PROVE  IInv'
<1>1. /\ OutTypes /\ OwnWayOut /\ HeldForAReason /\ StagesNumbered
    BY DEF IInv
<1>2. /\ tun' = [session |-> FALSE, handshake |-> FALSE, queue |-> <<>>]
      /\ "expired" \in mishaps' /\ UNCHANGED <<link, pc, batch, rx, wire, questions>>
    BY DEF Expire, Mishap, handleVars, outVars
<1>3. OutTypes'
    BY <1>1, <1>2, LenFacts DEF OutTypes
<1>4. OwnWayOut' /\ HeldForAReason'
    BY <1>1, <1>2 DEF OwnWayOut, HeldForAReason
<1>5. StagesNumbered'
    BY <1>1, <1>2 DEF StagesNumbered, Unharmed
<1> QED BY <1>3, <1>4, <1>5 DEF IInv

\* What was read from the tunnel moves no packet on its way out, or ends the
\* thread.
LEMMA ReadKeeps ==
    ASSUME handle_tun_result
    PROVE  QuietOut \/ Died
<1> DEFINE p == Head(sock)
<1>1. UNCHANGED <<link, questions, wire, mishaps>>
    BY DEF handle_tun_result, netVars
<1>2. ASSUME NEW x, Deliver(x) PROVE QuietOut \/ Died
    BY <1>1, <1>2 DEF Deliver, Die, QuietOut, Died
<1>3. ASSUME Kept PROVE QuietOut
    BY <1>1, <1>3 DEF Kept, QuietOut
<1>4. ASSUME Completed(p) PROVE QuietOut \/ Died
    <2>1. CASE Die
        BY <1>1, <2>1 DEF Die, Died
    <2>2. CASE Deliver(finalize(add_fragment_data(cache[p.id], p.off, payload(p))))
        BY <1>2, <2>2
    <2> QED BY <1>4, <2>1, <2>2 DEF Completed
<1>5. Deliver(p) \/ Kept \/ Completed(p)
    BY DEF handle_tun_result
<1> QED BY <1>2, <1>3, <1>4, <1>5

\* The other steps.
LEMMA QuietSteps ==
    ASSUME \/ Wake \/ StartRead \/ EndRead \/ ReadResponse \/ ReadUdp \/ ReadTap
           \/ Timer \/ Respond \/ LoseHello \/ Network \/ UNCHANGED vars
           \/ \E q \in ToSet(wire), cut \in Cuts : Answer(q, cut)
    PROVE  QuietOut
<1> USE DEF QuietOut, handleVars, threadVars, outVars, netVars
<1>1. CASE Wake
    BY <1>1 DEF Wake
<1>2. CASE StartRead
    BY <1>2 DEF StartRead
<1>3. CASE EndRead
    BY <1>3 DEF EndRead
<1>4. CASE ReadResponse
    BY <1>4 DEF ReadResponse
<1>5. CASE ReadUdp
    BY <1>5 DEF ReadUdp
<1>6. CASE ReadTap
    BY <1>6 DEF ReadTap
<1>7. CASE Timer
    BY <1>7 DEF Timer
<1>8. CASE Respond
    BY <1>8 DEF Respond
<1>9. CASE LoseHello
    BY <1>9 DEF LoseHello, Mishap
<1>10. CASE Network
    <2>1. mishaps \subseteq mishaps'
        BY <1>10 DEF Network, Arrive, Repeat, Overtake, Lose, Damage, Mishap
    <2> QED BY <1>10, <2>1 DEF Network
<1>11. CASE UNCHANGED vars
    BY <1>11 DEF vars
<1>12. ASSUME NEW q, NEW cut, Answer(q, cut) PROVE QuietOut
    BY <1>12 DEF Answer, Mishap
<1> QED BY <1>1, <1>2, <1>3, <1>4, <1>5, <1>6, <1>7, <1>8, <1>9, <1>10, <1>11, <1>12

\* At the start nothing is on its way.
LEMMA InitIInv == Init => IInv
<1> SUFFICES ASSUME Init PROVE IInv
    OBVIOUS
<1>1. /\ link \in Links /\ rx = <<>> /\ batch = <<>> /\ pc = "poll" /\ wire = <<>>
      /\ tun = [session |-> FALSE, handshake |-> FALSE, queue |-> <<>>] /\ questions = <<>>
    BY DEF Init
<1>2. OutTypes
    BY <1>1, LenFacts, WanAssumption DEF OutTypes
<1>3. OwnWayOut /\ HeldForAReason
    BY <1>1 DEF OwnWayOut, HeldForAReason
<1>4. InStages(<<>>, <<>>, <<>>, <<>>, 0)
    <2>1. 0 + 0 + 0 + 0 = 0
        OBVIOUS
    <2> QED BY <2>1, LenFacts, Zenon DEF InStages
<1>5. tun.queue = <<>> /\ Len(questions) = 0
    BY <1>1, LenFacts
<1>6. StagesNumbered
    BY <1>1, <1>4, <1>5, LenFacts DEF StagesNumbered
<1> QED BY <1>2, <1>3, <1>6 DEF IInv

\* Every step keeps the stages numbered.
LEMMA NextIInv == IInv /\ [Next]_vars => IInv'
<1> SUFFICES ASSUME IInv, [Next]_vars PROVE IInv'
    OBVIOUS
<1>1. ASSUME NEW f \in Flows, Send(f) \/ WriteUdp(f) PROVE IInv'
    BY <1>1, SendKeeps, WriteUdpKeeps
<1>2. CASE StartDrain \/ WriteTap \/ Encapsulate \/ Flush \/ Expire
    BY <1>2, StartDrainKeeps, WriteTapKeeps, EncapsulateKeeps, FlushKeeps, ExpireKeeps
<1>3. CASE SendFails \/ RecvFails
    BY <1>3, DiedKeeps DEF SendFails, RecvFails, Die, Died, outVars
<1>4. CASE handle_tun_result
    BY <1>4, ReadKeeps, QuietKeeps, DiedKeeps
<1>5. CASE \/ Wake \/ StartRead \/ EndRead \/ ReadResponse \/ ReadUdp \/ ReadTap
           \/ Timer \/ Respond \/ LoseHello \/ Network \/ UNCHANGED vars
           \/ \E q \in ToSet(wire), cut \in Cuts : Answer(q, cut)
    BY <1>5, QuietSteps, QuietKeeps
<1> QED BY <1>1, <1>2, <1>3, <1>4, <1>5 DEF Next, Thread

\* wireguard.rs, tap.rs, udp.rs: the types of what is on its way out, and where
\* it may be.
THEOREM StagesHold == Spec => []IInv
<1>1. Init => IInv
    BY InitIInv
<1>2. IInv /\ [Next]_vars => IInv'
    BY NextIInv
<1> QED BY <1>1, <1>2, PTL DEF Spec

\* Packets leave in the order the router wrote them, also those held until the
\* handshake is over, as long as none is lost to an error or an expired
\* handshake.
THEOREM QuestionsLeaveInOrder == Spec => []LeaveInOrder
<1>1. IInv => LeaveInOrder
    <2> SUFFICES ASSUME IInv, \A k \in mishaps : k \notin {"expired", "unwritten", "unsent"},
                        pc # "dead"
                 PROVE  Numbers(wire \o tun.queue \o batch \o rx) = Numbers(questions)
        BY DEF LeaveInOrder
    <2>1. Unharmed
        BY DEF Unharmed
    <2>2. /\ NumberedFrom(questions, 0)
          /\ InStages(wire, tun.queue, batch, rx, Len(questions))
        BY <2>1 DEF IInv, StagesNumbered
    <2>3. /\ wire \in Seq(Packets) /\ tun.queue \in Seq(Packets) /\ batch \in Seq(Packets)
          /\ rx \in Seq(Packets) /\ questions \in Seq(Packets)
        BY DEF IInv, OutTypes
    <2> QED BY <2>2, <2>3, StagesInOrder
<1> QED BY <1>1, StagesHold, PTL

-----------------------------------------------------------------------------
(* The way back: fragments of an answer, and the invariant that holds as    *)
(* long as there is no mishap.                                              *)

\* What a remote sends, and what wireguard hands to the router.
Pieces ==
    [kind : {"ip"}, n : Nat, src : Remotes, dst : Hosts \cup {WanIp},
     proto : {"icmp", "tcp", "udp", "other"}, port : Ports, id : Nat, mf : BOOLEAN,
     off : Nat, length : Nat, data : Seq(Cells)]

\* A packet with these fields.
Packet(n, src, dst, proto, port, id, mf, off, length, data) ==
    [kind |-> "ip", n |-> n, src |-> src, dst |-> dst, proto |-> proto, port |-> port,
     id |-> id, mf |-> mf, off |-> off, length |-> length, data |-> data]

\* The segment that answers question n, as it was sent, and its cells a+1..b in
\* a packet of their own.
Reply(n) == Segment(n, questions[n].proto, questions[n].port, WanIp)
Part(n, a, b, more) ==
    Packet(n, questions[n].dst, WanIp, questions[n].proto, questions[n].port, n, more, a,
           HeaderCells + b - a, Header \o SubSeq(Reply(n), a + 1, b))

\* f is a fragment of the answer to question f.n; it ends behind cell To(f).
To(f) == f.off + f.length - HeaderCells
IsPiece(f) ==
    /\ f \in Pieces /\ f.off < To(f) /\ To(f) <= PayloadCells
    /\ f = Part(f.n, f.off, To(f), To(f) < PayloadCells)

\* A question as it was asked; a packet on its way out that is the question;
\* one that was masqueraded.
IsAsked(i) ==
    LET q == questions[i] IN
    q.n = i /\ q.src \in Hosts /\ q.data = Header \o Segment(i, q.proto, q.port, q.src)
IsQuestion(p) == p.n \in 1..Len(questions) /\ p = questions[p.n]
IsMasked(p) ==
    /\ p.n \in 1..Len(questions) /\ p.dst = questions[p.n].dst
    /\ p.proto = questions[p.n].proto /\ p.port = questions[p.n].port
    /\ link = "wireguard" => p.src = WanIp
Asked ==
    /\ Len(questions) <= MaxAsk
    /\ \A i \in 1..Len(questions) : IsAsked(i)
    /\ \A i \in 1..Len(rx) : IsQuestion(rx[i])
    /\ \A i \in 1..Len(batch) : IsQuestion(batch[i])
    /\ \A i \in 1..Len(tun.queue) : IsMasked(tun.queue[i])
    /\ \A i \in 1..Len(wire) : IsMasked(wire[i])

\* The NAT table has the entry of every tracked question that was masqueraded,
\* with the host that was the last to use it.
EntryOf(q) == NatEntry(q.proto, q.dst, <<"key", q.port, 0>>)
NotedUpto(table, s) ==
    /\ \A i \in 1..s : questions[i].proto # "other" => EntryOf(questions[i]) \in DOMAIN table
    /\ \A e \in DOMAIN table : \E i \in 1..s :
          /\ EntryOf(questions[i]) = e /\ table[e] = questions[i].src
          /\ questions[i].proto # "other"
          /\ \A j \in (i + 1)..s : EntryOf(questions[j]) # e
Noted == NotedUpto(nat, Len(wire) + Len(tun.queue))

\* Types of what is on its way back.
BackTypes ==
    /\ sock \in Seq(Pieces \cup {[kind |-> "response"]})
    /\ net \in [1..MaxAsk -> Seq(Pieces)] /\ lan \in Seq(Pieces)
    /\ answered \subseteq 1..Len(wire)
    /\ \A n \in unknown : n \in answered /\ questions[n].proto = "other"

\* The fragments of answer n that are on their way follow each other, up to its end.
Coming(s, n) ==
    \A i \in 1..Len(s) :
        /\ IsPiece(s[i]) /\ s[i].n = n
        /\ To(s[i]) = IF i = Len(s) THEN PayloadCells ELSE s[i + 1].off
Start(s) == IF s = <<>> THEN PayloadCells ELSE s[1].off

\* Those in the socket are what lies between the g cells that were read and the
\* ones on their way, from e on, in order and without a gap.
In(s, j, n) == s[j].kind = "ip" /\ s[j].n = n
Between(s, n, g, e) ==
    /\ g <= e
    /\ \A j \in 1..Len(s) : In(s, j, n) => IsPiece(s[j]) /\ g <= s[j].off /\ To(s[j]) <= e
    /\ \A i, j \in 1..Len(s) : i < j /\ In(s, i, n) /\ In(s, j, n) => To(s[i]) <= s[j].off
    /\ \A t \in 0..(PayloadCells - 1) : g <= t /\ t < e =>
          \E j \in 1..Len(s) : In(s, j, n) /\ s[j].off <= t /\ t < To(s[j])

\* The g cells that were read are in the cache, unless they are none or all.
Stored(c, n, g) ==
    /\ n \in DOMAIN c <=> 0 < g /\ g < PayloadCells
    /\ n \in DOMAIN c => c[n] = Part(n, 0, g, TRUE)
OnItsWay(n) ==
    /\ Coming(net[n], n)
    /\ \E g \in 0..PayloadCells : Between(sock, n, g, Start(net[n])) /\ Stored(cache, n, g)

Carried ==
    /\ cache = [n \in DOMAIN cache |-> cache[n]] /\ DOMAIN cache \subseteq answered
    /\ \A j \in 1..Len(sock) : sock[j].kind = "ip" => sock[j].n \in answered
    /\ \A n \in 1..MaxAsk : n \notin answered => net[n] = <<>>
    /\ \A n \in answered : OnItsWay(n)

\* What the guest gets is the segment that was sent.
Received ==
    \A i \in 1..Len(lan) : LET p == lan[i] IN
        /\ payload(p) = Segment(p.n, p.proto, p.port, p.dst)
        /\ p.length = Len(p.data) /\ p.mf = FALSE

BackInv ==
    mishaps = {} =>
        /\ pc # "dead" /\ Asked /\ BackTypes
        /\ link = "wireguard" => Noted /\ Carried /\ Received

-----------------------------------------------------------------------------
(* Packets with changed fields. *)

\* The fields of a packet, and what it is with one of them changed.
LEMMA PacketFields ==
    ASSUME NEW n, NEW src, NEW dst, NEW proto, NEW port, NEW id, NEW mf, NEW off, NEW length,
           NEW data, NEW p, p = Packet(n, src, dst, proto, port, id, mf, off, length, data)
    PROVE  /\ p.kind = "ip" /\ p.n = n /\ p.src = src /\ p.dst = dst /\ p.proto = proto
           /\ p.port = port /\ p.id = id /\ p.mf = mf /\ p.off = off /\ p.length = length
           /\ p.data = data
  BY DEF Packet

\* With other data, with another receiver, and with one cell replaced.
WithData(p, v) == [p EXCEPT !.data = v]
WithDst(p, v) == [p EXCEPT !.dst = v]
WithCell(p, v, w) == [p EXCEPT !.data[v] = w]

\* What the first two are.
LEMMA PacketExcept ==
    ASSUME NEW n, NEW src, NEW dst, NEW proto, NEW port, NEW id, NEW mf, NEW off, NEW length,
           NEW data, NEW p, p = Packet(n, src, dst, proto, port, id, mf, off, length, data),
           NEW v
    PROVE  /\ WithData(p, v) = Packet(n, src, dst, proto, port, id, mf, off, length, v)
           /\ WithDst(p, v) = Packet(n, src, v, proto, port, id, mf, off, length, data)
  BY DEF Packet, WithDst, WithData

\* What the third is.
LEMMA PacketCell ==
    ASSUME NEW n, NEW src, NEW dst, NEW proto, NEW port, NEW id, NEW mf, NEW off, NEW length,
           NEW data, NEW p, p = Packet(n, src, dst, proto, port, id, mf, off, length, data),
           NEW v, NEW w
    PROVE  WithCell(p, v, w)
               = Packet(n, src, dst, proto, port, id, mf, off, length, [data EXCEPT ![v] = w])
<1> DEFINE d == [data EXCEPT ![v] = w]
<1>1. p.data = data
    BY DEF Packet
<1>2. [p EXCEPT !.data[v] = w] = [p EXCEPT !.data = d]
    BY <1>1, Zenon
<1> HIDE DEF d
<1>3. [p EXCEPT !.data = d] = Packet(n, src, dst, proto, port, id, mf, off, length, d)
    BY DEF Packet
<1> QED BY <1>2, <1>3 DEF d, WithCell

\* With other fragment fields, and with data added.
Whole(p, v, w) == [p EXCEPT !.mf = v, !.off = w]
Longer(p, v, w) == [p EXCEPT !.data = @ \o v, !.length = @ + w]

\* What the first is.
LEMMA PacketWhole ==
    ASSUME NEW n, NEW src, NEW dst, NEW proto, NEW port, NEW id, NEW mf, NEW off, NEW length,
           NEW data, NEW p, p = Packet(n, src, dst, proto, port, id, mf, off, length, data),
           NEW v, NEW w
    PROVE  Whole(p, v, w) = Packet(n, src, dst, proto, port, id, v, w, length, data)
<1> DEFINE x == [p EXCEPT !.mf = v, !.off = w]
           D == {"kind", "n", "src", "dst", "proto", "port", "id", "mf", "off", "length", "data"}
<1>1. p = [i \in D |-> p[i]]
    BY DEF Packet
<1>2. x = [i \in D |-> IF i = "off" THEN w ELSE IF i = "mf" THEN v ELSE p[i]]
    BY <1>1
<1> QED BY <1>2 DEF Packet, Whole

\* What the second is.
LEMMA PacketLonger ==
    ASSUME NEW n, NEW src, NEW dst, NEW proto, NEW port, NEW id, NEW mf, NEW off, NEW length,
           NEW data, NEW p, p = Packet(n, src, dst, proto, port, id, mf, off, length, data),
           NEW v, NEW w
    PROVE  Longer(p, v, w)
               = Packet(n, src, dst, proto, port, id, mf, off, length + w, data \o v)
<1> DEFINE d == data \o v
           l == length + w
           x == [p EXCEPT !.data = d, !.length = l]
           D == {"kind", "n", "src", "dst", "proto", "port", "id", "mf", "off", "length", "data"}
<1>1. p.data = data /\ p.length = length /\ p = [i \in D |-> p[i]]
    BY DEF Packet
<1>2. [p EXCEPT !.data = @ \o v, !.length = @ + w] = x
    BY <1>1, Zenon
<1> HIDE DEF d, l
<1>3. x = [i \in D |-> IF i = "length" THEN l ELSE IF i = "data" THEN d ELSE p[i]]
    BY <1>1
<1>4. x = Packet(n, src, dst, proto, port, id, mf, off, l, d)
    BY <1>3 DEF Packet
<1> HIDE DEF x
<1> QED BY <1>2, <1>4 DEF d, l, Longer

-----------------------------------------------------------------------------
(* Segments and their parts. *)

\* Where the port and the checksum are.
LEMMA CellFacts ==
    ASSUME NEW proto \in {"icmp", "tcp", "udp", "other"}
    PROVE  /\ KeyCell(proto) \in 1..PayloadCells /\ SumCell(proto) \in 0..PayloadCells
           /\ KeyCell(proto) # SumCell(proto) /\ PayloadCells = 6
           /\ KeyCell(proto) \in Nat /\ SumCell(proto) \in Nat
<1>1. CASE proto = "icmp"
    BY <1>1 DEF KeyCell, SumCell, PayloadCells
<1>2. CASE proto = "tcp"
    BY <1>2 DEF KeyCell, SumCell, PayloadCells
<1>3. CASE proto = "udp"
    BY <1>3 DEF KeyCell, SumCell, PayloadCells
<1>4. CASE proto = "other"
    BY <1>4 DEF KeyCell, SumCell, PayloadCells
<1> QED BY <1>1, <1>2, <1>3, <1>4

\* The cells of a segment; only the checksum depends on the address.
SegmentCell(i, n, proto, port, addr) ==
    IF i = SumCell(proto) THEN <<"sum", addr, 0>>
    ELSE IF i = KeyCell(proto) THEN <<"key", port, 0>> ELSE <<"body", n, i>>

\* A segment is six cells, with the port or id where NatTable looks for it.
LEMMA SegmentFacts ==
    ASSUME NEW n \in Nat, NEW proto \in {"icmp", "tcp", "udp", "other"}, NEW port \in Ports,
           NEW addr \in Hosts \cup {WanIp}
    PROVE  /\ Segment(n, proto, port, addr) \in Seq(Cells)
           /\ Segment(n, proto, port, addr) \in [1..6 -> Cells]
           /\ Len(Segment(n, proto, port, addr)) = 6
           /\ Segment(n, proto, port, addr)[KeyCell(proto)] = <<"key", port, 0>>
           /\ \A i \in 1..6 : Segment(n, proto, port, addr)[i]
                                = SegmentCell(i, n, proto, port, addr)
<1> DEFINE s == Segment(n, proto, port, addr)
           c(i) == SegmentCell(i, n, proto, port, addr)
           d(i) == CASE i = SumCell(proto) -> <<"sum", addr, 0>>
                     [] i = KeyCell(proto) -> <<"key", port, 0>>
                     [] OTHER -> <<"body", n, i>>
<1>1. PayloadCells = 6 /\ KeyCell(proto) \in 1..6 /\ KeyCell(proto) # SumCell(proto)
    BY CellFacts
<1>2. s = [i \in 1..6 |-> d(i)]
    BY <1>1 DEF Segment
<1>3. ASSUME NEW i \in 1..6 PROVE c(i) \in Cells /\ d(i) = c(i)
    <2>1. /\ <<"sum", addr, 0>> \in Cells /\ <<"key", port, 0>> \in Cells
          /\ <<"body", n, i>> \in Cells
        BY DEF Cells
    <2>2. CASE i = SumCell(proto)
        BY <1>1, <2>1, <2>2 DEF SegmentCell
    <2>3. CASE i = KeyCell(proto)
        BY <1>1, <2>1, <2>3 DEF SegmentCell
    <2>4. CASE i # SumCell(proto) /\ i # KeyCell(proto)
        BY <2>1, <2>4 DEF SegmentCell
    <2> QED BY <2>2, <2>3, <2>4
<1>4. c(KeyCell(proto)) = <<"key", port, 0>>
    BY <1>1 DEF SegmentCell
<1> HIDE DEF c, d
<1>5. s = [i \in 1..6 |-> c(i)]
    BY <1>2, <1>3
<1> HIDE DEF s
<1>6. s \in [1..6 -> Cells]
    BY <1>3, <1>5
<1>7. s \in Seq(Cells) /\ Len(s) = 6
    <2>1. [i \in 1..6 |-> c(i)] \in Seq(Cells)
        BY <1>3
    <2>2. s \in Seq(Cells) /\ DOMAIN s = 1..6
        BY <1>5, <2>1
    <2> QED BY <2>2
<1>8. s[KeyCell(proto)] = <<"key", port, 0>>
    BY <1>1, <1>4, <1>5
<1>9. \A i \in 1..6 : s[i] = c(i)
    BY <1>5
<1> QED BY <1>6, <1>7, <1>8, <1>9 DEF c, s

\* Its cells alone.
LEMMA SegmentAt ==
    ASSUME NEW n \in Nat, NEW proto \in {"icmp", "tcp", "udp", "other"}, NEW port \in Ports,
           NEW addr \in Hosts \cup {WanIp}, NEW i \in 1..6
    PROVE  Segment(n, proto, port, addr)[i] = SegmentCell(i, n, proto, port, addr)
<1>1. \A j \in 1..6 : Segment(n, proto, port, addr)[j] = SegmentCell(j, n, proto, port, addr)
    BY SegmentFacts, Zenon
<1> QED BY ONLY <1>1, i \in 1..6

\* Undoing the masquerade of a segment gives it the checksum of its receiver.
LEMMA SegmentSum ==
    ASSUME NEW n \in Nat, NEW proto \in {"icmp", "tcp", "udp", "other"}, NEW port \in Ports,
           NEW a \in Hosts \cup {WanIp}, NEW b \in Hosts \cup {WanIp}
    PROVE  /\ SumCell(proto) = 0 => Segment(n, proto, port, a) = Segment(n, proto, port, b)
           /\ SumCell(proto) # 0 =>
                [Segment(n, proto, port, a) EXCEPT ![SumCell(proto)] = <<"sum", b, 0>>]
                    = Segment(n, proto, port, b)
<1> DEFINE s == Segment(n, proto, port, a)
           t == Segment(n, proto, port, b)
           k == SumCell(proto)
<1>1. k \in Nat /\ k <= 6
    BY CellFacts
<1>2. s \in [1..6 -> Cells] /\ t \in [1..6 -> Cells]
    BY SegmentFacts
<1>3. ASSUME NEW i \in 1..6, i # k PROVE s[i] = t[i]
    <2>1. s[i] = SegmentCell(i, n, proto, port, a)
        BY SegmentAt
    <2>2. t[i] = SegmentCell(i, n, proto, port, b)
        BY SegmentAt
    <2> QED BY <1>3, <2>1, <2>2 DEF SegmentCell
<1>4. ASSUME k # 0 PROVE k \in 1..6 /\ t[k] = <<"sum", b, 0>>
    <2>1. k \in 1..6
        BY <1>1, <1>4
    <2> HIDE DEF k
    <2>2. t[k] = SegmentCell(k, n, proto, port, b)
        BY <2>1, SegmentAt
    <2> QED BY <2>1, <2>2 DEF SegmentCell, k
<1> HIDE DEF s, t, k
<1>5. k = 0 => s = t
    BY <1>1, <1>2, <1>3
<1>6. k # 0 => [s EXCEPT ![k] = <<"sum", b, 0>>] = t
    BY <1>1, <1>2, <1>3, <1>4
<1> QED BY <1>5, <1>6 DEF s, t, k

\* The payload behind a header.
LEMMA PayloadOf ==
    ASSUME NEW s \in Seq(Cells)
    PROVE  /\ Header \o s \in Seq(Cells) /\ Len(Header \o s) = 5 + Len(s) /\ Len(s) \in Nat
           /\ SubSeq(Header \o s, HeaderCells + 1, Len(Header \o s)) = s
           /\ \A i \in 1..Len(s) : (Header \o s)[5 + i] = s[i]
           /\ \A i \in 1..5 : (Header \o s)[i] = Header[i]
<1> DEFINE d == Header \o s
<1>1. Header \in Seq(Cells) /\ Len(Header) = 5 /\ HeaderCells = 5
    BY HeaderCellsFacts
<1>2. /\ d \in Seq(Cells) /\ Len(d) = 5 + Len(s) /\ Len(s) \in Nat
      /\ \A i \in 1..Len(s) : d[5 + i] = s[i]
      /\ \A i \in 1..5 : d[i] = Header[i]
    <2>1. /\ d \in Seq(Cells) /\ Len(d) = 5 + Len(s) /\ Len(s) \in Nat
          /\ \A i \in 1..(5 + Len(s)) : d[i] = IF i <= 5 THEN Header[i] ELSE s[i - 5]
        <3>1. /\ d \in Seq(Cells) /\ Len(d) = Len(Header) + Len(s)
              /\ \A i \in 1..(Len(Header) + Len(s)) :
                     d[i] = IF i <= Len(Header) THEN Header[i] ELSE s[i - Len(Header)]
            BY <1>1, ConcatProperties, Zenon
        <3>2. Len(s) \in Nat
            OBVIOUS
        <3> QED BY <1>1, <3>1, <3>2
    <2> HIDE DEF d
    <2>2. ASSUME NEW i \in 1..Len(s) PROVE d[5 + i] = s[i]
        <3>1. 5 + i \in 1..(5 + Len(s)) /\ ~(5 + i <= 5) /\ (5 + i) - 5 = i
            BY <2>1
        <3> QED BY <2>1, <3>1
    <2>3. \A i \in 1..5 : d[i] = Header[i]
        BY <2>1
    <2> QED BY <2>1, <2>2, <2>3
<1> HIDE DEF d
<1>3. 6 \in 1..(Len(d) + 1) /\ Len(d) \in (6 - 1)..Len(d)
    BY <1>2
<1>4. /\ SubSeq(d, 6, Len(d)) \in Seq(Cells) /\ Len(SubSeq(d, 6, Len(d))) = Len(s)
      /\ \A i \in 1..Len(s) : SubSeq(d, 6, Len(d))[i] = d[6 + i - 1]
    BY <1>2, <1>3, SubSeqProperties
<1>5. \A i \in 1..Len(s) : SubSeq(d, 6, Len(d))[i] = s[i]
    BY <1>2, <1>4
<1>6. SubSeq(d, 6, Len(d)) = s
    BY <1>2, <1>4, <1>5, SeqEqual
<1> QED BY <1>1, <1>2, <1>6 DEF d

\* Parts of a sequence that follow each other, put together.
LEMMA PartsJoin ==
    ASSUME NEW s \in Seq(Cells), NEW a \in Nat, NEW b \in Nat, a <= b, b <= Len(s)
    PROVE  /\ SubSeq(s, a + 1, b) \in Seq(Cells) /\ Len(SubSeq(s, a + 1, b)) = b - a
           /\ SubSeq(s, 1, a) \in Seq(Cells) /\ Len(SubSeq(s, 1, a)) = a
           /\ SubSeq(s, 1, a) \o SubSeq(s, a + 1, b) = SubSeq(s, 1, b)
           /\ SubSeq(s, 1, Len(s)) = s
<1> DEFINE x == SubSeq(s, 1, a)
           y == SubSeq(s, a + 1, b)
           z == SubSeq(s, 1, b)
<1>1. Len(s) \in Nat
    OBVIOUS
<1>2. /\ y \in Seq(Cells) /\ Len(y) = b - a /\ \A i \in 1..(b - a) : y[i] = s[a + i]
      /\ x \in Seq(Cells) /\ Len(x) = a /\ \A i \in 1..a : x[i] = s[i]
      /\ z \in Seq(Cells) /\ Len(z) = b /\ \A i \in 1..b : z[i] = s[i]
    BY <1>1
<1>3. SubSeq(s, 1, Len(s)) = s
    BY <1>1, SeqEqual
<1> HIDE DEF x, y, z
<1>4. x \o y \in Seq(Cells) /\ Len(x \o y) = b
    <2>1. x \o y \in Seq(Cells) /\ Len(x \o y) = Len(x) + Len(y)
        BY <1>2, ConcatProperties
    <2> QED BY <1>2, <2>1
<1>5. ASSUME NEW i \in 1..b PROVE (x \o y)[i] = z[i]
    <2>1. ASSUME i <= a PROVE (x \o y)[i] = z[i]
        <3>1. i \in 1..a /\ i \in 1..Len(x)
            BY <1>2, <2>1
        <3>2. (x \o y)[i] = x[i]
            BY <1>2, <3>1
        <3> QED BY <1>2, <3>1, <3>2
    <2>2. ASSUME i > a PROVE (x \o y)[i] = z[i]
        <3>1. i - a \in 1..(b - a) /\ a + (i - a) = i
            BY <2>2
        <3>2. (x \o y)[i] = y[i - a]
            BY <1>2, <2>2, <3>1
        <3> QED BY <1>2, <3>1, <3>2
    <2>3. i <= a \/ i > a
        OBVIOUS
    <2> QED BY ONLY <2>1, <2>2, <2>3
<1>6. x \o y = z
    BY <1>2, <1>4, <1>5, SeqEqual
<1> QED BY <1>2, <1>3, <1>6 DEF x, y, z

\* The segment that answers question n.
LEMMA ReplyFacts ==
    ASSUME questions \in Seq(Packets), NEW n \in 1..Len(questions)
    PROVE  /\ n \in Nat /\ questions[n] \in Packets
           /\ questions[n].proto \in {"icmp", "tcp", "udp", "other"}
           /\ questions[n].port \in Ports /\ questions[n].dst \in Remotes
           /\ Reply(n) \in Seq(Cells) /\ Len(Reply(n)) = 6
           /\ Reply(n)[KeyCell(questions[n].proto)] = <<"key", questions[n].port, 0>>
<1>1. n \in Nat /\ questions[n] \in Packets
    OBVIOUS
<1>2. /\ questions[n].proto \in {"icmp", "tcp", "udp", "other"} /\ questions[n].port \in Ports
      /\ questions[n].dst \in Remotes
    BY <1>1 DEF Packets
<1>3. WanIp \in Hosts \cup {WanIp}
    OBVIOUS
<1> DEFINE proto == questions[n].proto
           port == questions[n].port
           w == WanIp
<1> HIDE DEF proto, port, w
<1>4. /\ n \in Nat /\ proto \in {"icmp", "tcp", "udp", "other"} /\ port \in Ports
      /\ w \in Hosts \cup {WanIp}
    BY <1>1, <1>2, <1>3 DEF proto, port, w
<1>5. /\ Segment(n, proto, port, w) \in Seq(Cells) /\ Len(Segment(n, proto, port, w)) = 6
      /\ Segment(n, proto, port, w)[KeyCell(proto)] = <<"key", port, 0>>
    BY <1>4, SegmentFacts
<1> QED BY <1>1, <1>2, <1>5 DEF Reply, proto, port, w

\* A part of an answer: its fields, its end and its payload.
PartIs(p, n, a, b, more) ==
    /\ p.kind = "ip" /\ p.n = n /\ p.id = n /\ p.off = a /\ p.mf = more
    /\ p.proto = questions[n].proto /\ p.src = questions[n].dst /\ p.port = questions[n].port
    /\ To(p) = b /\ p.length = 5 + (b - a)
    /\ payload(p) = SubSeq(Reply(n), a + 1, b)
    /\ p.data = Header \o SubSeq(Reply(n), a + 1, b)

\* Its fields are these.
LEMMA PartFacts ==
    ASSUME questions \in Seq(Packets), NEW n \in 1..Len(questions), NEW a \in Nat, NEW b \in Nat,
           a <= b, b <= 6, NEW more
    PROVE  PartIs(Part(n, a, b, more), n, a, b, more)
<1> DEFINE s == SubSeq(Reply(n), a + 1, b)
           d == Header \o s
           l == HeaderCells + b - a
           q == questions[n]
           p == Part(n, a, b, more)
<1>1. /\ n \in Nat /\ q.proto \in {"icmp", "tcp", "udp", "other"} /\ q.port \in Ports
      /\ q.dst \in Remotes /\ Reply(n) \in Seq(Cells) /\ Len(Reply(n)) = 6
    BY ReplyFacts
<1>2. s \in Seq(Cells) /\ Len(s) = b - a
    BY <1>1, PartsJoin
<1>3. d \in Seq(Cells) /\ SubSeq(d, HeaderCells + 1, Len(d)) = s
    BY <1>2, PayloadOf
<1>4. l \in Nat /\ a + l - HeaderCells = b
    BY DEF HeaderCells
<1>5. p = Packet(n, q.dst, WanIp, q.proto, q.port, n, more, a, l, d)
    BY DEF Part
<1> HIDE DEF s, d, l, q, p
<1>6. /\ p.data = d /\ p.off = a /\ p.length = l /\ p.n = n /\ p.id = n /\ p.proto = q.proto
      /\ p.kind = "ip" /\ p.mf = more /\ p.src = q.dst /\ p.port = q.port
    BY <1>5 DEF Packet
<1>7. payload(p) = s
    BY <1>3, <1>6 DEF payload
<1>8. To(p) = b /\ l = 5 + (b - a)
    BY <1>4, <1>6 DEF To, l, HeaderCells
<1> QED BY <1>6, <1>7, <1>8 DEF s, d, p, q, PartIs

\* The type of a part.
LEMMA PartTyped ==
    ASSUME questions \in Seq(Packets), NEW n \in 1..Len(questions), NEW a \in Nat, NEW b \in Nat,
           a <= b, b <= 6, NEW more \in BOOLEAN
    PROVE  Part(n, a, b, more) \in Pieces
<1> DEFINE s == SubSeq(Reply(n), a + 1, b)
           d == Header \o s
           l == HeaderCells + b - a
           q == questions[n]
           p == Part(n, a, b, more)
<1>1. /\ n \in Nat /\ q.proto \in {"icmp", "tcp", "udp", "other"} /\ q.port \in Ports
      /\ q.dst \in Remotes /\ Reply(n) \in Seq(Cells) /\ Len(Reply(n)) = 6
    BY ReplyFacts
<1>2. s \in Seq(Cells)
    BY <1>1, PartsJoin
<1>3. d \in Seq(Cells)
    BY <1>2, PayloadOf
<1>4. l \in Nat
    BY DEF HeaderCells
<1>5. p = Packet(n, q.dst, WanIp, q.proto, q.port, n, more, a, l, d)
    BY DEF Part
<1> HIDE DEF s, d, l, q, p
<1>6. p \in Pieces
    BY <1>1, <1>3, <1>4, <1>5 DEF Packet, Pieces
<1> QED BY <1>6 DEF p

\* add_fragment_data: the next part is added behind the ones that are there.
LEMMA NextPartAdded ==
    ASSUME questions \in Seq(Packets), NEW n \in 1..Len(questions), NEW a \in Nat, NEW b \in Nat,
           a <= b, b <= 6, NEW more
    PROVE  add_fragment_data(Part(n, 0, a, TRUE), a, payload(Part(n, a, b, more)))
               = Part(n, 0, b, TRUE)
<1> DEFINE p == Part(n, 0, a, TRUE)
           x == SubSeq(Reply(n), 1, a)
           y == SubSeq(Reply(n), a + 1, b)
           z == SubSeq(Reply(n), 1, b)
<1>1. Reply(n) \in Seq(Cells) /\ Len(Reply(n)) = 6 /\ b <= Len(Reply(n))
    BY ReplyFacts
<1>2. /\ y \in Seq(Cells) /\ Len(y) = b - a /\ x \in Seq(Cells) /\ Len(x) = a /\ x \o y = z
    BY <1>1, PartsJoin, Zenon
<1>3. payload(Part(n, a, b, more)) = y
    <2>1. PartIs(Part(n, a, b, more), n, a, b, more)
        BY PartFacts
    <2> QED BY <2>1, Zenon DEF PartIs
<1>4. payload(p) = x
    <2>1. a <= 6 /\ 0 <= a /\ 0 \in Nat /\ TRUE \in BOOLEAN /\ 0 + 1 = 1
        OBVIOUS
    <2>2. PartIs(p, n, 0, a, TRUE)
        BY <2>1, PartFacts, Zenon
    <2>3. payload(p) = SubSeq(Reply(n), 0 + 1, a)
        BY <2>2, Zenon DEF PartIs
    <2> QED BY <2>1, <2>3
<1>5. add_fragment_data(p, a, y) = [p EXCEPT !.data = @ \o y, !.length = @ + Len(y)]
    <2>1. a = Len(payload(p))
        BY <1>2, <1>4
    <2> HIDE DEF p, y
    <2> QED BY <2>1 DEF add_fragment_data
<1>6. (Header \o x) \o y = Header \o z
    <2>1. Header \in Seq(Cells)
        BY HeaderCellsFacts
    <2> HIDE DEF x, y, z
    <2>2. x \in Seq(Cells) /\ y \in Seq(Cells)
        BY <1>2
    <2>3. (Header \o x) \o y = Header \o (x \o y)
        BY ONLY <2>1, <2>2, ConcatAssociative
    <2> QED BY <1>2, <2>3
<1> DEFINE q == questions[n]
           d == Header \o x
           e == Header \o z
           l == HeaderCells + a - 0
           m == HeaderCells + b - 0
           more1 == TRUE
<1>7. /\ p = Packet(n, q.dst, WanIp, q.proto, q.port, n, more1, 0, l, d)
      /\ Part(n, 0, b, TRUE) = Packet(n, q.dst, WanIp, q.proto, q.port, n, more1, 0, m, e)
    BY DEF Part
<1>8. d \o y = e
    BY <1>6
<1>9. l + Len(y) = m
    BY <1>2 DEF HeaderCells
<1> HIDE DEF p, q, d, e, l, m, x, y, z, more1
<1>10. Longer(p, y, Len(y))
           = Packet(n, q.dst, WanIp, q.proto, q.port, n, more1, 0, l + Len(y), d \o y)
    BY <1>7, PacketLonger
<1> QED BY <1>3, <1>5, <1>7, <1>8, <1>9, <1>10 DEF p, y, Longer

\* finalize: the whole answer.
LEMMA WholeFinalized ==
    ASSUME questions \in Seq(Packets), NEW n \in 1..Len(questions)
    PROVE  finalize(Part(n, 0, 6, TRUE)) = Part(n, 0, 6, FALSE)
<1> DEFINE q == questions[n]
           s == SubSeq(Reply(n), 1, 6)
           d == Header \o s
           l == HeaderCells + 6 - 0
           p == Part(n, 0, 6, TRUE)
           r == Part(n, 0, 6, FALSE)
           yes == TRUE
           no == FALSE
<1>1. s \in Seq(Cells)
    BY ReplyFacts, PartsJoin
<1>2. SubSeq(d, HeaderCells + 1, Len(d)) = s
    BY <1>1, PayloadOf
<1>3. /\ p = Packet(n, q.dst, WanIp, q.proto, q.port, n, yes, 0, l, d)
      /\ r = Packet(n, q.dst, WanIp, q.proto, q.port, n, no, 0, l, d)
    BY DEF Part
<1> HIDE DEF q, l, p, r, d, yes, no
<1>4. Whole(p, no, 0) = r
    BY <1>3, PacketWhole
<1>5. r.data = d /\ WithData(r, d) = r
    BY <1>3, PacketFields, PacketExcept
<1>6. as_bytes(r) = [r EXCEPT !.data = Header \o SubSeq(r.data, HeaderCells + 1, Len(r.data))]
    BY DEF as_bytes
<1>7. as_bytes(r) = r
    BY <1>2, <1>5, <1>6 DEF d, WithData
<1> QED BY <1>4, <1>7 DEF finalize, p, r, no, Whole

-----------------------------------------------------------------------------
(* Answers, as they are sent and as they are delivered. *)

\* A cell replaced behind the header.
LEMMA CellBehindHeader ==
    ASSUME NEW s \in Seq(Cells), NEW k \in 1..Len(s), NEW c \in Cells
    PROVE  [(Header \o s) EXCEPT ![5 + k] = c] = Header \o [s EXCEPT ![k] = c]
<1> DEFINE d == Header \o s
           t == [s EXCEPT ![k] = c]
           e == Header \o t
           x == [d EXCEPT ![5 + k] = c]
<1>1. Len(s) \in Nat /\ s \in [1..Len(s) -> Cells]
    OBVIOUS
<1>2. t \in [1..Len(s) -> Cells] /\ \A i \in 1..Len(s) : t[i] = IF i = k THEN c ELSE s[i]
    BY <1>1
<1>3. t \in Seq(Cells) /\ Len(t) = Len(s)
    <2> HIDE DEF t
    <2> QED BY <1>1, <1>2
<1> HIDE DEF t
<1>4. /\ d \in Seq(Cells) /\ Len(d) = 5 + Len(s) /\ \A i \in 1..Len(s) : d[5 + i] = s[i]
      /\ \A i \in 1..5 : d[i] = Header[i]
    BY PayloadOf
<1>5. /\ e \in Seq(Cells) /\ Len(e) = 5 + Len(s) /\ \A i \in 1..Len(s) : e[5 + i] = t[i]
      /\ \A i \in 1..5 : e[i] = Header[i]
    BY <1>3, PayloadOf
<1> HIDE DEF d, e
<1>6. /\ x \in Seq(Cells) /\ Len(x) = 5 + Len(s)
      /\ \A i \in 1..(5 + Len(s)) : x[i] = IF i = 5 + k THEN c ELSE d[i]
    <2>1. d \in [1..(5 + Len(s)) -> Cells] /\ 5 + Len(s) \in Nat
        BY <1>1, <1>4
    <2>2. /\ x \in [1..(5 + Len(s)) -> Cells]
          /\ \A i \in 1..(5 + Len(s)) : x[i] = IF i = 5 + k THEN c ELSE d[i]
        BY <2>1
    <2>3. PICK N \in Nat : N = 5 + Len(s)
        BY <2>1
    <2> HIDE DEF x
    <2>4. x \in [1..N -> Cells]
        BY <2>2, <2>3
    <2>5. x \in Seq(Cells) /\ Len(x) = N
        BY <2>4
    <2> QED BY <2>2, <2>3, <2>5
<1> HIDE DEF x
<1>7. ASSUME NEW i \in 1..(5 + Len(s)) PROVE x[i] = e[i]
    <2>1. CASE i <= 5
        <3>1. i \in 1..5 /\ i # 5 + k
            BY <1>1, <2>1
        <3> QED BY <1>4, <1>5, <1>6, <3>1
    <2>2. CASE i > 5
        <3>1. PICK j \in 1..Len(s) : i = 5 + j
            <4>1. i - 5 \in 1..Len(s) /\ i = 5 + (i - 5)
                BY <1>1, <2>2
            <4> QED BY <4>1
        <3>2. e[i] = t[j] /\ d[i] = s[j]
            BY <1>4, <1>5, <3>1
        <3>3. i = 5 + k <=> j = k
            BY <3>1
        <3> QED BY <1>2, <1>6, <3>1, <3>2, <3>3
    <2> QED BY <1>1, <2>1, <2>2
<1>8. x = e
    BY <1>5, <1>6, <1>7, SeqEqual
<1> QED BY <1>8 DEF x, d, e, t

\* A whole answer: NatTable::get finds the entry of its question and the checksum
\* is there.
LEMMA WholeFacts ==
    ASSUME questions \in Seq(Packets), NEW n \in 1..Len(questions), NEW w,
           w = Part(n, 0, 6, FALSE)
    PROVE  /\ ~Short(w) /\ NatKey(w) = EntryOf(questions[n])
           /\ Len(payload(w)) >= SumCell(w.proto) /\ w.proto = questions[n].proto /\ w.n = n
<1> DEFINE q == questions[n]
           s == Reply(n)
<1>1. /\ q.proto \in {"icmp", "tcp", "udp", "other"} /\ s \in Seq(Cells) /\ Len(s) = 6
      /\ s[KeyCell(q.proto)] = <<"key", q.port, 0>>
    BY ReplyFacts
<1>2. PartIs(w, n, 0, 6, FALSE)
    <2>1. 0 \in Nat /\ 6 \in Nat /\ 0 <= 6 /\ 6 <= 6
        OBVIOUS
    <2> QED BY <2>1, PartFacts, Zenon
<1>3. /\ payload(w) = SubSeq(s, 0 + 1, 6) /\ w.proto = q.proto /\ w.src = q.dst /\ w.n = n
      /\ w.port = q.port
    BY <1>2, Zenon DEF PartIs
<1>4. SubSeq(s, 1, 6) = s
    BY <1>1, PartsJoin
<1>5. /\ KeyCell(q.proto) \in Nat /\ SumCell(q.proto) \in Nat
      /\ KeyCell(q.proto) <= 6 /\ SumCell(q.proto) <= 6
    <2> HIDE DEF q
    <2> QED BY <1>1, CellFacts
<1> HIDE DEF q, s
<1>6. payload(w) = s
    <2>1. 0 + 1 = 1
        OBVIOUS
    <2> QED BY <1>3, <1>4, <2>1
<1>7. ~Short(w)
    <2>1. Len(payload(w)) = 6 /\ KeyCell(w.proto) \in Nat /\ KeyCell(w.proto) <= 6
        BY <1>1, <1>3, <1>5, <1>6
    <2>2. ~(Len(payload(w)) < KeyCell(w.proto))
        BY ONLY <2>1
    <2> QED BY <2>2, Zenon DEF Short
<1>8. NatKey(w) = EntryOf(q)
    BY <1>1, <1>3, <1>6 DEF NatKey, EntryOf, NatEntry
<1>9. Len(payload(w)) >= SumCell(w.proto)
    BY <1>1, <1>3, <1>5, <1>6
<1> QED BY <1>3, <1>7, <1>8, <1>9 DEF q

\* unmasquerade: the answer for its host, with the segment the host would have been
\* sent without NAT.
Unmasked(u, n, ip) ==
    /\ u \in Pieces /\ u.n = n /\ u.src = questions[n].dst /\ u.dst = ip
    /\ u.proto = questions[n].proto /\ u.port = questions[n].port /\ u.mf = FALSE
    /\ payload(u) = Segment(n, u.proto, u.port, ip) /\ u.length = Len(u.data)

\* unmasquerade gives it.
LEMMA UnmasqueradeFacts ==
    ASSUME questions \in Seq(Packets), NEW n \in 1..Len(questions), NEW ip \in Hosts \cup {WanIp}
    PROVE  Unmasked(unmasquerade(Part(n, 0, 6, FALSE), ip), n, ip)
<1> DEFINE w == Part(n, 0, 6, FALSE)
           proto == questions[n].proto
           port == questions[n].port
           src == questions[n].dst
           s == SubSeq(Reply(n), 0 + 1, 6)
           no == FALSE
           l == HeaderCells + 6 - 0
           d == Header \o s
           a == WithDst(w, ip)
           k == SumCell(proto)
           c == <<"sum", ip, 0>>
           t == Segment(n, proto, port, ip)
           e == Header \o t
           r == Packet(n, src, ip, proto, port, n, no, 0, l, e)
<1>1. /\ n \in Nat /\ proto \in {"icmp", "tcp", "udp", "other"} /\ port \in Ports
      /\ src \in Remotes /\ Reply(n) \in Seq(Cells) /\ Len(Reply(n)) = 6
    BY ReplyFacts
<1>2. s = Segment(n, proto, port, WanIp)
    BY <1>1, PartsJoin DEF Reply
<1>3. w = Packet(n, src, WanIp, proto, port, n, no, 0, l, d)
    BY DEF Part
<1>4. l = 11 /\ k \in 0..6 /\ c \in Cells
    <2>1. l = 11
        BY DEF HeaderCells
    <2>2. c \in Cells
        BY DEF Cells
    <2>3. k \in 0..6
        <3> HIDE DEF proto
        <3> QED BY <1>1, CellFacts
    <2> QED BY <2>1, <2>2, <2>3
<1>5. s \in Seq(Cells) /\ Len(s) = 6 /\ t \in Seq(Cells) /\ Len(t) = 6
    <2> HIDE DEF proto, port, s
    <2> QED BY <1>1, <1>2, SegmentFacts
<1>6. /\ k = 0 => s = t
      /\ k # 0 => [s EXCEPT ![k] = c] = t
    <2> HIDE DEF proto, port, s
    <2> QED BY <1>1, <1>2, SegmentSum
<1> HIDE DEF w, s, t, l, k, c, no, proto, port, src
<1>7. /\ d \in Seq(Cells) /\ SubSeq(d, HeaderCells + 1, Len(d)) = s
      /\ e \in Seq(Cells) /\ SubSeq(e, HeaderCells + 1, Len(e)) = t /\ Len(e) = 11
    <2>1. d \in Seq(Cells) /\ SubSeq(d, HeaderCells + 1, Len(d)) = s
        BY <1>5, PayloadOf
    <2>2. /\ e \in Seq(Cells) /\ SubSeq(e, HeaderCells + 1, Len(e)) = t
          /\ Len(e) = 5 + Len(t)
        BY <1>5, PayloadOf
    <2> HIDE DEF d, e
    <2>3. Len(e) = 11
        BY <1>5, <2>2
    <2> QED BY <2>1, <2>2, <2>3, Zenon
<1>8. k # 0 => [d EXCEPT ![5 + k] = c] = e
    <2> SUFFICES ASSUME k # 0 PROVE [d EXCEPT ![5 + k] = c] = e
        OBVIOUS
    <2>1. k \in 1..Len(s)
        BY <1>4, <1>5
    <2>2. [d EXCEPT ![5 + k] = c] = Header \o [s EXCEPT ![k] = c]
        BY <1>4, <1>5, <2>1, CellBehindHeader
    <2> QED BY <1>6, <2>2
<1>9. k = 0 => d = e
    BY <1>6
<1> HIDE DEF d, e
<1>10. a = Packet(n, src, ip, proto, port, n, no, 0, l, d)
    BY <1>3, PacketExcept
<1> HIDE DEF a
<1>11. /\ a.data = d /\ a.proto = proto /\ WithData(a, d) = a
    BY <1>10, PacketFields, PacketExcept
<1>12. as_bytes(a) = a
    <2>1. as_bytes(a) = [a EXCEPT !.data = Header \o SubSeq(a.data, HeaderCells + 1, Len(a.data))]
        BY DEF as_bytes
    <2> QED BY <1>7, <1>11, <2>1 DEF d, WithData
<1>13. fix_transport_checksum(a, ip) = r
    <2>1. CASE k = 0
        BY <1>9, <1>10, <1>11, <2>1 DEF fix_transport_checksum, k
    <2>2. CASE k # 0
        <3>1. WithCell(a, 5 + k, c)
                  = Packet(n, src, ip, proto, port, n, no, 0, l, [d EXCEPT ![5 + k] = c])
            BY <1>10, PacketCell
        <3>2. fix_transport_checksum(a, ip) = WithCell(a, 5 + k, c)
            BY <1>11, <2>2 DEF fix_transport_checksum, k, c, HeaderCells, WithCell
        <3> QED BY <1>8, <2>2, <3>1, <3>2
    <2> QED BY <2>1, <2>2
<1>14. unmasquerade(w, ip) = r
    BY <1>12, <1>13 DEF unmasquerade, a, WithDst
<1> HIDE DEF r
<1>15. /\ r.n = n /\ r.src = src /\ r.dst = ip /\ r.proto = proto /\ r.port = port
       /\ r.data = e /\ r.length = l /\ r.mf = no
    BY PacketFields DEF r
<1>16. no \in BOOLEAN
    BY DEF no
<1>17. r \in Pieces
    BY <1>1, <1>4, <1>7, <1>16 DEF r, Packet, Pieces
<1>18. payload(r) = Segment(n, proto, port, ip) /\ r.length = Len(r.data)
    BY <1>4, <1>7, <1>15 DEF payload, t
<1>19. r.mf = FALSE
    BY <1>15 DEF no
<1>20. Unmasked(r, n, ip)
    BY <1>15, <1>17, <1>18, <1>19 DEF Unmasked, proto, port, src
<1> QED BY <1>14, <1>20 DEF w

\* Where the fragments of an answer begin and end.
End(cut, i) == IF i = Len(cut) THEN PayloadCells ELSE cut[i + 1]
CutIs(cut) ==
    /\ cut \in Seq(Nat) /\ Len(cut) \in Nat /\ Len(cut) > 0 /\ cut[1] = 0
    /\ \A i \in 1..Len(cut) :
         /\ End(cut, i) \in Nat /\ cut[i] \in Nat /\ cut[i] < End(cut, i) /\ End(cut, i) <= 6
         /\ i < Len(cut) <=> End(cut, i) < 6

\* They begin at the start and follow each other to the end.
LEMMA CutFacts ==
    ASSUME NEW cut \in Cuts
    PROVE  CutIs(cut)
<1>1. cut \in {<<0>>, <<0, 2>>, <<0, 4>>, <<0, 2, 4>>}
    BY WanAssumption
<1>2. CASE cut = <<0>>
    BY <1>2 DEF CutIs, End, PayloadCells
<1>3. CASE cut = <<0, 2>>
    BY <1>3 DEF CutIs, End, PayloadCells
<1>4. CASE cut = <<0, 4>>
    BY <1>4 DEF CutIs, End, PayloadCells
<1>5. CASE cut = <<0, 2, 4>>
    BY <1>5 DEF CutIs, End, PayloadCells
<1> QED BY <1>1, <1>2, <1>3, <1>4, <1>5

\* A fragment is a packet.
LEMMA FragmentTyped ==
    ASSUME NEW q \in Packets, NEW a \in Nat, NEW b \in Nat, a <= b, b <= 6, NEW more \in BOOLEAN,
           NEW d, d = Header \o SubSeq(Segment(q.n, q.proto, q.port, q.src), a + 1, b)
    PROVE  Packet(q.n, q.dst, q.src, q.proto, q.port, q.n, more, a, HeaderCells + b - a, d)
               \in Pieces
<1> DEFINE n == q.n
           src == q.src
           dst == q.dst
           proto == q.proto
           port == q.port
           s == Segment(n, proto, port, src)
           t == SubSeq(s, a + 1, b)
           l == HeaderCells + b - a
<1>1. /\ n \in Nat /\ src \in Hosts \cup {WanIp} /\ dst \in Remotes
      /\ proto \in {"icmp", "tcp", "udp", "other"} /\ port \in Ports
    BY DEF Packets
<1> HIDE DEF n, src, dst, proto, port
<1>2. s \in Seq(Cells) /\ Len(s) = 6
    BY <1>1, SegmentFacts
<1> HIDE DEF s
<1>3. t \in Seq(Cells)
    BY <1>2, PartsJoin
<1> HIDE DEF t
<1>4. d = Header \o t
    BY DEF n, src, proto, port, s, t
<1>5. d \in Seq(Cells)
    BY <1>3, <1>4, PayloadOf
<1>6. l \in Nat
    BY DEF HeaderCells
<1> HIDE DEF l
<1>7. Packet(n, dst, src, proto, port, n, more, a, l, d) \in Pieces
    BY <1>1, <1>5, <1>6 DEF Packet, Pieces
<1> QED BY <1>7 DEF n, src, dst, proto, port, l

\* The fragments of an answer that has a number of its own.
LEMMA FragmentsFacts ==
    ASSUME NEW q \in Packets, NEW cut \in Cuts
    PROVE  /\ Fragments(q, q.n, cut) \in Seq(Pieces) /\ Len(Fragments(q, q.n, cut)) = Len(cut)
           /\ \A i \in 1..Len(cut) : Fragments(q, q.n, cut)[i] =
                Packet(q.n, q.dst, q.src, q.proto, q.port, q.n, i < Len(cut), cut[i],
                       HeaderCells + End(cut, i) - cut[i],
                       Header \o SubSeq(Segment(q.n, q.proto, q.port, q.src), cut[i] + 1,
                                        End(cut, i)))
<1> DEFINE F == Fragments(q, q.n, cut)
           d(i) == Header \o SubSeq(Segment(q.n, q.proto, q.port, q.src), cut[i] + 1, End(cut, i))
           p(i) == Packet(q.n, q.dst, q.src, q.proto, q.port, q.n, i < Len(cut), cut[i],
                          HeaderCells + End(cut, i) - cut[i], d(i))
<1>1. CutIs(cut)
    BY CutFacts
<1>2. F = [i \in 1..Len(cut) |-> p(i)]
    BY DEF Fragments, Packet, End
<1>3. ASSUME NEW i \in 1..Len(cut) PROVE p(i) \in Pieces
    <2> DEFINE more == i < Len(cut)
               a == cut[i]
               b == End(cut, i)
               e == d(i)
    <2>1. a \in Nat /\ b \in Nat /\ a <= b /\ b <= 6 /\ more \in BOOLEAN
        BY <1>1 DEF CutIs
    <2>2. e = Header \o SubSeq(Segment(q.n, q.proto, q.port, q.src), a + 1, b)
        OBVIOUS
    <2> HIDE DEF more, a, b, e
    <2>3. Packet(q.n, q.dst, q.src, q.proto, q.port, q.n, more, a, HeaderCells + b - a, e)
              \in Pieces
        BY <2>1, <2>2, FragmentTyped
    <2> QED BY <2>3 DEF more, a, b, e
<1> HIDE DEF p
<1>4. Len(cut) \in Nat
    BY <1>1 DEF CutIs
<1>5. F \in Seq(Pieces) /\ Len(F) = Len(cut)
    <2>1. PICK N \in Nat : N = Len(cut)
        BY <1>4
    <2>2. F = [i \in 1..N |-> p(i)] /\ \A i \in 1..N : p(i) \in Pieces
        BY <1>2, <1>3, <2>1
    <2>3. [i \in 1..N |-> p(i)] \in Seq(Pieces)
        BY <2>2
    <2> HIDE DEF F
    <2>4. F \in Seq(Pieces) /\ DOMAIN F = 1..N
        BY <2>2, <2>3
    <2>5. Len(F) = N
        BY <2>4
    <2> QED BY <2>1, <2>4, <2>5
<1>6. \A i \in 1..Len(cut) : F[i] = p(i)
    BY <1>2
<1> QED BY <1>5, <1>6 DEF F, p

\* A remote that answers through the tunnel: the fragments cover the segment.
LEMMA AnswerComes ==
    ASSUME questions \in Seq(Packets), NEW q \in Packets, IsMasked(q), link = "wireguard",
           NEW cut \in Cuts, NEW F, F = Fragments(q, q.n, cut)
    PROVE  /\ F \in Seq(Pieces) /\ F # <<>> /\ Len(F) \in Nat /\ F[1].off = 0
           /\ \A i \in 1..Len(F) :
                /\ IsPiece(F[i]) /\ F[i].n = q.n
                /\ To(F[i]) = IF i = Len(F) THEN PayloadCells ELSE F[i + 1].off
<1>1. CutIs(cut)
    BY CutFacts
<1>2. F \in Seq(Pieces) /\ Len(F) = Len(cut) /\ Len(cut) \in Nat
    BY <1>1, FragmentsFacts DEF CutIs
<1>3. ASSUME NEW i \in 1..Len(cut)
      PROVE  F[i] = Part(q.n, cut[i], End(cut, i), i < Len(cut))
    <2>1. F[i] = Packet(q.n, q.dst, q.src, q.proto, q.port, q.n, i < Len(cut), cut[i],
                        HeaderCells + End(cut, i) - cut[i],
                        Header \o SubSeq(Segment(q.n, q.proto, q.port, q.src), cut[i] + 1,
                                         End(cut, i)))
        BY FragmentsFacts
    <2>2. /\ q.dst = questions[q.n].dst /\ q.proto = questions[q.n].proto
          /\ q.port = questions[q.n].port /\ q.src = WanIp
        BY DEF IsMasked
    <2> QED BY <2>1, <2>2, Zenon DEF Part, Reply
<1>4. ASSUME NEW i \in 1..Len(cut)
      PROVE  /\ IsPiece(F[i]) /\ F[i].n = q.n /\ F[i].off = cut[i] /\ To(F[i]) = End(cut, i)
    <2> DEFINE n == q.n
               a == cut[i]
               b == End(cut, i)
               more == i < Len(cut)
    <2>1. /\ a \in Nat /\ b \in Nat /\ a < b /\ a <= b /\ b <= 6 /\ more \in BOOLEAN
          /\ more = (b < PayloadCells)
        BY <1>1 DEF CutIs, PayloadCells
    <2>2. n \in 1..Len(questions)
        BY DEF IsMasked
    <2>3. F[i] = Part(n, a, b, more)
        BY <1>3
    <2> HIDE DEF n, a, b, more
    <2>4. F[i] \in Pieces
        BY <2>1, <2>2, <2>3, PartTyped
    <2>5. PartIs(F[i], n, a, b, more)
        BY <2>1, <2>2, <2>3, PartFacts
    <2>6. F[i].n = n /\ F[i].off = a /\ To(F[i]) = b
        BY <2>5, Zenon DEF PartIs
    <2>7. F[i] = Part(F[i].n, F[i].off, To(F[i]), To(F[i]) < PayloadCells)
        BY <2>1, <2>3, <2>6, Zenon
    <2>8. F[i].off < To(F[i]) /\ To(F[i]) <= PayloadCells
        BY <2>1, <2>6 DEF PayloadCells
    <2>9. IsPiece(F[i])
        BY <2>4, <2>7, <2>8 DEF IsPiece
    <2> QED BY <2>6, <2>9 DEF n, a, b
<1>5. F # <<>> /\ F[1].off = 0
    <2>1. 1 \in 1..Len(cut) /\ cut[1] = 0
        BY <1>1 DEF CutIs
    <2>2. F[1].off = 0
        BY <1>4, <2>1
    <2> QED BY <1>2, <2>1, <2>2
<1>6. ASSUME NEW i \in 1..Len(cut)
      PROVE  To(F[i]) = IF i = Len(F) THEN PayloadCells ELSE F[i + 1].off
    <2>1. CASE i = Len(cut)
        BY <1>2, <1>4, <2>1 DEF End
    <2>2. CASE i # Len(cut)
        <3>1. i + 1 \in 1..Len(cut)
            BY <1>2, <2>2
        <3>2. F[i + 1].off = cut[i + 1]
            BY <1>4, <3>1
        <3>3. To(F[i]) = cut[i + 1]
            BY <1>4, <2>2 DEF End
        <3> QED BY <1>2, <2>2, <3>2, <3>3
    <2> QED BY <2>1, <2>2
<1> QED BY <1>2, <1>4, <1>5, <1>6

-----------------------------------------------------------------------------
(* The way out, without mishap: what is asked, masqueraded and noted. *)

\* masquerade changes the source, and the data.
LEMMA MasqueradeFields ==
    ASSUME NEW p \in Packets, NEW m, m = masquerade(p, WanIp)
    PROVE  m.n = p.n /\ m.src = WanIp /\ m.dst = p.dst /\ m.proto = p.proto /\ m.port = p.port
<1> DEFINE a == [p EXCEPT !.src = WanIp]
           b == as_bytes(a)
           c == fix_transport_checksum(b, WanIp)
<1>1. /\ a \in Packets /\ a.n = p.n /\ a.src = WanIp /\ a.dst = p.dst /\ a.proto = p.proto
      /\ a.port = p.port
    BY DEF Packets
<1> HIDE DEF a
<1>2. b \in Packets
    BY <1>1, AsBytesFacts
<1>3. b.n = a.n /\ b.src = a.src /\ b.dst = a.dst /\ b.proto = a.proto /\ b.port = a.port
    <2> DEFINE d == Header \o SubSeq(a.data, HeaderCells + 1, Len(a.data))
    <2>1. b = [a EXCEPT !.data = d]
        BY DEF as_bytes
    <2> HIDE DEF d, b
    <2> QED BY <1>1, <2>1 DEF Packets
<1> HIDE DEF b
<1>4. c.n = b.n /\ c.src = b.src /\ c.dst = b.dst /\ c.proto = b.proto /\ c.port = b.port
    <2>1. CASE SumCell(b.proto) = 0
        BY <2>1 DEF fix_transport_checksum
    <2>2. CASE SumCell(b.proto) # 0
        <3> DEFINE k == HeaderCells + SumCell(b.proto)
                   x == <<"sum", WanIp, 0>>
                   d == [b.data EXCEPT ![k] = x]
        <3>1. c = [b EXCEPT !.data[k] = x]
            BY <2>2 DEF fix_transport_checksum
        <3>2. [b EXCEPT !.data[k] = x] = [b EXCEPT !.data = d]
            OBVIOUS
        <3> HIDE DEF d, c
        <3>3. c = [b EXCEPT !.data = d]
            BY <3>1, <3>2
        <3> QED BY <1>2, <3>3 DEF Packets
    <2> QED BY <2>1, <2>2
<1>5. m = c
    BY DEF masquerade, a, b
<1> HIDE DEF c
<1> QED BY <1>1, <1>3, <1>4, <1>5

\* NatTable::insert notes the host under the entry of its question.
LEMMA InsertFacts ==
    ASSUME questions \in Seq(Packets), NEW i \in 1..Len(questions), IsAsked(i), NEW table
    PROVE  /\ questions[i].proto = "other" => insert(table, questions[i]) = table
           /\ questions[i].proto # "other" =>
                insert(table, questions[i]) =
                    [e \in DOMAIN table \cup {EntryOf(questions[i])} |->
                        IF e = EntryOf(questions[i]) THEN questions[i].src ELSE table[e]]
<1> DEFINE q == questions[i]
           proto == q.proto
           port == q.port
           src == q.src
           s == Segment(i, proto, port, src)
<1>1. /\ i \in Nat /\ proto \in {"icmp", "tcp", "udp", "other"} /\ port \in Ports
      /\ src \in Hosts \cup {WanIp}
    <2>1. q \in Packets /\ i \in Nat
        OBVIOUS
    <2> QED BY <2>1 DEF Packets
<1>2. q.data = Header \o s
    BY DEF IsAsked
<1>3. s \in Seq(Cells) /\ s[KeyCell(proto)] = <<"key", port, 0>>
    <2> HIDE DEF proto, port, src
    <2> QED BY <1>1, SegmentFacts
<1> HIDE DEF s
<1>4. payload(q) = s
    <2>1. SubSeq(Header \o s, HeaderCells + 1, Len(Header \o s)) = s
        BY <1>3, PayloadOf
    <2> QED BY <1>2, <2>1 DEF payload
<1>5. NatEntry(q.proto, q.dst, payload(q)[KeyCell(q.proto)]) = EntryOf(q)
    BY <1>3, <1>4 DEF NatEntry, EntryOf
<1> HIDE DEF q
<1>6. /\ q.proto = "other" => insert(table, q) = table
      /\ q.proto # "other" =>
           insert(table, q) = [e \in DOMAIN table \cup {EntryOf(q)} |->
                                  IF e = EntryOf(q) THEN q.src ELSE table[e]]
    BY <1>5, Zenon DEF insert
<1> QED BY <1>6 DEF q

\* The next question that is noted is the last of its flow.
LEMMA NotedNext ==
    ASSUME questions \in Seq(Packets), NEW s \in Nat, s + 1 \in 1..Len(questions),
           IsAsked(s + 1), NEW table, NotedUpto(table, s)
    PROVE  NotedUpto(insert(table, questions[s + 1]), s + 1)
<1> DEFINE q == questions[s + 1]
           new == insert(table, q)
<1>1. \A i \in 1..(s + 1) : i \in 1..s \/ i = s + 1
    OBVIOUS
<1>2. s + 1 \in 1..(s + 1) /\ \A i \in 1..s : i \in 1..(s + 1)
    OBVIOUS
<1>3. \A i \in 1..s : \A j \in (i + 1)..(s + 1) : j \in (i + 1)..s \/ j = s + 1
    OBVIOUS
<1>4. \A j \in ((s + 1) + 1)..(s + 1) : FALSE
    OBVIOUS
<1>5. CASE q.proto = "other"
    <2>1. new = table
        BY <1>5, InsertFacts
    <2>2. ASSUME NEW i \in 1..(s + 1), questions[i].proto # "other"
          PROVE  EntryOf(questions[i]) \in DOMAIN new
        BY <1>1, <1>5, <2>1, <2>2 DEF NotedUpto
    <2>3. ASSUME NEW e \in DOMAIN new
          PROVE  \E i \in 1..(s + 1) :
                    /\ EntryOf(questions[i]) = e /\ new[e] = questions[i].src
                    /\ questions[i].proto # "other"
                    /\ \A j \in (i + 1)..(s + 1) : EntryOf(questions[j]) # e
        <3>1. PICK i \in 1..s :
                    /\ EntryOf(questions[i]) = e /\ table[e] = questions[i].src
                    /\ questions[i].proto # "other"
                    /\ \A j \in (i + 1)..s : EntryOf(questions[j]) # e
            BY <2>1, <2>3 DEF NotedUpto
        <3>2. EntryOf(q) # e
            BY <1>5, <3>1 DEF EntryOf, NatEntry
        <3> QED BY <1>2, <1>3, <2>1, <3>1, <3>2
    <2> QED BY <2>2, <2>3 DEF NotedUpto
<1>6. CASE q.proto # "other"
    <2>1. new = [e \in DOMAIN table \cup {EntryOf(q)} |->
                    IF e = EntryOf(q) THEN q.src ELSE table[e]]
        BY <1>6, InsertFacts
    <2> HIDE DEF new
    <2>2. ASSUME NEW i \in 1..(s + 1), questions[i].proto # "other"
          PROVE  EntryOf(questions[i]) \in DOMAIN new
        BY <1>1, <2>1, <2>2 DEF NotedUpto
    <2>3. ASSUME NEW e \in DOMAIN new
          PROVE  \E i \in 1..(s + 1) :
                    /\ EntryOf(questions[i]) = e /\ new[e] = questions[i].src
                    /\ questions[i].proto # "other"
                    /\ \A j \in (i + 1)..(s + 1) : EntryOf(questions[j]) # e
        <3>1. CASE e = EntryOf(q)
            <4>1. new[e] = q.src
                BY <2>1, <2>3, <3>1
            <4> QED BY <1>2, <1>4, <1>6, <3>1, <4>1
        <3>2. CASE e # EntryOf(q)
            <4>1. e \in DOMAIN table /\ new[e] = table[e]
                BY <2>1, <2>3, <3>2
            <4>2. PICK i \in 1..s :
                        /\ EntryOf(questions[i]) = e /\ table[e] = questions[i].src
                        /\ questions[i].proto # "other"
                        /\ \A j \in (i + 1)..s : EntryOf(questions[j]) # e
                BY <4>1 DEF NotedUpto
            <4> QED BY <1>2, <1>3, <3>2, <4>1, <4>2
        <3> QED BY <3>1, <3>2
    <2>4. NotedUpto(new, s + 1)
        BY <2>2, <2>3 DEF NotedUpto
    <2> QED BY <2>4 DEF new
<1> QED BY <1>5, <1>6

\* Only a mishap is one: without it the steps that lose or repeat are not taken.
LEMMA NoMishap ==
    ASSUME [Next]_vars, mishaps' = {}
    PROVE  /\ mishaps = {}
           /\ \/ \E f \in Flows : Send(f) \/ WriteUdp(f)
              \/ StartDrain \/ WriteTap \/ Encapsulate \/ Flush
              \/ Wake \/ Timer \/ StartRead \/ EndRead \/ UNCHANGED vars
              \/ ReadResponse \/ handle_tun_result \/ ReadUdp \/ ReadTap \/ Respond
              \/ \E q \in ToSet(wire), cut \in Cuts : Answer(q, cut)
              \/ Network
<1>1. ASSUME NEW k, Mishap(k) PROVE FALSE
    BY <1>1 DEF Mishap
<1>2. ~SendFails /\ ~RecvFails /\ ~Expire /\ ~LoseHello
    BY <1>1 DEF SendFails, RecvFails, Expire, LoseHello
<1>3. mishaps = {}
    <2> USE DEF netVars
    <2>1. ASSUME NEW f \in Flows, Send(f) \/ WriteUdp(f) PROVE mishaps = {}
        BY <2>1, <1>1 DEF Send, WriteUdp
    <2>2. CASE StartDrain \/ WriteTap \/ Encapsulate \/ Flush
        BY <2>2, <1>1 DEF StartDrain, WriteTap, Encapsulate, Flush
    <2>3. CASE Wake \/ Timer \/ StartRead \/ EndRead \/ UNCHANGED vars
        BY <2>3 DEF Wake, Timer, StartRead, EndRead, vars
    <2>4. CASE ReadResponse \/ handle_tun_result \/ ReadUdp \/ ReadTap \/ Respond
        BY <2>4 DEF ReadResponse, handle_tun_result, ReadUdp, ReadTap, Respond
    <2>5. ASSUME NEW q, NEW cut, Answer(q, cut) PROVE mishaps = {}
        BY <2>5, <1>1 DEF Answer
    <2>6. CASE Network
        BY <2>6, <1>1 DEF Network, Arrive, Repeat, Overtake, Lose, Damage
    <2> QED BY <1>2, <2>1, <2>2, <2>3, <2>4, <2>5, <2>6 DEF Next, Thread
<1> QED BY <1>2, <1>3 DEF Next, Thread

\* Questions stay what they are, and so does what depends on them.
QuestionsKept ==
    link' = link /\ \A i \in 1..Len(questions) :
                       i \in 1..Len(questions') /\ questions'[i] = questions[i]

\* What is said of a packet that is on its way out stays true.
LEMMA KeptFacts ==
    ASSUME QuestionsKept
    PROVE  /\ \A p : IsQuestion(p) => IsQuestion(p)'
           /\ \A p : IsMasked(p) => IsMasked(p)'
           /\ \A i \in 1..Len(questions) : IsAsked(i) => IsAsked(i)'
  BY DEF QuestionsKept, IsQuestion, IsMasked, IsAsked

\* What is noted of questions that were asked stays.
LEMMA NotedKept ==
    ASSUME QuestionsKept, NEW table, NEW s \in Nat, Len(questions) \in Nat, s <= Len(questions),
           NotedUpto(table, s)
    PROVE  NotedUpto(table, s)'
<1>1. \A i \in 1..s : questions'[i] = questions[i]
    BY DEF QuestionsKept
<1>2. \A i \in 1..s : \A j \in (i + 1)..s : j \in 1..s
    OBVIOUS
<1>3. \A i \in 1..s : questions'[i].proto # "other" => EntryOf(questions'[i]) \in DOMAIN table
    BY <1>1 DEF NotedUpto
<1>4. ASSUME NEW e \in DOMAIN table
      PROVE  \E i \in 1..s :
                /\ EntryOf(questions'[i]) = e /\ table[e] = questions'[i].src
                /\ questions'[i].proto # "other"
                /\ \A j \in (i + 1)..s : EntryOf(questions'[j]) # e
    <2>1. PICK i \in 1..s :
                /\ EntryOf(questions[i]) = e /\ table[e] = questions[i].src
                /\ questions[i].proto # "other"
                /\ \A j \in (i + 1)..s : EntryOf(questions[j]) # e
        BY DEF NotedUpto
    <2> QED BY <1>1, <1>2, <2>1
<1> QED BY <1>3, <1>4 DEF NotedUpto

\* What is known of the packets on their way out, from the stages.
LEMMA OutFacts ==
    ASSUME IInv, BackInv, mishaps = {}
    PROVE  /\ wire \in Seq(Packets) /\ batch \in Seq(Packets) /\ rx \in Seq(Packets)
           /\ questions \in Seq(Packets) /\ tun \in Tunnels /\ tun.queue \in Seq(Packets)
           /\ Len(wire) \in Nat /\ Len(tun.queue) \in Nat /\ Len(batch) \in Nat
           /\ Len(rx) \in Nat /\ Len(questions) \in Nat
           /\ Len(wire) + Len(tun.queue) + Len(batch) <= Len(questions)
           /\ \A i \in 1..Len(batch) : batch[i].n = Len(wire) + Len(tun.queue) + i
           /\ \A i \in 1..Len(wire) : wire[i].n = i
           /\ \A i \in 1..Len(tun.queue) : tun.queue[i].n = Len(wire) + i
           /\ pc # "dead" /\ Asked /\ BackTypes
           /\ link = "wireguard" => Noted /\ Carried /\ Received
<1>1. pc # "dead" /\ Asked /\ BackTypes /\ (link = "wireguard" => Noted /\ Carried /\ Received)
    BY DEF BackInv
<1>2. /\ wire \in Seq(Packets) /\ batch \in Seq(Packets) /\ rx \in Seq(Packets)
      /\ questions \in Seq(Packets) /\ tun \in Tunnels /\ tun.queue \in Seq(Packets)
    BY DEF IInv, OutTypes, Tunnels
<1>3. /\ Len(wire) \in Nat /\ Len(tun.queue) \in Nat /\ Len(batch) \in Nat
      /\ Len(rx) \in Nat /\ Len(questions) \in Nat
    BY <1>2
<1>4. InStages(wire, tun.queue, batch, rx, Len(questions))
    BY <1>1 DEF IInv, StagesNumbered, Unharmed
<1>5. /\ Len(wire) + Len(tun.queue) + Len(batch) + Len(rx) = Len(questions)
      /\ \A i \in 1..Len(batch) : batch[i].n = Len(wire) + Len(tun.queue) + i
      /\ \A i \in 1..Len(wire) : wire[i].n = 0 + i
      /\ \A i \in 1..Len(tun.queue) : tun.queue[i].n = Len(wire) + i
    BY <1>4 DEF InStages, NumberedFrom
<1>6. Len(wire) + Len(tun.queue) + Len(batch) <= Len(questions)
    BY <1>3, <1>5
<1>7. \A i \in 1..Len(wire) : wire[i].n = i
    BY <1>3, <1>5
<1> QED BY <1>1, <1>2, <1>3, <1>5, <1>6, <1>7

\* What a step on the way out has to keep.
OutKept ==
    /\ QuestionsKept /\ Len(wire) <= Len(wire') /\ Len(wire') \in Nat /\ Asked'
    /\ link = "wireguard" => Noted'

\* Another question.
LEMMA QuestionAsked ==
    ASSUME NEW f \in Flows, questions \in Seq(Packets), Len(questions) < MaxAsk, NEW q,
           q = Question(f), NEW k, k = Len(questions) + 1,
           questions' = Append(questions, q), link' = link
    PROVE  /\ QuestionsKept /\ Len(questions') = k /\ Len(questions') <= MaxAsk
           /\ IsAsked(k)' /\ IsQuestion(q)' /\ q \in Packets
<1>1. q \in Packets /\ q.n = k
    BY QuestionFacts
<1>2. q.src \in Hosts /\ q.data = Header \o Segment(k, q.proto, q.port, q.src)
    <2>1. /\ q.src = f.host /\ q.proto = f.proto /\ q.port = f.port
          /\ q.data = Header \o Segment(k, f.proto, f.port, f.host)
        BY DEF Question
    <2> QED BY <2>1, WanAssumption
<1>3. Len(questions) \in Nat /\ MaxAsk \in Nat /\ k \in Nat
    BY WanAssumption
<1>4. /\ Len(questions') = k /\ questions'[k] = q
      /\ \A i \in 1..(k - 1) : questions'[i] = questions[i]
    BY <1>1, <1>3
<1>5. k \in 1..Len(questions') /\ Len(questions') <= MaxAsk
    BY <1>3, <1>4
<1>6. QuestionsKept
    BY <1>3, <1>4 DEF QuestionsKept
<1>7. IsAsked(k)'
    BY <1>1, <1>2, <1>4 DEF IsAsked
<1>8. IsQuestion(q)'
    BY <1>1, <1>4, <1>5 DEF IsQuestion
<1> QED BY <1>1, <1>4, <1>5, <1>6, <1>7, <1>8

\* The questions that were asked, with one more.
LEMMA AllAsked ==
    ASSUME questions \in Seq(Packets), QuestionsKept, NEW k, k = Len(questions) + 1, IsAsked(k)',
           Len(questions') = k, \A i \in 1..Len(questions) : IsAsked(i)
    PROVE  (\A i \in 1..Len(questions) : IsAsked(i))'
<1>1. \A i \in 1..Len(questions') : i \in 1..Len(questions) \/ i = k
    OBVIOUS
<1>2. ASSUME NEW i \in 1..Len(questions') PROVE IsAsked(i)'
    BY <1>1, KeptFacts
<1> QED BY <1>2

\* A question that has to be masqueraded goes to the channel,
LEMMA SendOut ==
    ASSUME IInv, BackInv, mishaps = {}, NEW f \in Flows, Send(f)
    PROVE  OutKept
<1>1. PICK q, k, t, s : /\ q = Question(f) /\ k = Len(questions) + 1 /\ t = nat
                        /\ s = Len(wire) + Len(tun.queue)
    OBVIOUS
<1>2. /\ questions' = Append(questions, q) /\ rx' = Append(rx, q)
      /\ Len(questions) < MaxAsk /\ UNCHANGED <<link, batch, tun, nat, wire>>
    BY <1>1 DEF Send, threadVars, outVars
<1>3. /\ questions \in Seq(Packets) /\ rx \in Seq(Packets) /\ Asked /\ tun.queue \in Seq(Packets)
      /\ link = "wireguard" => Noted
      /\ Len(wire) \in Nat /\ Len(tun.queue) \in Nat /\ Len(batch) \in Nat
      /\ Len(questions) \in Nat /\ Len(wire) + Len(tun.queue) + Len(batch) <= Len(questions)
    BY OutFacts
<1>4. /\ QuestionsKept /\ Len(questions') = k /\ Len(questions') <= MaxAsk
      /\ IsAsked(k)' /\ IsQuestion(q)' /\ q \in Packets
    BY <1>1, <1>2, <1>3, QuestionAsked
<1>5. Asked'
    <2>1. (\A i \in 1..Len(questions) : IsAsked(i))'
        BY <1>1, <1>3, <1>4, AllAsked DEF Asked
    <2>2. \A i \in 1..Len(rx') : rx'[i] = q \/ (i \in 1..Len(rx) /\ rx'[i] = rx[i])
        BY <1>2, <1>3, <1>4
    <2>3. (\A i \in 1..Len(rx) : IsQuestion(rx[i]))'
        BY <1>3, <1>4, <2>2, KeptFacts DEF Asked
    <2>4. /\ \A i \in 1..Len(batch) : IsQuestion(batch[i])
          /\ \A i \in 1..Len(tun.queue) : IsMasked(tun.queue[i])
          /\ \A i \in 1..Len(wire) : IsMasked(wire[i])
        BY <1>3 DEF Asked
    <2>5. /\ (\A i \in 1..Len(batch) : IsQuestion(batch[i]))'
          /\ (\A i \in 1..Len(tun.queue) : IsMasked(tun.queue[i]))'
          /\ (\A i \in 1..Len(wire) : IsMasked(wire[i]))'
        BY <1>2, <1>4, <2>4, KeptFacts
    <2> QED BY <1>4, <2>1, <2>3, <2>5 DEF Asked
<1>6. link = "wireguard" => Noted'
    <2>1. s \in Nat /\ s <= Len(questions)
        BY <1>1, <1>3
    <2>2. link = "wireguard" => NotedUpto(t, s)
        BY <1>1, <1>3 DEF Noted
    <2>3. link = "wireguard" => NotedUpto(t, s)'
        BY <1>3, <1>4, <2>1, <2>2, NotedKept
    <2>4. t = nat' /\ s = Len(wire') + Len(tun'.queue)
        BY <1>1, <1>2
    <2> QED BY <2>3, <2>4 DEF Noted
<1>7. Len(wire) <= Len(wire') /\ Len(wire') \in Nat
    BY <1>2, <1>3
<1> QED BY <1>4, <1>5, <1>6, <1>7 DEF OutKept

\* ... and one that is not, to the wire.
LEMMA WriteUdpOut ==
    ASSUME IInv, BackInv, mishaps = {}, mishaps' = {}, NEW f \in Flows, WriteUdp(f)
    PROVE  OutKept
<1>1. PICK q, k : q = Question(f) /\ k = Len(questions) + 1
    OBVIOUS
<1>2. /\ questions' = Append(questions, q) /\ wire' = Append(wire, q)
      /\ Len(questions) < MaxAsk /\ link = "udp" /\ UNCHANGED <<link, batch, rx, tun>>
    <2>1. pc # "dead"
        BY OutFacts
    <2> QED BY <1>1, <2>1 DEF WriteUdp, threadVars, Mishap
<1>3. /\ questions \in Seq(Packets) /\ wire \in Seq(Packets) /\ Asked
      /\ Len(wire) \in Nat /\ Len(questions) \in Nat
    BY OutFacts
<1>4. /\ QuestionsKept /\ Len(questions') = k /\ Len(questions') <= MaxAsk
      /\ IsAsked(k)' /\ IsQuestion(q)' /\ q \in Packets
    BY <1>1, <1>2, <1>3, QuestionAsked
<1>5. IsMasked(q)'
    BY <1>2, <1>4 DEF IsQuestion, IsMasked
<1>6. Asked'
    <2>1. (\A i \in 1..Len(questions) : IsAsked(i))'
        BY <1>1, <1>3, <1>4, AllAsked DEF Asked
    <2>2. \A i \in 1..Len(wire') : wire'[i] = q \/ (i \in 1..Len(wire) /\ wire'[i] = wire[i])
        BY <1>2, <1>3, <1>4
    <2>3. (\A i \in 1..Len(wire) : IsMasked(wire[i]))'
        BY <1>3, <1>4, <1>5, <2>2, KeptFacts DEF Asked
    <2>4. /\ \A i \in 1..Len(batch) : IsQuestion(batch[i])
          /\ \A i \in 1..Len(tun.queue) : IsMasked(tun.queue[i])
          /\ \A i \in 1..Len(rx) : IsQuestion(rx[i])
        BY <1>3 DEF Asked
    <2>5. /\ (\A i \in 1..Len(batch) : IsQuestion(batch[i]))'
          /\ (\A i \in 1..Len(tun.queue) : IsMasked(tun.queue[i]))'
          /\ (\A i \in 1..Len(rx) : IsQuestion(rx[i]))'
        BY <1>2, <1>4, <2>4, KeptFacts
    <2> QED BY <1>4, <2>1, <2>3, <2>5 DEF Asked
<1>7. Len(wire) <= Len(wire') /\ Len(wire') \in Nat
    BY <1>2, <1>3, <1>4
<1> QED BY <1>2, <1>4, <1>6, <1>7 DEF OutKept

\* Without a question being asked, what is known of the questions stays.
LEMMA SameQuestions ==
    ASSUME UNCHANGED <<link, questions>>
    PROVE  /\ QuestionsKept
           /\ \A p : IsQuestion(p) => IsQuestion(p)'
           /\ \A p : IsMasked(p) => IsMasked(p)'
           /\ \A i : IsAsked(i) => IsAsked(i)'
           /\ \A table, s : NotedUpto(table, s) => NotedUpto(table, s)'
  BY DEF QuestionsKept, IsQuestion, IsMasked, IsAsked, NotedUpto

\* The way out when nothing moves on it.
LEMMA SameOut ==
    ASSUME IInv, BackInv, mishaps = {}, UNCHANGED <<link, questions, rx, batch, wire, nat>>,
           tun'.queue = tun.queue
    PROVE  OutKept
<1>1. Asked /\ (link = "wireguard" => Noted) /\ Len(wire) \in Nat
    BY OutFacts
<1>2. QuestionsKept
    BY SameQuestions
<1>3. Asked'
    BY <1>1, SameQuestions DEF Asked
<1>4. link = "wireguard" => Noted'
    BY <1>1, SameQuestions DEF Noted
<1> QED BY <1>1, <1>2, <1>3, <1>4 DEF OutKept

\* The channel is drained.
LEMMA StartDrainOut ==
    ASSUME IInv, BackInv, mishaps = {}, StartDrain
    PROVE  OutKept
<1>1. batch' = rx /\ rx' = <<>> /\ UNCHANGED <<link, questions, tun, nat, wire>>
    BY DEF StartDrain, outVars
<1>2. Asked /\ (link = "wireguard" => Noted) /\ Len(wire) \in Nat
    BY OutFacts
<1>3. Asked'
    BY <1>1, <1>2, SameQuestions DEF Asked
<1>4. link = "wireguard" => Noted'
    BY <1>1, <1>2, SameQuestions DEF Noted
<1> QED BY <1>1, <1>2, <1>3, <1>4, SameQuestions DEF OutKept

\* Of a sequence that is not empty, the rest.
LEMMA TailFacts ==
    ASSUME NEW T, NEW s \in Seq(T), s # <<>>
    PROVE  /\ Head(s) = s[1] /\ Head(s) \in T /\ 1 \in 1..Len(s) /\ Tail(s) \in Seq(T)
           /\ Len(Tail(s)) = Len(s) - 1 /\ Len(s) \in Nat \ {0}
           /\ \A i \in 1..Len(Tail(s)) : i + 1 \in 1..Len(s) /\ Tail(s)[i] = s[i + 1]
  OBVIOUS

\* ... and with one more at the end.
LEMMA AppendFacts ==
    ASSUME NEW T, NEW s \in Seq(T), NEW x \in T
    PROVE  /\ Append(s, x) \in Seq(T) /\ Len(Append(s, x)) = Len(s) + 1 /\ Len(s) \in Nat
           /\ Append(s, x)[Len(s) + 1] = x
           /\ \A i \in 1..Len(s) : Append(s, x)[i] = s[i]
           /\ \A i \in 1..Len(Append(s, x)) : i \in 1..Len(s) \/ i = Len(s) + 1
  OBVIOUS

\* tap writes a question as it is.
LEMMA WriteTapOut ==
    ASSUME IInv, BackInv, mishaps = {}, mishaps' = {}, WriteTap
    PROVE  OutKept
<1>1. /\ link = "tap" /\ pc = "drain" /\ batch' = Tail(batch)
      /\ wire' = Append(wire, Head(batch)) /\ UNCHANGED <<link, rx, questions, tun>>
    BY DEF WriteTap, Mishap, handleVars
<1>2. Asked /\ wire \in Seq(Packets) /\ batch \in Seq(Packets)
    BY OutFacts
<1>3. batch # <<>>
    BY <1>1 DEF IInv, HeldForAReason
<1> DEFINE h == Head(batch)
<1>4. IsQuestion(h) /\ h \in Packets
    BY <1>2, <1>3, TailFacts DEF Asked
<1>5. IsMasked(h)
    BY <1>1, <1>4 DEF IsQuestion, IsMasked
<1> HIDE DEF h
<1>6. \A i \in 1..Len(wire') : wire'[i] = h \/ (i \in 1..Len(wire) /\ wire'[i] = wire[i])
    BY <1>1, <1>2, <1>4, AppendFacts DEF h
<1>7. \A i \in 1..Len(wire') : IsMasked(wire'[i])
    BY <1>2, <1>5, <1>6 DEF Asked
<1>8. \A i \in 1..Len(batch') : IsQuestion(batch'[i])
    BY <1>1, <1>2, <1>3, TailFacts DEF Asked
<1>9. Asked'
    BY <1>1, <1>2, <1>7, <1>8, SameQuestions DEF Asked
<1>10. Len(wire) <= Len(wire') /\ Len(wire') \in Nat
    BY <1>1, <1>2, <1>4, AppendFacts DEF h
<1> QED BY <1>1, <1>9, <1>10, SameQuestions DEF OutKept

\* wireguard notes who asked, and masquerades.
LEMMA EncapsulateOut ==
    ASSUME IInv, BackInv, mishaps = {}, Encapsulate
    PROVE  OutKept
<1>1. /\ link = "wireguard" /\ pc = "drain" /\ batch' = Tail(batch)
      /\ nat' = insert(nat, Head(batch)) /\ encapsulate(masquerade(Head(batch), WanIp))
      /\ UNCHANGED <<link, rx, questions>>
    BY DEF Encapsulate, handleVars
<1>2. /\ Asked /\ Noted /\ wire \in Seq(Packets) /\ batch \in Seq(Packets) /\ tun \in Tunnels
      /\ questions \in Seq(Packets) /\ tun.queue \in Seq(Packets)
      /\ Len(wire) \in Nat /\ Len(tun.queue) \in Nat /\ Len(batch) \in Nat
      /\ Len(questions) \in Nat /\ Len(wire) + Len(tun.queue) + Len(batch) <= Len(questions)
      /\ \A i \in 1..Len(batch) : batch[i].n = Len(wire) + Len(tun.queue) + i
    BY <1>1, OutFacts
<1>3. batch # <<>>
    BY <1>1 DEF IInv, HeldForAReason
<1> DEFINE h == Head(batch)
           m == masquerade(h, WanIp)
           s == Len(wire) + Len(tun.queue)
<1>4. IsQuestion(h) /\ h \in Packets /\ h.n = s + 1 /\ 1 <= Len(batch)
    BY <1>2, <1>3, TailFacts DEF Asked
<1>5. s \in Nat /\ s + 1 \in 1..Len(questions) /\ h = questions[s + 1] /\ IsAsked(s + 1)
    BY <1>2, <1>4 DEF IsQuestion, Asked
<1>6. NotedUpto(nat', s + 1)
    <2>1. NotedUpto(nat, s)
        BY <1>2 DEF Noted
    <2> HIDE DEF s, h
    <2>2. NotedUpto(insert(nat, questions[s + 1]), s + 1)
        BY <1>2, <1>5, <2>1, NotedNext
    <2> QED BY <1>1, <1>5, <2>2 DEF h
<1> HIDE DEF h, m
<1>7. m \in Packets /\ IsMasked(m)
    <2>1. m.n = h.n /\ m.src = WanIp /\ m.dst = h.dst /\ m.proto = h.proto /\ m.port = h.port
        BY <1>4, MasqueradeFields DEF m
    <2>2. m \in Packets
        BY <1>4, MasqueradeFacts DEF m
    <2> QED BY <1>4, <2>1, <2>2 DEF IsQuestion, IsMasked
<1>8. \A i \in 1..Len(batch') : IsQuestion(batch'[i])
    BY <1>1, <1>2, <1>3, TailFacts DEF Asked
<1>9. /\ \A i \in 1..Len(wire') : IsMasked(wire'[i])
      /\ \A i \in 1..Len(tun'.queue) : IsMasked(tun'.queue[i])
      /\ Len(wire') + Len(tun'.queue) = s + 1 /\ Len(wire) <= Len(wire') /\ Len(wire') \in Nat
    <2>1. CASE wire' = Append(wire, m) /\ UNCHANGED tun
        <3>1. \A i \in 1..Len(wire') : wire'[i] = m \/ (i \in 1..Len(wire) /\ wire'[i] = wire[i])
            BY <1>2, <1>7, <2>1, AppendFacts
        <3>2. Len(wire') = Len(wire) + 1
            BY <1>2, <1>7, <2>1, AppendFacts
        <3>3. /\ Len(wire') + Len(tun'.queue) = s + 1
              /\ Len(wire) <= Len(wire') /\ Len(wire') \in Nat
            <4>1. PICK a \in Nat, b \in Nat : a = Len(wire) /\ b = Len(tun.queue)
                BY <1>2
            <4>2. Len(wire') = a + 1 /\ Len(tun'.queue) = b
                BY <2>1, <3>2, <4>1
            <4>3. a + 1 + b = a + b + 1 /\ a <= a + 1 /\ a + 1 \in Nat
                OBVIOUS
            <4> QED BY ONLY <4>1, <4>2, <4>3
        <3> HIDE DEF s
        <3> QED BY <1>2, <1>7, <2>1, <3>1, <3>3 DEF Asked
    <2>2. CASE tun' = [tun EXCEPT !.queue = Append(@, m), !.handshake = TRUE] /\ UNCHANGED wire
        <3>1. tun'.queue = Append(tun.queue, m)
            BY <1>2, <2>2 DEF Tunnels
        <3>2. \A i \in 1..Len(tun'.queue) :
                 tun'.queue[i] = m \/ (i \in 1..Len(tun.queue) /\ tun'.queue[i] = tun.queue[i])
            BY <1>2, <1>7, <3>1, AppendFacts
        <3>3. Len(tun'.queue) = Len(tun.queue) + 1
            BY <1>2, <1>7, <3>1, AppendFacts
        <3> QED BY <1>2, <1>7, <2>2, <3>2, <3>3 DEF Asked
    <2> QED BY <1>1, <2>1, <2>2 DEF encapsulate, m, h
<1>10. Asked'
    BY <1>1, <1>2, <1>8, <1>9, SameQuestions DEF Asked
<1>11. Noted'
    BY <1>1, <1>6, <1>9, SameQuestions DEF Noted
<1> QED BY <1>1, <1>9, <1>10, <1>11, SameQuestions DEF OutKept

\* What was held is sent in its turn.
LEMMA FlushOut ==
    ASSUME IInv, BackInv, mishaps = {}, Flush
    PROVE  OutKept
<1>1. UNCHANGED <<link, rx, questions, batch, nat>>
    BY DEF Flush, handleVars
<1>2. CASE UNCHANGED <<tun, wire>>
    <2>1. tun'.queue = tun.queue
        BY <1>2
    <2> QED BY <1>1, <1>2, <2>1, SameOut
<1>3. CASE /\ tun.queue # <<>> /\ wire' = Append(wire, Head(tun.queue))
           /\ tun' = [tun EXCEPT !.queue = Tail(@)]
    <2>1. /\ Asked /\ (link = "wireguard" => Noted) /\ wire \in Seq(Packets) /\ tun \in Tunnels
          /\ tun.queue \in Seq(Packets) /\ Len(wire) \in Nat /\ Len(tun.queue) \in Nat
        BY OutFacts
    <2>2. tun'.queue = Tail(tun.queue)
        BY <1>3, <2>1 DEF Tunnels
    <2> DEFINE h == Head(tun.queue)
    <2>3. IsMasked(h) /\ h \in Packets
        BY <1>3, <2>1, TailFacts DEF Asked
    <2> HIDE DEF h
    <2>4. \A i \in 1..Len(wire') : wire'[i] = h \/ (i \in 1..Len(wire) /\ wire'[i] = wire[i])
        BY <1>3, <2>1, <2>3, AppendFacts DEF h
    <2>5. \A i \in 1..Len(wire') : IsMasked(wire'[i])
        BY <2>1, <2>3, <2>4 DEF Asked
    <2>6. \A i \in 1..Len(tun'.queue) : IsMasked(tun'.queue[i])
        BY <1>3, <2>1, <2>2, TailFacts DEF Asked
    <2>7. Len(wire') = Len(wire) + 1
        BY <1>3, <2>1, <2>3, AppendFacts DEF h
    <2>8. Len(tun'.queue) = Len(tun.queue) - 1
        BY <1>3, <2>1, <2>2, TailFacts
    <2>9. Len(wire') + Len(tun'.queue) = Len(wire) + Len(tun.queue) /\ Len(wire') \in Nat
        <3>1. PICK a \in Nat, b \in Nat : a = Len(wire) /\ b = Len(tun.queue)
            BY <2>1
        <3>2. Len(wire') = a + 1 /\ Len(tun'.queue) = b - 1
            BY <2>7, <2>8, <3>1
        <3>3. a + 1 + (b - 1) = a + b /\ a + 1 \in Nat
            OBVIOUS
        <3> QED BY ONLY <3>1, <3>2, <3>3
    <2>10. Asked'
        BY <1>1, <2>1, <2>5, <2>6, SameQuestions DEF Asked
    <2>11. link = "wireguard" => Noted'
        BY <1>1, <2>1, <2>9, SameQuestions DEF Noted
    <2>12. Len(wire) <= Len(wire')
        BY <2>1, <2>7
    <2> QED BY <1>1, <2>9, <2>10, <2>11, <2>12, SameQuestions DEF OutKept
<1> QED BY <1>2, <1>3 DEF Flush

-----------------------------------------------------------------------------
(* The way back: what lies in the socket. *)

\* A fragment is a part of its answer that is not empty.
LEMMA PieceNumbers ==
    ASSUME NEW f, IsPiece(f)
    PROVE  /\ f \in Pieces /\ f.off \in Nat /\ To(f) \in Nat /\ f.off < To(f) /\ To(f) <= 6
           /\ f = Part(f.n, f.off, To(f), To(f) < 6)
<1>1. f \in Pieces /\ f.off < To(f) /\ To(f) <= 6 /\ f = Part(f.n, f.off, To(f), To(f) < 6)
    BY DEF IsPiece, PayloadCells
<1>2. f.off \in Nat /\ f.length \in Nat
    BY <1>1 DEF Pieces
<1>3. To(f) \in Nat
    BY <1>1, <1>2 DEF To, HeaderCells
<1> QED BY <1>1, <1>2, <1>3

\* Something else enters the socket.
LEMMA BetweenOther ==
    ASSUME NEW T, NEW s \in Seq(T), NEW x \in T, NEW n, NEW g, NEW e, Between(s, n, g, e),
           ~(x.kind = "ip" /\ x.n = n)
    PROVE  Between(Append(s, x), n, g, e)
<1> DEFINE r == Append(s, x)
<1>1. /\ r \in Seq(T) /\ Len(r) = Len(s) + 1 /\ Len(s) \in Nat /\ r[Len(s) + 1] = x
      /\ \A i \in 1..Len(s) : r[i] = s[i]
      /\ \A i \in 1..Len(r) : i \in 1..Len(s) \/ i = Len(s) + 1
      /\ \A i \in 1..Len(s) : i \in 1..Len(r)
    BY AppendFacts
<1> HIDE DEF r
<1>2. \A j \in 1..Len(r) : In(r, j, n) => j \in 1..Len(s) /\ In(s, j, n) /\ r[j] = s[j]
    BY <1>1 DEF In
<1>3. \A j \in 1..Len(s) : In(s, j, n) => j \in 1..Len(r) /\ In(r, j, n) /\ r[j] = s[j]
    BY <1>1 DEF In
<1>4. Between(r, n, g, e)
    BY <1>2, <1>3 DEF Between
<1> QED BY <1>4 DEF r

\* The next fragment enters the socket.
LEMMA BetweenNext ==
    ASSUME NEW T, NEW s \in Seq(T), NEW x \in T, NEW n, NEW g \in Nat, NEW e \in Nat,
           Between(s, n, g, e), IsPiece(x), x.kind = "ip", x.n = n, x.off = e
    PROVE  Between(Append(s, x), n, g, To(x))
<1> DEFINE r == Append(s, x)
           k == Len(s) + 1
<1>1. /\ r \in Seq(T) /\ Len(r) = k /\ k \in Nat /\ r[k] = x
      /\ \A i \in 1..Len(s) : r[i] = s[i] /\ i < k
      /\ \A i \in 1..Len(r) : i \in 1..Len(s) \/ i = k
      /\ \A i \in 1..Len(s) : i \in 1..Len(r)
      /\ k \in 1..Len(r) /\ ~(k < k) /\ \A i \in 1..Len(r) : ~(k < i)
    BY AppendFacts
<1>2. e < To(x) /\ To(x) \in Nat
    BY PieceNumbers
<1> HIDE DEF r, k
<1>3. \A j \in 1..Len(s) : In(r, j, n) <=> In(s, j, n)
    BY <1>1 DEF In
<1>4. In(r, k, n)
    BY <1>1 DEF In
<1>5. g <= To(x)
    BY <1>2 DEF Between
<1>6. \A j \in 1..Len(s) : In(s, j, n) =>
         /\ IsPiece(s[j]) /\ g <= s[j].off /\ To(s[j]) <= e /\ To(s[j]) \in Nat
    BY PieceNumbers DEF Between
<1>7. ASSUME NEW j \in 1..Len(r), In(r, j, n)
      PROVE  IsPiece(r[j]) /\ g <= r[j].off /\ To(r[j]) <= To(x)
    <2>1. CASE j = k
        BY <1>1, <1>2, <2>1 DEF Between
    <2>2. CASE j \in 1..Len(s)
        BY <1>1, <1>2, <1>3, <1>6, <1>7, <2>2
    <2> QED BY <1>1, <2>1, <2>2
<1>8. ASSUME NEW i \in 1..Len(r), NEW j \in 1..Len(r), i < j, In(r, i, n), In(r, j, n)
      PROVE  To(r[i]) <= r[j].off
    <2>1. i \in 1..Len(s)
        BY <1>1, <1>8
    <2>2. CASE j = k
        BY <1>1, <1>3, <1>6, <1>8, <2>1, <2>2
    <2>3. CASE j \in 1..Len(s)
        BY <1>1, <1>3, <1>8, <2>1, <2>3 DEF Between
    <2> QED BY <1>1, <2>2, <2>3
<1>9. ASSUME NEW t \in 0..(PayloadCells - 1), g <= t, t < To(x)
      PROVE  \E j \in 1..Len(r) : In(r, j, n) /\ r[j].off <= t /\ t < To(r[j])
    <2>1. CASE t < e
        <3>1. PICK j \in 1..Len(s) : In(s, j, n) /\ s[j].off <= t /\ t < To(s[j])
            BY <1>9, <2>1 DEF Between
        <3> QED BY <1>1, <1>3, <3>1
    <2>2. CASE e <= t
        BY <1>1, <1>4, <1>9, <2>2
    <2>3. t < e \/ e <= t
        BY DEF PayloadCells
    <2> QED BY <2>1, <2>2, <2>3
<1>10. Between(r, n, g, To(x))
    BY <1>5, <1>7, <1>8, <1>9 DEF Between
<1> QED BY <1>10 DEF r

\* Something else leaves the socket.
LEMMA BetweenSkip ==
    ASSUME NEW T, NEW s \in Seq(T), s # <<>>, NEW n, NEW g, NEW e, Between(s, n, g, e),
           ~(Head(s).kind = "ip" /\ Head(s).n = n)
    PROVE  Between(Tail(s), n, g, e)
<1> DEFINE r == Tail(s)
<1>1. /\ Head(s) = s[1] /\ Len(r) = Len(s) - 1 /\ Len(s) \in Nat
      /\ \A i \in 1..Len(r) : i + 1 \in 1..Len(s) /\ r[i] = s[i + 1]
    BY TailFacts
<1>2. \A j \in 1..Len(s) : j = 1 \/ (j - 1 \in 1..Len(r) /\ (j - 1) + 1 = j)
    BY <1>1
<1>3. \A i, j \in 1..Len(r) : i < j => i + 1 < j + 1
    BY <1>1
<1> HIDE DEF r
<1>4. \A j \in 1..Len(r) : In(r, j, n) => j + 1 \in 1..Len(s) /\ In(s, j + 1, n)
    BY <1>1 DEF In
<1>5. \A j \in 1..Len(s) : In(s, j, n) => \E i \in 1..Len(r) : In(r, i, n) /\ r[i] = s[j]
    BY <1>1, <1>2 DEF In
<1>6. \A j \in 1..Len(r) : In(r, j, n) => IsPiece(r[j]) /\ g <= r[j].off /\ To(r[j]) <= e
    BY <1>1, <1>4 DEF Between
<1>7. \A i, j \in 1..Len(r) : i < j /\ In(r, i, n) /\ In(r, j, n) => To(r[i]) <= r[j].off
    BY <1>1, <1>3, <1>4 DEF Between
<1>8. \A t \in 0..(PayloadCells - 1) : g <= t /\ t < e =>
         \E j \in 1..Len(r) : In(r, j, n) /\ r[j].off <= t /\ t < To(r[j])
    BY <1>5 DEF Between
<1>9. Between(r, n, g, e)
    BY <1>6, <1>7, <1>8 DEF Between
<1> QED BY <1>9 DEF r

\* What leaves the socket first is where the cells that were read end.
LEMMA BetweenTake ==
    ASSUME NEW T, NEW s \in Seq(T), s # <<>>, NEW n, NEW g \in Nat, NEW e \in 0..6,
           Between(s, n, g, e), Head(s).kind = "ip", Head(s).n = n
    PROVE  /\ IsPiece(Head(s)) /\ Head(s).off = g /\ To(Head(s)) <= e
           /\ Between(Tail(s), n, To(Head(s)), e)
<1> DEFINE r == Tail(s)
           x == Head(s)
<1>1. /\ x = s[1] /\ Len(r) = Len(s) - 1 /\ Len(s) \in Nat /\ 1 \in 1..Len(s)
      /\ \A i \in 1..Len(r) : i + 1 \in 1..Len(s) /\ r[i] = s[i + 1]
    BY TailFacts
<1>2. \A j \in 1..Len(s) : j = 1 \/ (1 < j /\ j - 1 \in 1..Len(r) /\ (j - 1) + 1 = j)
    BY <1>1
<1>3. /\ \A i, j \in 1..Len(r) : i < j => i + 1 < j + 1
      /\ \A j \in 1..Len(r) : 1 < j + 1
    BY <1>1
<1> HIDE DEF r, x
<1>4. In(s, 1, n)
    BY <1>1 DEF In, x
<1>5. /\ IsPiece(x) /\ g <= x.off /\ To(x) <= e /\ x.off \in Nat /\ To(x) \in Nat /\ x.off < To(x)
    BY <1>1, <1>4, PieceNumbers DEF Between
<1>6. x.off = g
    <2>1. g < e /\ g \in 0..(PayloadCells - 1) /\ g <= g
        BY <1>5 DEF PayloadCells
    <2>2. PICK j \in 1..Len(s) : In(s, j, n) /\ s[j].off <= g /\ g < To(s[j])
        BY <2>1 DEF Between
    <2>3. s[j].off \in Nat
        BY <2>2, PieceNumbers DEF Between
    <2>4. 1 < j => To(x) <= s[j].off
        BY <1>1, <1>4, <2>2 DEF Between
    <2>5. ~(1 < j)
        BY <1>5, <2>2, <2>3, <2>4
    <2>6. s[j] = x
        BY <1>1, <1>2, <2>5
    <2> QED BY <1>5, <2>2, <2>6
<1>7. \A j \in 1..Len(r) : In(r, j, n) => j + 1 \in 1..Len(s) /\ In(s, j + 1, n)
    BY <1>1 DEF In
<1>8. \A j \in 1..Len(r) : In(r, j, n) => IsPiece(r[j]) /\ To(x) <= r[j].off /\ To(r[j]) <= e
    BY <1>1, <1>3, <1>4, <1>7 DEF Between
<1>9. \A i, j \in 1..Len(r) : i < j /\ In(r, i, n) /\ In(r, j, n) => To(r[i]) <= r[j].off
    BY <1>1, <1>3, <1>7 DEF Between
<1>10. ASSUME NEW t \in 0..(PayloadCells - 1), To(x) <= t, t < e
       PROVE  \E j \in 1..Len(r) : In(r, j, n) /\ r[j].off <= t /\ t < To(r[j])
    <2>1. g <= t /\ t \in Nat
        BY <1>5, <1>10 DEF PayloadCells
    <2>2. PICK j \in 1..Len(s) : In(s, j, n) /\ s[j].off <= t /\ t < To(s[j])
        BY <1>10, <2>1 DEF Between
    <2>3. j # 1
        BY <1>1, <1>5, <1>10, <2>1, <2>2
    <2>4. j - 1 \in 1..Len(r) /\ r[j - 1] = s[j]
        BY <1>1, <1>2, <2>3
    <2> QED BY <2>2, <2>4 DEF In
<1>11. Between(r, n, To(x), e)
    BY <1>5, <1>8, <1>9, <1>10 DEF Between
<1> QED BY <1>5, <1>6, <1>11 DEF r, x

\* What is known of an answer stays when its question does.
LEMMA AnswerKept ==
    ASSUME QuestionsKept, NEW n \in 1..Len(questions)
    PROVE  /\ \A a, b, more : Part(n, a, b, more)' = Part(n, a, b, more)
           /\ \A f : f.n = n /\ IsPiece(f) => IsPiece(f)'
           /\ \A s : Coming(s, n) => Coming(s, n)'
           /\ \A s, g, e : Between(s, n, g, e) => Between(s, n, g, e)'
           /\ \A c, g : Stored(c, n, g) => Stored(c, n, g)'
<1>1. questions'[n] = questions[n]
    BY DEF QuestionsKept
<1>2. ASSUME NEW a, NEW b, NEW more PROVE Part(n, a, b, more)' = Part(n, a, b, more)
    BY <1>1 DEF Part, Reply
<1>3. ASSUME NEW f, f.n = n, IsPiece(f) PROVE IsPiece(f)'
    <2>1. Part(n, f.off, To(f), To(f) < PayloadCells)'
              = Part(n, f.off, To(f), To(f) < PayloadCells)
        BY <1>2
    <2> QED BY <1>3, <2>1 DEF IsPiece
<1>4. ASSUME NEW s, Coming(s, n) PROVE Coming(s, n)'
    BY <1>3, <1>4 DEF Coming
<1>5. ASSUME NEW s, NEW g, NEW e, Between(s, n, g, e) PROVE Between(s, n, g, e)'
    BY <1>3, <1>5 DEF Between, In
<1>6. ASSUME NEW c, NEW g, Stored(c, n, g) PROVE Stored(c, n, g)'
    BY <1>2, <1>6 DEF Stored
<1> QED BY <1>2, <1>3, <1>4, <1>5, <1>6

\* What enters the socket without mishap.
Arrivals == Pieces \cup {[kind |-> "response"]}

\* It is a response or a fragment.
LEMMA ArrivalFacts ==
    ASSUME NEW x \in Arrivals
    PROVE  /\ x.kind \in {"ip", "response"}
           /\ x.kind = "ip" => x \in Pieces /\ x.mf \in BOOLEAN /\ x.off \in Nat /\ x.n \in Nat
<1>1. CASE x \in Pieces
    BY <1>1 DEF Pieces
<1>2. CASE x = [kind |-> "response"]
    BY <1>2
<1> QED BY <1>1, <1>2 DEF Arrivals

\* What is known of the answers on their way back.
LEMMA BackFacts ==
    ASSUME IInv, BackInv, mishaps = {}
    PROVE  /\ questions \in Seq(Packets) /\ sock \in Seq(Arrivals) /\ lan \in Seq(Pieces)
           /\ net \in [1..MaxAsk -> Seq(Pieces)]
           /\ \A n \in answered : /\ n \in 1..Len(wire) /\ n \in 1..Len(questions)
                                  /\ n \in 1..MaxAsk /\ n \in Nat
           /\ \A n \in unknown : n \in answered /\ questions[n].proto = "other"
<1>1. /\ questions \in Seq(Packets) /\ Len(wire) \in Nat /\ Len(tun.queue) \in Nat
      /\ Len(batch) \in Nat /\ Len(questions) \in Nat
      /\ Len(wire) + Len(tun.queue) + Len(batch) <= Len(questions) /\ Asked /\ BackTypes
    BY OutFacts
<1>2. Len(questions) <= MaxAsk /\ MaxAsk \in Nat
    BY <1>1, WanAssumption DEF Asked
<1>3. \A n \in 1..Len(wire) : n \in 1..Len(questions) /\ n \in 1..MaxAsk /\ n \in Nat
    BY <1>1, <1>2
<1> QED BY <1>1, <1>3 DEF BackTypes, Arrivals

\* Where the fragments on their way begin.
LEMMA StartFacts ==
    ASSUME NEW s \in Seq(Pieces), NEW n, Coming(s, n)
    PROVE  Start(s) \in 0..6
<1>1. CASE s = <<>>
    BY <1>1 DEF Start, PayloadCells
<1>2. CASE s # <<>>
    <2>1. 1 \in 1..Len(s)
        BY <1>2
    <2>2. IsPiece(s[1])
        BY <2>1 DEF Coming
    <2>3. s[1].off \in 0..6
        BY <2>2, PieceNumbers
    <2> QED BY <1>2, <2>3 DEF Start
<1> QED BY <1>1, <1>2

\* The answer after a step, from what is in the socket, the network and the cache.
LEMMA StillOnItsWay ==
    ASSUME QuestionsKept, NEW n \in 1..Len(questions), NEW s, NEW w, NEW c, NEW g \in 0..6,
           Coming(w, n), Between(s, n, g, Start(w)), Stored(c, n, g),
           sock' = s, net'[n] = w, cache' = c
    PROVE  OnItsWay(n)'
<1>1. Coming(w, n)' /\ Stored(c, n, g)'
    BY AnswerKept
<1>2. PICK e : e = Start(w)
    OBVIOUS
<1>3. Between(s, n, g, e)'
    BY <1>2, AnswerKept
<1>4. Start(net[n])' = e
    BY <1>2 DEF Start
<1>5. Between(sock, n, g, Start(net[n]))'
    BY <1>3, <1>4
<1>6. Coming(net[n], n)' /\ Stored(cache, n, g)'
    BY <1>1
<1>7. g \in 0..PayloadCells
    BY DEF PayloadCells
<1> QED BY <1>5, <1>6, <1>7 DEF OnItsWay

\* What a step has to keep on the way back.
BackKept == BackTypes' /\ (link = "wireguard" => Carried' /\ Received')

\* The way back when nothing moves on it.
LEMMA SameBack ==
    ASSUME IInv, BackInv, mishaps = {}, QuestionsKept, Len(wire) <= Len(wire'),
           Len(wire') \in Nat, UNCHANGED <<sock, net, answered, cache, lan, unknown>>
    PROVE  BackKept
<1>1. BackTypes /\ (link = "wireguard" => Carried /\ Received) /\ Len(wire) \in Nat
    BY OutFacts
<1>2. \A n \in answered : n \in 1..Len(questions) /\ n \in 1..Len(wire)
    BY BackFacts
<1>3. BackTypes'
    <2>1. answered' \subseteq 1..Len(wire')
        BY <1>1, <1>2
    <2>2. \A n \in unknown' : n \in answered' /\ questions'[n].proto = "other"
        BY <1>1, <1>2 DEF BackTypes, QuestionsKept
    <2> QED BY <1>1, <2>1, <2>2 DEF BackTypes
<1>4. ASSUME link = "wireguard" PROVE Carried' /\ Received'
    <2>1. ASSUME NEW n \in answered PROVE OnItsWay(n)'
        <3>1. OnItsWay(n)
            BY <1>1, <1>4 DEF Carried
        <3>2. PICK g \in 0..6 : Between(sock, n, g, Start(net[n])) /\ Stored(cache, n, g)
            BY <3>1 DEF OnItsWay, PayloadCells
        <3>3. Coming(net[n], n)
            BY <3>1 DEF OnItsWay
        <3> QED BY <1>2, <3>2, <3>3, StillOnItsWay
    <2>2. Carried'
        BY <1>1, <1>4, <2>1 DEF Carried
    <2>3. Received'
        BY <1>1, <1>4 DEF Received
    <2> QED BY <2>2, <2>3
<1> QED BY <1>3, <1>4 DEF BackKept

\* The peer's response enters the socket.
LEMMA RespondBack ==
    ASSUME IInv, BackInv, mishaps = {}, Respond
    PROVE  BackKept
<1> DEFINE x == [kind |-> "response"]
<1>1. /\ sock' = Append(sock, x)
      /\ UNCHANGED <<link, questions, wire, net, answered, cache, lan, unknown>>
    BY DEF Respond, Enter, handleVars, netVars
<1>2. BackTypes /\ (link = "wireguard" => Carried /\ Received)
    BY OutFacts
<1>3. sock \in Seq(Arrivals) /\ \A n \in answered : n \in 1..Len(questions)
    BY BackFacts
<1>4. x \in Arrivals /\ x.kind # "ip"
    BY DEF Arrivals
<1> HIDE DEF x
<1>5. /\ sock' \in Seq(Arrivals)
      /\ \A j \in 1..Len(sock') : sock'[j] = x \/ (j \in 1..Len(sock) /\ sock'[j] = sock[j])
    BY <1>1, <1>3, <1>4, AppendFacts
<1>6. BackTypes'
    BY <1>1, <1>2, <1>5 DEF BackTypes, Arrivals
<1>7. ASSUME link = "wireguard" PROVE Carried' /\ Received'
    <2>1. ASSUME NEW n \in answered PROVE OnItsWay(n)'
        <3>1. OnItsWay(n)
            BY <1>2, <1>7 DEF Carried
        <3>2. PICK g \in 0..6 : Between(sock, n, g, Start(net[n])) /\ Stored(cache, n, g)
            BY <3>1 DEF OnItsWay, PayloadCells
        <3>3. Coming(net[n], n)
            BY <3>1 DEF OnItsWay
        <3>4. Between(Append(sock, x), n, g, Start(net[n]))
            BY <1>3, <1>4, <3>2, BetweenOther
        <3>5. QuestionsKept /\ net'[n] = net[n] /\ cache' = cache
            BY <1>1, SameQuestions
        <3> QED BY <1>1, <1>3, <3>2, <3>3, <3>4, <3>5, StillOnItsWay
    <2>2. \A j \in 1..Len(sock') : sock'[j].kind = "ip" => sock'[j].n \in answered'
        BY <1>1, <1>2, <1>4, <1>5, <1>7 DEF Carried
    <2>3. Carried'
        BY <1>1, <1>2, <1>7, <2>1, <2>2 DEF Carried
    <2>4. Received'
        BY <1>1, <1>2, <1>7 DEF Received
    <2> QED BY <2>3, <2>4
<1> QED BY <1>6, <1>7 DEF BackKept

\* ... and leaves it.
LEMMA ReadResponseBack ==
    ASSUME IInv, BackInv, mishaps = {}, ReadResponse
    PROVE  BackKept
<1>1. /\ sock' = Tail(sock) /\ sock # <<>> /\ Head(sock).kind = "response"
      /\ UNCHANGED <<link, questions, wire, net, answered, cache, lan, unknown>>
    BY DEF ReadResponse, handleVars, outVars, netVars
<1>2. BackTypes /\ (link = "wireguard" => Carried /\ Received)
    BY OutFacts
<1>3. sock \in Seq(Arrivals) /\ \A n \in answered : n \in 1..Len(questions)
    BY BackFacts
<1>4. /\ sock' \in Seq(Arrivals)
      /\ \A j \in 1..Len(sock') : j + 1 \in 1..Len(sock) /\ sock'[j] = sock[j + 1]
    BY <1>1, <1>3, TailFacts
<1>5. BackTypes'
    BY <1>1, <1>2, <1>4 DEF BackTypes, Arrivals
<1>6. ASSUME link = "wireguard" PROVE Carried' /\ Received'
    <2>1. ASSUME NEW n \in answered PROVE OnItsWay(n)'
        <3>1. OnItsWay(n)
            BY <1>2, <1>6 DEF Carried
        <3>2. PICK g \in 0..6 : Between(sock, n, g, Start(net[n])) /\ Stored(cache, n, g)
            BY <3>1 DEF OnItsWay, PayloadCells
        <3>3. Coming(net[n], n)
            BY <3>1 DEF OnItsWay
        <3>4. Between(Tail(sock), n, g, Start(net[n]))
            BY <1>1, <1>3, <3>2, BetweenSkip
        <3>5. QuestionsKept /\ net'[n] = net[n] /\ cache' = cache
            BY <1>1, SameQuestions
        <3> QED BY <1>1, <1>3, <3>2, <3>3, <3>4, <3>5, StillOnItsWay
    <2>2. \A j \in 1..Len(sock') : sock'[j].kind = "ip" => sock'[j].n \in answered'
        BY <1>1, <1>2, <1>4, <1>6 DEF Carried
    <2>3. Carried'
        BY <1>1, <1>2, <1>6, <2>1, <2>2 DEF Carried
    <2>4. Received'
        BY <1>1, <1>2, <1>6 DEF Received
    <2> QED BY <2>3, <2>4
<1> QED BY <1>5, <1>6 DEF BackKept

\* udp and tap read what is in the socket.
LEMMA ReadBack ==
    ASSUME IInv, BackInv, mishaps = {}, ReadUdp \/ ReadTap
    PROVE  BackKept /\ pc' = pc
<1>1. /\ sock' = Tail(sock) /\ sock # <<>> /\ link # "wireguard"
      /\ UNCHANGED <<questions, wire, net, answered, unknown>>
    BY DEF ReadUdp, ReadTap, handleVars, outVars, netVars
<1>2. BackTypes
    BY OutFacts
<1>3. sock \in Seq(Arrivals) /\ lan \in Seq(Pieces)
    BY BackFacts
<1>4. sock' \in Seq(Arrivals) /\ Head(sock) \in Arrivals
    BY <1>1, <1>3, TailFacts
<1>5. lan' \in Seq(Pieces) /\ pc' = pc
    <2>1. CASE ReadTap
        BY <1>3, <2>1 DEF ReadTap, outVars
    <2>2. CASE ReadUdp
        <3>1. Head(sock).kind # "malformed" /\ (Head(sock).kind = "ip" => Head(sock) \in Pieces)
            BY <1>4, ArrivalFacts
        <3>2. lan' = Append(lan, Head(sock)) /\ pc' = pc /\ Head(sock) \in Pieces
            BY <2>2, <3>1 DEF ReadUdp
        <3> QED BY <1>3, <3>2, AppendFacts
    <2> QED BY <2>1, <2>2
<1>6. BackTypes'
    BY <1>1, <1>2, <1>4, <1>5 DEF BackTypes, Arrivals
<1> QED BY <1>1, <1>5, <1>6 DEF BackKept

\* A remote answers a question that arrived.
LEMMA AnswerBack ==
    ASSUME IInv, BackInv, mishaps = {}, mishaps' = {}, NEW q \in ToSet(wire), NEW cut \in Cuts,
           Answer(q, cut)
    PROVE  BackKept
<1>1. /\ wire \in Seq(Packets) /\ Asked /\ BackTypes /\ Len(wire) \in Nat
      /\ \A i \in 1..Len(wire) : wire[i].n = i
      /\ link = "wireguard" => Carried /\ Received
    BY OutFacts
<1>2. /\ questions \in Seq(Packets) /\ net \in [1..MaxAsk -> Seq(Pieces)]
      /\ \A n \in answered : n \in 1..Len(wire) /\ n \in 1..Len(questions) /\ n \in 1..MaxAsk
    BY BackFacts
<1>3. PICK i \in 1..Len(wire) : q = wire[i]
    BY <1>1 DEF ToSet
<1>4. q \in Packets /\ q.n = i /\ IsMasked(q)
    BY <1>1, <1>3 DEF Asked
<1>5. i \in 1..Len(questions) /\ i \in 1..MaxAsk
    <2>1. i \in 1..Len(questions)
        BY <1>4 DEF IsMasked
    <2> QED BY <1>1, <1>2, <2>1, WanAssumption DEF Asked
<1>6. PICK F : F = Fragments(q, q.n, cut)
    OBVIOUS
<1>7. /\ i \notin answered /\ answered' = answered \cup {i}
      /\ net' = [net EXCEPT ![i] = F]
      /\ UNCHANGED <<link, questions, wire, sock, cache, lan, unknown>>
    BY <1>4, <1>6 DEF Answer, Mishap, handleVars, threadVars, outVars
<1>8. F \in Seq(Pieces)
    BY <1>4, <1>6, FragmentsFacts
<1>9. /\ net' \in [1..MaxAsk -> Seq(Pieces)] /\ net'[i] = F
      /\ \A n \in 1..MaxAsk : n # i => net'[n] = net[n]
    BY <1>2, <1>5, <1>7, <1>8
<1>10. BackTypes'
    BY <1>1, <1>3, <1>7, <1>9 DEF BackTypes
<1>11. ASSUME link = "wireguard" PROVE Carried' /\ Received'
    <2>1. /\ F # <<>> /\ F[1].off = 0
          /\ \A k \in 1..Len(F) :
                /\ IsPiece(F[k]) /\ F[k].n = q.n
                /\ To(F[k]) = IF k = Len(F) THEN PayloadCells ELSE F[k + 1].off
        BY <1>2, <1>4, <1>6, <1>11, AnswerComes
    <2>2. Coming(F, i) /\ Start(F) = 0
        BY <1>4, <2>1 DEF Coming, Start
    <2>3. Between(sock, i, 0, 0)
        <3>1. \A j \in 1..Len(sock) : ~In(sock, j, i)
            BY <1>1, <1>7, <1>11 DEF Carried, In
        <3>2. \A t \in 0..(PayloadCells - 1) : ~(0 <= t /\ t < 0)
            BY DEF PayloadCells
        <3>3. 0 <= 0
            OBVIOUS
        <3> QED BY <3>1, <3>2, <3>3, Zenon DEF Between
    <2>4. Stored(cache, i, 0)
        <3>1. i \notin DOMAIN cache
            BY <1>1, <1>7, <1>11 DEF Carried
        <3>2. ~(0 < 0)
            OBVIOUS
        <3> QED BY <3>1, <3>2, Zenon DEF Stored
    <2>5. QuestionsKept
        BY <1>7, SameQuestions
    <2>6. OnItsWay(i)'
        <3>1. Between(sock, i, 0, Start(F)) /\ 0 \in 0..6
            BY <2>2, <2>3
        <3>2. sock' = sock /\ cache' = cache /\ net'[i] = F
            BY <1>7, <1>9
        <3> QED BY <1>5, <2>2, <2>4, <2>5, <3>1, <3>2, StillOnItsWay
    <2>7. ASSUME NEW n \in answered PROVE OnItsWay(n)'
        <3>1. OnItsWay(n)
            BY <1>1, <1>11 DEF Carried
        <3>2. PICK g \in 0..6 : Between(sock, n, g, Start(net[n])) /\ Stored(cache, n, g)
            BY <3>1 DEF OnItsWay, PayloadCells
        <3>3. Coming(net[n], n)
            BY <3>1 DEF OnItsWay
        <3>4. net'[n] = net[n] /\ sock' = sock /\ cache' = cache /\ n \in 1..Len(questions)
            BY <1>2, <1>7, <1>9
        <3> QED BY <2>5, <3>2, <3>3, <3>4, StillOnItsWay
    <2>8. \A n \in 1..MaxAsk : n \notin answered' => net'[n] = <<>>
        BY <1>1, <1>7, <1>9, <1>11 DEF Carried
    <2>9. /\ cache' = [n \in DOMAIN cache' |-> cache'[n]] /\ DOMAIN cache' \subseteq answered'
          /\ \A j \in 1..Len(sock') : sock'[j].kind = "ip" => sock'[j].n \in answered'
        BY <1>1, <1>7, <1>11 DEF Carried
    <2>10. (\A n \in answered : OnItsWay(n))'
        BY <1>7, <2>6, <2>7
    <2>11. Carried'
        BY <2>8, <2>9, <2>10 DEF Carried
    <2>12. Received'
        BY <1>1, <1>7, <1>11 DEF Received
    <2> QED BY <2>11, <2>12
<1> QED BY <1>10, <1>11 DEF BackKept

\* The first of the fragments on their way, and those behind it.
LEMMA ComingTail ==
    ASSUME NEW w \in Seq(Pieces), w # <<>>, NEW n, Coming(w, n)
    PROVE  /\ IsPiece(Head(w)) /\ Head(w).n = n /\ Head(w).off = Start(w)
           /\ To(Head(w)) = Start(Tail(w)) /\ Coming(Tail(w), n)
<1> DEFINE r == Tail(w)
<1>1. /\ Head(w) = w[1] /\ Len(r) = Len(w) - 1 /\ Len(w) \in Nat /\ 1 \in 1..Len(w)
      /\ r \in Seq(Pieces) /\ Len(r) \in Nat
      /\ \A i \in 1..Len(r) : i + 1 \in 1..Len(w) /\ r[i] = w[i + 1]
    BY TailFacts
<1> HIDE DEF r
<1>2. IsPiece(w[1]) /\ w[1].n = n /\ w[1].off = Start(w)
    BY <1>1 DEF Coming, Start
<1>3. To(w[1]) = Start(r)
    <2>1. To(w[1]) = IF 1 = Len(w) THEN PayloadCells ELSE w[1 + 1].off
        BY <1>1 DEF Coming
    <2>2. CASE Len(w) = 1
        <3>1. r = <<>>
            BY <1>1, <2>2
        <3> QED BY <2>1, <2>2, <3>1 DEF Start
    <2>3. CASE Len(w) # 1
        <3>1. 1 \in 1..Len(r)
            BY <1>1, <2>3
        <3>2. r[1] = w[1 + 1]
            BY <1>1, <3>1
        <3>3. r # <<>>
            BY <1>1, <3>1
        <3> QED BY <2>1, <2>3, <3>2, <3>3 DEF Start
    <2> QED BY <2>2, <2>3
<1>4. ASSUME NEW i \in 1..Len(r)
      PROVE  /\ IsPiece(r[i]) /\ r[i].n = n
             /\ To(r[i]) = IF i = Len(r) THEN PayloadCells ELSE r[i + 1].off
    <2>1. i + 1 \in 1..Len(w) /\ r[i] = w[i + 1]
        BY <1>1
    <2>2. /\ IsPiece(w[i + 1]) /\ w[i + 1].n = n
          /\ To(w[i + 1]) = IF i + 1 = Len(w) THEN PayloadCells ELSE w[(i + 1) + 1].off
        BY <2>1 DEF Coming
    <2>3. i + 1 = Len(w) <=> i = Len(r)
        BY <1>1
    <2>4. i # Len(r) => i + 1 \in 1..Len(r)
        BY <1>1
    <2>5. \A j \in 1..Len(r) : r[j] = w[j + 1]
        BY <1>1
    <2>6. i # Len(r) => r[i + 1] = w[(i + 1) + 1]
        BY <2>4, <2>5
    <2> QED BY <2>1, <2>2, <2>3, <2>6
<1>5. Coming(r, n)
    BY <1>4 DEF Coming
<1>6. IsPiece(Head(w)) /\ Head(w).n = n /\ Head(w).off = Start(w) /\ To(Head(w)) = Start(r)
    BY <1>1, <1>2, <1>3
<1> QED BY <1>5, <1>6 DEF r

\* A fragment arrives.
LEMMA ArriveBack ==
    ASSUME IInv, BackInv, mishaps = {}, mishaps' = {}, Network
    PROVE  BackKept
<1>1. PICK k \in answered : /\ net[k] # <<>> /\ sock' = Append(sock, Head(net[k]))
                            /\ net' = [net EXCEPT ![k] = Tail(@)]
    BY DEF Network, Arrive, Enter, Repeat, Overtake, Lose, Damage, Mishap
<1>2. UNCHANGED <<link, questions, wire, answered, cache, lan, unknown>>
    BY DEF Network, handleVars, outVars
<1>3. BackTypes /\ (link = "wireguard" => Carried /\ Received)
    BY OutFacts
<1>4. /\ sock \in Seq(Arrivals) /\ net \in [1..MaxAsk -> Seq(Pieces)]
      /\ \A n \in answered : n \in 1..Len(questions) /\ n \in 1..MaxAsk
    BY BackFacts
<1>5. PICK w : w = net[k]
    OBVIOUS
<1>6. PICK x : x = Head(w)
    OBVIOUS
<1>7. w \in Seq(Pieces) /\ w # <<>>
    BY <1>1, <1>4, <1>5
<1>8. x \in Pieces /\ Tail(w) \in Seq(Pieces)
    BY <1>6, <1>7, TailFacts
<1>9. x \in Arrivals /\ x.kind = "ip"
    BY <1>8 DEF Arrivals, Pieces
<1>10. /\ sock' = Append(sock, x) /\ sock' \in Seq(Arrivals)
       /\ \A j \in 1..Len(sock') : sock'[j] = x \/ (j \in 1..Len(sock) /\ sock'[j] = sock[j])
    <2>1. sock' = Append(sock, x)
        BY <1>1, <1>5, <1>6
    <2> QED BY <1>4, <1>9, <2>1, AppendFacts
<1>11. /\ net' \in [1..MaxAsk -> Seq(Pieces)] /\ net'[k] = Tail(w)
       /\ \A n \in 1..MaxAsk : n # k => net'[n] = net[n]
    BY <1>1, <1>4, <1>5, <1>8
<1>12. BackTypes'
    BY <1>2, <1>3, <1>10, <1>11 DEF BackTypes, Arrivals
<1>13. ASSUME link = "wireguard" PROVE Carried' /\ Received'
    <2>1. QuestionsKept
        BY <1>2, SameQuestions
    <2>2. Coming(w, k)
        BY <1>3, <1>5, <1>13 DEF Carried, OnItsWay
    <2>3. /\ IsPiece(x) /\ x.n = k /\ x.off = Start(w) /\ To(x) = Start(Tail(w))
          /\ Coming(Tail(w), k)
        BY <1>6, <1>7, <2>2, ComingTail
    <2>4. ASSUME NEW n \in answered PROVE OnItsWay(n)'
        <3>1. OnItsWay(n)
            BY <1>3, <1>13 DEF Carried
        <3>2. PICK g \in 0..6 : Between(sock, n, g, Start(net[n])) /\ Stored(cache, n, g)
            BY <3>1 DEF OnItsWay, PayloadCells
        <3>3. Coming(net[n], n)
            BY <3>1 DEF OnItsWay
        <3>4. CASE n = k
            <4>1. Start(w) \in Nat /\ g \in Nat
                BY <1>7, <2>2, StartFacts
            <4>2. Between(sock, k, g, Start(w))
                BY <1>5, <3>2, <3>4
            <4>3. Between(Append(sock, x), k, g, To(x))
                BY <1>4, <1>9, <2>3, <4>1, <4>2, BetweenNext
            <4>4. Between(Append(sock, x), k, g, Start(Tail(w))) /\ Stored(cache, k, g)
                BY <2>3, <3>2, <3>4, <4>3
            <4>5. cache' = cache /\ k \in 1..Len(questions)
                BY <1>2, <1>4
            <4>6. OnItsWay(k)'
                BY <1>10, <1>11, <2>1, <2>3, <4>4, <4>5, StillOnItsWay
            <4> QED BY <3>4, <4>6
        <3>5. CASE n # k
            <4>1. Between(Append(sock, x), n, g, Start(net[n]))
                BY <1>4, <1>9, <2>3, <3>2, <3>5, BetweenOther
            <4>2. net'[n] = net[n] /\ cache' = cache /\ n \in 1..Len(questions)
                BY <1>2, <1>4, <1>11, <3>5
            <4> QED BY <1>10, <2>1, <3>2, <3>3, <4>1, <4>2, StillOnItsWay
        <3> QED BY <3>4, <3>5
    <2>5. \A j \in 1..Len(sock') : sock'[j].kind = "ip" => sock'[j].n \in answered'
        BY <1>2, <1>3, <1>10, <1>13, <2>3 DEF Carried
    <2>6. \A n \in 1..MaxAsk : n \notin answered' => net'[n] = <<>>
        BY <1>2, <1>3, <1>11, <1>13 DEF Carried
    <2>7. (\A n \in answered : OnItsWay(n))'
        BY <1>2, <2>4
    <2>8. cache' = [n \in DOMAIN cache' |-> cache'[n]] /\ DOMAIN cache' \subseteq answered'
        BY <1>2, <1>3, <1>13 DEF Carried
    <2>9. Carried'
        BY <2>5, <2>6, <2>7, <2>8 DEF Carried
    <2>10. Received'
        BY <1>2, <1>3, <1>13 DEF Received
    <2> QED BY <2>9, <2>10
<1> QED BY <1>12, <1>13 DEF BackKept

-----------------------------------------------------------------------------
(* A datagram is read: whole, or a fragment that is cached, added or the last. *)

\* An answer that is complete reaches the host its NAT entry names; only that to
\* a protocol without ports is dropped.
Handed(n) ==
    \/ questions[n].proto = "other" /\ lan' = lan /\ unknown' = unknown \cup {n}
    \/ /\ EntryOf(questions[n]) \in DOMAIN nat /\ unknown' = unknown
       /\ \E u \in Pieces : Unmasked(u, n, nat[EntryOf(questions[n])]) /\ lan' = Append(lan, u)

\* Deliver does that, and nothing else.
LEMMA DeliverWhole ==
    ASSUME questions \in Seq(Packets), NEW n \in 1..Len(questions), NEW w,
           w = Part(n, 0, 6, FALSE), Deliver(w),
           questions[n].proto # "other" => EntryOf(questions[n]) \in DOMAIN nat,
           \A e \in DOMAIN nat : nat[e] \in Hosts
    PROVE  UNCHANGED <<rx, batch, pc, tun, nat>> /\ Handed(n)
<1>1. /\ ~Short(w) /\ NatKey(w) = EntryOf(questions[n])
      /\ w.proto = questions[n].proto /\ w.n = n
    BY WholeFacts
<1>2. ~(Len(payload(w)) < SumCell(w.proto))
    <2> DEFINE no == FALSE
               proto == questions[n].proto
    <2>1. w = Part(n, 0, 6, no) /\ 0 \in Nat /\ 6 \in Nat /\ 0 <= 6 /\ 6 <= 6
        OBVIOUS
    <2>2. /\ proto \in {"icmp", "tcp", "udp", "other"}
          /\ Reply(n) \in Seq(Cells) /\ Len(Reply(n)) = 6
        BY ReplyFacts
    <2> HIDE DEF no, proto
    <2>3. PartIs(w, n, 0, 6, no)
        BY <2>1, PartFacts
    <2>4. payload(w) = SubSeq(Reply(n), 0 + 1, 6)
        BY <2>3 DEF PartIs
    <2>5. Len(SubSeq(Reply(n), 0 + 1, 6)) = 6 - 0
        BY <2>1, <2>2, PartsJoin
    <2>6. SumCell(proto) \in 0..6
        BY <2>2, CellFacts
    <2>7. Len(payload(w)) = 6
        <3>1. 6 - 0 = 6
            OBVIOUS
        <3> QED BY <2>4, <2>5, <3>1, Zenon
    <2>8. w.proto = proto
        BY <1>1 DEF proto
    <2>9. ~(6 < SumCell(proto))
        BY <2>6
    <2> QED BY <2>7, <2>8, <2>9, Zenon
<1>3. Known(w) <=> questions[n].proto # "other"
    BY <1>1 DEF Known
<1>4. CASE questions[n].proto = "other"
    <2>1. /\ unknown' = unknown \cup {w.n}
          /\ UNCHANGED <<rx, batch, pc, woken, tun, nat, edge, lan>>
        BY <1>1, <1>3, <1>4 DEF Deliver
    <2> QED BY <1>1, <1>4, <2>1 DEF Handed
<1>5. CASE questions[n].proto # "other"
    <2> DEFINE ip == nat[NatKey(w)]
               u == unmasquerade(w, ip)
    <2>1. /\ lan' = Append(lan, u)
          /\ UNCHANGED <<rx, batch, pc, woken, tun, nat, edge, unknown>>
        BY <1>1, <1>2, <1>3, <1>5 DEF Deliver
    <2>2. EntryOf(questions[n]) \in DOMAIN nat /\ ip = nat[EntryOf(questions[n])]
        BY <1>1, <1>5
    <2>3. ip \in Hosts \cup {WanIp}
        BY <2>2
    <2> HIDE DEF ip
    <2>4. Unmasked(u, n, ip)
        BY <2>3, UnmasqueradeFacts
    <2> HIDE DEF u
    <2>5. u \in Pieces
        BY <2>4 DEF Unmasked
    <2> QED BY <2>1, <2>2, <2>4, <2>5 DEF Handed
<1> QED BY <1>4, <1>5

\* The cache after cells 1..b of answer n were read; other entries stay.
CacheStep(c, d, n, b) ==
    /\ d = [m \in DOMAIN d |-> d[m]] /\ Stored(d, n, b)
    /\ \A m : m # n => (m \in DOMAIN d <=> m \in DOMAIN c) /\ (m \in DOMAIN c => d[m] = c[m])

\* Nothing is cached of an answer that came whole.
LEMMA CacheSkipped ==
    ASSUME NEW c, c = [m \in DOMAIN c |-> c[m]], NEW n, n \notin DOMAIN c
    PROVE  CacheStep(c, c, n, 6)
<1>1. ~(0 < 6 /\ 6 < 6)
    OBVIOUS
<1>2. Stored(c, n, 6)
    BY <1>1, Zenon DEF Stored, PayloadCells
<1> QED BY <1>2 DEF CacheStep

\* An entry is new, or replaced.
LEMMA CacheEntered ==
    ASSUME NEW c, NEW n, NEW b \in 1..5, NEW p, p = Part(n, 0, b, TRUE), NEW d,
           d = [m \in DOMAIN c \cup {n} |-> IF m = n THEN p ELSE c[m]]
    PROVE  CacheStep(c, d, n, b)
<1>1. n \in DOMAIN d /\ d[n] = p /\ 0 < b /\ b < 6
    OBVIOUS
<1>2. Stored(d, n, b)
    BY <1>1, Zenon DEF Stored, PayloadCells
<1>3. d = [m \in DOMAIN d |-> d[m]]
    OBVIOUS
<1>4. \A m : m # n => (m \in DOMAIN d <=> m \in DOMAIN c) /\ (m \in DOMAIN c => d[m] = c[m])
    OBVIOUS
<1> QED BY <1>2, <1>3, <1>4 DEF CacheStep

\* ... or taken out when the answer is complete.
LEMMA CacheTaken ==
    ASSUME NEW c, NEW n, NEW d, d = [m \in DOMAIN c \ {n} |-> c[m]]
    PROVE  CacheStep(c, d, n, 6)
<1>1. n \notin DOMAIN d /\ ~(0 < 6 /\ 6 < 6)
    OBVIOUS
<1>2. Stored(d, n, 6)
    BY <1>1, Zenon DEF Stored, PayloadCells
<1>3. d = [m \in DOMAIN d |-> d[m]]
    OBVIOUS
<1>4. \A m : m # n => (m \in DOMAIN d <=> m \in DOMAIN c) /\ (m \in DOMAIN c => d[m] = c[m])
    OBVIOUS
<1> QED BY <1>2, <1>3, <1>4 DEF CacheStep

\* handle_tun_result, without mishap: the next cells of an answer are read, and the
\* answer is handed over when they are the last.
TakenUp(n, b) ==
    /\ UNCHANGED <<rx, batch, pc, tun, nat>> /\ CacheStep(cache, cache', n, b)
    /\ UNCHANGED <<lan, unknown>> \/ Handed(n)

\* Whole, first, in between or last: handle_tun_result takes it up.
LEMMA PieceRead ==
    ASSUME questions \in Seq(Packets), NEW n \in 1..Len(questions), NEW x, IsPiece(x), x.n = n,
           NEW g \in Nat, x.off = g, x = Head(sock), handle_tun_result, Stored(cache, n, g),
           cache = [m \in DOMAIN cache |-> cache[m]],
           questions[n].proto # "other" => EntryOf(questions[n]) \in DOMAIN nat,
           \A e \in DOMAIN nat : nat[e] \in Hosts
    PROVE  TakenUp(n, To(x))
<1>1. PICK b, more : b = To(x) /\ more = (To(x) < 6)
    OBVIOUS
<1>2. b \in Nat /\ g < b /\ b <= 6 /\ g <= b /\ x = Part(n, g, b, more)
    BY <1>1, PieceNumbers
<1>3. PartIs(x, n, g, b, more)
    BY <1>2, PartFacts
<1>4. x.id = n /\ x.mf = more
    BY <1>3 DEF PartIs
<1>5. /\ \/ ~x.mf /\ x.off = 0 /\ Deliver(x) /\ UNCHANGED cache
         \/ /\ x.mf /\ x.off = 0 /\ Kept
            /\ cache' = [i \in DOMAIN cache \cup {n} |-> IF i = n THEN x ELSE cache[i]]
         \/ x.mf /\ x.off # 0 /\ Cached(x) /\ Kept
         \/ ~x.mf /\ x.off # 0 /\ Completed(x)
    BY <1>4 DEF handle_tun_result
<1>6. CASE b = 6 /\ g = 0
    <2>0. ~(To(x) < 6)
        BY <1>1, <1>6
    <2>1. more = FALSE
        <3>1. ~more
            BY ONLY <1>1, <2>0, Zenon
        <3>2. more \in BOOLEAN
            BY ONLY <1>1, SMT
        <3> QED BY ONLY <3>1, <3>2
    <2>2. Deliver(x) /\ cache' = cache
        BY <1>4, <1>5, <1>6, <2>1
    <2>3. x = Part(n, 0, 6, FALSE)
        BY <1>2, <1>6, <2>1
    <2>4. UNCHANGED <<rx, batch, pc, tun, nat>> /\ Handed(n)
        BY <2>2, <2>3, DeliverWhole
    <2>5. n \notin DOMAIN cache
        BY <1>6 DEF Stored
    <2>6. CacheStep(cache, cache', n, 6)
        BY <2>2, <2>5, CacheSkipped
    <2> QED BY <1>1, <1>6, <2>4, <2>6 DEF TakenUp
<1>7. CASE b < 6 /\ g = 0
    <2>1. more = TRUE
        BY <1>1, <1>7
    <2>2. /\ cache' = [i \in DOMAIN cache \cup {n} |-> IF i = n THEN x ELSE cache[i]] /\ Kept
        BY <1>4, <1>5, <1>7, <2>1
    <2>3. x = Part(n, 0, b, TRUE)
        BY <1>2, <1>7, <2>1, Zenon
    <2>4. b \in 1..5
        BY <1>2, <1>7
    <2>5. CacheStep(cache, cache', n, b)
        <3>1. PICK d : /\ d = cache'
                       /\ d = [i \in DOMAIN cache \cup {n} |-> IF i = n THEN x ELSE cache[i]]
            BY ONLY <2>2, Zenon
        <3>2. CacheStep(cache, d, n, b)
            BY ONLY <2>3, <2>4, <3>1, CacheEntered, Zenon
        <3> QED BY ONLY <3>1, <3>2, Zenon
    <2> QED BY <1>1, <2>2, <2>5 DEF TakenUp, Kept
<1>8. ASSUME g # 0
      PROVE  /\ n \in DOMAIN cache /\ cache[n] = Part(n, 0, g, TRUE)
             /\ add_fragment_data(cache[n], x.off, payload(x)) = Part(n, 0, b, TRUE)
    <2>1. 0 < g /\ g < 6
        BY <1>2, <1>8
    <2>2. n \in DOMAIN cache /\ cache[n] = Part(n, 0, g, TRUE)
        BY <2>1 DEF Stored, PayloadCells
    <2>3. add_fragment_data(Part(n, 0, g, TRUE), g, payload(Part(n, g, b, more)))
              = Part(n, 0, b, TRUE)
        <3>1. /\ questions \in Seq(Packets) /\ n \in 1..Len(questions) /\ g \in Nat /\ b \in Nat
              /\ g <= b /\ b <= 6
            BY <1>2
        <3> QED BY ONLY <3>1, NextPartAdded
    <2> QED BY <1>2, <2>2, <2>3
<1>9. CASE b < 6 /\ g # 0
    <2>1. more = TRUE
        BY <1>1, <1>9
    <2>2. Cached(x) /\ Kept
        BY <1>4, <1>5, <1>9, <2>1
    <2> DEFINE p == add_fragment_data(cache[n], x.off, payload(x))
    <2>3. n \in DOMAIN cache /\ p = Part(n, 0, b, TRUE)
        BY <1>8, <1>9
    <2>4. cache' = [cache EXCEPT ![n] = p]
        BY <1>4, <2>2, <2>3 DEF Cached
    <2> HIDE DEF p
    <2>5. cache' = [m \in DOMAIN cache \cup {n} |-> IF m = n THEN p ELSE cache[m]]
        BY <2>3, <2>4
    <2>6. b \in 1..5
        BY <1>2, <1>9
    <2>7. CacheStep(cache, cache', n, b)
        BY ONLY <2>3, <2>5, <2>6, CacheEntered, Zenon
    <2> QED BY <1>1, <2>2, <2>7 DEF TakenUp, Kept
<1>10. CASE b = 6 /\ g # 0
    <2>0. ~(To(x) < 6)
        BY <1>1, <1>10
    <2>1. more = FALSE
        <3>1. ~more
            BY ONLY <1>1, <2>0, Zenon
        <3>2. more \in BOOLEAN
            BY ONLY <1>1, SMT
        <3> QED BY ONLY <3>1, <3>2
    <2>2. Completed(x)
        BY <1>4, <1>5, <1>10, <2>1
    <2> DEFINE w == finalize(add_fragment_data(cache[n], x.off, payload(x)))
    <2>3. n \in DOMAIN cache /\ w = Part(n, 0, 6, FALSE)
        <3>1. add_fragment_data(cache[n], x.off, payload(x)) = Part(n, 0, 6, TRUE)
            BY <1>8, <1>10
        <3>2. n \in DOMAIN cache
            BY <1>8, <1>10
        <3> QED BY <3>1, <3>2, WholeFinalized
    <2>4. cache' = Without(n) /\ Deliver(w)
        BY <1>4, <2>2, <2>3 DEF Completed
    <2> HIDE DEF w
    <2>5. UNCHANGED <<rx, batch, pc, tun, nat>> /\ Handed(n)
        BY <2>3, <2>4, DeliverWhole
    <2>6. cache' = [m \in DOMAIN cache \ {n} |-> cache[m]]
        BY <2>4 DEF Without
    <2>7. CacheStep(cache, cache', n, 6)
        BY <2>6, CacheTaken
    <2> QED BY <1>1, <1>10, <2>5, <2>7 DEF TakenUp
<1>11. b < 6 \/ b = 6
    BY <1>2
<1> QED BY <1>6, <1>7, <1>9, <1>10, <1>11

\* What the NAT table has for the questions that arrived.
LEMMA NatFacts ==
    ASSUME IInv, BackInv, mishaps = {}, link = "wireguard"
    PROVE  /\ \A n \in answered : questions[n].proto # "other" =>
                                    EntryOf(questions[n]) \in DOMAIN nat
           /\ \A e \in DOMAIN nat : nat[e] \in Hosts
<1>1. /\ Noted /\ Asked /\ Len(wire) \in Nat /\ Len(tun.queue) \in Nat /\ Len(batch) \in Nat
      /\ Len(questions) \in Nat /\ Len(wire) + Len(tun.queue) + Len(batch) <= Len(questions)
    BY OutFacts
<1>2. PICK s \in Nat : s = Len(wire) + Len(tun.queue)
    BY <1>1
<1>3. /\ \A n \in 1..Len(wire) : n \in 1..s
      /\ \A i \in 1..s : i \in 1..Len(questions)
    BY <1>1, <1>2
<1>4. NotedUpto(nat, s)
    BY <1>1, <1>2 DEF Noted
<1>5. ASSUME NEW n \in answered, questions[n].proto # "other"
      PROVE  EntryOf(questions[n]) \in DOMAIN nat
    <2>1. n \in 1..Len(wire)
        BY BackFacts
    <2> QED BY <1>3, <1>4, <1>5, <2>1 DEF NotedUpto
<1>6. ASSUME NEW e \in DOMAIN nat PROVE nat[e] \in Hosts
    <2>1. PICK i \in 1..s : nat[e] = questions[i].src
        BY <1>4 DEF NotedUpto
    <2>2. IsAsked(i)
        BY <1>1, <1>3 DEF Asked
    <2> QED BY <2>1, <2>2 DEF IsAsked
<1> QED BY <1>5, <1>6

\* What is read is the next fragment of an answer.
LEMMA NextPieceRead ==
    ASSUME IInv, BackInv, mishaps = {}, handle_tun_result
    PROVE  \E n \in answered, b \in 0..6 :
              /\ Head(sock).n = n /\ Head(sock).kind = "ip" /\ TakenUp(n, b)
              /\ Between(Tail(sock), n, b, Start(net[n])) /\ Coming(net[n], n)
<1>1. link = "wireguard" /\ sock # <<>> /\ Head(sock).kind = "ip"
    BY DEF handle_tun_result
<1>2. Carried
    BY <1>1, OutFacts
<1>3. /\ questions \in Seq(Packets) /\ sock \in Seq(Arrivals)
      /\ net \in [1..MaxAsk -> Seq(Pieces)]
      /\ \A n \in answered : n \in 1..Len(questions) /\ n \in 1..MaxAsk
    BY BackFacts
<1>4. PICK x : x = Head(sock)
    OBVIOUS
<1>5. PICK n \in answered : n = x.n
    <2>1. Head(sock) = sock[1] /\ 1 \in 1..Len(sock)
        BY <1>1, <1>3, TailFacts
    <2> QED BY <1>1, <1>2, <1>4, <2>1 DEF Carried
<1>6. OnItsWay(n)
    BY <1>2 DEF Carried
<1>7. PICK g \in 0..6 : Between(sock, n, g, Start(net[n])) /\ Stored(cache, n, g)
    BY <1>6 DEF OnItsWay, PayloadCells
<1>8. Coming(net[n], n)
    BY <1>6 DEF OnItsWay
<1>9. PICK e : e = Start(net[n])
    OBVIOUS
<1>10. e \in 0..6
    BY <1>3, <1>8, <1>9, StartFacts
<1>11. g \in Nat /\ Between(sock, n, g, e) /\ x.kind = "ip"
    BY <1>1, <1>4, <1>7, <1>9
<1>12. IsPiece(x) /\ x.off = g /\ To(x) <= e /\ Between(Tail(sock), n, To(x), e)
    BY <1>1, <1>3, <1>4, <1>5, <1>10, <1>11, BetweenTake
<1>13. /\ questions[n].proto # "other" => EntryOf(questions[n]) \in DOMAIN nat
       /\ \A i \in DOMAIN nat : nat[i] \in Hosts
    BY <1>1, NatFacts
<1>14. n \in 1..Len(questions) /\ cache = [m \in DOMAIN cache |-> cache[m]] /\ Stored(cache, n, g)
    BY <1>2, <1>3, <1>7 DEF Carried
<1>15. TakenUp(n, To(x))
    BY <1>3, <1>4, <1>5, <1>11, <1>12, <1>13, <1>14, PieceRead
<1>16. To(x) \in 0..6
    BY <1>12, PieceNumbers
<1> QED BY <1>4, <1>5, <1>8, <1>9, <1>11, <1>12, <1>15, <1>16

\* The answers after a datagram was read.
LEMMA HandleBack ==
    ASSUME IInv, BackInv, mishaps = {}, handle_tun_result
    PROVE  /\ BackKept
           /\ UNCHANGED <<link, questions, rx, batch, pc, wire, tun, nat>>
<1>1. /\ link = "wireguard" /\ sock # <<>> /\ sock' = Tail(sock)
      /\ UNCHANGED <<link, questions, wire, net, answered>>
    BY DEF handle_tun_result, netVars
<1>2. BackTypes /\ Carried /\ Received
    BY <1>1, OutFacts
<1>3. /\ questions \in Seq(Packets) /\ sock \in Seq(Arrivals) /\ lan \in Seq(Pieces)
      /\ \A n \in answered : n \in 1..Len(questions)
      /\ \A n \in unknown : n \in answered /\ questions[n].proto = "other"
    BY BackFacts
<1>4. PICK k \in answered, b \in 0..6 :
              /\ Head(sock).n = k /\ TakenUp(k, b)
              /\ Between(Tail(sock), k, b, Start(net[k])) /\ Coming(net[k], k)
    BY NextPieceRead
<1>5. PICK d : d = cache'
    OBVIOUS
<1>6. /\ UNCHANGED <<rx, batch, pc, tun, nat>> /\ CacheStep(cache, d, k, b)
      /\ UNCHANGED <<lan, unknown>> \/ Handed(k)
    BY <1>4, <1>5 DEF TakenUp
<1>7. /\ sock' \in Seq(Arrivals)
      /\ \A j \in 1..Len(sock') : j + 1 \in 1..Len(sock) /\ sock'[j] = sock[j + 1]
    BY <1>1, <1>3, TailFacts
<1>8. /\ lan' \in Seq(Pieces) /\ Received'
      /\ \A n \in unknown' : n \in answered' /\ questions'[n].proto = "other"
    <2>1. CASE UNCHANGED <<lan, unknown>>
        BY <1>1, <1>2, <1>3, <2>1 DEF Received
    <2>2. CASE questions[k].proto = "other" /\ lan' = lan /\ unknown' = unknown \cup {k}
        BY <1>1, <1>2, <1>3, <2>2 DEF Received
    <2>3. ASSUME NEW u \in Pieces, NEW ip, Unmasked(u, k, ip), lan' = Append(lan, u),
                 unknown' = unknown
          PROVE  /\ lan' \in Seq(Pieces) /\ Received'
                 /\ \A n \in unknown' : n \in answered' /\ questions'[n].proto = "other"
        <3>1. /\ lan' \in Seq(Pieces)
              /\ \A i \in 1..Len(lan') : lan'[i] = u \/ (i \in 1..Len(lan) /\ lan'[i] = lan[i])
            BY <1>3, <2>3, AppendFacts
        <3>2. /\ payload(u) = Segment(u.n, u.proto, u.port, u.dst)
              /\ u.length = Len(u.data) /\ u.mf = FALSE
            BY <2>3 DEF Unmasked
        <3>3. Received'
            BY <1>2, <3>1, <3>2 DEF Received
        <3> QED BY <1>1, <1>3, <2>3, <3>1, <3>3
    <2> QED BY <1>6, <2>1, <2>2, <2>3 DEF Handed
<1>9. BackTypes'
    BY <1>1, <1>2, <1>7, <1>8 DEF BackTypes, Arrivals
<1>10. QuestionsKept
    BY <1>1, SameQuestions
<1>11. ASSUME NEW n \in answered PROVE OnItsWay(n)'
    <2>1. CASE n = k
        <3>1. /\ Stored(d, k, b) /\ Coming(net[k], k)
              /\ Between(Tail(sock), k, b, Start(net[k])) /\ k \in 1..Len(questions)
              /\ sock' = Tail(sock) /\ net'[k] = net[k] /\ cache' = d
            BY <1>1, <1>3, <1>4, <1>5, <1>6 DEF CacheStep
        <3>2. OnItsWay(k)'
            BY <1>10, <3>1, StillOnItsWay
        <3> QED BY <2>1, <3>2
    <2>2. CASE n # k
        <3>1. OnItsWay(n)
            BY <1>2 DEF Carried
        <3>2. PICK g \in 0..6 : Between(sock, n, g, Start(net[n])) /\ Stored(cache, n, g)
            BY <3>1 DEF OnItsWay, PayloadCells
        <3>3. Coming(net[n], n)
            BY <3>1 DEF OnItsWay
        <3>4. Between(Tail(sock), n, g, Start(net[n]))
            BY <1>1, <1>3, <1>4, <2>2, <3>2, BetweenSkip
        <3>5. Stored(d, n, g)
            BY <1>6, <2>2, <3>2 DEF CacheStep, Stored
        <3>6. sock' = Tail(sock) /\ net'[n] = net[n] /\ cache' = d /\ n \in 1..Len(questions)
            BY <1>1, <1>3, <1>5
        <3> QED BY <1>10, <3>2, <3>3, <3>4, <3>5, <3>6, StillOnItsWay
    <2> QED BY <2>1, <2>2
<1>12. cache' = [n \in DOMAIN cache' |-> cache'[n]] /\ DOMAIN cache' \subseteq answered'
    BY <1>1, <1>2, <1>4, <1>5, <1>6 DEF CacheStep, Carried
<1>13. /\ \A j \in 1..Len(sock') : sock'[j].kind = "ip" => sock'[j].n \in answered'
       /\ \A n \in 1..MaxAsk : n \notin answered' => net'[n] = <<>>
    BY <1>1, <1>2, <1>7 DEF Carried
<1>14. (\A n \in answered : OnItsWay(n))'
    BY <1>1, <1>11
<1>15. Carried'
    BY <1>12, <1>13, <1>14 DEF Carried
<1> QED BY <1>1, <1>6, <1>8, <1>9, <1>15 DEF BackKept

-----------------------------------------------------------------------------
(* The invariant of the way back. *)

\* It holds at the start.
LEMMA InitBack == Init => BackInv
<1> SUFFICES ASSUME Init PROVE BackInv
    OBVIOUS
<1>1. /\ rx = <<>> /\ batch = <<>> /\ pc = "poll" /\ nat = <<>> /\ cache = <<>>
      /\ tun = [session |-> FALSE, handshake |-> FALSE, queue |-> <<>>]
      /\ net = [n \in 1..MaxAsk |-> <<>>] /\ sock = <<>> /\ wire = <<>> /\ lan = <<>>
      /\ unknown = {} /\ questions = <<>> /\ answered = {}
    BY DEF Init
<1>2. tun.queue = <<>> /\ Len(<<>>) = 0 /\ (\A i \in 1..0 : FALSE) /\ 0 <= MaxAsk
    BY <1>1, WanAssumption
<1>3. Asked
    BY <1>1, <1>2 DEF Asked
<1>4. BackTypes
    <2>1. <<>> \in Seq(Pieces) /\ <<>> \in Seq(Pieces \cup {[kind |-> "response"]})
        OBVIOUS
    <2>2. net \in [1..MaxAsk -> Seq(Pieces)]
        BY <1>1, <2>1
    <2> QED BY <1>1, <2>1, <2>2 DEF BackTypes
<1>5. Noted
    <2>1. DOMAIN nat = {}
        BY <1>1
    <2>2. Len(wire) + Len(tun.queue) = 0
        BY <1>1, <1>2
    <2>3. NotedUpto(nat, 0)
        BY <1>2, <2>1, Zenon DEF NotedUpto
    <2> QED BY <2>2, <2>3 DEF Noted
<1>6. Carried
    <2>1. cache = [n \in DOMAIN cache |-> cache[n]] /\ DOMAIN cache = {}
        BY <1>1
    <2>2. \A n \in 1..MaxAsk : net[n] = <<>>
        BY <1>1
    <2> QED BY <1>1, <1>2, <2>1, <2>2 DEF Carried
<1>7. Received
    BY <1>1, <1>2 DEF Received
<1> QED BY <1>1, <1>3, <1>4, <1>5, <1>6, <1>7 DEF BackInv

\* and a step keeps it when it keeps both ways and the thread.
StepKept == OutKept /\ BackKept /\ pc' # "dead"

\* Each step on the way out does.
LEMMA OutStepKept ==
    ASSUME IInv, BackInv, mishaps = {}, mishaps' = {},
           \/ \E f \in Flows : Send(f) \/ WriteUdp(f)
           \/ StartDrain \/ WriteTap \/ Encapsulate \/ Flush
    PROVE  StepKept
<1>1. /\ UNCHANGED <<sock, net, answered, cache, lan, unknown>>
    BY DEF Send, WriteUdp, StartDrain, WriteTap, Encapsulate, Flush, threadVars, outVars, netVars
<1>2. pc # "dead"
    BY OutFacts
<1>3. pc' # "dead"
    BY <1>2 DEF Send, WriteUdp, StartDrain, WriteTap, Encapsulate, Flush, threadVars, Draining
<1>4. OutKept
    BY SendOut, WriteUdpOut, StartDrainOut, WriteTapOut, EncapsulateOut, FlushOut
<1>5. BackKept
    BY <1>1, <1>4, SameBack DEF OutKept
<1> QED BY <1>3, <1>4, <1>5 DEF StepKept

\* And so does every other one.
LEMMA OtherStepKept ==
    ASSUME IInv, BackInv, mishaps = {}, mishaps' = {},
           \/ Wake \/ Timer \/ StartRead \/ EndRead \/ UNCHANGED vars
           \/ ReadResponse \/ handle_tun_result \/ ReadUdp \/ ReadTap \/ Respond
           \/ \E q \in ToSet(wire), cut \in Cuts : Answer(q, cut)
           \/ Network
    PROVE  StepKept
<1>1. pc # "dead" /\ tun \in Tunnels
    BY OutFacts
<1>2. CASE Wake \/ Timer \/ StartRead \/ EndRead \/ UNCHANGED vars
    <2>1. /\ UNCHANGED <<sock, net, answered, cache, lan, unknown>>
          /\ UNCHANGED <<link, questions, rx, batch, wire, nat, tun>> /\ pc' # "dead"
        BY <1>1, <1>2 DEF Wake, Timer, StartRead, EndRead, vars, handleVars, threadVars, outVars,
                          netVars
    <2>2. OutKept
        BY <2>1, SameOut
    <2>3. BackKept
        BY <2>1, <2>2, SameBack DEF OutKept
    <2> QED BY <2>1, <2>2, <2>3 DEF StepKept
<1>3. CASE ReadResponse
    <2>1. /\ UNCHANGED <<link, questions, rx, batch, wire, nat>> /\ pc' # "dead"
          /\ tun' = [tun EXCEPT !.session = TRUE, !.handshake = FALSE]
        BY <1>3 DEF ReadResponse, handleVars, outVars
    <2>2. tun'.queue = tun.queue
        BY <1>1, <2>1 DEF Tunnels
    <2>3. OutKept
        BY <2>1, <2>2, SameOut
    <2> QED BY <1>3, <2>1, <2>3, ReadResponseBack DEF StepKept
<1>4. CASE handle_tun_result
    <2>1. BackKept /\ UNCHANGED <<link, questions, rx, batch, pc, wire, tun, nat>>
        BY <1>4, HandleBack
    <2>2. OutKept
        BY <2>1, SameOut
    <2> QED BY <1>1, <2>1, <2>2 DEF StepKept
<1>5. CASE ReadUdp \/ ReadTap
    <2>1. BackKept /\ pc' = pc
        BY <1>5, ReadBack
    <2>2. UNCHANGED <<link, questions, rx, batch, wire, tun, nat>>
        BY <1>5 DEF ReadUdp, ReadTap, handleVars, outVars
    <2>3. OutKept
        BY <2>2, SameOut
    <2> QED BY <1>1, <2>1, <2>3 DEF StepKept
<1>6. CASE Respond
    <2>1. UNCHANGED <<link, questions, rx, batch, wire, tun, nat, pc>>
        BY <1>6 DEF Respond, handleVars
    <2>2. OutKept
        BY <2>1, SameOut
    <2> QED BY <1>1, <1>6, <2>1, <2>2, RespondBack DEF StepKept
<1>7. ASSUME NEW q \in ToSet(wire), NEW cut \in Cuts, Answer(q, cut) PROVE StepKept
    <2>1. UNCHANGED <<link, questions, rx, batch, wire, tun, nat, pc>>
        BY <1>7 DEF Answer, handleVars, threadVars, outVars
    <2>2. OutKept
        BY <2>1, SameOut
    <2> QED BY <1>1, <1>7, <2>1, <2>2, AnswerBack DEF StepKept
<1>8. CASE Network
    <2>1. UNCHANGED <<link, questions, rx, batch, wire, tun, nat, pc>>
        BY <1>8 DEF Network, handleVars, outVars
    <2>2. OutKept
        BY <2>1, SameOut
    <2> QED BY <1>1, <1>8, <2>1, <2>2, ArriveBack DEF StepKept
<1> QED BY <1>2, <1>3, <1>4, <1>5, <1>6, <1>7, <1>8

\* The invariant is kept, whatever the step.
LEMMA NextBack == IInv /\ BackInv /\ [Next]_vars => BackInv'
<1> SUFFICES ASSUME IInv, BackInv, [Next]_vars, mishaps' = {}
             PROVE  /\ pc' # "dead" /\ Asked' /\ BackTypes'
                    /\ link' = "wireguard" => Noted' /\ Carried' /\ Received'
    BY DEF BackInv
<1>1. mishaps = {}
    BY NoMishap
<1>2. \/ \E f \in Flows : Send(f) \/ WriteUdp(f)
      \/ StartDrain \/ WriteTap \/ Encapsulate \/ Flush
      \/ Wake \/ Timer \/ StartRead \/ EndRead \/ UNCHANGED vars
      \/ ReadResponse \/ handle_tun_result \/ ReadUdp \/ ReadTap \/ Respond
      \/ \E q \in ToSet(wire), cut \in Cuts : Answer(q, cut)
      \/ Network
    BY NoMishap
<1>3. StepKept
    BY <1>1, <1>2, OutStepKept, OtherStepKept
<1> QED BY <1>3 DEF StepKept, OutKept, BackKept, QuestionsKept

\* As long as there is no mishap, the fragments of each answer are in the network, the
\* socket and the cache in order and without a gap, the NAT table has the entries of all
\* tracked questions that left, and the thread lives.
THEOREM AnswersAccountedFor == Spec => []BackInv
<1>1. Init => IInv /\ BackInv
    BY InitIInv, InitBack
<1>2. IInv /\ BackInv /\ [Next]_vars => (IInv /\ BackInv)'
    BY NextIInv, NextBack
<1> QED BY <1>1, <1>2, PTL DEF Spec

\* add_fragment_data, finalize and unmasquerade: without loss, reordering and equal
\* identifications the guest gets exactly the segment that was sent.
THEOREM AnswersReassembled == Spec => []ReassembledExactly
<1>1. BackInv => ReassembledExactly
    <2> SUFFICES ASSUME BackInv, link = "wireguard", mishaps = {}, NEW i \in 1..Len(lan)
           PROVE  /\ payload(lan[i]) = Segment(lan[i].n, lan[i].proto, lan[i].port, lan[i].dst)
                  /\ lan[i].length = Len(lan[i].data) /\ ~lan[i].mf
        BY DEF ReassembledExactly
    <2>1. Received
        BY DEF BackInv
    <2>2. /\ payload(lan[i]) = Segment(lan[i].n, lan[i].proto, lan[i].port, lan[i].dst)
          /\ lan[i].length = Len(lan[i].data) /\ lan[i].mf = FALSE
        BY <2>1 DEF Received
    <2> QED BY <2>2, Zenon
<1> QED BY <1>1, AnswersAccountedFor, PTL

\* What is masqueraded and sent or held is the questions from the first on.
LEMMA SentFacts ==
    ASSUME IInv, BackInv, mishaps = {}, link = "wireguard"
    PROVE  /\ Len(Sent) = Len(wire) + Len(tun.queue) /\ Len(Sent) \in Nat
           /\ \A i \in 1..Len(Sent) :
                Sent[i].n = i /\ Sent[i].dst = questions[i].dst
                /\ Sent[i].proto = questions[i].proto /\ Sent[i].port = questions[i].port
<1>1. /\ wire \in Seq(Packets) /\ tun.queue \in Seq(Packets) /\ Asked
      /\ Len(wire) \in Nat /\ Len(tun.queue) \in Nat
      /\ \A i \in 1..Len(wire) : wire[i].n = i
      /\ \A i \in 1..Len(tun.queue) : tun.queue[i].n = Len(wire) + i
    BY OutFacts
<1>2. PICK w \in Seq(Packets), h \in Seq(Packets) : w = wire /\ h = tun.queue
    BY <1>1
<1>3. /\ Len(w \o h) = Len(w) + Len(h)
      /\ \A i \in 1..Len(w) : (w \o h)[i] = w[i]
      /\ \A i \in 1..Len(h) : (w \o h)[Len(w) + i] = h[i]
    OBVIOUS
<1>4. /\ Len(Sent) = Len(w) + Len(h) /\ Len(w) \in Nat /\ Len(h) \in Nat
      /\ \A i \in 1..Len(w) : Sent[i] = w[i]
      /\ \A i \in 1..Len(h) : Sent[Len(w) + i] = h[i]
    BY <1>1, <1>2, <1>3 DEF Sent
<1>5. ASSUME NEW i \in 1..Len(Sent) PROVE IsMasked(Sent[i]) /\ Sent[i].n = i
    <2>1. CASE i \in 1..Len(w)
        BY <1>1, <1>2, <1>4, <2>1 DEF Asked
    <2>2. CASE i \notin 1..Len(w)
        <3>1. PICK k \in 1..Len(h) : i = Len(w) + k
            <4>1. i - Len(w) \in 1..Len(h) /\ i = Len(w) + (i - Len(w))
                BY <1>4, <2>2
            <4> QED BY <4>1
        <3>2. Sent[i] = h[k]
            BY <1>4, <3>1
        <3> QED BY <1>1, <1>2, <3>1, <3>2 DEF Asked
    <2> QED BY <2>1, <2>2
<1>6. Len(Sent) \in Nat
    BY <1>4
<1> QED BY <1>2, <1>4, <1>5, <1>6 DEF IsMasked

\* The host an entry names was the last to ask with it.
LEMMA LastToAsk ==
    ASSUME IInv, BackInv, mishaps = {}, link = "wireguard", NEW n, NEW u,
           EntryOf(questions[n]) \in DOMAIN nat, Unmasked(u, n, nat[EntryOf(questions[n])])
    PROVE  \E i \in 1..Len(Sent) :
              /\ SameFlow(Sent[i], u) /\ u.dst = questions[Sent[i].n].src
              /\ \A j \in (i + 1)..Len(Sent) : ~SameFlow(Sent[j], u)
<1>1. PICK s \in Nat : s = Len(Sent)
    BY SentFacts
<1>2. /\ s = Len(wire) + Len(tun.queue)
      /\ \A i \in 1..s :
           Sent[i].n = i /\ Sent[i].dst = questions[i].dst
           /\ Sent[i].proto = questions[i].proto /\ Sent[i].port = questions[i].port
    BY <1>1, SentFacts
<1>3. NotedUpto(nat, s)
    BY <1>2, OutFacts DEF Noted
<1>4. PICK e : e = EntryOf(questions[n])
    OBVIOUS
<1>5. PICK i \in 1..s :
            /\ EntryOf(questions[i]) = e /\ nat[e] = questions[i].src
            /\ \A j \in (i + 1)..s : EntryOf(questions[j]) # e
    BY <1>3, <1>4 DEF NotedUpto
<1>6. /\ u.src = questions[n].dst /\ u.proto = questions[n].proto /\ u.port = questions[n].port
      /\ u.dst = nat[e]
    BY <1>4 DEF Unmasked
<1>7. ASSUME NEW j \in 1..s PROVE SameFlow(Sent[j], u) <=> EntryOf(questions[j]) = e
    <2>1. SameFlow(Sent[j], u) <=>
            /\ questions[j].proto = questions[n].proto /\ questions[j].dst = questions[n].dst
            /\ questions[j].port = questions[n].port
        BY <1>2, <1>6 DEF SameFlow
    <2>2. EntryOf(questions[j]) = EntryOf(questions[n]) <=>
            /\ questions[j].proto = questions[n].proto /\ questions[j].dst = questions[n].dst
            /\ questions[j].port = questions[n].port
        BY DEF EntryOf, NatEntry
    <2> QED BY <1>4, <2>1, <2>2
<1>8. \A j \in (i + 1)..s : j \in 1..s
    OBVIOUS
<1>9. SameFlow(Sent[i], u) /\ u.dst = questions[Sent[i].n].src
    BY <1>2, <1>5, <1>6, <1>7
<1>10. \A j \in (i + 1)..s : ~SameFlow(Sent[j], u)
    BY <1>5, <1>7, <1>8
<1> QED BY <1>1, <1>9, <1>10

\* Only handle_tun_result hands packets to the router on a wireguard link, and only
\* it drops any.
LEMMA HandedOnlyThere ==
    ASSUME IInv, BackInv, mishaps' = {}, [Next]_vars, ~handle_tun_result
    PROVE  unknown' = unknown /\ (link = "wireguard" => lan' = lan)
<1>1. \/ \E f \in Flows : Send(f) \/ WriteUdp(f)
      \/ StartDrain \/ WriteTap \/ Encapsulate \/ Flush
      \/ Wake \/ Timer \/ StartRead \/ EndRead \/ UNCHANGED vars
      \/ ReadResponse \/ ReadUdp \/ ReadTap \/ Respond
      \/ \E q \in ToSet(wire), cut \in Cuts : Answer(q, cut)
      \/ Network
    BY NoMishap
<1>2. CASE \E f \in Flows : Send(f) \/ WriteUdp(f)
    BY <1>2 DEF Send, WriteUdp, outVars
<1>3. CASE StartDrain \/ WriteTap \/ Encapsulate \/ Flush
    BY <1>3 DEF StartDrain, WriteTap, Encapsulate, Flush, outVars
<1>4. CASE Wake \/ Timer \/ StartRead \/ EndRead \/ UNCHANGED vars
    BY <1>4 DEF Wake, Timer, StartRead, EndRead, vars, outVars
<1>5. CASE ReadResponse \/ ReadUdp \/ ReadTap \/ Respond
    BY <1>5 DEF ReadResponse, ReadUdp, ReadTap, Respond, outVars
<1>6. CASE \E q \in ToSet(wire), cut \in Cuts : Answer(q, cut)
    BY <1>6 DEF Answer, outVars
<1>7. CASE Network
    BY <1>7 DEF Network, outVars
<1> QED BY <1>1, <1>2, <1>3, <1>4, <1>5, <1>6, <1>7

\* A packet that is handed over reaches the host that was the last to ask.
LEMMA HandedToAsker ==
    ASSUME IInv, BackInv, mishaps = {}, handle_tun_result
    PROVE  /\ \A n \in unknown' : questions[n].proto = "other"
           /\ lan' # lan =>
                \E i \in 1..Len(Sent) :
                   /\ SameFlow(Sent[i], Last(lan')) /\ Last(lan').dst = questions[Sent[i].n].src
                   /\ \A j \in (i + 1)..Len(Sent) : ~SameFlow(Sent[j], Last(lan'))
<1>1. link = "wireguard"
    BY DEF handle_tun_result
<1>2. lan \in Seq(Pieces) /\ \A n \in unknown : questions[n].proto = "other"
    BY BackFacts
<1>3. PICK k \in answered : UNCHANGED <<lan, unknown>> \/ Handed(k)
    BY NextPieceRead DEF TakenUp
<1>4. CASE UNCHANGED <<lan, unknown>>
    BY <1>2, <1>4
<1>5. CASE questions[k].proto = "other" /\ lan' = lan /\ unknown' = unknown \cup {k}
    BY <1>2, <1>5
<1>6. ASSUME EntryOf(questions[k]) \in DOMAIN nat, unknown' = unknown, NEW u \in Pieces,
             Unmasked(u, k, nat[EntryOf(questions[k])]), lan' = Append(lan, u)
      PROVE  /\ \A n \in unknown' : questions[n].proto = "other"
             /\ \E i \in 1..Len(Sent) :
                  /\ SameFlow(Sent[i], Last(lan')) /\ Last(lan').dst = questions[Sent[i].n].src
                  /\ \A j \in (i + 1)..Len(Sent) : ~SameFlow(Sent[j], Last(lan'))
    <2>1. Last(lan') = u
        BY <1>2, <1>6 DEF Last
    <2>2. \E i \in 1..Len(Sent) :
             /\ SameFlow(Sent[i], u) /\ u.dst = questions[Sent[i].n].src
             /\ \A j \in (i + 1)..Len(Sent) : ~SameFlow(Sent[j], u)
        BY <1>1, <1>6, LastToAsk
    <2> QED BY <1>2, <1>6, <2>1, <2>2
<1> QED BY <1>3, <1>4, <1>5, <1>6 DEF Handed

\* NatTable with masquerade and unmasquerade: without mishap an answer is handed to the
\* host that was the last to ask with its flow, no tracked answer is dropped, and the
\* thread lives.
THEOREM AnswersFindTheirHost == Spec => AnswersReachAsker
<1> DEFINE Reaches ==
        mishaps' = {} =>
          /\ pc' # "dead"
          /\ \A n \in unknown' : questions[n].proto = "other"
          /\ link = "wireguard" /\ lan' # lan =>
               LET p == Last(lan') IN
               \E i \in 1..Len(Sent) :
                  /\ SameFlow(Sent[i], p) /\ p.dst = questions[Sent[i].n].src
                  /\ \A j \in (i + 1)..Len(Sent) : ~SameFlow(Sent[j], p)
<1>1. IInv /\ BackInv /\ [Next]_vars => [Reaches]_vars
    <2> SUFFICES ASSUME IInv, BackInv, [Next]_vars, mishaps' = {} PROVE Reaches
        BY DEF Reaches
    <2>1. mishaps = {}
        BY NoMishap
    <2>2. pc' # "dead"
        BY NextBack DEF BackInv
    <2>3. CASE handle_tun_result
        BY <2>1, <2>2, <2>3, HandedToAsker
    <2>4. CASE ~handle_tun_result
        <3>1. unknown' = unknown /\ (link = "wireguard" => lan' = lan)
            BY <2>4, HandedOnlyThere
        <3>2. \A n \in unknown : questions[n].proto = "other"
            BY <2>1, BackFacts
        <3> QED BY <2>2, <3>1, <3>2
    <2> QED BY <2>3, <2>4
<1>2. AnswersReachAsker <=> [][Reaches]_vars
    BY DEF AnswersReachAsker
<1> HIDE DEF Reaches
<1> QED BY <1>1, <1>2, StagesHold, AnswersAccountedFor, PTL DEF Spec
=============================================================================
