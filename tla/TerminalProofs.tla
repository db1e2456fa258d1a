--------------------------- MODULE TerminalProofs ---------------------------
EXTENDS Terminal, SequenceTheorems, WellFoundedInduction, TLAPS

(* Proofs about the terminal session of module Terminal.                   *)
(*                                                                         *)
(* The tty thread reads type, length and payload of a message with         *)
(* separate calls, from a stream in which messages of both clients arrive  *)
(* in pieces.  The invariant cuts what is in the socket into messages: a   *)
(* set B of positions, each followed by a byte to skip, a size, or the     *)
(* header of a key and its payload.  A header at the end of the socket has *)
(* its payload next in flight, or still with the client.  From this the    *)
(* thread is always at a cut when it looks for a type.  LastSize and Keyed *)
(* add what the properties need: the last size on its way is the one sent  *)
(* last, and a key header stands for the key with its number.  Three kinds *)
(* of step matter: bytes are sent, a send arrives, whole messages are read.*)

-----------------------------------------------------------------------------
(* The bytes in the daemon's socket, cut where a message may begin.        *)

\* The bytes that begin no message: the tty thread skips them one by one.
Plain(x) == x \notin {1, 2}

\* What keys left in bytes[5..] begins none either.
Stale(bytes) == \A i \in 1..Len(bytes) : Plain(bytes[i])

\* What a cut b of the bytes q is followed by: a byte to skip, a whole size that
\* was sent, or the header of a key and its payload, which is missing only if
\* the header is the last that arrived.
AtPlain(q, B, b) == Plain(q[b]) /\ b + 1 \in B
SizeOf(q, b) == <<q[b + 1] + 256 * q[b + 2], q[b + 3] + 256 * q[b + 4]>>
AtSize(q, B, S, b) ==
    /\ q[b] = 2 /\ b + 5 \in B
    /\ b + 1 \notin B /\ b + 2 \notin B /\ b + 3 \notin B /\ b + 4 \notin B
    /\ SizeOf(q, b) \in S
AtKey(q, B, b) ==
    /\ q[b] = 1 /\ b + 3 \in B /\ b + 1 \notin B /\ b + 2 \notin B
    /\ q[b + 1] > 0 /\ q[b + 2] = 0
    /\ \/ b + 3 = Len(q) + 1
       \/ /\ b + 3 + q[b + 1] \in B
          /\ \A j \in 1..q[b + 1] : Plain(q[b + 2 + j])
Cuts(q, B, S) ==
    /\ B \subseteq 1..(Len(q) + 1) /\ 1 \in B /\ Len(q) + 1 \in B
    /\ \A b \in B : b <= Len(q) => AtPlain(q, B, b) \/ AtSize(q, B, S, b) \/ AtKey(q, B, b)
\* The header of a key whose payload is missing.
Torn(q, B, b) == b \in B /\ b <= Len(q) /\ q[b] = 1 /\ b + 3 = Len(q) + 1

\* The cuts once the first n bytes are read, and once bytes cut by C follow n
\* others.
Down(B, n) == {b \in Nat : b > 0 /\ b + n \in B}
Up(C, n) == {b \in Nat : b > n /\ b - n \in C}

\* What the clients send: a size, the header of a key, a key behind a header of
\* five bytes, the payload of a key.
SizeSend(m, S) == \E s \in S : m = Resize(s)
HeaderSend(m) == Len(m) = 3 /\ m[1] = 1 /\ m[2] > 0 /\ m[3] = 0
WholeSend(m) ==
    /\ Len(m) > 5 /\ Len(m) = 5 + m[2] /\ m[1] = 1 /\ m[3] = 0
    /\ \A j \in 4..Len(m) : Plain(m[j])
PayloadSend(m) == Len(m) > 0 /\ \A j \in 1..Len(m) : Plain(m[j])
Sends(m, S) == SizeSend(m, S) \/ HeaderSend(m) \/ WholeSend(m) \/ PayloadSend(m)
CutsOf(m) ==
    IF m[1] = 2 THEN {1, 6}
    ELSE IF m[1] = 1 THEN {1} \cup 4..(Len(m) + 1)
    ELSE 1..(Len(m) + 1)

-----------------------------------------------------------------------------
(* The invariant.                                                          *)

\* Types of what the stream is made of.
Types ==
    /\ client \in {"attach", "runner"} /\ conn \in {"open", "shut"}
    /\ half \in Seq(Nat) /\ slot \in Seq(Nat) /\ Len(slot) = 5
    /\ flight \in Seq(Seq(Nat)) /\ inq \in Seq(Nat)
    /\ input \in Seq(Seq(Nat)) /\ typed \in Seq(Seq(Nat) \ {<<>>})
    /\ sizes \in Seq(Nat \X Nat) /\ Len(sizes) > 0

\* The sizes that were sent.
Known == {sizes[i] : i \in 1..Len(sizes)}

\* Behind the first i sends in flight a payload of length n comes next.
Awaited(i, n) ==
    IF i < Len(flight) THEN PayloadSend(flight[i + 1]) /\ Len(flight[i + 1]) = n
    ELSE conn = "shut" \/ (half # <<>> /\ Len(half) = n)

\* What is in flight was sent by a client, and payloads follow their headers.
InFlight ==
    /\ \A i \in 1..Len(flight) :
         /\ Sends(flight[i], Known)
         /\ client = "runner" => ~WholeSend(flight[i])
         /\ HeaderSend(flight[i]) => Awaited(i, flight[i][2])
    /\ half # <<>> => client = "runner" /\ PayloadSend(half)
    /\ Stale(slot)

\* The socket is cut by B, and a header without payload waits for it.
InSocket(B) ==
    /\ Cuts(inq, B, Known)
    /\ \A b \in B : Torn(inq, B, b) => Awaited(0, inq[b + 1])

\* The last size on its way is the one that was sent last; when there is none
\* the tty has it.
SizeCut(B, b) == b \in B /\ b <= Len(inq) /\ inq[b] = 2
SizeAt(i) == i \in 1..Len(flight) /\ flight[i][1] = 2
LastSize(B) ==
    /\ \A i \in 1..Len(flight) : SizeAt(i) /\ (\A j \in 1..Len(flight) : SizeAt(j) => j <= i)
         => flight[i] = Resize(Last(sizes))
    /\ (\A i \in 1..Len(flight) : ~SizeAt(i)) =>
         /\ \A b \in B : SizeCut(B, b) /\ (\A a \in B : SizeCut(B, a) => a <= b)
              => SizeOf(inq, b) = Last(sizes)
         /\ (\A b \in B : ~SizeCut(B, b)) /\ pc \in {"poll", "sock"} => winsz = Last(sizes)

\* The reasons to end: no length, and a size only if it was sent.
Reasons == why # "length" /\ (why = "size" => \E s \in Known : 0 \in {s[1], s[2]})

\* c[j] and d[i] count the keys whose header comes before byte j of the socket
\* and before send i in flight, those that were written to the tty included.
Counted(B, c, d) ==
    /\ c \in [1..(Len(inq) + 1) -> Nat] /\ c[1] = Len(input)
    /\ \A j \in 1..Len(inq) : c[j + 1] = c[j] + (IF j \in B /\ inq[j] = 1 THEN 1 ELSE 0)
    /\ d \in [1..(Len(flight) + 1) -> Nat] /\ d[1] = c[Len(inq) + 1]
    /\ \A i \in 1..Len(flight) : d[i + 1] = d[i] + (IF flight[i][1] = 1 THEN 1 ELSE 0)
    /\ d[Len(flight) + 1] = Len(typed)

\* Behind the first i sends in flight the key t comes next.
KeyFollows(i, t) ==
    IF i < Len(flight) THEN flight[i + 1] = t ELSE conn = "shut" \/ half = t

\* A header has the length of its key, and the payload is the key.
KeyCut(c, b) ==
    LET n == c[b] + 1 IN
    /\ n <= Len(typed) /\ inq[b + 1] = Len(typed[n])
    /\ IF b + 3 = Len(inq) + 1 THEN KeyFollows(0, typed[n])
       ELSE \A j \in 1..Len(typed[n]) : inq[b + 2 + j] = typed[n][j]
KeySend(d, i) ==
    LET n == d[i] + 1 IN
    n <= Len(typed) /\ flight[i][2] = Len(typed[n]) /\ KeyFollows(i, typed[n])
KeysMatch(B, c, d) ==
    /\ \A b \in B : b <= Len(inq) /\ inq[b] = 1 => KeyCut(c, b)
    /\ \A i \in 1..Len(flight) : flight[i][1] = 1 => KeySend(d, i)

\* What the runner's shell was written, and what is on its way to it.
Written ==
    /\ Len(input) <= Len(typed)
    /\ \A i \in 1..Len(input) : input[i] \in {<<>>, typed[i]}
Keyed(B) == Written /\ \E c, d : Counted(B, c, d) /\ KeysMatch(B, c, d)

\* The stream with its cuts, and the inductive invariant.
Streams(B) == InSocket(B) /\ LastSize(B) /\ (client = "runner" => Keyed(B))
IInv == Types /\ InFlight /\ Reasons /\ \E B : Streams(B)
-----------------------------------------------------------------------------
(* Sequences.                                                              *)

\* What is left of a queue when its first n bytes are read.
LEMMA RestFacts ==
    ASSUME NEW q \in Seq(Nat), NEW n \in Nat
    PROVE  /\ Rest(q, n) \in Seq(Nat)
           /\ n <= Len(q) => Len(Rest(q, n)) = Len(q) - n
           /\ n >= Len(q) => Len(Rest(q, n)) = 0
           /\ \A i \in 1..Len(Rest(q, n)) : Rest(q, n)[i] = q[n + i]
<1>1. n + 1 \in 1..(Len(q) + 1) \/ n > Len(q)
    OBVIOUS
<1>2. CASE n <= Len(q)
    BY <1>2, SubSeqProperties DEF Rest
<1>3. CASE n > Len(q)
  <2>1. Rest(q, n) = <<>>
      BY <1>3, SubSeqProperties DEF Rest
  <2> QED BY <1>3, <2>1
<1> QED BY <1>2, <1>3

\* What a read of n bytes returns.
LEMMA RecvFacts ==
    ASSUME NEW q \in Seq(Nat), NEW n \in Nat
    PROVE  /\ Recv(q, n) \in Seq(Nat)
           /\ Len(Recv(q, n)) = IF n < Len(q) THEN n ELSE Len(q)
           /\ \A i \in 1..Len(Recv(q, n)) : Recv(q, n)[i] = q[i]
  BY SubSeqProperties DEF Recv

\* Bytes behind others.
LEMMA JoinFacts ==
    ASSUME NEW q \in Seq(Nat), NEW m \in Seq(Nat)
    PROVE  /\ q \o m \in Seq(Nat) /\ Len(q \o m) = Len(q) + Len(m)
           /\ Len(q) \in Nat /\ Len(m) \in Nat
           /\ \A i \in 1..Len(q) : (q \o m)[i] = q[i]
           /\ \A i \in 1..Len(m) : (q \o m)[Len(q) + i] = m[i]
  OBVIOUS

\* The bytes of a queue are numbers.
LEMMA ByteFacts ==
    ASSUME NEW q \in Seq(Nat)
    PROVE  Len(q) \in Nat /\ \A i \in 1..Len(q) : q[i] \in Nat
  OBVIOUS

-----------------------------------------------------------------------------
(* Cuts.                                                                   *)

\* The cuts of what is left once whole messages are read.
LEMMA RestCuts ==
    ASSUME NEW q \in Seq(Nat), NEW B, NEW S, Cuts(q, B, S), NEW n \in Nat, n + 1 \in B
    PROVE  /\ Cuts(Rest(q, n), Down(B, n), S)
           /\ n <= Len(q) /\ Len(Rest(q, n)) = Len(q) - n
<1> DEFINE r == Rest(q, n)
<1> DEFINE D == Down(B, n)
<1>0. Len(q) \in Nat /\ \A x \in B : x \in Nat /\ x > 0 /\ x <= Len(q) + 1
    BY ByteFacts DEF Cuts
<1>1. n <= Len(q) /\ Len(q) \in Nat
    BY <1>0
<1>2. Len(r) = Len(q) - n /\ \A i \in 1..Len(r) : r[i] = q[n + i]
    BY <1>1, RestFacts
<1>3. \A b \in Nat : b > 0 => (b \in D <=> b + n \in B)
    BY DEF Down
<1>4. \A b \in D : b \in Nat /\ b > 0 /\ b + n \in B
    BY DEF Down
<1> HIDE DEF r, D
<1>5. D \subseteq 1..(Len(r) + 1) /\ 1 \in D /\ Len(r) + 1 \in D
  <2>1. Len(q) + 1 \in B
      BY DEF Cuts
  <2>2. Len(r) + 1 \in Nat /\ Len(r) + 1 > 0 /\ Len(r) + 1 + n = Len(q) + 1
      BY <1>1, <1>2
  <2>3. \A b \in D : b <= Len(r) + 1
      BY <1>0, <1>2, <1>4
  <2>4. 1 \in D /\ Len(r) + 1 \in D
      BY <1>3, <2>1, <2>2
  <2> QED BY <1>4, <2>2, <2>3, <2>4
<1>6. ASSUME NEW b \in D, b <= Len(r)
      PROVE  AtPlain(r, D, b) \/ AtSize(r, D, S, b) \/ AtKey(r, D, b)
  <2> DEFINE a == b + n
  <2>1. a \in B /\ a <= Len(q) /\ b \in 1..Len(r) /\ r[b] = q[a] /\ a \in Nat
        /\ b \in Nat /\ Len(r) \in Nat
      BY <1>1, <1>2, <1>4, <1>6
  <2>0. b > 0 /\ b + n = a /\ n \in Nat
      BY <1>4
  <2>2. ASSUME NEW k \in Nat PROVE b + k \in D <=> a + k \in B
    <3>1. b + k \in Nat /\ b + k > 0 /\ b + k + n = a + k
        BY ONLY <2>0, <2>1, k \in Nat
    <3> QED BY ONLY <1>3, <3>1
  <2>3. \A k \in Nat : a + k \in B => a + k <= Len(q) + 1
      BY <1>0
  <2>4. ASSUME NEW k \in Nat, b + k <= Len(r) PROVE r[b + k] = q[a + k]
    <3>1. b + k \in 1..Len(r) /\ n + (b + k) = a + k
        BY ONLY <2>0, <2>1, <2>4, k \in Nat
    <3>2. r[b + k] = q[n + (b + k)]
        BY ONLY <1>2, <3>1
    <3> QED BY ONLY <3>1, <3>2
  <2>5. \A k \in Nat : a + k <= Len(q) <=> b + k <= Len(r)
      BY <1>1, <1>2, <2>1
  <2> HIDE DEF a
  <2>6. AtPlain(q, B, a) \/ AtSize(q, B, S, a) \/ AtKey(q, B, a)
      BY <2>1 DEF Cuts
  <2>7. CASE AtPlain(q, B, a)
      BY <2>1, <2>2, <2>7 DEF AtPlain
  <2>8. CASE AtSize(q, B, S, a)
    <3>1. a + 4 <= Len(q) /\ Len(q) \in Nat
        BY <1>1, <2>1, <2>3, <2>8 DEF AtSize
    <3>2. b + 1 <= Len(r) /\ b + 2 <= Len(r) /\ b + 3 <= Len(r) /\ b + 4 <= Len(r)
        BY <2>1, <2>5, <3>1
    <3>4. r[b + 1] = q[a + 1] /\ r[b + 2] = q[a + 2] /\ r[b + 3] = q[a + 3]
          /\ r[b + 4] = q[a + 4]
        BY <2>4, <3>2
    <3>3. (b + 1 \in D <=> a + 1 \in B) /\ (b + 2 \in D <=> a + 2 \in B)
          /\ (b + 3 \in D <=> a + 3 \in B) /\ (b + 4 \in D <=> a + 4 \in B)
          /\ (b + 5 \in D <=> a + 5 \in B)
        BY <2>2
    <3>5. SizeOf(r, b) = SizeOf(q, a)
        BY <3>4 DEF SizeOf
    <3> QED BY <2>1, <2>8, <3>3, <3>5 DEF AtSize
  <2>9. CASE AtKey(q, B, a)
    <3>1. a + 2 <= Len(q) /\ Len(q) \in Nat
        BY <1>1, <2>1, <2>3, <2>9 DEF AtKey
    <3>7. b + 1 <= Len(r) /\ b + 2 <= Len(r) /\ a + 1 \in 1..Len(q)
        BY <2>1, <2>5, <3>1
    <3>2. r[b + 1] = q[a + 1] /\ r[b + 2] = q[a + 2] /\ q[a + 1] \in Nat
        BY <2>4, <3>7, ByteFacts
    <3>3. (b + 1 \in D <=> a + 1 \in B) /\ (b + 2 \in D <=> a + 2 \in B)
          /\ (b + 3 \in D <=> a + 3 \in B)
        BY <2>2
    <3>4. r[b] = 1 /\ b + 3 \in D /\ b + 1 \notin D /\ b + 2 \notin D /\ r[b + 1] > 0
          /\ r[b + 2] = 0
        BY <2>1, <2>9, <3>2, <3>3 DEF AtKey
    <3>5. CASE a + 3 = Len(q) + 1
      <4>1. b + 3 = Len(r) + 1
          BY <1>1, <1>2, <2>1, <3>5 DEF a
      <4> QED BY <3>4, <4>1 DEF AtKey
    <3>6. CASE a + 3 # Len(q) + 1
      <4>0. PICK l \in Nat : l = q[a + 1] /\ l = r[b + 1]
          BY <3>2
      <4>1. a + 3 + l \in B /\ \A j \in 1..l : Plain(q[a + 2 + j])
          BY <2>9, <3>6, <4>0 DEF AtKey
      <4>4. a + 3 + l = a + (3 + l) /\ b + 3 + l = b + (3 + l) /\ 3 + l \in Nat
          BY <2>1
      <4>2. b + 3 + l \in D
          BY <2>2, <4>1, <4>4
      <4>3. ASSUME NEW j \in 1..l  PROVE Plain(r[b + 2 + j])
        <5>1. a + 3 + l <= Len(q) + 1
            BY <1>0, <4>1
        <5>2. 2 + j \in Nat /\ a + (2 + j) <= Len(q) /\ b + (2 + j) = b + 2 + j
              /\ a + (2 + j) = a + 2 + j
            BY <1>1, <2>1, <5>1
        <5>3. r[b + (2 + j)] = q[a + (2 + j)]
            BY <2>4, <2>5, <5>2
        <5> QED BY <4>1, <5>2, <5>3
      <4> QED BY <3>4, <4>0, <4>2, <4>3 DEF AtKey
    <3> QED BY <3>5, <3>6
  <2> QED BY <2>6, <2>7, <2>8, <2>9
<1>7. Cuts(r, D, S)
    BY <1>5, <1>6 DEF Cuts
<1> QED BY <1>1, <1>2, <1>7 DEF r, D

\* The cuts of a queue when a send arrives, which is the payload if the header of
\* a key is torn.
LEMMA JoinCuts ==
    ASSUME NEW q \in Seq(Nat), NEW B, NEW m \in Seq(Nat), NEW C, NEW S,
           Cuts(q, B, S), Cuts(m, C, S),
           \A b : Torn(q, B, b) => PayloadSend(m) /\ Len(m) = q[b + 1]
    PROVE  Cuts(q \o m, B \cup Up(C, Len(q)), S)
<1> DEFINE r == q \o m
<1> DEFINE N == Len(q)
<1> DEFINE A == B \cup Up(C, N)
<1>1. /\ r \in Seq(Nat) /\ Len(r) = N + Len(m) /\ N \in Nat /\ Len(m) \in Nat
      /\ \A i \in 1..N : r[i] = q[i]
      /\ \A i \in 1..Len(m) : r[N + i] = m[i]
    BY JoinFacts
<1>2. /\ \A x \in B : x \in Nat /\ x > 0 /\ x <= N + 1
      /\ \A x \in C : x \in Nat /\ x > 0 /\ x <= Len(m) + 1
      /\ 1 \in B /\ N + 1 \in B /\ 1 \in C /\ Len(m) + 1 \in C
    BY <1>1 DEF Cuts
<1>3. \A x : x \in A <=> x \in B \/ (x \in Nat /\ x > N /\ x - N \in C)
    BY DEF Up
<1> HIDE DEF r, N, A
<1>4. \A k \in Nat : k > 0 => (N + k \in A <=> k \in C)
  <2> SUFFICES ASSUME NEW k \in Nat, k > 0  PROVE N + k \in A <=> k \in C
      OBVIOUS
  <2>1. N + k \in Nat /\ N + k > N /\ (N + k) - N = k
      BY <1>1
  <2>2. N + k \in B => k \in C
    <3>1. N + k \in B => k = 1
        BY <1>1, <1>2
    <3> QED BY <1>2, <3>1
  <2> QED BY <1>3, <2>1, <2>2
<1>5. \A x \in Nat : x <= N => (x \in A <=> x \in B)
    BY <1>1, <1>3
<1>6. \A x \in B : x \in A
    BY <1>3
<1>7. A \subseteq 1..(Len(r) + 1) /\ 1 \in A /\ Len(r) + 1 \in A
  <2>1. \A x \in A : x \in Nat /\ x > 0 /\ x <= Len(r) + 1
    <3> SUFFICES ASSUME NEW x \in A  PROVE x \in Nat /\ x > 0 /\ x <= Len(r) + 1
        OBVIOUS
    <3>1. CASE x \in B
        BY <1>1, <1>2, <3>1
    <3>2. CASE x \in Nat /\ x > N /\ x - N \in C
      <4>1. x - N <= Len(m) + 1
          BY <1>2, <3>2
      <4> QED BY <1>1, <3>2, <4>1
    <3> QED BY <1>3, <3>1, <3>2
  <2>2. Len(r) + 1 \in A
    <3>1. Len(r) + 1 = N + (Len(m) + 1) /\ Len(m) + 1 \in Nat /\ Len(m) + 1 > 0
        BY <1>1
    <3> QED BY <1>2, <1>4, <3>1
  <2> QED BY <1>1, <1>2, <1>6, <2>1, <2>2
<1>8. ASSUME NEW b \in B, b <= N
      PROVE  AtPlain(r, A, b) \/ AtSize(r, A, S, b) \/ AtKey(r, A, b)
  <2>1. b \in Nat /\ b > 0 /\ r[b] = q[b]
      BY <1>1, <1>2, <1>8
  <2>2. AtPlain(q, B, b) \/ AtSize(q, B, S, b) \/ AtKey(q, B, b)
      BY <1>8 DEF Cuts, N
  <2>3. \A k \in Nat : b + k <= N => r[b + k] = q[b + k] /\ (b + k \in A <=> b + k \in B)
      BY <1>1, <1>5, <2>1
  <2>7. CASE AtPlain(q, B, b)
      BY <1>6, <2>1, <2>7 DEF AtPlain
  <2>8. CASE AtSize(q, B, S, b)
    <3>1. b + 5 <= N + 1
        BY <1>2, <2>8 DEF AtSize
    <3>2. b + 1 <= N /\ b + 2 <= N /\ b + 3 <= N /\ b + 4 <= N
        BY <1>1, <2>1, <3>1
    <3>3. /\ r[b + 1] = q[b + 1] /\ r[b + 2] = q[b + 2] /\ r[b + 3] = q[b + 3]
          /\ r[b + 4] = q[b + 4] /\ (b + 1 \in A <=> b + 1 \in B)
          /\ (b + 2 \in A <=> b + 2 \in B) /\ (b + 3 \in A <=> b + 3 \in B)
          /\ (b + 4 \in A <=> b + 4 \in B)
        BY <2>3, <3>2
    <3>4. SizeOf(r, b) = SizeOf(q, b)
        BY <3>3 DEF SizeOf
    <3> QED BY <1>6, <2>1, <2>8, <3>3, <3>4 DEF AtSize
  <2>9. CASE AtKey(q, B, b)
    <3>1. b + 3 <= N + 1
        BY <1>2, <2>9 DEF AtKey
    <3>2. b + 1 <= N /\ b + 2 <= N /\ b + 1 \in 1..N
        BY <1>1, <2>1, <3>1
    <3>3. /\ r[b + 1] = q[b + 1] /\ r[b + 2] = q[b + 2]
          /\ (b + 1 \in A <=> b + 1 \in B) /\ (b + 2 \in A <=> b + 2 \in B)
        BY <2>3, <3>2
    <3>4. /\ r[b] = 1 /\ b + 3 \in A /\ b + 1 \notin A /\ b + 2 \notin A
          /\ r[b + 1] > 0 /\ r[b + 2] = 0
        BY <1>6, <2>1, <2>9, <3>3 DEF AtKey
    <3>5. PICK l \in Nat : l = q[b + 1] /\ l = r[b + 1]
        BY <3>2, <3>3, ByteFacts DEF N
    <3>6. CASE b + 3 = N + 1
      <4>1. Torn(q, B, b)
          BY <1>8, <2>9, <3>6 DEF AtKey, Torn, N
      <4>2. PayloadSend(m) /\ Len(m) = l
          BY <3>5, <4>1
      <4>3. b + 3 + l \in A
        <5>1. b + 3 + l = N + (l + 1) /\ l + 1 \in Nat /\ l + 1 > 0 /\ l + 1 = Len(m) + 1
            BY <1>1, <2>1, <3>6, <4>2
        <5> QED BY <1>2, <1>4, <5>1
      <4>4. ASSUME NEW j \in 1..l  PROVE Plain(r[b + 2 + j])
        <5>1. b + 2 + j = N + j /\ j \in 1..Len(m)
            BY <1>1, <2>1, <3>6, <4>2
        <5> QED BY <1>1, <4>2, <5>1 DEF PayloadSend
      <4> QED BY <3>4, <3>5, <4>3, <4>4 DEF AtKey
    <3>7. CASE b + 3 # N + 1
      <4>1. b + 3 + l \in B /\ \A j \in 1..l : Plain(q[b + 2 + j])
          BY <2>9, <3>5, <3>7 DEF AtKey, N
      <4>2. b + 3 + l <= N + 1
          BY <1>2, <4>1
      <4>3. ASSUME NEW j \in 1..l  PROVE Plain(r[b + 2 + j])
        <5>1. b + 2 + j \in 1..N
            BY <1>1, <2>1, <4>2
        <5> QED BY <1>1, <4>1, <5>1
      <4> QED BY <1>6, <3>4, <3>5, <4>1, <4>3 DEF AtKey
    <3> QED BY <3>6, <3>7
  <2> QED BY <2>2, <2>7, <2>8, <2>9
<1>9. ASSUME NEW k \in C, k <= Len(m), NEW a, a = N + k
      PROVE  AtPlain(r, A, a) \/ AtSize(r, A, S, a) \/ AtKey(r, A, a)
  <2>5. k \in Nat /\ k > 0 /\ a = N + k /\ a \in Nat /\ N \in Nat /\ Len(m) \in Nat
        /\ k \in 1..Len(m)
      BY <1>1, <1>2, <1>9
  <2>1. k \in Nat /\ k > 0 /\ r[a] = m[k] /\ a \in Nat /\ N \in Nat /\ Len(m) \in Nat
      BY <1>1, <2>5
  <2>2. AtPlain(m, C, k) \/ AtSize(m, C, S, k) \/ AtKey(m, C, k)
      BY <1>9 DEF Cuts
  <2>3. \A j \in Nat : k + j <= Len(m) => r[a + j] = m[k + j]
    <3> SUFFICES ASSUME NEW j \in Nat, k + j <= Len(m)  PROVE r[a + j] = m[k + j]
        OBVIOUS
    <3>1. k + j \in 1..Len(m) /\ a + j = N + (k + j)
        BY <2>5
    <3> QED BY <1>1, <3>1
  <2>4. \A j \in Nat : a + j \in A <=> k + j \in C
    <3> SUFFICES ASSUME NEW j \in Nat  PROVE a + j \in A <=> k + j \in C
        OBVIOUS
    <3>1. k + j \in Nat /\ k + j > 0 /\ a + j = N + (k + j)
        BY <2>5
    <3> QED BY <1>4, <3>1
  <2>7. CASE AtPlain(m, C, k)
      BY <2>1, <2>4, <2>7 DEF AtPlain
  <2>8. CASE AtSize(m, C, S, k)
    <3>1. k + 5 <= Len(m) + 1
        BY <1>2, <2>8 DEF AtSize
    <3>2. k + 1 <= Len(m) /\ k + 2 <= Len(m) /\ k + 3 <= Len(m) /\ k + 4 <= Len(m)
        BY <2>1, <3>1
    <3>3. /\ r[a + 1] = m[k + 1] /\ r[a + 2] = m[k + 2] /\ r[a + 3] = m[k + 3]
          /\ r[a + 4] = m[k + 4]
        BY <2>3, <3>2
    <3>4. /\ (a + 1 \in A <=> k + 1 \in C) /\ (a + 2 \in A <=> k + 2 \in C)
          /\ (a + 3 \in A <=> k + 3 \in C) /\ (a + 4 \in A <=> k + 4 \in C)
          /\ (a + 5 \in A <=> k + 5 \in C)
        BY <2>4
    <3>5. SizeOf(r, a) = SizeOf(m, k)
        BY <3>3 DEF SizeOf
    <3> QED BY <2>1, <2>8, <3>4, <3>5 DEF AtSize
  <2>9. CASE AtKey(m, C, k)
    <3>1. k + 3 <= Len(m) + 1
        BY <1>2, <2>9 DEF AtKey
    <3>2. k + 1 <= Len(m) /\ k + 2 <= Len(m) /\ k + 1 \in 1..Len(m)
        BY <2>1, <3>1
    <3>3. r[a + 1] = m[k + 1] /\ r[a + 2] = m[k + 2]
        BY <2>3, <3>2
    <3>4. /\ (a + 1 \in A <=> k + 1 \in C) /\ (a + 2 \in A <=> k + 2 \in C)
          /\ (a + 3 \in A <=> k + 3 \in C)
        BY <2>4
    <3>5. /\ r[a] = 1 /\ a + 3 \in A /\ a + 1 \notin A /\ a + 2 \notin A
          /\ r[a + 1] > 0 /\ r[a + 2] = 0
        BY <2>1, <2>9, <3>3, <3>4 DEF AtKey
    <3>6. PICK l \in Nat : l = m[k + 1] /\ l = r[a + 1]
        BY <3>2, <3>3, ByteFacts
    <3>7. CASE k + 3 = Len(m) + 1
      <4>1. a + 3 = Len(r) + 1
        <5>1. k = Len(m) - 2
            BY <2>5, <3>7
        <5>2. a + 3 = N + Len(m) + 1
            BY <2>5, <5>1
        <5> QED BY <1>1, <5>2
      <4> QED BY <3>5, <4>1 DEF AtKey
    <3>8. CASE k + 3 # Len(m) + 1
      <4>1. k + 3 + l \in C /\ \A j \in 1..l : Plain(m[k + 2 + j])
          BY <2>9, <3>6, <3>8 DEF AtKey
      <4>2. k + 3 + l <= Len(m) + 1
          BY <1>2, <4>1
      <4>3. a + 3 + l = a + (3 + l) /\ k + 3 + l = k + (3 + l) /\ 3 + l \in Nat
          BY <2>1
      <4>4. a + 3 + l \in A
          BY <2>4, <4>1, <4>3
      <4>5. ASSUME NEW j \in 1..l  PROVE Plain(r[a + 2 + j])
        <5>1. 2 + j \in Nat /\ k + (2 + j) <= Len(m) /\ a + (2 + j) = a + 2 + j
              /\ k + (2 + j) = k + 2 + j
            BY <2>1, <4>2
        <5>2. r[a + (2 + j)] = m[k + (2 + j)]
            BY <2>3, <5>1
        <5> QED BY <4>1, <5>1, <5>2
      <4> QED BY <3>5, <3>6, <4>4, <4>5 DEF AtKey
    <3> QED BY <3>7, <3>8
  <2> QED BY <2>2, <2>7, <2>8, <2>9
<1>10. ASSUME NEW x \in A, x <= Len(r)
       PROVE  AtPlain(r, A, x) \/ AtSize(r, A, S, x) \/ AtKey(r, A, x)
  <2>1. x \in Nat /\ x > 0
      BY <1>1, <1>7
  <2>2. CASE x <= N
      BY <1>5, <1>8, <2>1, <2>2
  <2>3. CASE x > N
    <3>1. PICK k \in Nat : x = N + k /\ k > 0
      <4>1. x - N \in Nat /\ x = N + (x - N) /\ x - N > 0
          BY <1>1, <2>1, <2>3
      <4> QED BY <4>1
    <3>2. k \in C /\ k <= Len(m)
        BY <1>1, <1>4, <1>10, <3>1
    <3> QED BY <1>9, <3>1, <3>2
  <2> QED BY <1>1, <2>1, <2>2, <2>3
<1>11. Cuts(r, A, S)
    BY <1>7, <1>10 DEF Cuts
<1> QED BY <1>11 DEF r, A, N

\* What a size is sent as, and read back from.
LEMMA SizeBytes ==
    ASSUME NEW s \in Nat \X Nat
    PROVE  /\ Resize(s) \in Seq(Nat) /\ Len(Resize(s)) = 5 /\ Resize(s)[1] = 2
           /\ SizeOf(Resize(s), 1) = s
<1>1. PICK x \in Nat, y \in Nat : s = <<x, y>>
    OBVIOUS
<1>2. \A n \in Nat : /\ n % 256 \in Nat /\ n \div 256 \in Nat
                     /\ (n % 256) + 256 * (n \div 256) = n
    OBVIOUS
<1>3. PICK a \in Nat, b \in Nat, c \in Nat, d \in Nat :
         /\ a = x % 256 /\ b = x \div 256 /\ c = y % 256 /\ d = y \div 256
         /\ a + 256 * b = x /\ c + 256 * d = y
    BY <1>2
<1>4. Resize(s) = <<2, a, b, c, d>>
    BY <1>1, <1>3 DEF Resize
<1>5. SizeOf(<<2, a, b, c, d>>, 1) = <<x, y>>
    BY <1>3 DEF SizeOf
<1>6. <<2, a, b, c, d>> \in Seq(Nat)
    OBVIOUS
<1>7. Len(<<2, a, b, c, d>>) = 5 /\ <<2, a, b, c, d>>[1] = 2
    OBVIOUS
<1> QED BY <1>1, <1>4, <1>5, <1>6, <1>7, Zenon

\* The cuts of a send, and those where a size or a key begins.
LEMMA SendCuts ==
    ASSUME NEW m \in Seq(Nat), NEW S, S \subseteq Nat \X Nat, Sends(m, S)
    PROVE  /\ Cuts(m, CutsOf(m), S) /\ Len(m) > 0
           /\ \A b \in CutsOf(m) : b <= Len(m) /\ b # 1 => Plain(m[b])
           /\ m[1] = 2 <=> SizeSend(m, S)
           /\ m[1] = 1 <=> HeaderSend(m) \/ WholeSend(m)
<1>1. CASE SizeSend(m, S)
  <2>1. PICK s \in S : m = Resize(s)
      BY <1>1 DEF SizeSend
  <2>2. s \in Nat \X Nat
      OBVIOUS
  <2>3. Len(m) = 5 /\ m[1] = 2 /\ SizeOf(m, 1) = s
      BY <2>1, <2>2, SizeBytes
  <2>4. CutsOf(m) = {1, 6}
      BY <2>3 DEF CutsOf
  <2>5. AtSize(m, {1, 6}, S, 1)
      BY <2>3 DEF AtSize
  <2>6. Cuts(m, {1, 6}, S)
      BY <2>3, <2>5 DEF Cuts
  <2>7. ~HeaderSend(m) /\ ~WholeSend(m)
      BY <2>3 DEF HeaderSend, WholeSend
  <2> QED BY <1>1, <2>3, <2>4, <2>6, <2>7
<1>2. CASE HeaderSend(m)
  <2>1. Len(m) = 3 /\ m[1] = 1 /\ m[2] > 0 /\ m[3] = 0
      BY <1>2 DEF HeaderSend
  <2>2. CutsOf(m) = {1, 4}
      BY <2>1 DEF CutsOf
  <2>3. AtKey(m, {1, 4}, 1)
      BY <2>1 DEF AtKey
  <2>4. Cuts(m, {1, 4}, S)
      BY <2>1, <2>3 DEF Cuts
  <2>5. ~SizeSend(m, S)
      BY <2>1 DEF SizeSend, Resize
  <2> QED BY <1>2, <2>1, <2>2, <2>4, <2>5
<1>3. CASE WholeSend(m)
  <2>1. /\ Len(m) \in Nat /\ Len(m) > 5 /\ Len(m) = 5 + m[2] /\ m[1] = 1 /\ m[3] = 0
        /\ \A j \in 4..Len(m) : Plain(m[j])
      BY <1>3, ByteFacts DEF WholeSend
  <2> DEFINE C == {1} \cup 4..(Len(m) + 1)
  <2>2. CutsOf(m) = C
      BY <2>1 DEF CutsOf
  <2>3. PICK l \in Nat : l = m[2] /\ l > 0 /\ Len(m) = 5 + l
      BY <2>1, ByteFacts
  <2>4. \A x : x \in C <=> x = 1 \/ (x \in Nat /\ x >= 4 /\ x <= Len(m) + 1)
      BY <2>1
  <2> HIDE DEF C
  <2>5. AtKey(m, C, 1)
    <3>1. 1 + 3 + l \in C /\ 1 + 3 \in C /\ 1 + 1 \notin C /\ 1 + 2 \notin C
      <4>1. /\ 4 + l \in Nat /\ 4 + l >= 4 /\ 4 + l <= Len(m) + 1 /\ 4 <= Len(m) + 1
            /\ 1 + 3 + l = 4 + l /\ 1 + 3 = 4 /\ 1 + 1 = 2 /\ 1 + 2 = 3
          BY <2>1, <2>3
      <4>2. 4 + l \in C /\ 4 \in C /\ 2 \notin C /\ 3 \notin C
          BY <2>4, <4>1
      <4> QED BY <4>1, <4>2
    <3>2. ASSUME NEW j \in 1..l  PROVE Plain(m[1 + 2 + j])
      <4>1. 1 + 2 + j \in 4..Len(m)
          BY <2>1, <2>3
      <4> QED BY <2>1, <4>1
    <3>3. m[1 + 1] = l /\ m[1 + 2] = 0
        BY <2>1, <2>3
    <3> QED BY <2>1, <2>3, <3>1, <3>2, <3>3 DEF AtKey
  <2>6. ASSUME NEW b \in C, b <= Len(m), b # 1  PROVE Plain(m[b]) /\ b + 1 \in C
    <3>1. b \in 4..Len(m)
        BY <2>1, <2>4, <2>6
    <3>2. b + 1 \in Nat /\ b + 1 >= 4 /\ b + 1 <= Len(m) + 1
        BY <2>1, <3>1
    <3>3. b + 1 \in C
        BY <2>4, <3>2
    <3> QED BY <2>1, <3>1, <3>3
  <2>7. C \subseteq 1..(Len(m) + 1) /\ 1 \in C /\ Len(m) + 1 \in C
    <3>1. Len(m) + 1 \in Nat /\ Len(m) + 1 >= 4
        BY <2>1
    <3> QED BY <2>4, <3>1
  <2>8. Cuts(m, C, S)
      BY <2>5, <2>6, <2>7 DEF Cuts, AtPlain
  <2>9. ~SizeSend(m, S)
      BY <2>1 DEF SizeSend, Resize
  <2> QED BY <1>3, <2>1, <2>2, <2>6, <2>8, <2>9
<1>4. CASE PayloadSend(m)
  <2>1. Len(m) \in Nat /\ Len(m) > 0 /\ \A j \in 1..Len(m) : Plain(m[j])
      BY <1>4, ByteFacts DEF PayloadSend
  <2>2. 1 \in 1..Len(m) /\ m[1] # 1 /\ m[1] # 2
      BY <2>1 DEF Plain
  <2> DEFINE C == 1..(Len(m) + 1)
  <2>3. CutsOf(m) = C
      BY <2>2 DEF CutsOf
  <2>4. ASSUME NEW b \in C, b <= Len(m)  PROVE Plain(m[b]) /\ b + 1 \in C
      BY <2>1, <2>4
  <2>5. 1 \in C /\ Len(m) + 1 \in C
      BY <2>1
  <2> HIDE DEF C
  <2>6. C \subseteq 1..(Len(m) + 1)
      BY DEF C
  <2>7. Cuts(m, C, S)
      BY <2>4, <2>5, <2>6 DEF Cuts, AtPlain
  <2>8. ~SizeSend(m, S) /\ ~HeaderSend(m) /\ ~WholeSend(m)
      BY <2>2 DEF SizeSend, HeaderSend, WholeSend, Resize
  <2> QED BY <2>1, <2>2, <2>3, <2>4, <2>7, <2>8
<1> QED BY <1>1, <1>2, <1>3, <1>4 DEF Sends

-----------------------------------------------------------------------------
(* Reading whole messages.                                                 *)

\* A set of numbers that is not empty has a least one.
LEMMA LeastIndex ==
    ASSUME NEW S, S \subseteq Nat, S # {}
    PROVE  \E i \in S : \A j \in S : i <= j
<1> DEFINE R == OpToRel(<, Nat)
<1>1. \A x, y \in Nat : x < y => <<x, y>> \in R
    BY DEF OpToRel
<1>2. IsWellFoundedOn(R, Nat)
    BY NatLessThanWellFounded, Zenon
<1> HIDE DEF R
<1>3. PICK x \in S : \A y \in S : ~(<<y, x>> \in R)
    BY <1>2, WFMin, Zenon
<1>4. \A y \in S : ~(y < x)
    BY <1>1, <1>3
<1>5. \A y \in S : x <= y
    BY <1>4
<1> QED BY <1>5

\* A count that no position of a..(a + n - 1) raises is the same behind them.
LEMMA FlatCount ==
    ASSUME NEW c, NEW a \in Nat, NEW n \in Nat,
           \A j \in Nat : a <= j /\ j < a + n => c[j + 1] = c[j]
    PROVE  c[a + n] = c[a]
<1> DEFINE S == {i \in Nat : i <= n /\ c[a + i] # c[a]}
<1> SUFFICES S = {}
  <2>1. n \notin S => c[a + n] = c[a]
      OBVIOUS
  <2> QED BY <2>1
<1> SUFFICES ASSUME S # {}  PROVE FALSE
    OBVIOUS
<1>1. PICK i \in S : \A j \in S : i <= j
    BY LeastIndex
<1>2. i \in Nat /\ i <= n /\ c[a + i] # c[a]
    BY <1>1
<1>3. i # 0
    BY <1>2
<1>4. i - 1 \in Nat /\ i - 1 <= n /\ ~(i <= i - 1)
    BY <1>2, <1>3
<1>5. c[a + (i - 1)] = c[a]
    BY <1>1, <1>4
<1>6. a + (i - 1) \in Nat /\ a <= a + (i - 1) /\ a + (i - 1) < a + n
      /\ a + (i - 1) + 1 = a + i
    BY <1>2, <1>3
<1>7. c[a + i] = c[a + (i - 1)]
    BY <1>6
<1> QED BY <1>2, <1>5, <1>7

\* Whole messages of n bytes are read: the rest is cut as before.
LEMMA RestInSocket ==
    ASSUME Types, NEW B, InSocket(B), NEW n \in Nat, n + 1 \in B,
           inq' = Rest(inq, n), UNCHANGED <<conn, half, flight, sizes>>
    PROVE  /\ InSocket(Down(B, n))'
           /\ Len(inq') = Len(inq) - n /\ Len(inq) \in Nat /\ n <= Len(inq)
           /\ \A i \in 1..Len(inq') : inq'[i] = inq[n + i] /\ n + i \in 1..Len(inq)
           /\ \A b \in Down(B, n) : b \in Nat /\ b > 0 /\ b + n \in B
           /\ \A b \in Nat : b > 0 /\ b + n \in B => b \in Down(B, n)
<1>1. inq \in Seq(Nat) /\ Cuts(inq, B, Known) /\ Len(inq) \in Nat
    BY DEF Types, InSocket
<1>2. Cuts(inq', Down(B, n), Known) /\ n <= Len(inq) /\ Len(inq') = Len(inq) - n
    BY <1>1, RestCuts
<1>3. \A i \in 1..Len(inq') : inq'[i] = inq[n + i]
    BY <1>1, RestFacts
<1>4. \A i \in 1..Len(inq') : n + i \in 1..Len(inq)
    BY <1>1, <1>2
<1>5. /\ \A b \in Down(B, n) : b \in Nat /\ b > 0 /\ b + n \in B
      /\ \A b \in Nat : b > 0 /\ b + n \in B => b \in Down(B, n)
    BY DEF Down
<1>6. Known' = Known
    BY DEF Known
<1>7. \A i, k : Awaited(i, k)' <=> Awaited(i, k)
    BY DEF Awaited
<1>8. ASSUME NEW b \in Down(B, n), Torn(inq', Down(B, n), b)
      PROVE  Awaited(0, inq'[b + 1])
  <2>1. b \in Nat /\ b > 0 /\ b + n \in B /\ b <= Len(inq') /\ inq'[b] = 1
        /\ b + 3 = Len(inq') + 1
      BY <1>5, <1>8 DEF Torn
  <2>2. b \in 1..Len(inq') /\ b + 1 \in 1..Len(inq') /\ b + n <= Len(inq)
        /\ n + b = b + n /\ n + (b + 1) = b + n + 1 /\ b + n + 3 = Len(inq) + 1
      BY <1>1, <1>2, <2>1
  <2>3. inq'[b] = inq[b + n] /\ inq'[b + 1] = inq[b + n + 1]
      BY <1>3, <2>2
  <2>4. Torn(inq, B, b + n)
      BY <2>1, <2>2, <2>3 DEF Torn
  <2> QED BY <2>1, <2>3, <2>4 DEF InSocket
<1>9. InSocket(Down(B, n))'
  <2>1. Cuts(inq', Down(B, n), Known')
      BY <1>2, <1>6
  <2> QED BY <1>7, <1>8, <2>1 DEF InSocket
<1> QED BY <1>1, <1>2, <1>3, <1>4, <1>5, <1>9

\* What is read holds no size, or is the size that the tty gets.
SizesRead(B, n) ==
    \/ winsz' = winsz /\ \A b \in B : b <= n => inq[b] # 2
    \/ n = 5 /\ winsz' = SizeOf(inq, 1) /\ 1 \in B /\ inq[1] = 2

\* The last size stays the last.
LEMMA RestLastSize ==
    ASSUME Types, NEW B, InSocket(B), LastSize(B), NEW n \in Nat, n + 1 \in B,
           inq' = Rest(inq, n), UNCHANGED <<conn, half, flight, sizes>>,
           pc' \in {"poll", "sock"} => pc \in {"poll", "sock"} /\ SizesRead(B, n)
    PROVE  LastSize(Down(B, n))'
<1> DEFINE D == Down(B, n)
<1>1. /\ Len(inq') = Len(inq) - n /\ Len(inq) \in Nat /\ n <= Len(inq)
      /\ \A i \in 1..Len(inq') : inq'[i] = inq[n + i] /\ n + i \in 1..Len(inq)
      /\ \A b \in D : b \in Nat /\ b > 0 /\ b + n \in B
      /\ \A b \in Nat : b > 0 /\ b + n \in B => b \in D
    BY RestInSocket
<1>2. \A b \in B : b \in Nat /\ b > 0 /\ b <= Len(inq) + 1
    BY <1>1 DEF InSocket, Cuts
<1> HIDE DEF D
<1>3. \A i : SizeAt(i)' <=> SizeAt(i)
    BY DEF SizeAt
<1>4. \A b \in D : SizeCut(D, b)' <=> SizeCut(B, b + n)
  <2> SUFFICES ASSUME NEW b \in D  PROVE SizeCut(D, b)' <=> SizeCut(B, b + n)
      OBVIOUS
  <2>1. b \in Nat /\ b > 0 /\ b + n \in B /\ n + b = b + n
      BY <1>1
  <2>2. b <= Len(inq') <=> b + n <= Len(inq)
      BY <1>1, <2>1
  <2>3. b <= Len(inq') => b \in 1..Len(inq')
      BY <1>1, <2>1
  <2>4. b <= Len(inq') => inq'[b] = inq[b + n]
      BY <1>1, <2>1, <2>3
  <2> QED BY <2>1, <2>2, <2>4 DEF SizeCut
<1>5. \A i \in 1..Len(flight)' :
         SizeAt(i)' /\ (\A j \in 1..Len(flight)' : SizeAt(j)' => j <= i)
           => flight'[i] = Resize(Last(sizes'))
    BY <1>3 DEF LastSize
<1>6. ASSUME \A i \in 1..Len(flight)' : ~SizeAt(i)',
             NEW b \in D, SizeCut(D, b)', \A a \in D : SizeCut(D, a)' => a <= b
      PROVE  SizeOf(inq', b) = Last(sizes')
  <2>1. \A i \in 1..Len(flight) : ~SizeAt(i)
      BY <1>3, <1>6
  <2>2. b \in Nat /\ b > 0 /\ b + n \in B /\ SizeCut(B, b + n)
      BY <1>1, <1>4, <1>6
  <2>3. ASSUME NEW a \in B, SizeCut(B, a)  PROVE a <= b + n
    <3>1. a \in Nat
        BY <1>2
    <3>2. CASE a <= n
        BY <2>2, <3>1, <3>2
    <3>3. CASE a > n
      <4>1. PICK k \in Nat : a = k + n /\ k > 0
        <5>1. a - n \in Nat /\ a = (a - n) + n /\ a - n > 0
            BY <3>1, <3>3
        <5> QED BY <5>1
      <4>2. k \in D /\ k <= b
          BY <1>1, <1>4, <1>6, <2>3, <4>1
      <4> QED BY <2>2, <4>1, <4>2
    <3> QED BY <3>1, <3>2, <3>3
  <2>4. SizeOf(inq, b + n) = Last(sizes)
      BY <2>1, <2>2, <2>3 DEF LastSize
  <2>5. b + n + 5 \in B
    <3>1. AtSize(inq, B, Known, b + n)
        BY <2>2 DEF SizeCut, InSocket, Cuts, AtPlain, AtSize, AtKey, Plain
    <3> QED BY <3>1 DEF AtSize
  <2>6. b + n + 5 <= Len(inq) + 1
      BY <1>2, <2>5
  <2>7. \A k \in 1..4 : b + k \in 1..Len(inq') /\ n + (b + k) = b + n + k
      BY <1>1, <2>2, <2>6
  <2>8. \A k \in 1..4 : inq'[b + k] = inq[b + n + k]
      BY <1>1, <2>7
  <2>9. SizeOf(inq', b) = SizeOf(inq, b + n)
      BY <2>8 DEF SizeOf
  <2> QED BY <2>4, <2>9
<1>7. ASSUME \A i \in 1..Len(flight)' : ~SizeAt(i)', \A b \in D : ~SizeCut(D, b)',
             pc' \in {"poll", "sock"}
      PROVE  winsz' = Last(sizes')
  <2>1. \A i \in 1..Len(flight) : ~SizeAt(i)
      BY <1>3, <1>7
  <2>2. ASSUME NEW a \in B, SizeCut(B, a)  PROVE a <= n
    <3>1. a \in Nat
        BY <1>2
    <3> SUFFICES ASSUME a > n  PROVE FALSE
        BY <3>1
    <3>2. PICK k \in Nat : a = k + n /\ k > 0
      <4>1. a - n \in Nat /\ a = (a - n) + n /\ a - n > 0
          BY <3>1
      <4> QED BY <4>1
    <3>3. k \in D
        BY <1>1, <3>2
    <3> QED BY <1>4, <1>7, <2>2, <3>2, <3>3
  <2>3. CASE winsz' = winsz /\ \A b \in B : b <= n => inq[b] # 2
    <3>1. \A a \in B : ~SizeCut(B, a)
        BY <2>2, <2>3 DEF SizeCut
    <3> QED BY <1>7, <2>1, <2>3, <3>1 DEF LastSize
  <2>4. CASE n = 5 /\ winsz' = SizeOf(inq, 1) /\ 1 \in B /\ inq[1] = 2
    <3>1. SizeCut(B, 1)
        BY <1>1, <2>4 DEF SizeCut
    <3>2. AtSize(inq, B, Known, 1)
        BY <3>1 DEF SizeCut, InSocket, Cuts, AtPlain, AtSize, AtKey, Plain
    <3>3. 2 \notin B /\ 3 \notin B /\ 4 \notin B /\ 5 \notin B
        BY <3>2 DEF AtSize
    <3>4. \A a \in B : SizeCut(B, a) => a <= 1
        BY <1>2, <2>2, <2>4, <3>3
    <3>5. SizeOf(inq, 1) = Last(sizes)
        BY <2>1, <2>4, <3>1, <3>4 DEF LastSize
    <3> QED BY <2>4, <3>5
  <2> QED BY <1>7, <2>3, <2>4 DEF SizesRead
<1>8. LastSize(D)'
    BY <1>5, <1>6, <1>7 DEF LastSize
<1> QED BY <1>8 DEF D

\* What is read holds no key, or a key first of which the tty gets the payload, or
\* nothing.
KeysRead(B, n) ==
    \/ input' = input /\ \A b \in B : b <= n => inq[b] # 1
    \/ /\ n > 0 /\ 1 \in B /\ inq[1] = 1 /\ \A b \in B : b <= n /\ b # 1 => inq[b] # 1
       /\ \E w \in {<<>>, typed[Len(input) + 1]} : input' = Append(input, w)

\* The keys that are left follow the ones that were written.
LEMMA RestKeyed ==
    ASSUME Types, Types', NEW B, InSocket(B), Keyed(B), NEW n \in Nat, n + 1 \in B,
           inq' = Rest(inq, n), UNCHANGED <<conn, half, flight, sizes, typed>>, KeysRead(B, n)
    PROVE  Keyed(Down(B, n))'
<1> DEFINE D == Down(B, n)
<1>1. /\ Len(inq') = Len(inq) - n /\ Len(inq) \in Nat /\ n <= Len(inq)
      /\ \A i \in 1..Len(inq') : inq'[i] = inq[n + i] /\ n + i \in 1..Len(inq)
      /\ \A b \in D : b \in Nat /\ b > 0 /\ b + n \in B
      /\ \A b \in Nat : b > 0 /\ b + n \in B => b \in D
    BY RestInSocket
<1>2. \A b \in B : b \in Nat /\ b > 0 /\ b <= Len(inq) + 1
    BY <1>1 DEF InSocket, Cuts
<1> HIDE DEF D
<1>3. PICK c, d : Counted(B, c, d) /\ KeysMatch(B, c, d)
    BY DEF Keyed
<1>4. /\ c \in [1..(Len(inq) + 1) -> Nat] /\ c[1] = Len(input)
      /\ \A j \in 1..Len(inq) : c[j + 1] = c[j] + (IF j \in B /\ inq[j] = 1 THEN 1 ELSE 0)
    BY <1>3 DEF Counted
<1>5. PICK e : /\ e \in [1..(Len(inq') + 1) -> Nat]
               /\ \A j \in 1..(Len(inq') + 1) : e[j] = c[n + j]
  <2> DEFINE f == [j \in 1..(Len(inq') + 1) |-> c[n + j]]
  <2>1. \A j \in 1..(Len(inq') + 1) : n + j \in 1..(Len(inq) + 1)
      BY <1>1
  <2>2. f \in [1..(Len(inq') + 1) -> Nat] /\ \A j \in 1..(Len(inq') + 1) : f[j] = c[n + j]
      BY <1>4, <2>1
  <2> HIDE DEF f
  <2> QED BY <2>2
<1>6. Len(input) \in Nat /\ Len(input') \in Nat /\ Len(typed) \in Nat
    BY DEF Types
<1>7. c[n + 1] = Len(input') /\ Written'
  <2>1. CASE input' = input /\ \A b \in B : b <= n => inq[b] # 1
    <3>1. \A j \in Nat : 1 <= j /\ j < 1 + n => c[j + 1] = c[j]
      <4> SUFFICES ASSUME NEW j \in Nat, 1 <= j, j < 1 + n  PROVE c[j + 1] = c[j]
          OBVIOUS
      <4>1. j \in 1..Len(inq) /\ j \in 1..(Len(inq) + 1) /\ j <= n
          BY <1>1
      <4>2. c[j] \in Nat
          BY ONLY <1>4, <4>1, Zenon
      <4>3. ~(j \in B /\ inq[j] = 1)
          BY ONLY <2>1, <4>1, Zenon
      <4>4. c[j + 1] = c[j] + 0
          BY ONLY <1>4, <4>1, <4>3, Zenon
      <4> QED BY ONLY <4>2, <4>4
    <3>2. c[1 + n] = c[1]
        BY ONLY <3>1, n \in Nat, 1 \in Nat, FlatCount, Zenon
    <3>3. 1 + n = n + 1
        OBVIOUS
    <3> QED BY <1>4, <2>1, <3>2, <3>3 DEF Keyed, Written
  <2>2. CASE /\ n > 0 /\ 1 \in B /\ inq[1] = 1
             /\ \A b \in B : b <= n /\ b # 1 => inq[b] # 1
             /\ \E w \in {<<>>, typed[Len(input) + 1]} : input' = Append(input, w)
    <3>1. PICK w \in {<<>>, typed[Len(input) + 1]} : input' = Append(input, w)
        BY <2>2
    <3>2. c[2] = c[1] + 1
      <4>1. 1 \in 1..Len(inq) /\ 1 + 1 = 2
          BY <1>1, <2>2
      <4> QED BY <1>4, <2>2, <4>1
    <3>3. \A j \in Nat : 2 <= j /\ j < 2 + (n - 1) => c[j + 1] = c[j]
      <4> SUFFICES ASSUME NEW j \in Nat, 2 <= j, j < 2 + (n - 1)  PROVE c[j + 1] = c[j]
          OBVIOUS
      <4>1. j \in 1..Len(inq) /\ j \in 1..(Len(inq) + 1) /\ j <= n /\ j # 1
          BY <1>1, <2>2
      <4>2. c[j] \in Nat
          BY ONLY <1>4, <4>1, Zenon
      <4>3. ~(j \in B /\ inq[j] = 1)
          BY ONLY <2>2, <4>1, Zenon
      <4>4. c[j + 1] = c[j] + 0
          BY ONLY <1>4, <4>1, <4>3, Zenon
      <4> QED BY ONLY <4>2, <4>4
    <3>4. n - 1 \in Nat /\ 2 + (n - 1) = n + 1
        BY <2>2
    <3>5. c[2 + (n - 1)] = c[2]
        BY ONLY <3>3, <3>4, 2 \in Nat, FlatCount, Zenon
    <3>6. input \in Seq(Seq(Nat)) /\ Len(input') = Len(input) + 1
          /\ input'[Len(input) + 1] = w /\ \A i \in 1..Len(input) : input'[i] = input[i]
        BY <3>1 DEF Types
    <3>7. Len(input) + 1 <= Len(typed)
      <4>1. KeyCut(c, 1)
          BY <1>1, <1>3, <2>2 DEF KeysMatch
      <4> QED BY <1>4, <4>1 DEF KeyCut
    <3>8. Written'
      <4>1. ASSUME NEW i \in 1..Len(input')  PROVE input'[i] \in {<<>>, typed[i]}
        <5>1. CASE i = Len(input) + 1
            BY <3>1, <3>6, <5>1
        <5>2. CASE i # Len(input) + 1
          <6>1. i \in 1..Len(input)
              BY <1>6, <3>6, <5>2
          <6> QED BY <3>6, <6>1 DEF Keyed, Written
        <5> QED BY <5>1, <5>2
      <4> QED BY <3>6, <3>7, <4>1 DEF Written
    <3> QED BY <1>4, <3>2, <3>4, <3>5, <3>6, <3>8
  <2> QED BY <2>1, <2>2 DEF KeysRead
<1>8. Counted(D, e, d)'
  <2>1. e[1] = Len(input')
    <3>1. 1 \in 1..(Len(inq') + 1)
        BY <1>1
    <3> QED BY <1>5, <1>7, <3>1
  <2>2. ASSUME NEW j \in 1..Len(inq')
        PROVE  e[j + 1] = e[j] + (IF j \in D /\ inq'[j] = 1 THEN 1 ELSE 0)
    <3>1. /\ n + j \in 1..Len(inq) /\ j \in Nat /\ j > 0
          /\ j \in 1..(Len(inq') + 1) /\ j + 1 \in 1..(Len(inq') + 1)
          /\ n + (j + 1) = n + j + 1 /\ j + n = n + j
        BY <1>1
    <3>2. e[j + 1] = c[n + j + 1] /\ e[j] = c[n + j] /\ inq'[j] = inq[n + j]
        BY <1>1, <1>5, <3>1
    <3>3. j \in D <=> n + j \in B
        BY <1>1, <3>1
    <3> QED BY <1>4, <3>1, <3>2, <3>3
  <2>3. d[1] = e[Len(inq') + 1]
    <3>1. Len(inq') + 1 \in 1..(Len(inq') + 1) /\ n + (Len(inq') + 1) = Len(inq) + 1
        BY <1>1
    <3>2. d[1] = c[Len(inq) + 1]
        BY <1>3 DEF Counted
    <3> QED BY <1>5, <3>1, <3>2
  <2>4. /\ d \in [1..(Len(flight) + 1) -> Nat] /\ d[Len(flight) + 1] = Len(typed)
        /\ \A i \in 1..Len(flight) : d[i + 1] = d[i] + (IF flight[i][1] = 1 THEN 1 ELSE 0)
      BY <1>3 DEF Counted
  <2> QED BY <1>5, <2>1, <2>2, <2>3, <2>4 DEF Counted
<1>9. KeysMatch(D, e, d)'
  <2>1. \A i, t : KeyFollows(i, t)' <=> KeyFollows(i, t)
      BY DEF KeyFollows
  <2>2. ASSUME NEW b \in D, b <= Len(inq'), inq'[b] = 1  PROVE KeyCut(e, b)'
    <3>1. /\ b \in Nat /\ b > 0 /\ b + n \in B /\ b \in 1..Len(inq') /\ n + b = b + n
          /\ b \in 1..(Len(inq') + 1) /\ b + n <= Len(inq)
        BY <1>1, <2>2
    <3>2. inq[b + n] = 1 /\ e[b] = c[b + n]
        BY <1>1, <1>5, <2>2, <3>1
    <3>3. KeyCut(c, b + n)
        BY <1>3, <3>1, <3>2 DEF KeysMatch
    <3>4. PICK k : k = c[b + n] + 1 /\ k = e[b] + 1
        BY <3>2
    <3>5. /\ k <= Len(typed) /\ inq[b + n + 1] = Len(typed[k])
          /\ IF b + n + 3 = Len(inq) + 1 THEN KeyFollows(0, typed[k])
             ELSE \A j \in 1..Len(typed[k]) : inq[b + n + 2 + j] = typed[k][j]
        BY <3>3, <3>4 DEF KeyCut
    <3>6. /\ b + n + 3 \in B
          /\ b + n + 3 = Len(inq) + 1 \/ b + n + 3 + inq[b + n + 1] \in B
      <4>1. AtKey(inq, B, b + n)
          BY <3>1, <3>2 DEF InSocket, Cuts, AtPlain, AtSize, AtKey, Plain
      <4> QED BY <4>1 DEF AtKey
    <3>7. b + n + 3 <= Len(inq) + 1
        BY <1>2, <3>6
    <3>8. b + 1 \in 1..Len(inq') /\ n + (b + 1) = b + n + 1
          /\ (b + n + 3 = Len(inq) + 1 <=> b + 3 = Len(inq') + 1)
        BY <1>1, <3>1, <3>7
    <3>9. inq'[b + 1] = Len(typed[k])
        BY <1>1, <3>5, <3>8
    <3>10. IF b + 3 = Len(inq') + 1 THEN KeyFollows(0, typed[k])'
           ELSE \A j \in 1..Len(typed[k]) : inq'[b + 2 + j] = typed[k][j]
      <4>1. CASE b + 3 = Len(inq') + 1
          BY <2>1, <3>5, <3>8, <4>1
      <4>2. CASE b + 3 # Len(inq') + 1
        <5>1. PICK l \in Nat : l = Len(typed[k]) /\ l = inq[b + n + 1]
          <6>1. b + n + 1 \in 1..Len(inq) /\ inq \in Seq(Nat)
              BY <1>1, <3>8 DEF Types
          <6>2. inq[b + n + 1] \in Nat
              BY <6>1
          <6> QED BY <3>5, <6>2
        <5>2. b + n + 3 + l \in B
            BY <3>6, <3>8, <4>2, <5>1
        <5>3. b + n + 3 + l <= Len(inq) + 1
            BY <1>2, <5>2
        <5>4. ASSUME NEW j \in 1..l  PROVE inq'[b + 2 + j] = typed[k][j]
          <6>1. b + 2 + j \in 1..Len(inq') /\ n + (b + 2 + j) = b + n + 2 + j
              BY <1>1, <3>1, <5>3
          <6> QED BY <1>1, <3>5, <3>8, <4>2, <5>1, <6>1
        <5> QED BY <4>2, <5>1, <5>4
      <4> QED BY <4>1, <4>2
    <3> QED BY <3>4, <3>5, <3>9, <3>10 DEF KeyCut
  <2>3. ASSUME NEW i \in 1..Len(flight)', flight'[i][1] = 1  PROVE KeySend(d, i)'
    <3>1. KeySend(d, i)
        BY <1>3, <2>3 DEF KeysMatch
    <3> QED BY <2>1, <3>1 DEF KeySend
  <2> QED BY <2>2, <2>3 DEF KeysMatch
<1>10. Keyed(D)'
    BY <1>7, <1>8, <1>9 DEF Keyed
<1> QED BY <1>10 DEF D

-----------------------------------------------------------------------------
(* A send arrives.                                                         *)

\* The cuts of a queue q and of the bytes m behind it, apart.
Parts(q, B, m, C, A) ==
    /\ \A k \in Nat : k > 0 => (Len(q) + k \in A <=> k \in C)
    /\ \A x \in Nat : x <= Len(q) => (x \in A <=> x \in B)
    /\ \A x \in A : x <= Len(q \o m) =>
         \/ x \in B /\ x \in 1..Len(q) /\ (q \o m)[x] = q[x]
         \/ \E k \in C : x = Len(q) + k /\ k \in 1..Len(m) /\ (q \o m)[x] = m[k]

\* The cuts of both are the cuts of each.
LEMMA JoinParts ==
    ASSUME NEW q \in Seq(Nat), NEW B, NEW m \in Seq(Nat), NEW C, NEW S,
           Cuts(q, B, S), Cuts(m, C, S)
    PROVE  Parts(q, B, m, C, B \cup Up(C, Len(q)))
<1> DEFINE A == B \cup Up(C, Len(q))
<1> DEFINE N == Len(q)
<1>1. /\ Len(q \o m) = N + Len(m) /\ N \in Nat /\ Len(m) \in Nat
      /\ \A i \in 1..N : (q \o m)[i] = q[i]
      /\ \A i \in 1..Len(m) : (q \o m)[N + i] = m[i]
    BY JoinFacts
<1>2. /\ \A x \in B : x \in Nat /\ x > 0 /\ x <= N + 1
      /\ \A x \in C : x \in Nat /\ x > 0 /\ x <= Len(m) + 1
      /\ 1 \in C
    BY <1>1 DEF Cuts
<1>3. \A x : x \in A <=> x \in B \/ (x \in Nat /\ x > N /\ x - N \in C)
    BY DEF Up
<1> HIDE DEF N, A
<1>4. ASSUME NEW k \in Nat, k > 0  PROVE N + k \in A <=> k \in C
  <2>1. N + k \in Nat /\ N + k > N /\ (N + k) - N = k
      BY <1>1, <1>4
  <2>2. N + k \in B => k = 1
      BY <1>1, <1>2, <1>4
  <2> QED BY <1>2, <1>3, <2>1, <2>2
<1>5. \A x \in Nat : x <= N => (x \in A <=> x \in B)
    BY <1>1, <1>3
<1>6. ASSUME NEW x \in A, x <= Len(q \o m)
      PROVE  \/ x \in B /\ x \in 1..N /\ (q \o m)[x] = q[x]
             \/ \E k \in C : x = N + k /\ k \in 1..Len(m) /\ (q \o m)[x] = m[k]
  <2>1. x \in Nat /\ x > 0
      BY <1>1, <1>2, <1>3
  <2>2. CASE x <= N
    <3>1. x \in B /\ x \in 1..N
        BY <1>1, <1>5, <2>1, <2>2
    <3> QED BY <1>1, <3>1
  <2>3. CASE x > N
    <3>1. PICK k \in Nat : x = N + k /\ k > 0
      <4>1. x - N \in Nat /\ x = N + (x - N) /\ x - N > 0
          BY <1>1, <2>1, <2>3
      <4> QED BY <4>1
    <3>2. k \in C /\ k \in 1..Len(m)
        BY <1>1, <1>4, <1>6, <3>1
    <3>3. (q \o m)[x] = m[k]
        BY <1>1, <3>1, <3>2
    <3> QED BY <3>1, <3>2, <3>3
  <2> QED BY <1>1, <2>1, <2>2, <2>3
<1>7. Parts(q, B, m, C, A)
    BY <1>4, <1>5, <1>6 DEF N, Parts
<1> QED BY <1>7 DEF A

\* The send m arrives: it is added to the N bytes of the socket, cut by B.
Arrives(m, N, B, A) ==
    /\ flight # <<>> /\ m = flight[1] /\ N = Len(inq) /\ inq' = inq \o m
    /\ flight' = Tail(flight) /\ A = B \cup Up(CutsOf(m), N)
    /\ UNCHANGED <<client, half, slot, conn, typed, sizes, input, winsz, pc, why>>

\* What that means for the bytes, the cuts, and what comes next in flight.
Arrived(m, N, B, A) ==
    /\ inq \in Seq(Nat) /\ m \in Seq(Nat) /\ N \in Nat /\ Len(m) \in Nat /\ Len(m) > 0
    /\ Len(flight) \in Nat /\ Len(flight) > 0 /\ Len(flight') = Len(flight) - 1
    /\ \A i \in 1..Len(flight') : flight'[i] = flight[i + 1] /\ i + 1 \in 1..Len(flight)
    /\ Known' = Known /\ Sends(m, Known)
    /\ m[1] = 2 <=> SizeSend(m, Known)
    /\ m[1] = 1 <=> HeaderSend(m) \/ WholeSend(m)
    /\ Cuts(inq', A, Known) /\ Len(inq') = N + Len(m)
    /\ \A i \in 1..N : inq'[i] = inq[i]
    /\ \A i \in 1..Len(m) : inq'[N + i] = m[i]
    /\ \A x \in Nat : x <= N => (x \in A <=> x \in B)
    /\ \A x \in A : x <= Len(inq') =>
         \/ x \in B /\ x \in 1..N /\ inq'[x] = inq[x]
         \/ x = N + 1 /\ inq'[x] = m[1]
         \/ x > N + 1 /\ Plain(inq'[x])
    /\ N + 1 \in A /\ inq'[N + 1] = m[1]
    /\ \A b \in B : b \in Nat /\ b > 0 /\ b <= N + 1
    /\ \A i \in Nat : \A n : Awaited(i, n)' <=> Awaited(i + 1, n)
    /\ \A i \in Nat : \A t : KeyFollows(i, t)' <=> KeyFollows(i + 1, t)

\* What an arrival does to the stream.
LEMMA ArriveFacts ==
    ASSUME Types, InFlight, NEW B, InSocket(B), NEW m, NEW N, NEW A, Arrives(m, N, B, A)
    PROVE  Arrived(m, N, B, A)
<1>1. /\ inq \in Seq(Nat) /\ flight \in Seq(Seq(Nat)) /\ flight # <<>>
      /\ N \in Nat /\ N = Len(inq) /\ m = flight[1] /\ flight' = Tail(flight)
      /\ A = B \cup Up(CutsOf(m), Len(inq)) /\ inq' = inq \o m
    BY DEF Types, Arrives
<1>2. /\ Len(flight) \in Nat /\ Len(flight) > 0 /\ Len(flight') = Len(flight) - 1
      /\ \A i \in 1..Len(flight') : flight'[i] = flight[i + 1] /\ i + 1 \in 1..Len(flight)
    BY <1>1
<1>3. m \in Seq(Nat) /\ 1 \in 1..Len(flight)
    BY <1>1, <1>2
<1>4. Known' = Known /\ Known \subseteq Nat \X Nat
  <2>1. sizes \in Seq(Nat \X Nat)
      BY DEF Types
  <2>2. \A i \in 1..Len(sizes) : sizes[i] \in Nat \X Nat
      BY <2>1
  <2> QED BY <2>2 DEF Known, Arrives
<1>5. Sends(m, Known)
    BY <1>1, <1>3 DEF InFlight
<1>6. /\ Cuts(m, CutsOf(m), Known) /\ Len(m) > 0 /\ Len(m) \in Nat
      /\ \A b \in CutsOf(m) : b <= Len(m) /\ b # 1 => Plain(m[b])
      /\ m[1] = 2 <=> SizeSend(m, Known)
      /\ m[1] = 1 <=> HeaderSend(m) \/ WholeSend(m)
    BY <1>3, <1>4, <1>5, SendCuts, ByteFacts
<1>7. Cuts(inq, B, Known)
    BY DEF InSocket
<1>8. \A b : Torn(inq, B, b) => PayloadSend(m) /\ Len(m) = inq[b + 1]
  <2> SUFFICES ASSUME NEW b, Torn(inq, B, b)  PROVE PayloadSend(m) /\ Len(m) = inq[b + 1]
      OBVIOUS
  <2>1. Awaited(0, inq[b + 1])
      BY DEF InSocket, Torn
  <2> QED BY <1>1, <1>2, <2>1 DEF Awaited
<1>9. Cuts(inq', A, Known)
    BY <1>1, <1>3, <1>6, <1>7, <1>8, JoinCuts
<1>10. /\ Len(inq') = N + Len(m)
       /\ \A i \in 1..N : inq'[i] = inq[i]
       /\ \A i \in 1..Len(m) : inq'[N + i] = m[i]
    BY <1>1, <1>3, JoinFacts
<1>11. /\ \A k \in Nat : k > 0 => (N + k \in A <=> k \in CutsOf(m))
       /\ \A x \in Nat : x <= N => (x \in A <=> x \in B)
       /\ \A x \in A : x <= Len(inq') =>
            \/ x \in B /\ x \in 1..N /\ inq'[x] = inq[x]
            \/ \E k \in CutsOf(m) : x = N + k /\ k \in 1..Len(m) /\ inq'[x] = m[k]
  <2>1. /\ \A k \in Nat : k > 0 => (Len(inq) + k \in A <=> k \in CutsOf(m))
        /\ \A x \in Nat : x <= Len(inq) => (x \in A <=> x \in B)
        /\ \A x \in A : x <= Len(inq \o m) =>
             \/ x \in B /\ x \in 1..Len(inq) /\ (inq \o m)[x] = inq[x]
             \/ \E k \in CutsOf(m) : /\ x = Len(inq) + k /\ k \in 1..Len(m)
                                     /\ (inq \o m)[x] = m[k]
    <3>1. Parts(inq, B, m, CutsOf(m), B \cup Up(CutsOf(m), Len(inq)))
        BY <1>1, <1>3, <1>6, <1>7, JoinParts
    <3>2. Parts(inq, B, m, CutsOf(m), A)
        BY <1>1, <3>1
    <3> QED BY <3>2 DEF Parts
  <2> QED BY <1>1, <2>1, Zenon
<1>12. ASSUME NEW x \in A, x <= Len(inq')
       PROVE  \/ x \in B /\ x \in 1..N /\ inq'[x] = inq[x]
              \/ x = N + 1 /\ inq'[x] = m[1]
              \/ x > N + 1 /\ Plain(inq'[x])
  <2>1. CASE x \in B /\ x \in 1..N /\ inq'[x] = inq[x]
      BY <2>1
  <2>2. CASE \E k \in CutsOf(m) : x = N + k /\ k \in 1..Len(m) /\ inq'[x] = m[k]
    <3>1. PICK k \in CutsOf(m) : x = N + k /\ k \in 1..Len(m) /\ inq'[x] = m[k]
        BY <2>2
    <3>2. CASE k = 1
        BY <3>1, <3>2
    <3>3. CASE k # 1
      <4>1. x > N + 1 /\ k <= Len(m)
          BY <1>1, <1>6, <3>1, <3>3
      <4> QED BY <1>6, <3>1, <3>3, <4>1
    <3> QED BY <3>2, <3>3
  <2> QED BY <1>11, <1>12, <2>1, <2>2
<1>13. N + 1 \in A /\ inq'[N + 1] = m[1]
  <2>1. 1 \in CutsOf(m) /\ 1 \in 1..Len(m)
      BY <1>6 DEF Cuts
  <2> QED BY <1>10, <1>11, <2>1
<1>14. \A b \in B : b \in Nat /\ b > 0 /\ b <= N + 1
    BY <1>1, <1>7 DEF Cuts
<1>15. conn' = conn /\ half' = half
    BY DEF Arrives
<1>16. ASSUME NEW i \in Nat
       PROVE  /\ i < Len(flight') <=> i + 1 < Len(flight)
              /\ i < Len(flight') => flight'[i + 1] = flight[i + 1 + 1]
    BY <1>2
<1>17. \A i \in Nat : \A n : Awaited(i, n)' <=> Awaited(i + 1, n)
    BY <1>15, <1>16 DEF Awaited
<1>18. \A i \in Nat : \A t : KeyFollows(i, t)' <=> KeyFollows(i + 1, t)
    BY <1>15, <1>16 DEF KeyFollows
<1> QED BY <1>1, <1>2, <1>3, <1>4, <1>5, <1>6, <1>9, <1>10, <1>11, <1>12, <1>13, <1>14,
           <1>17, <1>18 DEF Arrived

\* The sends that are left follow the one that arrived.
LEMMA ArriveInFlight ==
    ASSUME Types, InFlight, NEW B, InSocket(B), NEW m, NEW N, NEW A, Arrives(m, N, B, A)
    PROVE  InFlight'
<1>0. Arrived(m, N, B, A)
    BY ArriveFacts
<1>1. /\ Len(flight) \in Nat /\ Len(flight') = Len(flight) - 1 /\ Known' = Known
      /\ \A i \in 1..Len(flight') : flight'[i] = flight[i + 1] /\ i + 1 \in 1..Len(flight)
      /\ \A i \in Nat : \A n : Awaited(i, n)' <=> Awaited(i + 1, n)
    BY ONLY <1>0, Zenon DEF Arrived
<1>2. UNCHANGED <<client, half, slot>>
    BY DEF Arrives
<1>3. ASSUME NEW i \in 1..Len(flight')
      PROVE  /\ Sends(flight'[i], Known') /\ (client' = "runner" => ~WholeSend(flight'[i]))
             /\ HeaderSend(flight'[i]) => Awaited(i, flight[i][2])'
  <2>1. i \in Nat /\ i + 1 \in 1..Len(flight) /\ flight'[i] = flight[i + 1]
      BY <1>1
  <2>2. /\ Sends(flight[i + 1], Known) /\ (client = "runner" => ~WholeSend(flight[i + 1]))
        /\ HeaderSend(flight[i + 1]) => Awaited(i + 1, flight[i + 1][2])
      BY <2>1 DEF InFlight
  <2>3. PICK l : l = flight[i + 1][2] /\ l = flight'[i][2]
      BY <2>1
  <2>4. Awaited(i, l)' <=> Awaited(i + 1, l)
      BY <1>1, <2>1
  <2> QED BY <1>1, <1>2, <2>1, <2>2, <2>3, <2>4
<1> QED BY <1>2, <1>3 DEF InFlight

\* A header that is torn waits for its payload.
LEMMA ArriveInSocket ==
    ASSUME Types, InFlight, NEW B, InSocket(B), NEW m, NEW N, NEW A, Arrives(m, N, B, A)
    PROVE  InSocket(A)'
<1>0. Arrived(m, N, B, A)
    BY ArriveFacts
<1>1. /\ inq \in Seq(Nat) /\ N \in Nat /\ Len(m) \in Nat /\ Len(m) > 0 /\ Len(inq') = N + Len(m)
      /\ Len(flight) \in Nat /\ Len(flight) > 0
      /\ Known' = Known /\ Cuts(inq', A, Known)
      /\ m[1] = 1 <=> HeaderSend(m) \/ WholeSend(m)
      /\ \A i \in 1..Len(m) : inq'[N + i] = m[i]
      /\ \A b \in B : b \in Nat /\ b > 0 /\ b <= N + 1
      /\ \A i \in Nat : \A n : Awaited(i, n)' <=> Awaited(i + 1, n)
    BY ONLY <1>0, Zenon DEF Arrived
<1>2. N = Len(inq) /\ m = flight[1]
    BY DEF Arrives
<1>3. ASSUME NEW b \in A, Torn(inq', A, b)  PROVE Awaited(0, inq[b + 1])'
  <2>1. b <= Len(inq') /\ inq'[b] = 1 /\ b + 3 = Len(inq') + 1
      BY <1>3 DEF Torn
  <2>2. \/ b \in B /\ b \in 1..N /\ inq'[b] = inq[b]
        \/ b = N + 1 /\ inq'[b] = m[1]
        \/ b > N + 1 /\ Plain(inq'[b])
      BY <2>1, ArriveFacts DEF Arrived
  <2>3. CASE b \in B /\ b \in 1..N /\ inq'[b] = inq[b]
    <3>1. AtKey(inq, B, b)
      <4>1. b <= Len(inq) /\ inq[b] = 1
          BY <1>1, <1>2, <2>1, <2>3
      <4> QED BY <2>3, <4>1 DEF InSocket, Cuts, AtPlain, AtSize, AtKey, Plain
    <3>2. b + 3 <= N + 1
        BY <1>1, <3>1 DEF AtKey
    <3> QED BY <1>1, <2>1, <2>3, <3>2
  <2>4. CASE b = N + 1 /\ inq'[b] = m[1]
    <3>1. Len(m) = 3
      <4>1. PICK l \in Nat : l = Len(m)
          BY <1>1
      <4>2. N + 1 + 3 = N + l + 1 /\ N \in Nat
          BY <1>1, <2>1, <2>4, <4>1
      <4>3. l = 3
          BY <4>2
      <4> QED BY <4>1, <4>3
    <3>2. HeaderSend(m)
        BY <1>1, <2>1, <2>4, <3>1 DEF WholeSend
    <3>3. Awaited(1, m[2])
        BY <1>1, <1>2, <3>2 DEF InFlight
    <3>4. inq'[b + 1] = m[2]
      <4>1. b + 1 = N + 2 /\ 2 \in 1..Len(m)
          BY <1>1, <2>4, <3>1
      <4> QED BY <1>1, <4>1
    <3>6. PICK l : l = m[2] /\ l = inq'[b + 1]
        BY <3>4
    <3>7. Awaited(0, l)'
      <4>1. Awaited(0, l)' <=> Awaited(0 + 1, l)
          BY <1>1
      <4> QED BY <3>3, <3>6, <4>1
    <3> QED BY <3>6, <3>7
  <2>5. CASE b > N + 1 /\ Plain(inq'[b])
      BY <2>1, <2>5 DEF Plain
  <2> QED BY <2>2, <2>3, <2>4, <2>5
<1> QED BY <1>1, <1>3 DEF InSocket

\* The last size stays the last.
LEMMA ArriveLastSize ==
    ASSUME Types, InFlight, NEW B, InSocket(B), LastSize(B), NEW m, NEW N, NEW A,
           Arrives(m, N, B, A)
    PROVE  LastSize(A)'
<1>0. Arrived(m, N, B, A)
    BY ArriveFacts
<1>1. /\ inq \in Seq(Nat) /\ N \in Nat /\ Len(m) \in Nat /\ Len(m) > 0 /\ Len(inq') = N + Len(m)
      /\ Len(flight) \in Nat /\ Len(flight) > 0 /\ Len(flight') = Len(flight) - 1
      /\ \A i \in 1..Len(flight') : flight'[i] = flight[i + 1] /\ i + 1 \in 1..Len(flight)
      /\ m[1] = 2 <=> SizeSend(m, Known)
      /\ \A i \in 1..N : inq'[i] = inq[i]
      /\ \A i \in 1..Len(m) : inq'[N + i] = m[i]
      /\ \A x \in Nat : x <= N => (x \in A <=> x \in B)
      /\ N + 1 \in A /\ inq'[N + 1] = m[1]
      /\ \A b \in B : b \in Nat /\ b > 0 /\ b <= N + 1
    BY ONLY <1>0, Zenon DEF Arrived
<1>2. N = Len(inq) /\ m = flight[1] /\ UNCHANGED <<sizes, winsz, pc>>
    BY DEF Arrives
<1>3. \A i \in 1..Len(flight') : SizeAt(i)' <=> SizeAt(i + 1)
  <2> SUFFICES ASSUME NEW i \in 1..Len(flight')  PROVE SizeAt(i)' <=> SizeAt(i + 1)
      OBVIOUS
  <2>1. flight'[i] = flight[i + 1] /\ i + 1 \in 1..Len(flight)
      BY <1>1
  <2> QED BY ONLY <2>1, i \in 1..Len(flight') DEF SizeAt
<1>4. SizeAt(1) <=> m[1] = 2
    BY <1>1, <1>2 DEF SizeAt
<1>5. \A j \in 1..Len(flight) : j = 1 \/ \E i \in 1..Len(flight') : j = i + 1
  <2> SUFFICES ASSUME NEW j \in 1..Len(flight), j # 1
               PROVE  \E i \in 1..Len(flight') : j = i + 1
      OBVIOUS
  <2>1. j - 1 \in 1..Len(flight') /\ j = (j - 1) + 1
      BY <1>1
  <2> QED BY <2>1
<1>6. ASSUME NEW b \in A  PROVE SizeCut(A, b)' <=> SizeCut(B, b) \/ (b = N + 1 /\ m[1] = 2)
  <2>1. ASSUME SizeCut(A, b)'  PROVE SizeCut(B, b) \/ (b = N + 1 /\ m[1] = 2)
    <3>1. b <= Len(inq') /\ inq'[b] = 2
        BY <2>1 DEF SizeCut
    <3>2. \/ b \in B /\ b \in 1..N /\ inq'[b] = inq[b]
          \/ b = N + 1 /\ inq'[b] = m[1]
          \/ b > N + 1 /\ Plain(inq'[b])
        BY <3>1, ArriveFacts DEF Arrived
    <3> QED BY <1>1, <1>2, <3>1, <3>2 DEF SizeCut, Plain
  <2>2. ASSUME SizeCut(B, b)  PROVE SizeCut(A, b)'
    <3>1. b \in B /\ b <= N /\ inq[b] = 2 /\ b \in 1..N
        BY <1>1, <1>2, <2>2 DEF SizeCut
    <3>2. inq'[b] = 2 /\ b <= Len(inq')
        BY <1>1, <3>1
    <3> QED BY <3>2 DEF SizeCut
  <2>3. ASSUME b = N + 1 /\ m[1] = 2  PROVE SizeCut(A, b)'
    <3>1. b <= Len(inq') /\ inq'[b] = 2
        BY <1>1, <2>3
    <3> QED BY <3>1 DEF SizeCut
  <2> QED BY <2>1, <2>2, <2>3
<1>7. ASSUME NEW i \in 1..Len(flight'), SizeAt(i)',
             \A j \in 1..Len(flight') : SizeAt(j)' => j <= i
      PROVE  flight'[i] = Resize(Last(sizes'))
  <2>1. i + 1 \in 1..Len(flight) /\ SizeAt(i + 1) /\ flight'[i] = flight[i + 1] /\ i \in Nat
      BY <1>1, <1>3, <1>7
  <2>2. ASSUME NEW j \in 1..Len(flight), SizeAt(j)  PROVE j <= i + 1
    <3>1. CASE j = 1
        BY <2>1, <3>1
    <3>2. CASE \E k \in 1..Len(flight') : j = k + 1
      <4>1. PICK k \in 1..Len(flight') : j = k + 1
          BY <3>2
      <4>2. k <= i
          BY <1>3, <1>7, <2>2, <4>1
      <4> QED BY <1>1, <2>1, <4>1, <4>2
    <3> QED BY <1>5, <3>1, <3>2
  <2> QED BY <1>2, <2>1, <2>2 DEF LastSize
<1>8. ASSUME \A i \in 1..Len(flight') : ~SizeAt(i)'
      PROVE  \A j \in 1..Len(flight) : SizeAt(j) => j = 1 /\ m[1] = 2
    BY <1>3, <1>4, <1>5, <1>8
<1>9. ASSUME \A i \in 1..Len(flight') : ~SizeAt(i)',
             NEW b \in A, SizeCut(A, b)', \A a \in A : SizeCut(A, a)' => a <= b
      PROVE  SizeOf(inq', b) = Last(sizes')
  <2>1. CASE m[1] = 2
    <3>1. m = Resize(Last(sizes))
      <4>1. 1 \in 1..Len(flight) /\ SizeAt(1) /\ \A j \in 1..Len(flight) : SizeAt(j) => j <= 1
          BY <1>1, <1>4, <1>8, <1>9, <2>1
      <4> QED BY <1>2, <4>1 DEF LastSize
    <3>2. Last(sizes) \in Nat \X Nat
        BY DEF Types, Last
    <3>4. Len(m) = 5 /\ SizeOf(m, 1) = Last(sizes)
        BY <3>1, <3>2, SizeBytes
    <3>5. N + 1 <= b
        BY <1>1, <1>6, <1>9, <2>1
    <3>6. b = N + 1
      <4>1. ~SizeCut(B, b)
          BY <1>1, <1>2, <3>5 DEF SizeCut
      <4> QED BY <1>6, <1>9, <4>1
    <3>7. \A k \in 1..4 : b + k = N + (1 + k) /\ 1 + k \in 1..Len(m)
        BY <1>1, <3>4, <3>6
    <3>8. \A k \in 1..4 : inq'[b + k] = m[1 + k]
        BY <1>1, <3>7
    <3>9. SizeOf(inq', b) = SizeOf(m, 1)
        BY <3>8 DEF SizeOf
    <3> QED BY <1>2, <3>4, <3>9
  <2>2. CASE m[1] # 2
    <3>1. \A j \in 1..Len(flight) : ~SizeAt(j)
        BY <1>8, <1>9, <2>2
    <3>2. SizeCut(B, b)
        BY <1>6, <1>9, <2>2
    <3>3. ASSUME NEW a \in B, SizeCut(B, a)  PROVE a <= b
      <4>1. a \in A
          BY <1>1, <1>2, <3>3 DEF SizeCut
      <4> QED BY <1>6, <1>9, <3>3, <4>1
    <3>4. SizeOf(inq, b) = Last(sizes)
        BY <3>1, <3>2, <3>3 DEF LastSize, SizeCut
    <3>5. AtSize(inq, B, Known, b)
        BY <3>2 DEF SizeCut, InSocket, Cuts, AtPlain, AtSize, AtKey, Plain
    <3>6. b \in Nat /\ b + 5 <= N + 1
        BY <1>1, <3>2, <3>5 DEF AtSize, SizeCut
    <3>7. \A k \in 1..4 : b + k \in 1..N
        BY <1>1, <3>6
    <3>8. \A k \in 1..4 : inq'[b + k] = inq[b + k]
        BY <1>1, <3>7
    <3>9. SizeOf(inq', b) = SizeOf(inq, b)
        BY <3>8 DEF SizeOf
    <3> QED BY <1>2, <3>4, <3>9
  <2> QED BY <2>1, <2>2
<1>10. ASSUME \A i \in 1..Len(flight') : ~SizeAt(i)', \A b \in A : ~SizeCut(A, b)',
              pc' \in {"poll", "sock"}
       PROVE  winsz' = Last(sizes')
  <2>1. m[1] # 2
      BY <1>1, <1>6, <1>10
  <2>2. \A j \in 1..Len(flight) : ~SizeAt(j)
      BY <1>8, <1>10, <2>1
  <2>3. ASSUME NEW a \in B  PROVE ~SizeCut(B, a)
    <3>1. SizeCut(B, a) => a \in A
        BY <1>1, <1>2 DEF SizeCut
    <3> QED BY <1>6, <1>10, <3>1
  <2> QED BY <1>2, <1>10, <2>2, <2>3 DEF LastSize
<1> QED BY <1>7, <1>9, <1>10 DEF LastSize

\* The keys on their way stay in order: the one that arrives is the next.
LEMMA ArriveKeyed ==
    ASSUME Types, Types', InFlight, NEW B, InSocket(B), Keyed(B), client = "runner",
           NEW m, NEW N, NEW A, Arrives(m, N, B, A)
    PROVE  Keyed(A)'
<1> USE ArriveFacts
<1>1. /\ inq \in Seq(Nat) /\ m \in Seq(Nat) /\ N \in Nat /\ Len(m) \in Nat /\ Len(m) > 0
      /\ Len(inq') = N + Len(m)
      /\ Len(flight) \in Nat /\ Len(flight) > 0 /\ Len(flight') = Len(flight) - 1
    BY DEF Arrived
<1>2. \A i \in 1..Len(flight') : flight'[i] = flight[i + 1] /\ i + 1 \in 1..Len(flight)
    BY DEF Arrived
<1>3. /\ \A i \in 1..N : inq'[i] = inq[i]
      /\ \A i \in 1..Len(m) : inq'[N + i] = m[i]
      /\ \A x \in Nat : x <= N => (x \in A <=> x \in B)
      /\ N + 1 \in A /\ inq'[N + 1] = m[1]
      /\ \A b \in B : b \in Nat /\ b > 0 /\ b <= N + 1
    BY DEF Arrived
<1>4. ASSUME NEW x \in A, x <= Len(inq')
      PROVE  \/ x \in B /\ x \in 1..N /\ inq'[x] = inq[x]
             \/ x = N + 1 /\ inq'[x] = m[1]
             \/ x > N + 1 /\ Plain(inq'[x])
    BY <1>4 DEF Arrived
<1>5. \A i \in Nat : \A t : KeyFollows(i, t)' <=> KeyFollows(i + 1, t)
    BY DEF Arrived
<1>6. m[1] = 1 => HeaderSend(m)
  <2>1. 1 \in 1..Len(flight) /\ m = flight[1]
      BY <1>1 DEF Arrives
  <2>2. ~WholeSend(m)
      BY <2>1 DEF InFlight
  <2>3. m[1] = 1 <=> HeaderSend(m) \/ WholeSend(m)
      BY DEF Arrived
  <2> QED BY <2>2, <2>3
<1>7. N = Len(inq) /\ m = flight[1] /\ UNCHANGED <<typed, input>>
    BY DEF Arrives
<1>8. PICK c, d : Counted(B, c, d) /\ KeysMatch(B, c, d)
    BY DEF Keyed
<1> DEFINE h == IF m[1] = 1 THEN 1 ELSE 0
<1>9. h \in Nat
    OBVIOUS
<1>10. /\ c \in [1..(N + 1) -> Nat] /\ c[1] = Len(input) /\ d[1] = c[N + 1]
       /\ \A j \in 1..N : c[j + 1] = c[j] + (IF j \in B /\ inq[j] = 1 THEN 1 ELSE 0)
       /\ d \in [1..(Len(flight) + 1) -> Nat] /\ d[Len(flight) + 1] = Len(typed)
       /\ \A i \in 1..Len(flight) : d[i + 1] = d[i] + (IF flight[i][1] = 1 THEN 1 ELSE 0)
    BY <1>7, <1>8 DEF Counted
<1>11. d[2] = c[N + 1] + h /\ c[N + 1] \in Nat
  <2>1. 1 \in 1..Len(flight) /\ 1 + 1 = 2 /\ N + 1 \in 1..(N + 1)
      BY <1>1
  <2>2. d[1 + 1] = d[1] + (IF flight[1][1] = 1 THEN 1 ELSE 0)
      BY <1>10, <2>1
  <2> QED BY <1>7, <1>10, <2>1, <2>2
<1> HIDE DEF h
<1>12. PICK e : /\ e \in [1..(N + Len(m) + 1) -> Nat]
                /\ \A j \in 1..(N + 1) : e[j] = c[j]
                /\ \A j \in (N + 2)..(N + Len(m) + 1) : e[j] = c[N + 1] + h
  <2> DEFINE f == [j \in 1..(N + Len(m) + 1) |-> IF j <= N + 1 THEN c[j] ELSE c[N + 1] + h]
  <2>1. f \in [1..(N + Len(m) + 1) -> Nat]
    <3>1. ASSUME NEW j \in 1..(N + Len(m) + 1)
          PROVE  (IF j <= N + 1 THEN c[j] ELSE c[N + 1] + h) \in Nat
      <4>1. CASE j <= N + 1
        <5>1. j \in 1..(N + 1)
            BY <1>1, <4>1
        <5> QED BY <1>10, <4>1, <5>1
      <4>2. CASE ~(j <= N + 1)
          BY <1>9, <1>11, <4>2
      <4> QED BY <4>1, <4>2
    <3> QED BY <3>1
  <2>2. \A j \in 1..(N + 1) : f[j] = c[j]
    <3>1. \A j \in 1..(N + 1) : j \in 1..(N + Len(m) + 1) /\ j <= N + 1
        BY <1>1
    <3> QED BY <3>1
  <2>3. \A j \in (N + 2)..(N + Len(m) + 1) : f[j] = c[N + 1] + h
    <3>1. \A j \in (N + 2)..(N + Len(m) + 1) : j \in 1..(N + Len(m) + 1) /\ ~(j <= N + 1)
        BY <1>1
    <3> QED BY <3>1
  <2> HIDE DEF f
  <2> QED BY <2>1, <2>2, <2>3
<1>13. PICK g : g \in [1..Len(flight) -> Nat] /\ \A i \in 1..Len(flight) : g[i] = d[i + 1]
  <2> DEFINE f == [i \in 1..Len(flight) |-> d[i + 1]]
  <2>1. \A i \in 1..Len(flight) : i + 1 \in 1..(Len(flight) + 1)
      BY <1>1
  <2>2. f \in [1..Len(flight) -> Nat] /\ \A i \in 1..Len(flight) : f[i] = d[i + 1]
      BY <1>10, <2>1
  <2> HIDE DEF f
  <2> QED BY <2>2
<1>14. ASSUME NEW j \in 1..Len(inq')
       PROVE  e[j + 1] = e[j] + (IF j \in A /\ inq'[j] = 1 THEN 1 ELSE 0)
  <2>1. CASE j <= N
    <3>1. j \in 1..N /\ j \in 1..(N + 1) /\ j + 1 \in 1..(N + 1) /\ j \in Nat
        BY <1>1, <2>1
    <3>2. e[j + 1] = c[j + 1] /\ e[j] = c[j] /\ inq'[j] = inq[j] /\ (j \in A <=> j \in B)
        BY <1>3, <1>12, <2>1, <3>1
    <3> QED BY <1>10, <3>1, <3>2
  <2>2. CASE j = N + 1
    <3>1. j + 1 \in (N + 2)..(N + Len(m) + 1) /\ N + 1 \in 1..(N + 1)
        BY <1>1, <2>2
    <3>2. e[j + 1] = c[N + 1] + h /\ e[j] = c[N + 1]
        BY <1>12, <2>2, <3>1
    <3> QED BY <1>3, <2>2, <3>2 DEF h
  <2>3. CASE j > N + 1
    <3>1. j + 1 \in (N + 2)..(N + Len(m) + 1) /\ j \in (N + 2)..(N + Len(m) + 1)
          /\ j <= Len(inq') /\ j \in Nat
        BY <1>1, <2>3
    <3>2. e[j + 1] = c[N + 1] + h /\ e[j] = c[N + 1] + h /\ e[j] \in Nat
        BY <1>9, <1>11, <1>12, <3>1
    <3>3. ~(j \in A /\ inq'[j] = 1)
      <4>1. j \notin 1..N /\ j # N + 1
          BY <1>1, <2>3
      <4> QED BY <1>4, <3>1, <4>1 DEF Plain
    <3> QED BY <3>2, <3>3
  <2> QED BY <1>1, <2>1, <2>2, <2>3
<1>15. Counted(A, e, g)'
  <2>1. e \in [1..(Len(inq') + 1) -> Nat] /\ g \in [1..(Len(flight') + 1) -> Nat]
    <3>1. Len(inq') + 1 = N + Len(m) + 1 /\ Len(flight') + 1 = Len(flight)
        BY <1>1
    <3> QED BY <1>12, <1>13, <3>1
  <2>2. e[1] = Len(input')
    <3>1. 1 \in 1..(N + 1)
        BY <1>1
    <3> QED BY <1>7, <1>10, <1>12, <3>1
  <2>3. g[1] = e[Len(inq') + 1]
    <3>1. /\ Len(inq') + 1 \in (N + 2)..(N + Len(m) + 1) /\ 1 \in 1..Len(flight) /\ 1 + 1 = 2
        BY <1>1
    <3> QED BY <1>11, <1>12, <1>13, <3>1
  <2>4. ASSUME NEW i \in 1..Len(flight')
        PROVE  g[i + 1] = g[i] + (IF flight'[i][1] = 1 THEN 1 ELSE 0)
    <3>1. i \in 1..Len(flight) /\ i + 1 \in 1..Len(flight) /\ flight'[i] = flight[i + 1]
        BY <1>1, <1>2
    <3> QED BY <1>10, <1>13, <3>1
  <2>5. g[Len(flight') + 1] = Len(typed')
    <3>1. Len(flight') + 1 = Len(flight) /\ Len(flight) \in 1..Len(flight)
        BY <1>1
    <3> QED BY <1>7, <1>10, <1>13, <3>1
  <2> QED BY <1>14, <2>1, <2>2, <2>3, <2>4, <2>5 DEF Counted
<1>16. ASSUME NEW b \in A, b <= Len(inq'), inq'[b] = 1  PROVE KeyCut(e, b)'
  <2>1. CASE b \in B /\ b \in 1..N /\ inq'[b] = inq[b]
    <3>1. b \in Nat /\ b <= N /\ inq[b] = 1 /\ e[b] = c[b] /\ b > 0
      <4>1. b \in 1..(N + 1)
          BY <1>1, <2>1
      <4> QED BY <1>12, <1>16, <2>1, <4>1
    <3>2. KeyCut(c, b)
        BY <1>7, <1>8, <2>1, <3>1 DEF KeysMatch
    <3>3. PICK k : k = c[b] + 1 /\ k = e[b] + 1
        BY <3>1
    <3>4. /\ k <= Len(typed) /\ inq[b + 1] = Len(typed[k])
          /\ IF b + 3 = N + 1 THEN KeyFollows(0, typed[k])
             ELSE \A j \in 1..Len(typed[k]) : inq[b + 2 + j] = typed[k][j]
        BY <1>7, <3>2, <3>3 DEF KeyCut
    <3>5. b + 3 \in B /\ (b + 3 = N + 1 \/ b + 3 + inq[b + 1] \in B)
      <4>1. b <= Len(inq)
          BY <1>7, <3>1
      <4>2. AtKey(inq, B, b)
          BY <2>1, <3>1, <4>1 DEF InSocket, Cuts, AtPlain, AtSize, AtKey, Plain
      <4> QED BY <1>7, <4>2 DEF AtKey
    <3>6. b + 3 <= N + 1
        BY <1>3, <3>5
    <3>7. b + 1 \in 1..N /\ b + 3 # Len(inq') + 1
        BY <1>1, <3>1, <3>6
    <3>8. inq'[b + 1] = Len(typed[k])
        BY <1>3, <3>4, <3>7
    <3>9. PICK l \in Nat : l = Len(typed[k]) /\ l = inq[b + 1]
        BY <1>1, <1>7, <3>4, <3>7
    <3>10. ASSUME NEW j \in 1..l  PROVE inq'[b + 2 + j] = typed[k][j]
      <4>1. CASE b + 3 = N + 1
        <5>1. m = typed[k]
            BY <1>1, <1>7, <3>4, <4>1 DEF KeyFollows
        <5>4. b + 2 = N /\ b \in Nat /\ N \in Nat
            BY <1>1, <3>1, <4>1
        <5>3. l = Len(m) /\ b + 2 = N
            BY <3>9, <5>1, <5>4
        <5>2. b + 2 + j = N + j /\ j \in 1..Len(m)
            BY <5>3
        <5> QED BY <1>3, <5>1, <5>2
      <4>2. CASE b + 3 # N + 1
        <5>1. b + 3 + l \in B
            BY <3>5, <3>9, <4>2
        <5>2. b + 3 + l <= N + 1
            BY <1>3, <5>1
        <5>3. b + 2 + j \in 1..N
            BY <1>1, <3>1, <5>2
        <5> QED BY <1>3, <3>4, <3>9, <4>2, <5>3
      <4> QED BY <4>1, <4>2
    <3> QED BY <1>7, <3>3, <3>4, <3>7, <3>8, <3>9, <3>10 DEF KeyCut
  <2>2. CASE b = N + 1 /\ inq'[b] = m[1]
    <3>1. HeaderSend(m) /\ flight[1][1] = 1
        BY <1>6, <1>7, <1>16, <2>2
    <3>2. Len(m) = 3
        BY <3>1 DEF HeaderSend
    <3>3. KeySend(d, 1)
        BY <1>1, <1>8, <3>1 DEF KeysMatch
    <3>4. e[b] = c[N + 1] /\ d[1] = c[N + 1]
      <4>1. N + 1 \in 1..(N + 1)
          BY <1>1
      <4> QED BY <1>10, <1>12, <2>2, <4>1
    <3>5. PICK k : k = d[1] + 1 /\ k = e[b] + 1
        BY <3>4
    <3>6. k <= Len(typed) /\ m[2] = Len(typed[k]) /\ KeyFollows(1, typed[k])
        BY <1>7, <3>3, <3>5 DEF KeySend
    <3>7. b + 1 = N + 2 /\ 2 \in 1..Len(m) /\ b + 3 = Len(inq') + 1
        BY <1>1, <2>2, <3>2
    <3>8. inq'[b + 1] = Len(typed[k])
        BY <1>3, <3>6, <3>7
    <3>9. PICK t : t = typed[k]
        OBVIOUS
    <3>10. KeyFollows(0, t)'
      <4>1. KeyFollows(0, t)' <=> KeyFollows(0 + 1, t)
          BY <1>5
      <4> QED BY <3>6, <3>9, <4>1
    <3> QED BY <1>7, <3>5, <3>6, <3>7, <3>8, <3>9, <3>10 DEF KeyCut
  <2>3. CASE b > N + 1 /\ Plain(inq'[b])
      BY <1>16, <2>3 DEF Plain
  <2> QED BY <1>4, <1>16, <2>1, <2>2, <2>3
<1>17. ASSUME NEW i \in 1..Len(flight'), flight'[i][1] = 1  PROVE KeySend(g, i)'
  <2>1. i \in Nat /\ i \in 1..Len(flight) /\ i + 1 \in 1..Len(flight)
        /\ flight'[i] = flight[i + 1]
      BY <1>1, <1>2
  <2>2. KeySend(d, i + 1) /\ g[i] = d[i + 1]
      BY <1>8, <1>13, <1>17, <2>1 DEF KeysMatch
  <2>3. PICK k, t : k = g[i] + 1 /\ k = d[i + 1] + 1 /\ t = typed[k]
      BY <2>2
  <2>4. k <= Len(typed) /\ flight'[i][2] = Len(t) /\ KeyFollows(i + 1, t)
      BY <2>1, <2>2, <2>3 DEF KeySend
  <2>5. KeyFollows(i, t)'
      BY <1>5, <2>1, <2>4
  <2> QED BY <1>7, <2>3, <2>4, <2>5 DEF KeySend
<1>18. KeysMatch(A, e, g)'
    BY <1>16, <1>17 DEF KeysMatch
<1>19. Written'
    BY <1>7 DEF Keyed, Written
<1> QED BY <1>15, <1>18, <1>19 DEF Keyed

-----------------------------------------------------------------------------
(* A client sends.                                                         *)

\* What comes next in flight still does.
Onward ==
    \A i \in 0..Len(flight) :
        /\ \A n : Awaited(i, n) => Awaited(i, n)'
        /\ \A t : t # <<>> /\ KeyFollows(i, t) => KeyFollows(i, t)'

\* A send m is added to what is in flight, or nothing is.
Adds(m) == flight' = Append(flight, m)

\* Sizes that were sent stay sent.
LEMMA CutsMore ==
    ASSUME NEW q, NEW B, NEW S, NEW T, Cuts(q, B, S), S \subseteq T
    PROVE  Cuts(q, B, T)
<1>1. \A b : AtSize(q, B, S, b) => AtSize(q, B, T, b)
    BY DEF AtSize
<1> QED BY <1>1 DEF Cuts

\* The socket is not concerned by what is sent.
LEMMA SendInSocket ==
    ASSUME Types, NEW B, InSocket(B), Onward, inq' = inq, Known \subseteq Known'
    PROVE  InSocket(B)'
<1>1. Cuts(inq', B, Known')
  <2>1. Cuts(inq, B, Known)
      BY DEF InSocket
  <2>2. Cuts(inq, B, Known')
      BY <2>1, CutsMore
  <2> QED BY <2>2
<1>2. 0 \in 0..Len(flight)
    BY DEF Types
<1>3. ASSUME NEW b \in B, Torn(inq', B, b)  PROVE Awaited(0, inq[b + 1])'
  <2>1. PICK l : l = inq[b + 1] /\ l = inq'[b + 1]
      OBVIOUS
  <2>2. Awaited(0, l)
      BY <1>3, <2>1 DEF InSocket
  <2>3. Awaited(0, l)'
      BY <1>2, <2>2 DEF Onward
  <2> QED BY <2>1, <2>3
<1> QED BY <1>1, <1>3 DEF InSocket

\* What was in flight stays, and what is added is what a client sends.
LEMMA SendInFlight ==
    ASSUME Types, InFlight, Onward, NEW m \in Seq(Nat), Adds(m), client' = client,
           Known \subseteq Known', Sends(m, Known'), client = "runner" => ~WholeSend(m),
           HeaderSend(m) => half' # <<>> /\ Len(half') = m[2],
           half' # <<>> => client = "runner" /\ PayloadSend(half'), Stale(slot')
    PROVE  InFlight'
<1>1. /\ flight \in Seq(Seq(Nat)) /\ Len(flight) \in Nat /\ Len(flight') = Len(flight) + 1
      /\ flight'[Len(flight) + 1] = m
      /\ \A i \in 1..Len(flight) : flight'[i] = flight[i] /\ i \in 0..Len(flight)
    BY DEF Types, Adds
<1>2. ASSUME NEW i \in 1..Len(flight)
      PROVE  /\ Sends(flight'[i], Known') /\ (client' = "runner" => ~WholeSend(flight'[i]))
             /\ HeaderSend(flight'[i]) => Awaited(i, flight[i][2])'
  <2>1. PICK l : l = flight[i][2] /\ l = flight'[i][2]
      BY <1>1
  <2>2. HeaderSend(flight[i]) => Awaited(i, l)
      BY <2>1 DEF InFlight
  <2>3. HeaderSend(flight[i]) => Awaited(i, l)'
      BY <1>1, <2>2 DEF Onward
  <2>4. Sends(flight[i], Known) /\ (client = "runner" => ~WholeSend(flight[i]))
      BY DEF InFlight
  <2>5. Sends(flight[i], Known')
      BY <2>4 DEF Sends, SizeSend
  <2> QED BY <1>1, <2>1, <2>3, <2>4, <2>5
<1>3. ASSUME NEW i, i = Len(flight) + 1
      PROVE  /\ Sends(flight'[i], Known') /\ (client' = "runner" => ~WholeSend(flight'[i]))
             /\ HeaderSend(flight'[i]) => Awaited(i, flight[i][2])'
  <2>1. flight'[i] = m /\ ~(i < Len(flight'))
      BY <1>1, <1>3
  <2>2. HeaderSend(m) => Awaited(i, flight[i][2])'
      BY <2>1 DEF Awaited
  <2> QED BY <2>1, <2>2
<1>4. \A i \in 1..Len(flight') : i \in 1..Len(flight) \/ i = Len(flight) + 1
    BY <1>1
<1>5. ASSUME NEW i \in 1..Len(flight')
      PROVE  /\ Sends(flight'[i], Known') /\ (client' = "runner" => ~WholeSend(flight'[i]))
             /\ HeaderSend(flight'[i]) => Awaited(i, flight[i][2])'
    BY <1>2, <1>3, <1>4
<1> QED BY <1>5 DEF InFlight

\* A send that is no size, or the size that was sent last.
Sized(m) ==
    \/ m[1] # 2 /\ UNCHANGED sizes
    \/ \E s \in Nat \X Nat : m = Resize(s) /\ sizes' = Append(sizes, s)

\* The last size is the one that is added, or stays the last.
LEMMA SendLastSize ==
    ASSUME Types, NEW B, InSocket(B), LastSize(B), NEW m \in Seq(Nat), Adds(m), Sized(m),
           UNCHANGED <<inq, winsz, pc>>
    PROVE  LastSize(B)'
<1>1. /\ flight \in Seq(Seq(Nat)) /\ Len(flight) \in Nat /\ Len(flight') = Len(flight) + 1
      /\ flight'[Len(flight) + 1] = m
      /\ \A i \in 1..Len(flight) : flight'[i] = flight[i]
    BY DEF Types, Adds
<1>2. \A i \in 1..Len(flight) : (SizeAt(i)' <=> SizeAt(i)) /\ i \in 1..Len(flight')
    BY <1>1 DEF SizeAt
<1>4. \A i \in 1..Len(flight') : i \in 1..Len(flight) \/ i = Len(flight) + 1
    BY <1>1
<1>5. CASE m[1] # 2 /\ UNCHANGED sizes
  <2>2. ASSUME NEW i \in 1..Len(flight'), SizeAt(i)',
               \A j \in 1..Len(flight') : SizeAt(j)' => j <= i
        PROVE  flight'[i] = Resize(Last(sizes'))
    <3>1. i \in 1..Len(flight)
        BY <1>1, <1>4, <1>5, <2>2 DEF SizeAt
    <3>2. SizeAt(i) /\ \A j \in 1..Len(flight) : SizeAt(j) => j <= i
        BY <1>2, <2>2, <3>1
    <3>3. flight[i] = Resize(Last(sizes))
        BY <3>1, <3>2 DEF LastSize
    <3> QED BY <1>1, <1>5, <3>1, <3>3
  <2>3. (\A i \in 1..Len(flight') : ~SizeAt(i)') => \A i \in 1..Len(flight) : ~SizeAt(i)
      BY <1>2
  <2>4. \A b : SizeCut(B, b)' <=> SizeCut(B, b)
      BY DEF SizeCut
  <2> QED BY <1>5, <2>2, <2>3, <2>4 DEF LastSize
<1>6. CASE \E s \in Nat \X Nat : m = Resize(s) /\ sizes' = Append(sizes, s)
  <2>1. PICK s \in Nat \X Nat : m = Resize(s) /\ sizes' = Append(sizes, s)
      BY <1>6
  <2>2. m[1] = 2
      BY <2>1 DEF Resize
  <2>3. Last(sizes') = s
      BY <2>1 DEF Types, Last
  <2>4. PICK n : n = Len(flight) + 1
      OBVIOUS
  <2>5. n \in 1..Len(flight') /\ SizeAt(n)' /\ flight'[n] = m
      BY <1>1, <2>2, <2>4 DEF SizeAt
  <2>6. ASSUME NEW i \in 1..Len(flight'), SizeAt(i)',
               \A j \in 1..Len(flight') : SizeAt(j)' => j <= i
        PROVE  flight'[i] = Resize(Last(sizes'))
    <3>1. n <= i
        BY <2>5, <2>6
    <3>2. i = n
        BY <1>1, <2>4, <3>1
    <3> QED BY <2>1, <2>3, <2>5, <3>2
  <2> QED BY <2>5, <2>6 DEF LastSize
<1> QED BY <1>5, <1>6 DEF Sized

\* A send that is no header, or the header of the key that was typed last.
Typing(m) ==
    \/ m[1] # 1 /\ UNCHANGED typed
    \/ /\ m[1] = 1
       /\ \E k \in Seq(Nat) \ {<<>>} :
            typed' = Append(typed, k) /\ m[2] = Len(k) /\ half' = k

\* The keys on their way stay in order, and the one that is typed is the last.
LEMMA SendKeyed ==
    ASSUME Types, InFlight, Onward, NEW B, InSocket(B), Keyed(B), NEW m \in Seq(Nat), Adds(m),
           Typing(m), UNCHANGED <<inq, input>>
    PROVE  Keyed(B)'
<1>1. /\ flight \in Seq(Seq(Nat)) /\ Len(flight) \in Nat /\ Len(flight') = Len(flight) + 1
      /\ flight'[Len(flight) + 1] = m
      /\ \A i \in 1..Len(flight) : flight'[i] = flight[i] /\ i \in 0..Len(flight)
      /\ 0 \in 0..Len(flight)
    BY DEF Types, Adds
<1>2. PICK c, d : Counted(B, c, d) /\ KeysMatch(B, c, d)
    BY DEF Keyed
<1> DEFINE h == IF m[1] = 1 THEN 1 ELSE 0
<1>3. h \in Nat
    OBVIOUS
<1>4. /\ typed \in Seq(Seq(Nat) \ {<<>>}) /\ Len(typed) \in Nat
      /\ \A k \in 1..Len(typed) : typed[k] # <<>>
  <2>1. typed \in Seq(Seq(Nat) \ {<<>>})
      BY DEF Types
  <2>2. Len(typed) \in Nat /\ \A k \in 1..Len(typed) : typed[k] \in Seq(Nat) \ {<<>>}
      BY <2>1
  <2> QED BY <2>1, <2>2
<1>5. /\ Len(typed') = Len(typed) + h
      /\ \A k \in 1..Len(typed) : typed'[k] = typed[k]
  <2>1. CASE m[1] # 1 /\ UNCHANGED typed
      BY <1>4, <2>1
  <2>2. CASE m[1] = 1 /\ \E k \in Seq(Nat) \ {<<>>} : typed' = Append(typed, k)
      BY <1>4, <2>2
  <2> QED BY <2>1, <2>2 DEF Typing
<1>6. /\ d \in [1..(Len(flight) + 1) -> Nat] /\ d[Len(flight) + 1] = Len(typed)
      /\ \A i \in 1..Len(flight) : d[i + 1] = d[i] + (IF flight[i][1] = 1 THEN 1 ELSE 0)
      /\ c \in [1..(Len(inq) + 1) -> Nat] /\ d[1] = c[Len(inq) + 1]
    BY <1>2 DEF Counted
<1> HIDE DEF h
<1>7. PICK g : /\ g \in [1..(Len(flight) + 2) -> Nat]
               /\ \A i \in 1..(Len(flight) + 1) : g[i] = d[i]
               /\ g[Len(flight) + 2] = Len(typed) + h
  <2> DEFINE f == [i \in 1..(Len(flight) + 2) |->
                     IF i <= Len(flight) + 1 THEN d[i] ELSE Len(typed) + h]
  <2>1. f \in [1..(Len(flight) + 2) -> Nat]
    <3>1. ASSUME NEW i \in 1..(Len(flight) + 2)
          PROVE  (IF i <= Len(flight) + 1 THEN d[i] ELSE Len(typed) + h) \in Nat
      <4>1. CASE i <= Len(flight) + 1
        <5>1. i \in 1..(Len(flight) + 1)
            BY <1>1, <4>1
        <5> QED BY <1>6, <4>1, <5>1
      <4>2. CASE ~(i <= Len(flight) + 1)
          BY <1>3, <1>4, <4>2
      <4> QED BY <4>1, <4>2
    <3> QED BY <3>1
  <2>2. \A i \in 1..(Len(flight) + 1) : f[i] = d[i]
    <3>1. \A i \in 1..(Len(flight) + 1) : i \in 1..(Len(flight) + 2) /\ i <= Len(flight) + 1
        BY <1>1
    <3> QED BY <3>1
  <2>3. f[Len(flight) + 2] = Len(typed) + h
    <3>1. Len(flight) + 2 \in 1..(Len(flight) + 2) /\ ~(Len(flight) + 2 <= Len(flight) + 1)
        BY <1>1
    <3> QED BY <3>1
  <2> HIDE DEF f
  <2> QED BY <2>1, <2>2, <2>3
<1>8. Counted(B, c, g)'
  <2>1. g \in [1..(Len(flight') + 1) -> Nat] /\ g[Len(flight') + 1] = Len(typed')
    <3>1. Len(flight') + 1 = Len(flight) + 2
        BY <1>1
    <3> QED BY <1>5, <1>7, <3>1
  <2>2. g[1] = c[Len(inq') + 1]
    <3>1. 1 \in 1..(Len(flight) + 1)
        BY <1>1
    <3> QED BY <1>6, <1>7, <3>1
  <2>3. ASSUME NEW i \in 1..Len(flight')
        PROVE  g[i + 1] = g[i] + (IF flight'[i][1] = 1 THEN 1 ELSE 0)
    <3>1. CASE i \in 1..Len(flight)
      <4>1. i \in 1..(Len(flight) + 1) /\ i + 1 \in 1..(Len(flight) + 1)
          BY <1>1, <3>1
      <4> QED BY <1>1, <1>6, <1>7, <3>1, <4>1
    <3>2. CASE i = Len(flight) + 1
      <4>1. i \in 1..(Len(flight) + 1) /\ i + 1 = Len(flight) + 2
          BY <1>1, <3>2
      <4>2. g[i + 1] = Len(typed) + h /\ g[i] = Len(typed) /\ flight'[i] = m
          BY <1>1, <1>6, <1>7, <3>2, <4>1
      <4>3. h = IF flight'[i][1] = 1 THEN 1 ELSE 0
          BY <4>2 DEF h
      <4> QED BY <4>2, <4>3
    <3>3. i \in 1..Len(flight) \/ i = Len(flight) + 1
        BY <1>1
    <3> QED BY <3>1, <3>2, <3>3
  <2>4. /\ c[1] = Len(input')
        /\ \A j \in 1..Len(inq') : c[j + 1] = c[j] + (IF j \in B /\ inq'[j] = 1 THEN 1 ELSE 0)
        /\ c \in [1..(Len(inq') + 1) -> Nat]
      BY <1>2 DEF Counted
  <2> QED BY <2>1, <2>2, <2>3, <2>4 DEF Counted
<1>9. ASSUME NEW k \in Nat, k > 0, k <= Len(typed), NEW i \in 0..Len(flight),
             KeyFollows(i, typed[k])
      PROVE  k <= Len(typed') /\ typed'[k] = typed[k] /\ KeyFollows(i, typed[k])'
  <2>1. k \in 1..Len(typed)
      BY <1>4, <1>9
  <2>2. PICK t : t = typed[k] /\ t = typed'[k] /\ t # <<>>
      BY <1>4, <1>5, <2>1
  <2>3. KeyFollows(i, t)'
      BY <1>9, <2>2 DEF Onward
  <2>4. k <= Len(typed')
      BY <1>3, <1>4, <1>5, <1>9
  <2> QED BY <2>2, <2>3, <2>4
<1>10. ASSUME NEW b \in B, b <= Len(inq'), inq'[b] = 1  PROVE KeyCut(c, b)'
  <2>1. KeyCut(c, b)
      BY <1>2, <1>10 DEF KeysMatch
  <2>2. b \in 1..(Len(inq) + 1)
      BY DEF InSocket, Cuts
  <2>8. c[b] \in Nat
      BY <1>6, <2>2
  <2>3. PICK k \in Nat : k = c[b] + 1 /\ k > 0
      BY <2>8
  <2>4. /\ k <= Len(typed) /\ inq[b + 1] = Len(typed[k])
        /\ IF b + 3 = Len(inq) + 1 THEN KeyFollows(0, typed[k])
           ELSE \A j \in 1..Len(typed[k]) : inq[b + 2 + j] = typed[k][j]
      BY <2>1, <2>3 DEF KeyCut
  <2>5. k \in 1..Len(typed)
      BY <1>4, <2>3, <2>4
  <2>6. typed'[k] = typed[k] /\ k <= Len(typed')
      BY <1>3, <1>4, <1>5, <2>4, <2>5
  <2>7. b + 3 = Len(inq) + 1 => KeyFollows(0, typed[k])'
      BY <1>1, <1>9, <2>3, <2>4
  <2> QED BY <2>3, <2>4, <2>6, <2>7 DEF KeyCut
<1>11. ASSUME NEW i \in 1..Len(flight'), flight'[i][1] = 1  PROVE KeySend(g, i)'
  <2>1. CASE i \in 1..Len(flight)
    <3>1. KeySend(d, i)
        BY <1>1, <1>2, <1>11, <2>1 DEF KeysMatch
    <3>2. i \in 1..(Len(flight) + 1) /\ i \in 0..Len(flight)
        BY <1>1, <2>1
    <3>6. d[i] \in Nat /\ g[i] = d[i]
        BY <1>6, <1>7, <3>2
    <3>3. PICK k \in Nat : k = d[i] + 1 /\ k = g[i] + 1 /\ k > 0
        BY <3>6
    <3>4. k <= Len(typed) /\ flight[i][2] = Len(typed[k]) /\ KeyFollows(i, typed[k])
        BY <3>1, <3>3 DEF KeySend
    <3>5. k <= Len(typed') /\ typed'[k] = typed[k] /\ KeyFollows(i, typed[k])'
        BY <1>9, <3>2, <3>3, <3>4
    <3> QED BY <1>1, <2>1, <3>3, <3>4, <3>5 DEF KeySend
  <2>2. CASE i = Len(flight) + 1
    <3>1. flight'[i] = m /\ i \in 1..(Len(flight) + 1) /\ ~(i < Len(flight'))
        BY <1>1, <2>2
    <3>2. PICK k \in Seq(Nat) : typed' = Append(typed, k) /\ m[2] = Len(k) /\ half' = k
        BY <1>11, <3>1 DEF Typing
    <3>3. g[i] + 1 = Len(typed) + 1
        BY <1>6, <1>7, <2>2, <3>1
    <3>4. Len(typed') = Len(typed) + 1 /\ typed'[Len(typed) + 1] = k
        BY <1>4, <3>2
    <3>5. KeyFollows(i, typed[g[i] + 1])'
        BY <3>1, <3>2, <3>3, <3>4 DEF KeyFollows
    <3>6. g[i] + 1 <= Len(typed')
        BY <1>4, <3>3, <3>4
    <3> QED BY <3>1, <3>2, <3>3, <3>4, <3>5, <3>6 DEF KeySend
  <2> QED BY <1>1, <2>1, <2>2
<1>12. KeysMatch(B, c, g)'
    BY <1>10, <1>11 DEF KeysMatch
<1>13. Written'
  <2>1. Len(input) \in Nat /\ Len(input) <= Len(typed) /\
        \A i \in 1..Len(input) : input[i] \in {<<>>, typed[i]}
      BY DEF Types, Keyed, Written
  <2>2. \A i \in 1..Len(input) : i \in 1..Len(typed)
      BY <1>4, <2>1
  <2>3. Len(input) <= Len(typed')
      BY <1>3, <1>4, <1>5, <2>1
  <2> QED BY <1>5, <2>1, <2>2, <2>3 DEF Written
<1> QED BY <1>8, <1>12, <1>13 DEF Keyed

-----------------------------------------------------------------------------
(* The steps.                                                              *)

\* The parts of the assumption.
LEMMA Constants ==
    /\ Clients \subseteq {"attach", "runner"} /\ Keys \subseteq Seq(3..255) \ {<<>>}
    /\ \A s \in Sizes : s \in Nat \X Nat
  BY TerminalAssumption, Zenon

\* The bytes of a key begin no message.
LEMMA KeyFacts ==
    ASSUME NEW k \in Keys
    PROVE  /\ k \in Seq(Nat) \ {<<>>} /\ Len(k) \in Nat /\ Len(k) > 0
           /\ \A i \in 1..Len(k) : k[i] \in Nat /\ Plain(k[i])
<1> DEFINE T == 3..255
<1>1. k \in Seq(T) /\ k # <<>>
    BY Constants, Zenon
<1>5. \A x \in T : x \in Nat /\ Plain(x)
    BY DEF Plain
<1> HIDE DEF T
<1>2. Len(k) \in Nat /\ Len(k) > 0 /\ \A i \in 1..Len(k) : k[i] \in T
    BY <1>1
<1>3. \A i \in 1..Len(k) : k[i] \in Nat /\ Plain(k[i])
    BY <1>2, <1>5
<1>4. k \in Seq(Nat)
    BY <1>1, <1>5
<1> QED BY <1>1, <1>2, <1>3, <1>4

\* A size is a pair of numbers.
LEMMA SizeFacts ==
    ASSUME NEW s \in Sizes
    PROVE  s \in Nat \X Nat /\ Resize(s) \in Seq(Nat)
<1>2. s \in Nat \X Nat
    BY Constants, Zenon
<1> QED BY <1>2, SizeBytes

\* A message of the five bytes of a header and a payload.
LEMMA WholeFacts ==
    ASSUME NEW k \in Seq(Nat), Len(k) > 0
    PROVE  /\ <<1, Len(k), 0, 0, 0>> \o k \in Seq(Nat)
           /\ (<<1, Len(k), 0, 0, 0>> \o k)[1] = 1
           /\ Stale(k) => WholeSend(<<1, Len(k), 0, 0, 0>> \o k)
<1>1. PICK l \in Nat : l = Len(k) /\ l > 0
    OBVIOUS
<1>2. <<1, l, 0, 0, 0>> \in Seq(Nat) /\ Len(<<1, l, 0, 0, 0>>) = 5
    OBVIOUS
<1>3. PICK m \in Seq(Nat) : m = <<1, l, 0, 0, 0>> \o k
  <2>1. <<1, l, 0, 0, 0>> \o k \in Seq(Nat)
      BY <1>2
  <2> QED BY <2>1, Zenon
<1>4. /\ Len(m) = 5 + l /\ m[1] = 1 /\ m[2] = l /\ m[3] = 0 /\ m[4] = 0 /\ m[5] = 0
      /\ \A i \in 1..l : m[5 + i] = k[i]
    BY <1>1, <1>2, <1>3
<1>5. ASSUME Stale(k)  PROVE WholeSend(m)
  <2>1. ASSUME NEW j \in 4..Len(m)  PROVE Plain(m[j])
    <3>1. CASE j = 4 \/ j = 5
        BY <1>4, <3>1 DEF Plain
    <3>2. CASE j > 5
      <4>1. PICK i \in 1..l : j = 5 + i
        <5>1. j - 5 \in 1..l /\ j = 5 + (j - 5)
            BY <1>4, <3>2
        <5> QED BY <5>1
      <4> QED BY <1>1, <1>4, <1>5, <4>1 DEF Stale
    <3> QED BY <1>4, <3>1, <3>2
  <2> QED BY <1>1, <1>4, <2>1 DEF WholeSend
<1> QED BY <1>1, <1>3, <1>4, <1>5

\* The first bytes of a sequence.
LEMMA FrontFacts ==
    ASSUME NEW q \in Seq(Nat), NEW n \in Nat, n <= Len(q)
    PROVE  /\ SubSeq(q, 1, n) \in Seq(Nat) /\ Len(SubSeq(q, 1, n)) = n
           /\ Stale(q) => Stale(SubSeq(q, 1, n))
<1>1. /\ SubSeq(q, 1, n) \in Seq(Nat) /\ Len(SubSeq(q, 1, n)) = n
      /\ \A i \in 1..n : SubSeq(q, 1, n)[i] = q[i]
    BY SubSeqProperties
<1>2. \A i \in 1..n : i \in 1..Len(q)
    OBVIOUS
<1> QED BY <1>1, <1>2 DEF Stale

\* The end of a sequence, from byte a on.
LEMMA BackFacts ==
    ASSUME NEW q \in Seq(Nat), NEW a \in Nat, NEW n \in Nat, n = Len(q), a > 0, a <= n + 1
    PROVE  /\ SubSeq(q, a, n) \in Seq(Nat) /\ Len(SubSeq(q, a, n)) = n + 1 - a
           /\ Stale(q) => Stale(SubSeq(q, a, n))
<1>1. /\ SubSeq(q, a, n) \in Seq(Nat) /\ Len(SubSeq(q, a, n)) = n + 1 - a
      /\ \A i \in 1..(n + 1 - a) : SubSeq(q, a, n)[i] = q[a + i - 1]
    BY SubSeqProperties
<1>2. \A i \in 1..(n + 1 - a) : a + i - 1 \in 1..n
    OBVIOUS
<1> QED BY <1>1, <1>2 DEF Stale

\* Bytes behind others.
LEMMA StaleJoin ==
    ASSUME NEW p \in Seq(Nat), NEW q \in Seq(Nat), Stale(p), Stale(q)
    PROVE  Stale(p \o q)
<1>1. /\ Len(p \o q) = Len(p) + Len(q) /\ Len(p) \in Nat /\ Len(q) \in Nat
      /\ \A i \in 1..Len(p) : (p \o q)[i] = p[i]
      /\ \A i \in 1..Len(q) : (p \o q)[Len(p) + i] = q[i]
    BY JoinFacts
<1>2. ASSUME NEW i \in 1..Len(p \o q)  PROVE Plain((p \o q)[i])
  <2>1. CASE i <= Len(p)
      BY <1>1, <2>1 DEF Stale
  <2>2. CASE i > Len(p)
    <3>1. PICK j \in 1..Len(q) : i = Len(p) + j
      <4>1. i - Len(p) \in 1..Len(q) /\ i = Len(p) + (i - Len(p))
          BY <1>1, <2>2
      <4> QED BY <4>1
    <3> QED BY <1>1, <3>1 DEF Stale
  <2> QED BY <1>1, <2>1, <2>2
<1> QED BY <1>2 DEF Stale

\* What a key leaves in bytes[5..].
LEMMA SlotFacts ==
    ASSUME slot \in Seq(Nat), Len(slot) = 5, NEW k \in Keys, Len(k) <= 5
    PROVE  /\ Encoded(k) \in Seq(Nat) /\ Len(Encoded(k)) = 5
           /\ Shifted(k) \in Seq(Nat) /\ Len(Shifted(k)) = 5
           /\ Stale(slot) => Stale(Encoded(k)) /\ Stale(Shifted(k))
<1>1. PICK l \in Nat : l = Len(k) /\ l > 0 /\ l <= 5
    BY KeyFacts
<1>2. k \in Seq(Nat) /\ Stale(k)
    BY KeyFacts DEF Stale
<1>9. \A a \in Nat : a > 0 /\ a <= 6 =>
         /\ SubSeq(slot, a, 5) \in Seq(Nat) /\ Len(SubSeq(slot, a, 5)) = 6 - a
         /\ Stale(slot) => Stale(SubSeq(slot, a, 5))
  <2> SUFFICES ASSUME NEW a \in Nat, a > 0, a <= 6
               PROVE  /\ SubSeq(slot, a, 5) \in Seq(Nat) /\ Len(SubSeq(slot, a, 5)) = 6 - a
                      /\ Stale(slot) => Stale(SubSeq(slot, a, 5))
      OBVIOUS
  <2>1. a <= 5 + 1 /\ 5 + 1 - a = 6 - a
      OBVIOUS
  <2> QED BY <2>1, BackFacts
<1>3. PICK t \in Seq(Nat) : /\ t = SubSeq(slot, l + 1, 5) /\ Len(t) = 5 - l
                            /\ Stale(slot) => Stale(t)
  <2>1. l + 1 \in Nat /\ l + 1 > 0 /\ l + 1 <= 6 /\ 6 - (l + 1) = 5 - l
      BY <1>1
  <2> QED BY <1>9, <2>1
<1>4. Encoded(k) = k \o t
    BY <1>1, <1>3 DEF Encoded
<1>5. k \o t \in Seq(Nat) /\ Len(k \o t) = 5
    BY <1>1, <1>2, <1>3, JoinFacts
<1>6. Stale(slot) => Stale(k \o t)
    BY <1>2, <1>3, StaleJoin
<1>7. CASE l < 3
  <2>1. Shifted(k) = slot
      BY <1>1, <1>7 DEF Shifted
  <2> QED BY <1>4, <1>5, <1>6, <2>1
<1>8. CASE l >= 3
  <2>1. PICK p \in Seq(Nat) : p = SubSeq(k, 3, l) /\ Len(p) = l - 2 /\ Stale(p)
    <3>1. 3 <= l + 1 /\ l + 1 - 3 = l - 2 /\ 3 \in Nat /\ 3 > 0
        BY <1>8
    <3>2. /\ SubSeq(k, 3, l) \in Seq(Nat) /\ Len(SubSeq(k, 3, l)) = l + 1 - 3
          /\ Stale(SubSeq(k, 3, l))
        BY <1>1, <1>2, <3>1, BackFacts
    <3> QED BY <3>1, <3>2
  <2>2. l - 1 \in Nat /\ l - 1 > 0 /\ l - 1 <= 6 /\ 6 - (l - 1) = 7 - l
      BY <1>1, <1>8
  <2>3. PICK q \in Seq(Nat) : /\ q = SubSeq(slot, l - 1, 5) /\ Len(q) = 7 - l
                              /\ Stale(slot) => Stale(q)
      BY <1>9, <2>2
  <2>4. Shifted(k) = p \o q
      BY <1>1, <1>8, <2>1, <2>3 DEF Shifted
  <2>5. p \o q \in Seq(Nat) /\ Len(p \o q) = 5
    <3>1. p \o q \in Seq(Nat) /\ Len(p \o q) = (l - 2) + (7 - l)
        BY <2>1, <2>3, JoinFacts
    <3> QED BY <3>1
  <2>6. Stale(slot) => Stale(p \o q)
      BY <2>1, <2>3, StaleJoin
  <2> QED BY <1>4, <1>5, <1>6, <2>4, <2>5, <2>6
<1> QED BY <1>1, <1>7, <1>8

\* No send, no arrival, nothing read: the connection may be shut, and the session
\* may end, but not for a length or a size.
Quiet ==
    /\ UNCHANGED <<client, slot, flight, inq, input, typed, sizes, winsz>>
    /\ conn' = conn \/ conn' = "shut"
    /\ half' = half \/ (half' = <<>> /\ conn' = "shut")
    /\ why' = why \/ why' \notin {"length", "size"}
    /\ pc' \in {"poll", "sock"} => pc \in {"poll", "sock"}

\* Such steps keep the invariant.
LEMMA QuietKeeps ==
    ASSUME IInv, Quiet
    PROVE  IInv'
<1>1. PICK B : Streams(B)
    BY DEF IInv
<1>2. Types /\ InFlight /\ Reasons /\ InSocket(B) /\ LastSize(B)
      /\ (client = "runner" => Keyed(B))
    BY <1>1 DEF IInv, Streams
<1>3. /\ UNCHANGED <<client, slot, flight, inq, input, typed, sizes, winsz>>
      /\ conn' = conn \/ conn' = "shut"
      /\ half' = half \/ (half' = <<>> /\ conn' = "shut")
      /\ why' = why \/ why' \notin {"length", "size"}
      /\ pc' \in {"poll", "sock"} => pc \in {"poll", "sock"}
    BY DEF Quiet
<1>4. Known' = Known
    BY <1>3 DEF Known
<1>5. Types'
  <2>0. <<>> \in Seq(Nat)
      OBVIOUS
  <2>1. half' \in Seq(Nat) /\ conn' \in {"open", "shut"}
      BY <1>2, <1>3, <2>0, Zenon DEF Types
  <2> QED BY <1>2, <1>3, <2>1 DEF Types
<1>6. \A i, n : Awaited(i, n) => Awaited(i, n)'
    BY <1>3 DEF Awaited
<1>7. \A i, t : KeyFollows(i, t) => KeyFollows(i, t)'
    BY <1>3 DEF KeyFollows
<1>8. Onward
    BY <1>6, <1>7 DEF Onward
<1>9. InSocket(B)'
    BY <1>2, <1>3, <1>4, <1>8, SendInSocket
<1>10. InFlight'
  <2>1. ASSUME NEW i \in 1..Len(flight)'
        PROVE  /\ Sends(flight'[i], Known') /\ (client' = "runner" => ~WholeSend(flight'[i]))
               /\ HeaderSend(flight'[i]) => Awaited(i, flight[i][2])'
    <3>1. PICK l : l = flight[i][2] /\ l = flight'[i][2]
        BY <1>3
    <3>2. /\ Sends(flight[i], Known) /\ (client = "runner" => ~WholeSend(flight[i]))
          /\ HeaderSend(flight[i]) => Awaited(i, l)
        BY <1>2, <1>3, <3>1 DEF InFlight
    <3>3. HeaderSend(flight[i]) => Awaited(i, l)'
        BY <1>6, <3>2
    <3> QED BY <1>3, <1>4, <3>1, <3>2, <3>3
  <2>2. half' # <<>> => client' = "runner" /\ PayloadSend(half')
      BY <1>2, <1>3 DEF InFlight
  <2>3. Stale(slot')
      BY <1>2, <1>3 DEF InFlight
  <2> QED BY <2>1, <2>2, <2>3 DEF InFlight
<1>11. Reasons'
    BY <1>2, <1>3, <1>4 DEF Reasons
<1>12. LastSize(B)'
  <2>1. \A i : SizeAt(i)' <=> SizeAt(i)
      BY <1>3 DEF SizeAt
  <2>2. \A b : SizeCut(B, b)' <=> SizeCut(B, b)
      BY <1>3 DEF SizeCut
  <2> QED BY <1>2, <1>3, <2>1, <2>2 DEF LastSize
<1>13. ASSUME client' = "runner"  PROVE Keyed(B)'
  <2>1. PICK c, d : Counted(B, c, d) /\ KeysMatch(B, c, d)
      BY <1>2, <1>3, <1>13 DEF Keyed
  <2>2. Counted(B, c, d)'
      BY <1>3, <2>1 DEF Counted
  <2>3. ASSUME NEW b \in B, b <= Len(inq'), inq'[b] = 1  PROVE KeyCut(c, b)'
    <3>1. KeyCut(c, b)
        BY <1>3, <2>1, <2>3 DEF KeysMatch
    <3>2. PICK t : t = typed[c[b] + 1]
        OBVIOUS
    <3>3. KeyFollows(0, t) => KeyFollows(0, t)'
        BY <1>7
    <3> QED BY <1>3, <3>1, <3>2, <3>3 DEF KeyCut
  <2>4. ASSUME NEW i \in 1..Len(flight)', flight'[i][1] = 1  PROVE KeySend(d, i)'
    <3>1. KeySend(d, i)
        BY <1>3, <2>1, <2>4 DEF KeysMatch
    <3>2. PICK t : t = typed[d[i] + 1]
        OBVIOUS
    <3>3. KeyFollows(i, t) => KeyFollows(i, t)'
        BY <1>7
    <3> QED BY <1>3, <3>1, <3>2, <3>3 DEF KeySend
  <2>5. KeysMatch(B, c, d)'
      BY <2>3, <2>4 DEF KeysMatch
  <2>6. Written'
      BY <1>2, <1>3, <1>13 DEF Keyed, Written
  <2> QED BY <2>2, <2>5, <2>6 DEF Keyed
<1>14. Streams(B)'
    BY <1>9, <1>12, <1>13 DEF Streams
<1> QED BY <1>5, <1>10, <1>11, <1>14 DEF IInv

\* A send m that a client makes: what it changes, and what it is.
Posts(m) ==
    /\ Adds(m) /\ Sized(m) /\ (client = "runner" => Typing(m)) /\ Onward
    /\ UNCHANGED <<client, conn, inq, input, winsz, pc, why>>
    /\ Sends(m, Known') /\ (client = "runner" => ~WholeSend(m))
    /\ HeaderSend(m) => half' # <<>> /\ Len(half') = m[2]
    /\ half' # <<>> => client = "runner" /\ PayloadSend(half')
    /\ Stale(slot')

\* A send keeps the invariant.
LEMMA SendKeeps ==
    ASSUME IInv, Types', NEW m \in Seq(Nat), Posts(m)
    PROVE  IInv'
<1>1. PICK B : Streams(B)
    BY DEF IInv
<1>2. Types /\ InFlight /\ Reasons /\ InSocket(B) /\ LastSize(B)
      /\ (client = "runner" => Keyed(B))
    BY <1>1 DEF IInv, Streams
<1>3. /\ Adds(m) /\ Sized(m) /\ (client = "runner" => Typing(m)) /\ Onward
      /\ UNCHANGED <<client, conn, inq, input, winsz, pc, why>>
    BY DEF Posts
<1>4. Known \subseteq Known'
  <2>1. sizes \in Seq(Nat \X Nat)
      BY <1>2 DEF Types
  <2>2. CASE UNCHANGED sizes
      BY <2>2 DEF Known
  <2>3. CASE \E s \in Nat \X Nat : sizes' = Append(sizes, s)
    <3>1. Len(sizes') = Len(sizes) + 1 /\ Len(sizes) \in Nat
          /\ \A i \in 1..Len(sizes) : sizes'[i] = sizes[i]
        BY <2>1, <2>3
    <3>2. \A i \in 1..Len(sizes) : i \in 1..Len(sizes')
        BY <3>1
    <3> QED BY <3>1, <3>2 DEF Known
  <2> QED BY <1>3, <2>2, <2>3 DEF Sized
<1>5. InFlight'
    BY <1>2, <1>3, <1>4, SendInFlight DEF Posts
<1>6. InSocket(B)'
    BY <1>2, <1>3, <1>4, SendInSocket
<1>7. LastSize(B)'
    BY <1>2, <1>3, SendLastSize
<1>8. client' = "runner" => Keyed(B)'
    BY <1>2, <1>3, SendKeyed
<1>9. Reasons'
    BY <1>2, <1>3, <1>4 DEF Reasons
<1>10. Streams(B)'
    BY <1>6, <1>7, <1>8 DEF Streams
<1> QED BY <1>5, <1>9, <1>10 DEF IInv

\* An arrival keeps the invariant.
LEMMA ArriveKeeps ==
    ASSUME IInv, Types', Arrive
    PROVE  IInv'
<1>1. PICK B : Streams(B)
    BY DEF IInv
<1>2. Types /\ InFlight /\ Reasons /\ InSocket(B) /\ LastSize(B)
      /\ (client = "runner" => Keyed(B))
    BY <1>1 DEF IInv, Streams
<1>3. PICK m, N, A : m = flight[1] /\ N = Len(inq) /\ A = B \cup Up(CutsOf(m), N)
    OBVIOUS
<1>4. Arrives(m, N, B, A)
  <2>1. flight # <<>> /\ Head(flight) = flight[1]
      BY <1>2 DEF Arrive, Types
  <2> QED BY <1>3, <2>1 DEF Arrives, Arrive, clientVars, backVars
<1>5. InFlight' /\ InSocket(A)' /\ LastSize(A)'
    BY <1>2, <1>4, ArriveInFlight, ArriveInSocket, ArriveLastSize
<1>6. client' = "runner" => Keyed(A)'
  <2>1. client' = client
      BY <1>4 DEF Arrives
  <2> QED BY <1>2, <1>4, <2>1, ArriveKeyed
<1>7. Reasons'
  <2>1. UNCHANGED <<sizes, why>>
      BY <1>4 DEF Arrives
  <2> QED BY <1>2, <2>1 DEF Reasons, Known
<1>8. Streams(A)'
    BY <1>5, <1>6 DEF Streams
<1> QED BY <1>5, <1>7, <1>8 DEF IInv

\* Reading whole messages keeps the invariant.
LEMMA RestKeeps ==
    ASSUME IInv, Types', Reasons', NEW B, Streams(B), NEW n \in Nat, n + 1 \in B,
           inq' = Rest(inq, n), UNCHANGED <<client, conn, half, slot, flight, sizes, typed>>,
           pc' \in {"poll", "sock"} => pc \in {"poll", "sock"} /\ SizesRead(B, n),
           client = "runner" => KeysRead(B, n)
    PROVE  IInv'
<1>1. Types /\ InFlight /\ InSocket(B) /\ LastSize(B) /\ (client = "runner" => Keyed(B))
    BY DEF IInv, Streams
<1>2. InFlight'
  <2>1. Known' = Known
      BY DEF Known
  <2>2. \A i, l : Awaited(i, l)' <=> Awaited(i, l)
      BY DEF Awaited
  <2>3. ASSUME NEW i \in 1..Len(flight)'
        PROVE  /\ Sends(flight'[i], Known') /\ (client' = "runner" => ~WholeSend(flight'[i]))
               /\ HeaderSend(flight'[i]) => Awaited(i, flight[i][2])'
    <3>1. PICK l : l = flight[i][2] /\ l = flight'[i][2]
        OBVIOUS
    <3>2. /\ Sends(flight[i], Known) /\ (client = "runner" => ~WholeSend(flight[i]))
          /\ HeaderSend(flight[i]) => Awaited(i, l)
        BY <1>1, <3>1 DEF InFlight
    <3>3. HeaderSend(flight[i]) => Awaited(i, l)'
        BY <2>2, <3>2
    <3> QED BY <2>1, <3>1, <3>2, <3>3
  <2> QED BY <1>1, <2>3 DEF InFlight
<1>3. InSocket(Down(B, n))'
    BY <1>1, RestInSocket
<1>4. LastSize(Down(B, n))'
    BY <1>1, RestLastSize
<1>5. client' = "runner" => Keyed(Down(B, n))'
    BY <1>1, RestKeyed
<1>6. Streams(Down(B, n))'
    BY <1>3, <1>4, <1>5 DEF Streams
<1> QED BY <1>2, <1>6 DEF IInv

\* The steps of every action are typed.
LEMMA TypesKeep ==
    ASSUME Types, Next
    PROVE  Types'
<1>1. /\ client \in {"attach", "runner"} /\ conn \in {"open", "shut"}
      /\ half \in Seq(Nat) /\ slot \in Seq(Nat) /\ Len(slot) = 5
      /\ flight \in Seq(Seq(Nat)) /\ inq \in Seq(Nat)
      /\ input \in Seq(Seq(Nat)) /\ typed \in Seq(Seq(Nat) \ {<<>>})
      /\ sizes \in Seq(Nat \X Nat) /\ Len(sizes) > 0
    BY DEF Types
<1>2. ASSUME NEW k \in Keys, TypeAttach(k)  PROVE Types'
  <2>1. /\ k \in Seq(Nat) \ {<<>>} /\ k \in Seq(Nat)
      BY KeyFacts
  <2>2. slot' \in Seq(Nat) /\ Len(slot') = 5
      BY <1>1, <1>2, SlotFacts DEF TypeAttach
  <2>3. <<1, Len(k), 0, 0, 0>> \o k \in Seq(Nat)
      BY <2>1, WholeFacts, KeyFacts
  <2>4. flight' \in Seq(Seq(Nat)) /\ typed' \in Seq(Seq(Nat) \ {<<>>})
      BY <1>1, <1>2, <2>1, <2>3 DEF TypeAttach, Sent
  <2> QED BY <1>1, <1>2, <2>2, <2>4 DEF TypeAttach, Types, sockVars, backVars
<1>3. ASSUME NEW k \in Keys, TypeShift(k)  PROVE Types'
  <2>1. k \in Seq(Nat) \ {<<>>} /\ Len(k) \in Nat /\ Len(k) > 0
      BY KeyFacts
  <2>6. IsChar(k) /\ slot' = Shifted(k)
      BY <1>3 DEF TypeShift
  <2>8. PICK l \in Nat : l = Len(k)
      BY <2>1
  <2>9. l = 1 \/ l <= 4
      BY <2>6, <2>8 DEF IsChar
  <2>7. Len(k) <= 5
      BY <2>8, <2>9
  <2>2. slot' \in Seq(Nat) /\ Len(slot') = 5
      BY <1>1, <2>6, <2>7, SlotFacts
  <2>3. PICK p \in Seq(Nat) : p = SubSeq(slot', 1, Len(k)) /\ Len(p) = Len(k)
      BY <2>2, <2>7, <2>8, FrontFacts
  <2>4. <<1, Len(k), 0, 0, 0>> \o p \in Seq(Nat)
      BY <2>1, <2>3, WholeFacts
  <2>5. flight' \in Seq(Seq(Nat)) /\ typed' \in Seq(Seq(Nat) \ {<<>>})
      BY <1>1, <1>3, <2>1, <2>3, <2>4 DEF TypeShift, Sent
  <2> QED BY <1>1, <1>3, <2>2, <2>5 DEF TypeShift, Types, sockVars, backVars
<1>4. ASSUME NEW k \in Keys, TypeRunner(k)  PROVE Types'
  <2>1. k \in Seq(Nat) \ {<<>>} /\ k \in Seq(Nat) /\ Len(k) \in Nat
      BY KeyFacts
  <2>2. <<1, Len(k), 0>> \in Seq(Nat)
      BY <2>1
  <2>3. flight' \in Seq(Seq(Nat)) /\ typed' \in Seq(Seq(Nat) \ {<<>>})
      BY <1>1, <1>4, <2>1, <2>2 DEF TypeRunner, Sent
  <2> QED BY <1>1, <1>4, <2>1, <2>3 DEF TypeRunner, Types, sockVars, backVars
<1>5. ASSUME NEW s \in Sizes, ResizePty(s)  PROVE Types'
  <2>1. s \in Nat \X Nat /\ Resize(s) \in Seq(Nat)
      BY SizeFacts
  <2>2. flight' \in Seq(Seq(Nat)) /\ sizes' \in Seq(Nat \X Nat) /\ Len(sizes') > 0
      BY <1>1, <1>5, <2>1 DEF ResizePty, Sent
  <2> QED BY <1>1, <1>5, <2>2 DEF ResizePty, Types, sockVars, backVars
<1>6. CASE SendPayload
  <2>1. flight' \in Seq(Seq(Nat)) /\ half' \in Seq(Nat)
      BY <1>1, <1>6 DEF SendPayload
  <2> QED BY <1>1, <1>6, <2>1 DEF SendPayload, Types, sockVars, backVars
<1>7. CASE Arrive
  <2>1. Head(flight) \in Seq(Nat) /\ flight' \in Seq(Seq(Nat))
      BY <1>1, <1>7 DEF Arrive
  <2>2. inq' \in Seq(Nat)
      BY <1>1, <1>7, <2>1 DEF Arrive
  <2> QED BY <1>1, <1>7, <2>1, <2>2 DEF Arrive, Types, clientVars, backVars
<1>8. \A n \in Nat : Rest(inq, n) \in Seq(Nat)
    BY <1>1, RestFacts
<1>9. CASE ReadZero \/ ReadUnknown \/ ReadResize
  <2>1. inq' \in Seq(Nat)
      BY <1>8, <1>9 DEF ReadZero, ReadUnknown, ReadResize
  <2> QED BY <1>1, <1>9, <2>1
         DEF ReadZero, ReadUnknown, ReadResize, Types, clientVars, backVars
<1>10. CASE ReadData
  <2> DEFINE length == U16(Recv(Rest(inq, 1), 2), 1)
  <2>1. length \in Nat
    <3>1. Recv(Rest(inq, 1), 2) \in Seq(Nat)
        BY <1>8, RecvFacts
    <3>2. \A q \in Seq(Nat), i \in Nat \ {0} : Byte(q, i) \in Nat
        BY DEF Byte
    <3>3. Byte(Recv(Rest(inq, 1), 2), 1) \in Nat /\ Byte(Recv(Rest(inq, 1), 2), 1 + 1) \in Nat
        BY <3>1, <3>2
    <3> QED BY <3>3 DEF U16
  <2>2. Recv(Rest(inq, 3), length) \in Seq(Nat)
      BY <1>8, <2>1, RecvFacts
  <2>3. inq' = Rest(inq, 3 + length)
        /\ \/ input' = input \/ input' = Append(input, <<>>)
           \/ input' = Append(input, Recv(Rest(inq, 3), length))
      BY <1>10 DEF ReadData
  <2> HIDE DEF length
  <2>4. inq' \in Seq(Nat) /\ input' \in Seq(Seq(Nat))
    <3>1. 3 + length \in Nat
        BY <2>1
    <3>3. <<>> \in Seq(Nat)
        OBVIOUS
    <3>2. /\ Append(input, Recv(Rest(inq, 3), length)) \in Seq(Seq(Nat))
          /\ Append(input, <<>>) \in Seq(Seq(Nat))
        BY <1>1, <2>2, <3>3
    <3> QED BY <1>1, <1>8, <2>3, <3>1, <3>2, Zenon
  <2> QED BY <1>1, <1>10, <2>4 DEF ReadData, Types, clientVars, backVars
<1>11. CASE \/ Show \/ SeeEnd \/ Leave \/ PollSock \/ PollTty \/ Reap
            \/ RecvFails \/ Output \/ Exit
    BY <1>1, <1>11 DEF Show, SeeEnd, Leave, PollSock, PollTty, Reap, RecvFails, Output, Exit, Types,
       clientVars, sockVars, backVars
<1> QED BY <1>2, <1>3, <1>4, <1>5, <1>6, <1>7, <1>9, <1>10, <1>11 DEF Next, Client, Daemon

\* What was sent when nothing was left to send comes next to no header.
LEMMA SendOnward ==
    ASSUME Types, NEW m, Adds(m), conn = "open", conn' = conn, half = <<>>
    PROVE  Onward
<1>1. flight \in Seq(Seq(Nat)) /\ Len(flight) \in Nat /\ Len(flight') = Len(flight) + 1
      /\ \A i \in 1..Len(flight) : flight'[i] = flight[i]
    BY DEF Types, Adds
<1>2. ASSUME NEW i \in 0..Len(flight)
      PROVE  /\ i < Len(flight) => i < Len(flight') /\ flight'[i + 1] = flight[i + 1]
             /\ i \in Nat
  <2>1. i \in Nat /\ i < Len(flight') /\ (i < Len(flight) => i + 1 \in 1..Len(flight))
      BY <1>1
  <2> QED BY <1>1, <2>1
<1>3. ASSUME NEW i \in 0..Len(flight), NEW n, Awaited(i, n)  PROVE Awaited(i, n)'
    BY <1>2, <1>3 DEF Awaited
<1>4. ASSUME NEW i \in 0..Len(flight), NEW t, t # <<>>, KeyFollows(i, t)
      PROVE  KeyFollows(i, t)'
    BY <1>2, <1>4 DEF KeyFollows
<1> QED BY <1>3, <1>4 DEF Onward

\* run_ui sends a header of five bytes and as many of bytes[5..].
LEMMA AttachKeeps ==
    ASSUME IInv, Types', NEW k \in Seq(Nat), Len(k) > 0, Stale(k), client = "attach", CanSend,
           Sent(<<1, Len(k), 0, 0, 0>> \o k), Stale(slot'),
           UNCHANGED <<client, conn, inq, input, winsz, pc, why, half, sizes>>
    PROVE  IInv'
<1>1. Types /\ InFlight
    BY DEF IInv
<1>2. PICK m \in Seq(Nat) : m = <<1, Len(k), 0, 0, 0>> \o k /\ WholeSend(m) /\ m[1] = 1
    BY WholeFacts
<1>3. Adds(m) /\ conn = "open" /\ half = <<>>
    BY <1>2 DEF CanSend, Sent, Adds
<1>4. Onward
    BY <1>1, <1>3, SendOnward
<1>5. Sized(m) /\ Sends(m, Known') /\ ~HeaderSend(m)
    BY <1>2 DEF Sized, Sends, HeaderSend, WholeSend
<1>6. Posts(m)
    BY <1>3, <1>4, <1>5 DEF Posts
<1> QED BY <1>6, SendKeeps

\* run_ui sends a key.
LEMMA TypeAttachKeeps ==
    ASSUME IInv, Types', NEW k \in Keys, TypeAttach(k)
    PROVE  IInv'
<1>1. slot \in Seq(Nat) /\ Len(slot) = 5 /\ Stale(slot)
    BY DEF IInv, Types, InFlight
<1>2. k \in Seq(Nat) /\ Len(k) > 0 /\ Stale(k)
    BY KeyFacts DEF Stale
<1>3. Stale(slot')
    BY <1>1, SlotFacts DEF TypeAttach
<1> QED BY <1>2, <1>3, AttachKeeps DEF TypeAttach, sockVars, backVars

\* run_ui sends bytes that earlier keys left.
LEMMA TypeShiftKeeps ==
    ASSUME IInv, Types', NEW k \in Keys, TypeShift(k)
    PROVE  IInv'
<1>1. slot \in Seq(Nat) /\ Len(slot) = 5 /\ Stale(slot)
    BY DEF IInv, Types, InFlight
<1>2. PICK l \in Nat : l = Len(k) /\ l > 0 /\ l <= 5
    BY KeyFacts DEF TypeShift, IsChar
<1>3. Stale(slot') /\ slot' \in Seq(Nat) /\ Len(slot') = 5
    BY <1>1, <1>2, SlotFacts DEF TypeShift
<1>4. PICK p \in Seq(Nat) : p = SubSeq(slot', 1, l) /\ Len(p) = l /\ Stale(p)
    BY <1>2, <1>3, FrontFacts
<1>5. Sent(<<1, Len(p), 0, 0, 0>> \o p)
    BY <1>2, <1>4 DEF TypeShift
<1> QED BY <1>2, <1>3, <1>4, <1>5, AttachKeeps DEF TypeShift, sockVars, backVars

\* write_pty sends the header of a key.
LEMMA TypeRunnerKeeps ==
    ASSUME IInv, Types', NEW k \in Keys, TypeRunner(k)
    PROVE  IInv'
<1>1. Types /\ InFlight
    BY DEF IInv
<1>2. /\ k \in Seq(Nat) \ {<<>>} /\ Len(k) \in Nat /\ Len(k) > 0
      /\ \A i \in 1..Len(k) : Plain(k[i])
    BY KeyFacts
<1>3. PICK l \in Nat : l = Len(k) /\ l > 0
    BY <1>2
<1>4. PICK m \in Seq(Nat) : m = <<1, l, 0>>
  <2>1. <<1, l, 0>> \in Seq(Nat)
      OBVIOUS
  <2> QED BY <2>1, Zenon
<1>5. Len(m) = 3 /\ m[1] = 1 /\ m[2] = l /\ m[3] = 0
    BY <1>4
<1>6. HeaderSend(m) /\ ~WholeSend(m)
    BY <1>3, <1>5 DEF HeaderSend, WholeSend
<1>7. Adds(m) /\ conn = "open" /\ half = <<>> /\ client = "runner" /\ half' = k
      /\ typed' = Append(typed, k)
      /\ UNCHANGED <<client, conn, inq, input, winsz, pc, why, sizes, slot>>
    BY <1>3, <1>4 DEF TypeRunner, CanSend, Sent, Adds, sockVars, backVars
<1>8. Onward
    BY <1>1, <1>7, SendOnward
<1>9. Posts(m)
  <2>1. Sized(m) /\ Sends(m, Known')
      BY <1>5, <1>6, <1>7 DEF Sized, Sends
  <2>2. Typing(m)
      BY <1>2, <1>3, <1>5, <1>7 DEF Typing
  <2>3. PayloadSend(half') /\ half' # <<>> /\ Len(half') = m[2]
      BY <1>2, <1>3, <1>5, <1>7 DEF PayloadSend
  <2>4. Stale(slot')
      BY <1>1, <1>7 DEF InFlight
  <2> QED BY <1>6, <1>7, <1>8, <2>1, <2>2, <2>3, <2>4 DEF Posts
<1> QED BY <1>9, SendKeeps

\* resize_pty sends a size.
LEMMA ResizeKeeps ==
    ASSUME IInv, Types', NEW s \in Sizes, ResizePty(s)
    PROVE  IInv'
<1>1. Types /\ InFlight
    BY DEF IInv
<1>2. s \in Nat \X Nat /\ Resize(s) \in Seq(Nat)
    BY SizeFacts
<1>3. PICK m \in Seq(Nat) : m = Resize(s)
    BY <1>2
<1>4. Len(m) = 5 /\ m[1] = 2
    BY <1>3 DEF Resize
<1>5. Adds(m) /\ conn = "open" /\ half = <<>> /\ sizes' = Append(sizes, s)
      /\ UNCHANGED <<client, conn, inq, input, winsz, pc, why, half, slot, typed>>
    BY <1>3 DEF ResizePty, CanSend, Sent, Adds, sockVars, backVars
<1>6. Onward
    BY <1>1, <1>5, SendOnward
<1>7. s \in Known'
  <2>1. sizes \in Seq(Nat \X Nat)
      BY <1>1 DEF Types
  <2>2. Len(sizes') = Len(sizes) + 1 /\ sizes'[Len(sizes) + 1] = s /\ Len(sizes) \in Nat
      BY <1>2, <1>5, <2>1
  <2>3. Len(sizes) + 1 \in 1..Len(sizes')
      BY <2>2
  <2> QED BY <2>2, <2>3 DEF Known
<1>8. Posts(m)
  <2>1. Sized(m)
      BY <1>2, <1>3, <1>5 DEF Sized
  <2>2. Sends(m, Known') /\ ~HeaderSend(m) /\ ~WholeSend(m)
      BY <1>3, <1>4, <1>7 DEF Sends, SizeSend, HeaderSend, WholeSend
  <2>3. Typing(m) /\ Stale(slot')
      BY <1>1, <1>4, <1>5 DEF Typing, InFlight
  <2> QED BY <1>5, <1>6, <2>1, <2>2, <2>3 DEF Posts
<1> QED BY <1>8, SendKeeps

\* write_pty sends the payload of the key, or finds the connection shut.
LEMMA PayloadKeeps ==
    ASSUME IInv, Types', SendPayload
    PROVE  IInv'
<1>1. Types /\ InFlight
    BY DEF IInv
<1>2. half # <<>> /\ half' = <<>>
      /\ UNCHANGED <<client, conn, inq, input, winsz, pc, why, slot, typed, sizes>>
    BY DEF SendPayload, sockVars, backVars
<1>3. CASE conn = "open"
  <2>1. PICK m \in Seq(Nat) : m = half
      BY <1>1 DEF Types
  <2>2. Adds(m) /\ PayloadSend(m) /\ client = "runner" /\ Stale(slot)
      BY <1>1, <1>2, <1>3, <2>1 DEF SendPayload, Adds, InFlight
  <2>3. m[1] # 1 /\ m[1] # 2
    <3>1. 1 \in 1..Len(m)
        BY <2>2 DEF PayloadSend
    <3> QED BY <2>2, <3>1 DEF PayloadSend, Plain
  <2>4. Onward
    <3>1. flight \in Seq(Seq(Nat)) /\ Len(flight) \in Nat /\ Len(flight') = Len(flight) + 1
          /\ flight'[Len(flight) + 1] = m /\ \A i \in 1..Len(flight) : flight'[i] = flight[i]
      <4>1. flight \in Seq(Seq(Nat)) /\ m \in Seq(Nat) /\ flight' = Append(flight, m)
          BY <1>1, <2>2 DEF Types, Adds
      <4> QED BY <4>1
    <3>2. ASSUME NEW i \in 0..Len(flight)
          PROVE  /\ i < Len(flight') /\ i \in Nat
                 /\ i < Len(flight) => flight'[i + 1] = flight[i + 1]
                 /\ ~(i < Len(flight)) => flight'[i + 1] = m
      <4>1. i \in Nat /\ i < Len(flight') /\ (i < Len(flight) => i + 1 \in 1..Len(flight))
            /\ (~(i < Len(flight)) => i = Len(flight))
          BY <3>1
      <4> QED BY <3>1, <4>1
    <3>3. ASSUME NEW i \in 0..Len(flight), NEW n, Awaited(i, n)  PROVE Awaited(i, n)'
        BY <1>3, <2>1, <2>2, <3>2, <3>3 DEF Awaited
    <3>4. ASSUME NEW i \in 0..Len(flight), NEW t, t # <<>>, KeyFollows(i, t)
          PROVE  KeyFollows(i, t)'
        BY <1>3, <2>1, <3>2, <3>4 DEF KeyFollows
    <3> QED BY <3>3, <3>4 DEF Onward
  <2>5. Posts(m)
    <3>1. Sized(m) /\ Typing(m)
        BY <1>2, <2>3 DEF Sized, Typing
    <3>2. Sends(m, Known') /\ ~HeaderSend(m) /\ ~WholeSend(m)
        BY <2>2, <2>3 DEF Sends, HeaderSend, WholeSend
    <3> QED BY <1>2, <2>2, <2>4, <3>1, <3>2 DEF Posts
  <2> QED BY <2>5, SendKeeps
<1>4. CASE conn # "open"
  <2>1. conn = "shut" /\ flight' = flight
      BY <1>1, <1>4 DEF Types, SendPayload
  <2>2. Quiet
      BY <1>2, <2>1 DEF Quiet
  <2> QED BY <2>2, QuietKeeps
<1> QED BY <1>3, <1>4

\* What the first bytes of the socket are, read as the header of a message.
LEMMA FirstBytes ==
    ASSUME NEW q \in Seq(Nat), NEW B, NEW S, Cuts(q, B, S)
    PROVE  /\ Byte(q, 1) # 0 => Len(q) > 0
           /\ Len(q) > 0 => /\ Byte(q, 1) = q[1]
                            /\ AtPlain(q, B, 1) \/ AtSize(q, B, S, 1) \/ AtKey(q, B, 1)
<1>1. Len(q) \in Nat /\ 1 \in B
    BY ByteFacts DEF Cuts
<1> QED BY <1>1 DEF Byte, Cuts

\* A byte that begins no message is skipped.
LEMMA SkipKeeps ==
    ASSUME IInv, Types', inq' = Rest(inq, 1), Byte(inq, 1) \notin {1, 2},
           UNCHANGED <<client, conn, half, slot, flight, sizes, typed, input, winsz, why>>,
           pc = "sock"
    PROVE  IInv'
<1>1. PICK B : Streams(B)
    BY DEF IInv
<1>2. Types /\ Reasons /\ inq \in Seq(Nat) /\ Len(inq) \in Nat /\ Cuts(inq, B, Known)
    BY <1>1 DEF IInv, Streams, InSocket, Types
<1>3. CASE Len(inq) > 0
  <2>1. inq[1] \notin {1, 2} /\ AtPlain(inq, B, 1)
      BY <1>2, <1>3, FirstBytes DEF AtSize, AtKey
  <2>2. 1 + 1 \in B
      BY <2>1 DEF AtPlain
  <2>3. \A b \in B : b \in Nat /\ b > 0
      BY <1>2 DEF Cuts
  <2>4. \A b \in B : b <= 1 => b = 1
      BY <2>3
  <2>5. SizesRead(B, 1) /\ KeysRead(B, 1)
      BY <2>1, <2>4 DEF SizesRead, KeysRead
  <2>6. Reasons'
      BY <1>2 DEF Reasons, Known
  <2> QED BY <1>1, <2>2, <2>5, <2>6, RestKeeps
<1>4. CASE Len(inq) = 0
  <2>0. \A n \in Nat : Rest(inq, n) \in Seq(Nat)
                        /\ (n >= Len(inq) => Len(Rest(inq, n)) = 0)
      BY <1>2, RestFacts
  <2>1. Rest(inq, 1) \in Seq(Nat) /\ Len(Rest(inq, 1)) = 0
      BY <1>4, <2>0
  <2>2. inq' = <<>> /\ inq = <<>>
      BY <1>2, <1>4, <2>1
  <2>3. Quiet
      BY <2>2 DEF Quiet
  <2> QED BY <2>3, QuietKeeps
<1> QED BY <1>2, <1>3, <1>4

\* The two bytes behind the first, as a length.
LEMMA LengthRead ==
    ASSUME NEW q \in Seq(Nat), Len(q) >= 3, q[3] = 0
    PROVE  U16(Recv(Rest(q, 1), 2), 1) = q[2]
<1> DEFINE r == Rest(q, 1)
<1> DEFINE p == Recv(r, 2)
<1>1. Len(q) \in Nat /\ r \in Seq(Nat) /\ Len(r) = Len(q) - 1
      /\ \A i \in 1..Len(r) : r[i] = q[1 + i]
    BY RestFacts, ByteFacts
<1> HIDE DEF r
<1>2. 1 \in 1..Len(r) /\ 2 \in 1..Len(r) /\ 1 + 1 = 2 /\ 1 + 2 = 3 /\ 2 \in 1..Len(q)
    BY <1>1
<1>3. r[1] = q[2] /\ r[2] = q[3]
    BY <1>1, <1>2
<1>4. p \in Seq(Nat) /\ Len(p) = 2 /\ \A i \in 1..Len(p) : p[i] = r[i]
  <2>1. p \in Seq(Nat) /\ Len(p) = (IF 2 < Len(r) THEN 2 ELSE Len(r))
        /\ \A i \in 1..Len(p) : p[i] = r[i]
      BY <1>1, RecvFacts
  <2>2. PICK n \in Nat : n = Len(r) /\ n >= 2
      BY <1>1
  <2>3. Len(p) = (IF 2 < n THEN 2 ELSE n)
      BY <2>1, <2>2
  <2>5. ASSUME 2 < n  PROVE Len(p) = 2
      BY <2>3, <2>5
  <2>6. ASSUME ~(2 < n)  PROVE Len(p) = 2
    <3>1. n = 2
        BY <2>2, <2>6
    <3> QED BY <2>3, <2>6, <3>1
  <2>4. Len(p) = 2
      BY <2>5, <2>6
  <2> QED BY <2>1, <2>4
<1> HIDE DEF p
<1>5. p[1] = q[2] /\ p[2] = 0
    BY <1>3, <1>4
<1>6. Byte(p, 1) = q[2] /\ Byte(p, 1 + 1) = 0
    BY <1>2, <1>4, <1>5 DEF Byte
<1>7. q[2] \in Nat
    BY <1>2
<1>8. U16(p, 1) = q[2]
    BY <1>6, <1>7 DEF U16
<1> QED BY <1>8 DEF p, r

\* The size read from the four bytes behind the first.
LEMMA SizeRead ==
    ASSUME NEW q \in Seq(Nat), Len(q) >= 5
    PROVE  <<U16(Recv(Rest(q, 1), 4), 1), U16(Recv(Rest(q, 1), 4), 3)>> = SizeOf(q, 1)
<1> DEFINE r == Rest(q, 1)
<1> DEFINE p == Recv(r, 4)
<1>1. Len(q) \in Nat /\ r \in Seq(Nat) /\ Len(r) = Len(q) - 1
      /\ \A i \in 1..Len(r) : r[i] = q[1 + i]
    BY RestFacts, ByteFacts
<1> HIDE DEF r
<1>2. /\ 1 \in 1..Len(r) /\ 2 \in 1..Len(r) /\ 3 \in 1..Len(r) /\ 4 \in 1..Len(r)
      /\ 1 + 1 = 2 /\ 1 + 2 = 3 /\ 1 + 3 = 4 /\ 1 + 4 = 5 /\ 3 + 1 = 4
      /\ 2 \in 1..Len(q) /\ 4 \in 1..Len(q)
    BY <1>1
<1>3. r[1] = q[2] /\ r[2] = q[3] /\ r[3] = q[4] /\ r[4] = q[5]
    BY <1>1, <1>2
<1>4. p \in Seq(Nat) /\ Len(p) = 4 /\ \A i \in 1..Len(p) : p[i] = r[i]
  <2>1. p \in Seq(Nat) /\ Len(p) = (IF 4 < Len(r) THEN 4 ELSE Len(r))
        /\ \A i \in 1..Len(p) : p[i] = r[i]
      BY <1>1, RecvFacts
  <2>2. PICK n \in Nat : n = Len(r) /\ n >= 4
      BY <1>1
  <2>3. Len(p) = (IF 4 < n THEN 4 ELSE n)
      BY <2>1, <2>2
  <2>5. ASSUME 4 < n  PROVE Len(p) = 4
      BY <2>3, <2>5
  <2>6. ASSUME ~(4 < n)  PROVE Len(p) = 4
    <3>1. n = 4
        BY <2>2, <2>6
    <3> QED BY <2>3, <2>6, <3>1
  <2>4. Len(p) = 4
      BY <2>5, <2>6
  <2> QED BY <2>1, <2>4
<1> HIDE DEF p
<1>5. p[1] = q[2] /\ p[2] = q[3] /\ p[3] = q[4] /\ p[4] = q[5]
    BY <1>3, <1>4
<1>6. Byte(p, 1) = q[2] /\ Byte(p, 1 + 1) = q[3] /\ Byte(p, 3) = q[4] /\ Byte(p, 3 + 1) = q[5]
    BY <1>2, <1>4, <1>5 DEF Byte
<1>8. <<U16(p, 1), U16(p, 3)>> = SizeOf(q, 1)
    BY <1>2, <1>6 DEF U16, SizeOf
<1> QED BY <1>8 DEF p, r

\* handle_tty_resize: the size that is read is one that was sent.
LEMMA ReadResizeKeeps ==
    ASSUME IInv, Types', ReadResize
    PROVE  IInv'
<1>1. PICK B : Streams(B)
    BY DEF IInv
<1>2. Types /\ Reasons /\ inq \in Seq(Nat) /\ Len(inq) \in Nat /\ Cuts(inq, B, Known)
    BY <1>1 DEF IInv, Streams, InSocket, Types
<1>3. pc = "sock" /\ Byte(inq, 1) = 2 /\ inq' = Rest(inq, 5)
      /\ UNCHANGED <<client, conn, half, slot, flight, sizes, typed, input>>
    BY DEF ReadResize, clientVars, backVars
<1>4. Len(inq) > 0 /\ inq[1] = 2 /\ AtSize(inq, B, Known, 1)
    BY <1>2, <1>3, FirstBytes DEF AtPlain, AtSize, AtKey, Plain
<1>5. /\ 6 \in B /\ 2 \notin B /\ 3 \notin B /\ 4 \notin B /\ 5 \notin B
      /\ SizeOf(inq, 1) \in Known
    BY <1>4 DEF AtSize
<1>6. /\ \A b \in B : b \in Nat /\ b > 0 /\ b <= Len(inq) + 1
      /\ 1 \in B
    BY <1>2 DEF Cuts
<1>7. Len(inq) >= 5
    BY <1>2, <1>5, <1>6
<1>8. PICK z : z = SizeOf(inq, 1)
               /\ z = <<U16(Recv(Rest(inq, 1), 4), 1), U16(Recv(Rest(inq, 1), 4), 3)>>
    BY <1>2, <1>7, SizeRead
<1>9. \/ (z[1] = 0 \/ z[2] = 0) /\ pc' = "reap" /\ why' = "size"
      \/ winsz' = z /\ pc' = "sock" /\ why' = why
    BY <1>8 DEF ReadResize, End, Go
<1>10. Reasons'
  <2>1. Known' = Known
      BY <1>3 DEF Known
  <2>2. CASE why' = why
      BY <1>2, <2>1, <2>2 DEF Reasons
  <2>3. CASE why' = "size" /\ (z[1] = 0 \/ z[2] = 0)
      BY <1>5, <1>8, <2>1, <2>3 DEF Reasons
  <2> QED BY <1>9, <2>2, <2>3
<1>11. pc' \in {"poll", "sock"} => pc \in {"poll", "sock"} /\ SizesRead(B, 5)
    BY <1>3, <1>4, <1>6, <1>8, <1>9 DEF SizesRead
<1>12. KeysRead(B, 5)
  <2>1. \A b \in B : b <= 5 => b = 1
      BY <1>5, <1>6
  <2> QED BY <1>3, <1>4, <2>1 DEF KeysRead
<1>13. 5 \in Nat /\ 5 + 1 \in B
    BY <1>5
<1> QED BY <1>1, <1>3, <1>10, <1>11, <1>12, <1>13, RestKeeps

\* handle_socket_data: what is read is the next key, or nothing in its place.
LEMMA ReadDataKeeps ==
    ASSUME IInv, Types', ReadData
    PROVE  IInv'
<1>1. PICK B : Streams(B)
    BY DEF IInv
<1>2. /\ Types /\ Reasons /\ inq \in Seq(Nat) /\ Len(inq) \in Nat /\ Cuts(inq, B, Known)
      /\ (client = "runner" => Keyed(B))
    BY <1>1 DEF IInv, Streams, InSocket, Types
<1>3. pc = "sock" /\ Byte(inq, 1) = 1
      /\ UNCHANGED <<client, conn, half, slot, flight, sizes, typed, winsz>>
    BY DEF ReadData, clientVars, backVars
<1>4. Len(inq) > 0 /\ inq[1] = 1 /\ AtKey(inq, B, 1)
  <2>1. Len(inq) > 0 /\ inq[1] = 1
      BY <1>2, <1>3, FirstBytes
  <2>2. AtPlain(inq, B, 1) \/ AtSize(inq, B, Known, 1) \/ AtKey(inq, B, 1)
      BY <1>2, <2>1, FirstBytes
  <2>3. ~AtPlain(inq, B, 1) /\ ~AtSize(inq, B, Known, 1)
      BY <2>1 DEF AtPlain, AtSize, Plain
  <2> QED BY <2>1, <2>2, <2>3
<1>5. /\ 4 \in B /\ 2 \notin B /\ 3 \notin B /\ inq[2] > 0 /\ inq[3] = 0
      /\ \/ 4 = Len(inq) + 1
         \/ 4 + inq[2] \in B /\ \A j \in 1..inq[2] : Plain(inq[3 + j])
    BY <1>4 DEF AtKey
<1>6. /\ \A b \in B : b \in Nat /\ b > 0 /\ b <= Len(inq) + 1
      /\ 1 \in B
    BY <1>2 DEF Cuts
<1>7. Len(inq) >= 3
    BY <1>2, <1>5, <1>6
<1>8. PICK l \in Nat : l = inq[2] /\ l > 0
  <2>1. 2 \in 1..Len(inq)
      BY <1>2, <1>7
  <2>2. inq[2] \in Nat
      BY <1>2, <2>1
  <2> QED BY <1>5, <2>2
<1>9. U16(Recv(Rest(inq, 1), 2), 1) = l
    BY <1>2, <1>5, <1>7, <1>8, LengthRead
<1>10. PICK w : w = Recv(Rest(inq, 3), l)
    OBVIOUS
<1>11. /\ inq' = Rest(inq, 3 + l)
       /\ \/ input' = Append(input, w) /\ pc' = "sock" /\ why' = why
          \/ input' = Append(input, <<>>) /\ pc' = "reap" /\ why' = "write"
    BY <1>8, <1>9, <1>10 DEF ReadData, Go, End
<1>12. Reasons'
    BY <1>2, <1>3, <1>11 DEF Reasons, Known
<1>13. /\ Rest(inq, 3) \in Seq(Nat) /\ Len(Rest(inq, 3)) = Len(inq) - 3
       /\ \A i \in 1..Len(Rest(inq, 3)) : Rest(inq, 3)[i] = inq[3 + i]
    BY <1>2, <1>7, RestFacts
<1>14. /\ w \in Seq(Nat) /\ Len(w) = IF l < Len(inq) - 3 THEN l ELSE Len(inq) - 3
       /\ \A i \in 1..Len(w) : w[i] = Rest(inq, 3)[i]
    BY <1>10, <1>13, RecvFacts
<1>15. CASE Len(inq) = 3
  <2>1. inq' = Rest(inq, 3)
    <3>0. \A n \in Nat : Rest(inq, n) \in Seq(Nat)
                          /\ (n >= Len(inq) => Len(Rest(inq, n)) = 0)
        BY <1>2, RestFacts
    <3>3. 3 + l \in Nat /\ 3 + l >= 3
        OBVIOUS
    <3>1. /\ Rest(inq, 3 + l) \in Seq(Nat) /\ Len(Rest(inq, 3 + l)) = 0
          /\ Len(Rest(inq, 3)) = 0
        BY <1>15, <3>0, <3>3
    <3>2. Rest(inq, 3 + l) = <<>> /\ Rest(inq, 3) = <<>>
        BY <1>13, <3>1
    <3> QED BY <1>11, <3>2
  <2>2. w = <<>>
      BY <1>14, <1>15
  <2>3. \A b \in B : b <= 3 => b = 1
      BY <1>5, <1>6
  <2>4. KeysRead(B, 3)
      BY <1>4, <1>6, <1>11, <2>2, <2>3 DEF KeysRead
  <2>5. SizesRead(B, 3)
      BY <1>3, <1>4, <2>3 DEF SizesRead
  <2>6. 3 \in Nat /\ 3 + 1 \in B
      BY <1>5
  <2> QED BY <1>1, <1>3, <1>12, <2>1, <2>4, <2>5, <2>6, RestKeeps
<1>16. CASE Len(inq) # 3
  <2>0. 4 # Len(inq) + 1
    <3>1. PICK n \in Nat : n = Len(inq) /\ n # 3
        BY <1>2, <1>16
    <3>2. 4 # n + 1
        BY <3>1
    <3> QED BY <3>1, <3>2
  <2>1. 4 + l \in B /\ \A j \in 1..l : Plain(inq[3 + j])
      BY <1>5, <1>8, <2>0
  <2>2. 4 + l <= Len(inq) + 1
      BY <1>6, <2>1
  <2>3. Len(w) = l
      BY <1>2, <1>14, <2>2
  <2>4. ASSUME NEW b \in B, b <= 3 + l, b # 1  PROVE Plain(inq[b])
    <3>1. b \in Nat /\ b > 3
        BY <1>5, <1>6, <2>4
    <3>2. PICK j \in 1..l : b = 3 + j
      <4>1. b - 3 \in 1..l /\ b = 3 + (b - 3)
          BY <2>4, <3>1
      <4> QED BY <4>1
    <3> QED BY <2>1, <3>2
  <2>5. ASSUME client = "runner"  PROVE w = typed[Len(input) + 1]
    <3>1. PICK c, d : Counted(B, c, d) /\ KeysMatch(B, c, d)
        BY <1>2, <2>5 DEF Keyed
    <3>2. c[1] = Len(input) /\ KeyCut(c, 1)
        BY <1>2, <1>4, <1>6, <3>1 DEF Counted, KeysMatch
    <3>3. PICK t : t = typed[Len(input) + 1]
        OBVIOUS
    <3>4. /\ Len(input) + 1 <= Len(typed) /\ inq[2] = Len(t)
          /\ \A j \in 1..Len(t) : inq[3 + j] = t[j]
      <4>1. 1 + 1 = 2 /\ 1 + 2 = 3 /\ 1 + 3 # Len(inq) + 1
          BY <2>0
      <4> QED BY <3>2, <3>3, <4>1 DEF KeyCut
    <3>5. t \in Seq(Nat)
      <4>0. typed \in Seq(Seq(Nat) \ {<<>>}) /\ input \in Seq(Seq(Nat))
          BY <1>2 DEF Types
      <4>1. typed \in Seq(Seq(Nat) \ {<<>>}) /\ Len(input) \in Nat /\ Len(typed) \in Nat
          BY <4>0
      <4>2. Len(input) + 1 \in 1..Len(typed)
          BY <3>4, <4>1
      <4>3. typed[Len(input) + 1] \in Seq(Nat) \ {<<>>}
          BY <4>1, <4>2
      <4> QED BY <3>3, <4>3
    <3>6. Len(w) = Len(t)
        BY <1>8, <2>3, <3>4
    <3>7. ASSUME NEW i \in 1..l  PROVE w[i] = t[i]
      <4>1. i \in 1..Len(Rest(inq, 3)) /\ i \in 1..Len(w) /\ i \in 1..Len(t)
          BY <1>2, <1>13, <2>2, <2>3, <3>6
      <4> QED BY <1>13, <1>14, <3>4, <4>1
    <3>8. w = t
        BY <1>14, <2>3, <3>5, <3>6, <3>7
    <3> QED BY <3>3, <3>8
  <2>6. client = "runner" => KeysRead(B, 3 + l)
    <3>1. 3 + l > 0
        OBVIOUS
    <3> QED BY <1>4, <1>6, <1>11, <2>4, <2>5, <3>1 DEF KeysRead, Plain
  <2>7. SizesRead(B, 3 + l)
      BY <1>3, <1>4, <2>4 DEF SizesRead, Plain
  <2>8. 3 + l \in Nat /\ (3 + l) + 1 = 4 + l
      OBVIOUS
  <2>9. (3 + l) + 1 \in B
      BY <2>1, <2>8
  <2> QED BY <1>1, <1>3, <1>11, <1>12, <2>6, <2>7, <2>8, <2>9, RestKeeps
<1> QED BY <1>15, <1>16

-----------------------------------------------------------------------------
(* The theorems.                                                           *)

\* The first size is in flight, and nothing else.
LEMMA InitInv ==
    ASSUME Init
    PROVE  IInv
<1>1. PICK s \in Sizes : sizes = <<s>> /\ flight = <<Resize(s)>>
    BY DEF Init
<1>2. s \in Nat \X Nat /\ Resize(s) \in Seq(Nat)
    BY SizeFacts
<1>3. /\ client \in {"attach", "runner"} /\ half = <<>> /\ inq = <<>>
      /\ input = <<>> /\ typed = <<>> /\ conn = "open" /\ why = ""
    BY Constants, Zenon DEF Init
<1>4. /\ Len(sizes) = 1 /\ sizes[1] = s /\ Len(flight) = 1 /\ flight[1] = Resize(s)
      /\ sizes \in Seq(Nat \X Nat) /\ flight \in Seq(Seq(Nat))
    BY <1>1, <1>2
<1>0. \A T : <<>> \in Seq(T)
    OBVIOUS
<1>16. Len(<<>>) = 0
    OBVIOUS
<1>5. /\ half \in Seq(Nat) /\ inq \in Seq(Nat) /\ Len(inq) = 0 /\ Len(input) = 0
      /\ input \in Seq(Seq(Nat)) /\ typed \in Seq(Seq(Nat) \ {<<>>}) /\ Len(typed) = 0
    BY <1>0, <1>3, <1>16, Zenon
<1>17. slot \in Seq(Nat) /\ Len(slot) = 5 /\ Stale(slot)
  <2>1. slot = <<0, 0, 0, 0, 0>>
      BY DEF Init
  <2>2. /\ <<0, 0, 0, 0, 0>> \in Seq(Nat) /\ Len(<<0, 0, 0, 0, 0>>) = 5
        /\ \A i \in 1..5 : <<0, 0, 0, 0, 0>>[i] = 0
      OBVIOUS
  <2> QED BY <2>1, <2>2 DEF Stale, Plain
<1>6. Types
  <2>1. Len(sizes) > 0
      BY <1>4
  <2> QED BY <1>3, <1>4, <1>5, <1>17, <2>1, Zenon DEF Types
<1>7. flight[1][1] = 2 /\ Last(sizes) = s /\ s \in Known
    BY <1>2, <1>4, SizeBytes DEF Last, Known
<1>8. \A i \in 1..Len(flight) : i = 1
    BY <1>4
<1>9. InFlight
  <2>1. Sends(flight[1], Known)
      BY <1>4, <1>7 DEF Sends, SizeSend
  <2>2. ~HeaderSend(flight[1]) /\ ~WholeSend(flight[1])
      BY <1>7 DEF HeaderSend, WholeSend
  <2> QED BY <1>3, <1>8, <1>17, <2>1, <2>2 DEF InFlight
<1>10. Reasons
    BY <1>3 DEF Reasons
<1> DEFINE B == {1}
<1>11. \A b \in B : ~(b <= Len(inq))
    BY <1>5
<1>12. InSocket(B)
  <2>1. Cuts(inq, B, Known)
    <3>1. B \subseteq 1..(Len(inq) + 1) /\ 1 \in B /\ Len(inq) + 1 \in B
        BY <1>5
    <3> QED BY <1>11, <3>1 DEF Cuts
  <2> QED BY <1>11, <2>1 DEF InSocket, Torn
<1>13. LastSize(B)
  <2>1. SizeAt(1)
      BY <1>4, <1>7 DEF SizeAt
  <2> QED BY <1>4, <1>7, <1>8, <2>1 DEF LastSize
<1>14. Keyed(B)
  <2> DEFINE c == [j \in 1..1 |-> 0]
  <2> DEFINE d == [j \in 1..2 |-> 0]
  <2>1. c \in [1..1 -> Nat] /\ c[1] = 0 /\ d \in [1..2 -> Nat] /\ d[1] = 0 /\ d[2] = 0
      OBVIOUS
  <2> HIDE DEF c, d
  <2>2. \A j : j \notin 1..Len(inq)
      BY <1>5
  <2>3. Counted(B, c, d)
    <3>1. Len(inq) + 1 = 1 /\ Len(flight) + 1 = 2 /\ 1 + 1 = 2
        BY <1>4, <1>5
    <3>2. \A i \in 1..Len(flight) : d[i + 1] = d[i] + (IF flight[i][1] = 1 THEN 1 ELSE 0)
        BY <1>7, <1>8, <2>1, <3>1
    <3> QED BY <1>5, <2>1, <2>2, <3>1, <3>2 DEF Counted
  <2>4. KeysMatch(B, c, d)
      BY <1>7, <1>8, <1>11 DEF KeysMatch
  <2>5. Written
      BY <1>5 DEF Written
  <2> QED BY <2>3, <2>4, <2>5 DEF Keyed
<1>15. Streams(B)
    BY <1>12, <1>13, <1>14 DEF Streams
<1> QED BY <1>6, <1>9, <1>10, <1>15 DEF IInv

\* Every step keeps the invariant.
LEMMA NextInv ==
    ASSUME IInv, [Next]_vars
    PROVE  IInv'
<1>1. CASE UNCHANGED vars
  <2>1. Quiet
      BY <1>1 DEF vars, clientVars, sockVars, backVars, Quiet
  <2> QED BY <2>1, QuietKeeps
<1>2. CASE Next
  <2>1. Types'
      BY <1>2, TypesKeep DEF IInv
  <2>2. ASSUME NEW k \in Keys, TypeAttach(k) \/ TypeShift(k) \/ TypeRunner(k)  PROVE IInv'
      BY <2>1, <2>2, TypeAttachKeeps, TypeShiftKeeps, TypeRunnerKeeps
  <2>3. ASSUME NEW s \in Sizes, ResizePty(s)  PROVE IInv'
      BY <2>1, <2>3, ResizeKeeps
  <2>4. CASE SendPayload
      BY <2>1, <2>4, PayloadKeeps
  <2>5. CASE Arrive
      BY <2>1, <2>5, ArriveKeeps
  <2>6. CASE ReadZero \/ ReadUnknown
    <3>1. /\ inq' = Rest(inq, 1) /\ Byte(inq, 1) \notin {1, 2} /\ pc = "sock"
          /\ UNCHANGED <<client, conn, half, slot, flight, sizes, typed, input, winsz, why>>
        BY <2>6 DEF ReadZero, ReadUnknown, Go, clientVars, backVars
    <3> QED BY <2>1, <3>1, SkipKeeps
  <2>7. CASE ReadData
      BY <2>1, <2>7, ReadDataKeeps
  <2>8. CASE ReadResize
      BY <2>1, <2>8, ReadResizeKeeps
  <2>9. CASE \/ Show \/ SeeEnd \/ Leave \/ PollSock \/ PollTty \/ Reap
            \/ RecvFails \/ Output \/ Exit
    <3>1. /\ UNCHANGED <<client, half, slot, flight, inq, input, typed, sizes, winsz>>
          /\ conn' = conn \/ conn' = "shut"
        BY <2>9 DEF Show, SeeEnd, Leave, PollSock, PollTty, Reap, RecvFails, Output, Exit,
           clientVars, sockVars, backVars
    <3>2. why' = why \/ why' \notin {"length", "size"}
        BY <2>9 DEF Show, SeeEnd, Leave, PollSock, PollTty, Reap, RecvFails, Output, Exit, End, Go
    <3>3. pc' \in {"poll", "sock"} => pc \in {"poll", "sock"}
        BY <2>9 DEF Show, SeeEnd, Leave, PollSock, PollTty, Reap, RecvFails, Output, Exit, End, Go
    <3>4. Quiet
        BY <3>1, <3>2, <3>3 DEF Quiet
    <3> QED BY <3>4, QuietKeeps
  <2> QED BY <1>2, <2>2, <2>3, <2>4, <2>5, <2>6, <2>7, <2>8, <2>9 DEF Next, Client, Daemon
<1> QED BY <1>1, <1>2

\* The invariant of the stream holds in every state.
THEOREM StreamFramed == Spec => []IInv
<1>1. Init => IInv
    BY InitInv
<1>2. IInv /\ [Next]_vars => IInv'
    BY NextInv
<1> QED BY <1>1, <1>2, PTL DEF Spec

\* handle_tty_resize behind any mixture of whole, torn and misread messages: the tty
\* ends up with the size that was sent last, and no misread length or size ends the
\* session.
THEOREM TtySizeFollows == Spec => []SizeFollows
<1>1. IInv => SizeFollows
  <2> SUFFICES ASSUME IInv  PROVE SizeFollows
      OBVIOUS
  <2>1. PICK B : Streams(B)
      BY DEF IInv
  <2>2. Types /\ Reasons /\ InSocket(B) /\ LastSize(B)
      BY <2>1 DEF IInv, Streams
  <2>3. ASSUME flight = <<>>, inq = <<>>, pc = "poll"  PROVE winsz = Last(sizes)
    <3>1. Len(flight) = 0 /\ Len(inq) = 0
        BY <2>3
    <3>2. \A i : i \notin 1..Len(flight)
        BY <3>1
    <3>3. \A b \in B : ~SizeCut(B, b)
        BY <2>2, <3>1 DEF SizeCut, InSocket, Cuts
    <3> QED BY <2>2, <2>3, <3>2, <3>3 DEF LastSize
  <2>4. why = "size" => \E i \in 1..Len(sizes) : 0 \in {sizes[i][1], sizes[i][2]}
      BY <2>2 DEF Reasons, Known
  <2>5. why # "length"
      BY <2>2 DEF Reasons
  <2> QED BY <2>3, <2>4, <2>5 DEF SizeFollows
<1> QED BY <1>1, StreamFramed, PTL

\* write_pty against read_from_socket: each write to the runner's shell is the next
\* key that was typed, or nothing in its place.
THEOREM KeysIntact == Spec => []InputIntact
<1>1. IInv => InputIntact
    BY DEF IInv, Streams, Keyed, Written, InputIntact
<1> QED BY <1>1, StreamFramed, PTL
=============================================================================
