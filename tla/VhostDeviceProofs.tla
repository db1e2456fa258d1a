-------------------------- MODULE VhostDeviceProofs --------------------------
EXTENDS VhostDevice, GuestMemory, WellFoundedInduction, TLAPS

(* Proofs about the device thread of src/oathgate-vhost/src/device.rs.       *)
(*                                                                         *)
(* IInv is inductive.  Its parts follow the code: the packets of the       *)
(* channel are numbered (PacketsNumbered); the front end waits for an      *)
(* answer before it sends again, so a vring is started once before it is   *)
(* stopped (AnswersAwaited, StartsOnce); the kick descriptor of a queue    *)
(* that is ready sits in kick_fds under the queue's own token              *)
(* (TokensOwned); and the kicks of a batch that are not read yet are of    *)
(* different queues and have their eventfd set (BatchReadable).  The       *)
(* proofs sort the steps by what they do to the packets, to the stream and *)
(* to the batch, and treat each sort once.                                 *)
(*                                                                         *)
(* ChainsNumbered adds the descriptor chains, start by start: what is given *)
(* back after a SET_VRING_BASE follows the base it names.                  *)

-----------------------------------------------------------------------------
(* Sequences. *)

\* What Tail leaves.
LEMMA TailFacts ==
    ASSUME NEW T, NEW s \in Seq(T), s # <<>>
    PROVE  /\ Tail(s) \in Seq(T) /\ Len(s) \in Nat /\ Len(s) > 0
           /\ Len(Tail(s)) = Len(s) - 1 /\ Head(s) = s[1] /\ Head(s) \in T
           /\ \A i \in 1..Len(Tail(s)) : Tail(s)[i] = s[i + 1] /\ i + 1 \in 1..Len(s)
  OBVIOUS

\* What Append adds.
LEMMA AppendFacts ==
    ASSUME NEW T, NEW s \in Seq(T), NEW x \in T
    PROVE  /\ Append(s, x) \in Seq(T) /\ Len(s) \in Nat
           /\ Len(Append(s, x)) = Len(s) + 1 /\ Append(s, x)[Len(s) + 1] = x
           /\ \A i \in 1..Len(s) : Append(s, x)[i] = s[i]
           /\ \A i \in 1..(Len(s) + 1) : i \in 1..Len(s) \/ i = Len(s) + 1
  OBVIOUS

\* The empty sequence.
LEMMA EmptyFacts ==
    ASSUME NEW T, NEW s, s = <<>>
    PROVE  s \in Seq(T) /\ Len(s) = 0 /\ \A i : i \notin 1..Len(s)
<1>1. s \in Seq(T) /\ Len(s) = 0
    OBVIOUS
<1> QED BY <1>1

-----------------------------------------------------------------------------
(* Keep. *)

\* A set of numbers that is not empty has a least one.
LEMMA LeastIndex ==
    ASSUME NEW S, S \subseteq Nat, S # {}
    PROVE  \E i \in S : \A j \in S : i <= j
<1> DEFINE R == OpToRel(<, Nat)
<1>1. \A x, y \in Nat : x < y => <<x, y>> \in R
    BY DEF OpToRel
<1>2. IsWellFoundedOn(R, Nat)
    BY NatLessThanWellFounded, Zenon
<1> HIDE DEF R
<1>3. PICK x \in S : \A y \in S : ~(<<y, x>> \in R)
    BY <1>2, WFMin, Zenon
<1>4. \A y \in S : ~(y < x)
    BY <1>1, <1>3
<1>5. \A y \in S : x <= y
    BY <1>4
<1> QED BY <1>5

\* The recursion that Keep stands for, up to position n.
Keeps(f, list, set, n) ==
    /\ f[0] = <<>>
    /\ \A i \in 1..n : f[i] = IF list[i] \in set THEN Append(f[i - 1], list[i]) ELSE f[i - 1]

\* A function with that recursion exists: up to a least position without one there
\* would be one.
LEMMA KeepExists ==
    ASSUME NEW T, NEW list \in Seq(T), NEW set
    PROVE  \E f : /\ DOMAIN f = 0..Len(list) /\ f = [i \in 0..Len(list) |-> f[i]]
                  /\ Keeps(f, list, set, Len(list))
<1> DEFINE Good(m) == \E f \in [0..m -> Seq(T)] : Keeps(f, list, set, m)
           Bad == {m \in 0..Len(list) : ~Good(m)}
<1>1. Len(list) \in Nat /\ \A i \in 1..Len(list) : list[i] \in T
    OBVIOUS
<1>2. ASSUME NEW m \in 0..Len(list), \A k \in 0..Len(list) : k < m => Good(k)
      PROVE  Good(m)
    <2>1. CASE m = 0
        <3> DEFINE f == [i \in 0..0 |-> <<>>]
        <3>1. f \in [0..0 -> Seq(T)] /\ f[0] = <<>>
            OBVIOUS
        <3> HIDE DEF f
        <3> QED BY <2>1, <3>1 DEF Keeps
    <2>2. CASE m # 0
        <3>1. m - 1 \in 0..Len(list) /\ m - 1 < m /\ m \in 1..Len(list)
            BY <1>1, <2>2
        <3>2. PICK f \in [0..(m - 1) -> Seq(T)] : Keeps(f, list, set, m - 1)
            BY <1>2, <3>1
        <3> DEFINE last == IF list[m] \in set THEN Append(f[m - 1], list[m]) ELSE f[m - 1]
                   g == [i \in 0..m |-> IF i = m THEN last ELSE f[i]]
        <3>3. last \in Seq(T)
            BY <1>1, <3>1
        <3> HIDE DEF last
        <3>4. g \in [0..m -> Seq(T)] /\ g[m] = last /\ \A i \in 0..(m - 1) : g[i] = f[i]
            BY <3>1, <3>3
        <3> HIDE DEF g
        <3>5. Keeps(g, list, set, m)
            <4>1. g[0] = <<>>
                BY <3>1, <3>2, <3>4 DEF Keeps
            <4>2. ASSUME NEW i \in 1..m
                  PROVE  g[i] = IF list[i] \in set THEN Append(g[i - 1], list[i]) ELSE g[i - 1]
                <5>1. CASE i = m
                    BY <3>1, <3>4, <5>1 DEF last
                <5>2. CASE i # m
                    <6>1. i \in 1..(m - 1) /\ i - 1 \in 0..(m - 1) /\ i \in 0..(m - 1)
                        BY <3>1, <5>2
                    <6>2. f[i] = IF list[i] \in set THEN Append(f[i - 1], list[i]) ELSE f[i - 1]
                        BY <3>2, <6>1 DEF Keeps
                    <6> QED BY <3>4, <6>1, <6>2
                <5> QED BY <5>1, <5>2
            <4> QED BY <4>1, <4>2 DEF Keeps
        <3> QED BY <3>4, <3>5
    <2> QED BY <2>1, <2>2
<1> HIDE DEF Good
<1>3. ASSUME Bad # {} PROVE FALSE
    <2>1. Bad \subseteq Nat
        BY <1>1
    <2>2. PICK m \in Bad : \A j \in Bad : m <= j
        BY <1>3, <2>1, LeastIndex
    <2>3. \A k \in 0..Len(list) : k < m => Good(k)
        BY <1>1, <2>2
    <2> QED BY <1>2, <2>2, <2>3
<1>4. Good(Len(list))
    BY <1>1, <1>3
<1> QED BY <1>4 DEF Good

\* Keep is the last value of such a function.
LEMMA KeepIs ==
    ASSUME NEW T, NEW list \in Seq(T), NEW set
    PROVE  \E f : Keeps(f, list, set, Len(list)) /\ Keep(list, set) = f[Len(list)]
<1> DEFINE Rec(f) == [i \in 0..Len(list) |-> IF i = 0 THEN <<>>
            ELSE IF list[i] \in set THEN Append(f[i - 1], list[i])
            ELSE f[i - 1]]
  kept == CHOOSE f : f = Rec(f)
<1>1. Keep(list, set) = kept[Len(list)]
   BY DEF Keep
<1>2. \E f : f = Rec(f)
    <2>1. PICK f : /\ DOMAIN f = 0..Len(list) /\ f = [i \in 0..Len(list) |-> f[i]]
                  /\ Keeps(f, list, set, Len(list))
      BY KeepExists
    <2>2. ASSUME NEW i \in 0..Len(list) PROVE f[i] = Rec(f)[i]
        <3>1. Rec(f)[i] = IF i = 0 THEN <<>>
                          ELSE IF list[i] \in set THEN Append(f[i - 1], list[i]) ELSE f[i - 1]
            OBVIOUS
        <3> HIDE DEF Rec
        <3>2. CASE i = 0
            BY <2>1, <3>1, <3>2 DEF Keeps
        <3>3. CASE i # 0
            <4>1. i \in 1..Len(list)
                BY <3>3
            <4> QED BY <2>1, <3>1, <3>3, <4>1 DEF Keeps
        <3> QED BY <3>2, <3>3
    <2> DEFINE g == Rec(f)
    <2>3. DOMAIN g = 0..Len(list) /\ g = [i \in DOMAIN g |-> g[i]]
        OBVIOUS
    <2>4. \A i \in 0..Len(list) : f[i] = g[i]
        BY <2>2
    <2> HIDE DEF g
    <2>5. f = g
        BY ONLY <2>1, <2>3, <2>4
    <2> QED BY <2>5 DEF g
<1> HIDE DEF Rec
<1>3. kept = Rec(kept)
   BY <1>2
<1> HIDE DEF kept
<1>4. Keeps(kept, list, set, Len(list))
    <2>1. Len(list) \in Nat
        OBVIOUS
    <2>2. \A i \in 0..Len(list) : Rec(kept)[i] = IF i = 0 THEN <<>>
            ELSE IF list[i] \in set THEN Append(kept[i - 1], list[i])
            ELSE kept[i - 1]
        BY DEF Rec
    <2>3. \A i \in 0..Len(list) : kept[i] = IF i = 0 THEN <<>>
            ELSE IF list[i] \in set THEN Append(kept[i - 1], list[i])
            ELSE kept[i - 1]
        BY <1>3, <2>2
    <2> QED BY ONLY <2>1, <2>3 DEF Keeps
<1> QED BY <1>1, <1>4

\* Keep keeps members of the set only, in a list without repetition if the
\* given one has none.
LEMMA KeepFacts ==
    ASSUME NEW T, NEW list \in Seq(T), NEW set
    PROVE  /\ Keep(list, set) \in Seq(T)
           /\ \A k \in 1..Len(Keep(list, set)) : /\ Keep(list, set)[k] \in set
                                               /\ \E j \in 1..Len(list) : Keep(list, set)[k] = list[j]
           /\ Distinct(list) => Distinct(Keep(list, set))
<1>1. PICK f : Keeps(f, list, set, Len(list)) /\ Keep(list, set) = f[Len(list)]
    BY KeepIs
<1>2. Len(list) \in Nat /\ \A i \in 1..Len(list) : list[i] \in T
    OBVIOUS
<1> DEFINE Good(m) ==
               /\ f[m] \in Seq(T)
               /\ \A k \in 1..Len(f[m]) : f[m][k] \in set /\ \E j \in 1..m : f[m][k] = list[j]
               /\ Distinct(list) => Distinct(f[m])
           Bad == {m \in 0..Len(list) : ~Good(m)}
<1>3. ASSUME NEW m \in 0..Len(list), \A k \in 0..Len(list) : k < m => Good(k)
      PROVE  Good(m)
    <2>1. CASE m = 0
        <3>1. f[m] = <<>>
            BY <1>1, <2>1 DEF Keeps
        <3> DEFINE u == f[m]
        <3>2. u \in Seq(T) /\ Len(u) = 0
            BY <3>1
        <3> HIDE DEF u
        <3>3. /\ u \in Seq(T)
              /\ \A k \in 1..Len(u) : u[k] \in set /\ \E j \in 1..m : u[k] = list[j]
              /\ Distinct(list) => Distinct(u)
            BY ONLY <3>2 DEF Distinct
        <3> QED BY <3>3 DEF u
    <2>2. CASE m # 0
        <3>1. m - 1 \in 0..Len(list) /\ m - 1 < m /\ m \in 1..Len(list)
            BY <1>2, <2>2
        <3>2. Good(m - 1)
            BY <1>3, <3>1
        <3>3. f[m] = IF list[m] \in set THEN Append(f[m - 1], list[m]) ELSE f[m - 1]
            BY <1>1, <3>1 DEF Keeps
        <3> DEFINE s == f[m - 1]
                   u == f[m]
        <3>4. /\ s \in Seq(T)
              /\ \A k \in 1..Len(s) : s[k] \in set /\ \E j \in 1..(m - 1) : s[k] = list[j]
              /\ Distinct(list) => Distinct(s)
            BY <3>2
        <3>5. u = IF list[m] \in set THEN Append(s, list[m]) ELSE s
            BY <3>3
        <3> HIDE DEF s, u
        <3>6. CASE list[m] \notin set
            <4>1. u = s
                BY <3>5, <3>6
            <4>2. \A j : j \in 1..(m - 1) => j \in 1..m
                BY <3>1
            <4>3. /\ u \in Seq(T)
                  /\ \A k \in 1..Len(u) : u[k] \in set /\ \E j \in 1..m : u[k] = list[j]
                  /\ Distinct(list) => Distinct(u)
                BY ONLY <3>4, <4>1, <4>2
            <4> QED BY <4>3 DEF u
        <3>7. CASE list[m] \in set
            <4> DEFINE x == list[m]
            <4>1. u = Append(s, x) /\ x \in T /\ x \in set
                BY <1>2, <3>1, <3>5, <3>7
            <4>2. /\ u \in Seq(T) /\ Len(u) = Len(s) + 1 /\ Len(s) \in Nat /\ u[Len(s) + 1] = x
                  /\ \A k \in 1..Len(s) : u[k] = s[k]
                BY <3>4, <4>1
            <4>3. \A k \in 1..Len(u) : k = Len(s) + 1 \/ k \in 1..Len(s)
                BY <4>2
            <4>4. ASSUME NEW k \in 1..Len(u) PROVE u[k] \in set /\ \E j \in 1..m : u[k] = list[j]
                <5>1. CASE k = Len(s) + 1
                    <6>1. u[k] = list[m] /\ m \in 1..m
                        BY <3>1, <4>2, <5>1
                    <6> QED BY <3>7, <6>1
                <5>2. CASE k \in 1..Len(s)
                    <6>1. PICK j \in 1..(m - 1) : s[k] = list[j]
                        BY <3>4, <5>2
                    <6>2. j \in 1..m /\ u[k] = s[k] /\ s[k] \in set
                        BY <3>1, <3>4, <4>2, <5>2
                    <6> QED BY <6>1, <6>2
                <5> QED BY <4>3, <5>1, <5>2
            <4>5. ASSUME Distinct(list) PROVE Distinct(u)
                <5>1. \A k \in 1..Len(s) : s[k] # x
                    <6> SUFFICES ASSUME NEW k \in 1..Len(s), s[k] = x PROVE FALSE
                        OBVIOUS
                    <6>1. PICK j \in 1..(m - 1) : s[k] = list[j]
                        BY <3>4
                    <6>2. j \in 1..Len(list) /\ j # m /\ list[j] = list[m]
                        BY <1>2, <3>1, <6>1
                    <6> QED BY <3>1, <4>5, <6>2 DEF Distinct
                <5>2. Distinct(s)
                    BY <3>4, <4>5
                <5> QED BY ONLY <4>2, <4>3, <5>1, <5>2 DEF Distinct
            <4>6. /\ u \in Seq(T)
                  /\ \A k \in 1..Len(u) : u[k] \in set /\ \E j \in 1..m : u[k] = list[j]
                  /\ Distinct(list) => Distinct(u)
                BY <4>2, <4>4, <4>5
            <4> QED BY <4>6 DEF u
        <3> QED BY <3>6, <3>7
    <2> QED BY <2>1, <2>2
<1> HIDE DEF Good
<1>4. ASSUME Bad # {} PROVE FALSE
    <2>1. Bad \subseteq Nat
        BY <1>2
    <2>2. PICK m \in Bad : \A j \in Bad : m <= j
        BY <1>4, <2>1, LeastIndex
    <2>3. \A k \in 0..Len(list) : k < m => Good(k)
        BY <1>2, <2>2
    <2> QED BY <1>3, <2>2, <2>3
<1>5. Good(Len(list))
    BY <1>2, <1>4
<1> QED BY <1>1, <1>5 DEF Good


-----------------------------------------------------------------------------
(* LAN packets. *)

\* A step that leaves the packets alone, and ends the thread or lets it be.
Quiet ==
    /\ UNCHANGED <<lan, delivered, pending>>
    /\ \/ UNCHANGED death /\ (pc' = "dead" <=> pc = "dead")
       \/ pc # "dead" /\ pc' = "dead" /\ death' \notin {"", "WriteZero"}

\* Every step but the arrival and the delivery of a packet is quiet.
LEMMA QuietSteps ==
    ASSUME Next, ~RxOne, ~Push
    PROVE  Quiet
<1>1. ASSUME Poll PROVE Quiet
    BY <1>1 DEF Poll, Quiet, AtStream, threadVars, queueVars, devVars, kernelVars,
           lanVars, guestVars, feVars
<1>2. ASSUME StreamDrained PROVE Quiet
    BY <1>2 DEF StreamDrained, EventDone, Quiet, AtStream, threadVars, queueVars,
           devVars, kernelVars, lanVars, guestVars, feVars
<1>3. ASSUME StreamClosed PROVE Quiet
    BY <1>3 DEF StreamClosed, Die, Quiet, AtStream, threadVars, queueVars, devVars,
           kernelVars, lanVars, guestVars, feVars
<1>4. ASSUME Query PROVE Quiet
    BY <1>4 DEF Query, ReadOk, ReadErr, ReadMsg, Die, Quiet, AtStream, threadVars,
           queueVars, devVars, kernelVars, lanVars, guestVars, feVars
<1>5. ASSUME Note PROVE Quiet
    BY <1>5 DEF Note, ReadOk, ReadMsg, Quiet, AtStream, threadVars, queueVars, devVars,
           kernelVars, lanVars, guestVars, feVars
<1>6. ASSUME GetConfig PROVE Quiet
    BY <1>6 DEF GetConfig, ReadOk, ReadMsg, Quiet, AtStream, threadVars, queueVars,
           devVars, kernelVars, lanVars, guestVars, feVars
<1>7. ASSUME SetOwner PROVE Quiet
    BY <1>7 DEF SetOwner, ReadOk, ReadErr, ReadMsg, Die, Quiet, AtStream, threadVars, queueVars,
           devVars, kernelVars, lanVars, guestVars, feVars
<1>8. ASSUME SetBackendReqFd PROVE Quiet
    BY <1>8 DEF SetBackendReqFd, MissingFd, ReadOk, ReadErr, ReadMsg, Die, Quiet,
           AtStream, threadVars, queueVars, devVars, kernelVars, lanVars, guestVars, feVars
<1>9. ASSUME SetStatus PROVE Quiet
    BY <1>9 DEF SetStatus, ReadOk, ReadMsg, Quiet, AtStream, threadVars, queueVars,
           devVars, kernelVars, lanVars, guestVars, feVars
<1>10. ASSUME SetVringErr PROVE Quiet
    BY <1>10 DEF SetVringErr, MissingFd, ReadOk, ReadErr, ReadMsg, Die, Quiet, AtStream,
           threadVars, queueVars, devVars, kernelVars, lanVars, guestVars, feVars
<1>11. ASSUME SetMemTable PROVE Quiet
    BY <1>11 DEF SetMemTable, MissingFd, ReadOk, ReadErr, ReadMsg, Die, Quiet, AtStream,
           threadVars, queueVars, devVars, kernelVars, lanVars, guestVars, feVars
<1>12. ASSUME SetVringBase PROVE Quiet
    BY <1>12 DEF SetVringBase, ReadOk, ReadMsg, Quiet, AtStream, threadVars, queueVars,
           devVars, kernelVars, lanVars, guestVars, feVars
<1>13. ASSUME SetVringAddr PROVE Quiet
    BY <1>13 DEF SetVringAddr, ReadOk, ReadErr, ReadMsg, Die, Quiet, AtStream,
           threadVars, queueVars, devVars, kernelVars, lanVars, guestVars, feVars
<1>14. ASSUME SetVringKick PROVE Quiet
    BY <1>14 DEF SetVringKick, MissingFd, ReadOk, ReadErr, ReadMsg, Die, Quiet,
           AtStream, threadVars, queueVars, devVars, kernelVars, lanVars, guestVars, feVars
<1>15. ASSUME SetVringCall PROVE Quiet
    BY <1>15 DEF SetVringCall, MissingFd, ReadOk, ReadErr, ReadMsg, Die, Quiet,
           AtStream, threadVars, queueVars, devVars, kernelVars, lanVars, guestVars, feVars
<1>16. ASSUME SetVringEnable PROVE Quiet
    BY <1>16 DEF SetVringEnable, ReadOk, ReadMsg, Quiet, AtStream, threadVars,
           queueVars, devVars, kernelVars, lanVars, guestVars, feVars
<1>17. ASSUME GetVringBase PROVE Quiet
    BY <1>17 DEF GetVringBase, ReadOk, ReadErr, ReadMsg, Die, Quiet, AtStream,
           threadVars, queueVars, devVars, kernelVars, lanVars, guestVars, feVars
<1>18. ASSUME HandleWake PROVE Quiet
    BY <1>18 DEF HandleWake, handle_rx_queued, EventDone, Die, Quiet, AtStream,
           threadVars, queueVars, devVars, kernelVars, lanVars, guestVars, feVars
<1>19. ASSUME kick_rx PROVE Quiet
    BY <1>19 DEF kick_rx, ReadKick, handle_rx_queued, EventDone, Die, Quiet, AtStream,
           threadVars, queueVars, devVars, kernelVars, lanVars, guestVars, feVars
<1>20. ASSUME RxDone PROVE Quiet
    BY <1>20 DEF RxDone, call, EventDone, Die, Quiet, AtStream, threadVars, queueVars,
           devVars, kernelVars, lanVars, guestVars, feVars
<1>21. ASSUME kick_tx PROVE Quiet
    BY <1>21 DEF kick_tx, ReadKick, TxFailure, EventDone, Die, Quiet, AtStream,
           threadVars, queueVars, devVars, kernelVars, lanVars, guestVars, feVars
<1>22. ASSUME TxOne PROVE Quiet
    BY <1>22 DEF TxOne, Die, Quiet, AtStream, threadVars, queueVars, devVars,
           kernelVars, lanVars, guestVars, feVars
<1>23. ASSUME TxDone PROVE Quiet
    BY <1>23 DEF TxDone, call, EventDone, Die, Quiet, AtStream, threadVars, queueVars,
           devVars, kernelVars, lanVars, guestVars, feVars
<1>24. ASSUME Wake PROVE Quiet
    BY <1>24 DEF Wake, Quiet, AtStream, threadVars, queueVars, devVars, kernelVars,
           lanVars, guestVars, feVars
<1>25. ASSUME NEW q, NEW buf, Post(q, buf) PROVE Quiet
    BY <1>25 DEF Post, Quiet, AtStream, threadVars, queueVars, devVars, kernelVars,
           lanVars, guestVars, feVars
<1>26. ASSUME NEW q, Kick(q) PROVE Quiet
    BY <1>26 DEF Kick, Quiet, AtStream, threadVars, queueVars, devVars, kernelVars,
           lanVars, guestVars, feVars
<1>27. ASSUME SendPlain PROVE Quiet
    BY <1>27 DEF SendPlain, SendMsg, Extra, Quiet, AtStream, threadVars, queueVars,
           devVars, kernelVars, lanVars, guestVars, feVars
<1>28. ASSUME Close PROVE Quiet
    BY <1>28 DEF Close, Quiet, AtStream, threadVars, queueVars, devVars, kernelVars,
           lanVars, guestVars, feVars
<1>29. ASSUME NEW q, SendBase(q) PROVE Quiet
    BY <1>29 DEF SendBase, SendMsg, NextPhase, Quiet, AtStream, threadVars, queueVars,
           devVars, kernelVars, lanVars, guestVars, feVars
<1>30. ASSUME NEW q, SendAddr(q) PROVE Quiet
    BY <1>30 DEF SendAddr, SendMsg, NextPhase, Quiet, AtStream, threadVars, queueVars,
           devVars, kernelVars, lanVars, guestVars, feVars
<1>31. ASSUME NEW q, SendKick(q) PROVE Quiet
    BY <1>31 DEF SendKick, SendMsg, NextPhase, Quiet, AtStream, threadVars, queueVars,
           devVars, kernelVars, lanVars, guestVars, feVars
<1>32. ASSUME NEW q, SendCallOrEnable(q) PROVE Quiet
    BY <1>32 DEF SendCallOrEnable, SendMsg, Extra, Quiet, AtStream, threadVars,
           queueVars, devVars, kernelVars, lanVars, guestVars, feVars
<1>33. ASSUME NEW q, SendStop(q) PROVE Quiet
    BY <1>33 DEF SendStop, SendMsg, Quiet, AtStream, threadVars, queueVars, devVars,
           kernelVars, lanVars, guestVars, feVars
<1> QED BY <1>1, <1>2, <1>3, <1>4, <1>5, <1>6, <1>7, <1>8, <1>9, <1>10, <1>11,
       <1>12, <1>13, <1>14, <1>15, <1>16, <1>17, <1>18, <1>19, <1>20, <1>21,
       <1>22, <1>23, <1>24, <1>25, <1>26, <1>27, <1>28, <1>29, <1>30, <1>31,
       <1>32, <1>33
    DEF Next, Device, parse_msg, Guest, FrontEnd

\* A quiet step loses no packet and keeps the order.
LEMMA QuietKeeps ==
    ASSUME PacketsNumbered, DeadForACause, Quiet
    PROVE  (PacketsNumbered /\ DeadForACause)'
<1>1. CASE UNCHANGED death /\ (pc' = "dead" <=> pc = "dead")
    BY <1>1 DEF PacketsNumbered, DeadForACause, Quiet, Lost
<1>2. CASE pc # "dead" /\ pc' = "dead" /\ death' \notin {"", "WriteZero"}
    BY <1>2 DEF PacketsNumbered, DeadForACause, Quiet, Lost
<1> QED BY <1>1, <1>2 DEF Quiet

\* enqueue numbers the packet after the last one.
LEMMA PushKeeps ==
    ASSUME PacketsNumbered, DeadForACause, Push
    PROVE  (PacketsNumbered /\ DeadForACause)'
<1>1. /\ lan' = lan + 1 /\ pending' = Append(pending, lan + 1)
      /\ UNCHANGED <<delivered, death, pc>>
    BY DEF Push, threadVars, guestVars
<1>2. /\ lan \in Nat /\ pending \in Seq(Nat) /\ lan + 1 \in Nat /\ delivered \in Seq(Nat)
      /\ Len(delivered) \in Nat /\ Len(delivered) + Lost + Len(pending) = lan /\ Lost \in {0, 1}
    BY DEF PacketsNumbered, Lost
<1>3. Lost' = Lost
    BY <1>1 DEF Lost
<1>4. /\ pending' \in Seq(Nat) /\ Len(pending') = Len(pending) + 1 /\ Len(pending) \in Nat
      /\ pending'[Len(pending) + 1] = lan + 1
      /\ \A i \in 1..Len(pending) : pending'[i] = pending[i]
      /\ \A i \in 1..(Len(pending) + 1) : i \in 1..Len(pending) \/ i = Len(pending) + 1
    BY <1>1, <1>2, AppendFacts
<1>5. ASSUME NEW i \in 1..Len(pending') PROVE pending'[i] = Len(delivered') + Lost' + i
    <2>1. CASE i \in 1..Len(pending)
        BY <1>1, <1>3, <1>4, <2>1 DEF PacketsNumbered
    <2>2. CASE i = Len(pending) + 1
        BY <1>1, <1>2, <1>3, <1>4, <2>2
    <2> QED BY <1>4, <2>1, <2>2
<1>6. Len(delivered') + Lost' + Len(pending') = lan'
    BY <1>1, <1>2, <1>3, <1>4
<1>7. DeadForACause'
    BY <1>1 DEF DeadForACause
<1> QED BY <1>1, <1>2, <1>4, <1>5, <1>6, <1>7 DEF PacketsNumbered

\* handle_rx_queued takes the oldest packet: it is delivered, or it is the one
\* that is lost when the thread ends.
LEMMA RxOneKeeps ==
    ASSUME PacketsNumbered, DeadForACause, RxOne
    PROVE  (PacketsNumbered /\ DeadForACause)'
<1>1. /\ pc = "rx" /\ pending # <<>> /\ pending' = Tail(pending) /\ lan' = lan
      /\ \/ delivered' = Append(delivered, Head(pending)) /\ UNCHANGED <<pc, death>>
         \/ delivered' = delivered /\ pc' = "dead" /\ death' = "WriteZero"
    BY DEF RxOne, Die
<1>2. death = "" /\ Lost = 0
    BY <1>1 DEF DeadForACause, Lost
<1>3. /\ lan \in Nat /\ delivered \in Seq(Nat) /\ pending \in Seq(Nat)
      /\ Len(delivered) + Len(pending) = lan
      /\ \A i \in 1..Len(delivered) : delivered[i] = i
      /\ \A i \in 1..Len(pending) : pending[i] = Len(delivered) + i
    <2>1. /\ lan \in Nat /\ delivered \in Seq(Nat) /\ pending \in Seq(Nat)
          /\ Len(delivered) + 0 + Len(pending) = lan
          /\ \A i \in 1..Len(delivered) : delivered[i] = i
          /\ \A i \in 1..Len(pending) : pending[i] = Len(delivered) + 0 + i
        BY <1>2 DEF PacketsNumbered
    <2>2. Len(delivered) \in Nat /\ Len(pending) \in Nat
        BY <2>1
    <2> QED BY <2>1, <2>2
<1>4. /\ pending' \in Seq(Nat) /\ Len(pending) \in Nat /\ Len(pending) > 0
      /\ Len(pending') = Len(pending) - 1 /\ Head(pending) = pending[1]
      /\ \A i \in 1..Len(pending') : pending'[i] = pending[i + 1] /\ i + 1 \in 1..Len(pending)
    BY <1>1, <1>3, TailFacts
<1>5. Head(pending) = Len(delivered) + 1 /\ Len(delivered) \in Nat
    BY <1>3, <1>4
<1>6. CASE delivered' = Append(delivered, Head(pending)) /\ UNCHANGED <<pc, death>>
    <2>1. Lost' = 0
        BY <1>2, <1>6 DEF Lost
    <2>2. /\ delivered' \in Seq(Nat) /\ Len(delivered') = Len(delivered) + 1
          /\ delivered'[Len(delivered) + 1] = Len(delivered) + 1
          /\ \A i \in 1..Len(delivered) : delivered'[i] = delivered[i]
          /\ \A i \in 1..(Len(delivered) + 1) : i \in 1..Len(delivered) \/ i = Len(delivered) + 1
        BY <1>3, <1>5, <1>6, AppendFacts
    <2>3. \A i \in 1..Len(delivered') : delivered'[i] = i
        BY <1>3, <2>2
    <2>4. \A i \in 1..Len(pending') : pending'[i] = Len(delivered') + Lost' + i
        BY <1>3, <1>4, <1>5, <2>1, <2>2
    <2>5. Len(delivered') + Lost' + Len(pending') = lan'
        <3>1. /\ lan' = lan /\ Len(delivered) + Len(pending) = lan
              /\ Len(delivered) \in Nat /\ Len(pending) \in Nat
              /\ Len(pending') = Len(pending) - 1 /\ Len(delivered') = Len(delivered) + 1
            BY <1>1, <1>3, <1>4, <1>5, <2>2
        <3> QED BY ONLY <2>1, <3>1
    <2>6. DeadForACause'
        BY <1>6 DEF DeadForACause
    <2> QED BY <1>1, <1>3, <1>4, <2>2, <2>3, <2>4, <2>5, <2>6 DEF PacketsNumbered
<1>7. CASE delivered' = delivered /\ pc' = "dead" /\ death' = "WriteZero"
    <2>1. Lost' = 1
        BY <1>7 DEF Lost
    <2>2. \A i \in 1..Len(pending') : pending'[i] = Len(delivered') + Lost' + i
        BY <1>3, <1>4, <1>5, <1>7, <2>1
    <2>3. Len(delivered') + Lost' + Len(pending') = lan'
        <3>1. /\ lan' = lan /\ Len(delivered) + Len(pending) = lan
              /\ Len(delivered) \in Nat /\ Len(pending) \in Nat
              /\ Len(pending') = Len(pending) - 1 /\ Len(delivered') = Len(delivered)
            BY <1>1, <1>3, <1>4, <1>5, <1>7
        <3> QED BY ONLY <2>1, <3>1
    <2>4. DeadForACause'
        BY <1>7 DEF DeadForACause
    <2> QED BY <1>1, <1>3, <1>4, <1>7, <2>2, <2>3, <2>4 DEF PacketsNumbered
<1> QED BY <1>1, <1>6, <1>7

\* The packets stay in order whatever the thread and its neighbours do.
LEMMA PacketsStep ==
    ASSUME PacketsNumbered, DeadForACause, [Next]_vars
    PROVE  (PacketsNumbered /\ DeadForACause)'
<1>1. CASE RxOne
    BY <1>1, RxOneKeeps
<1>2. CASE Push
    BY <1>2, PushKeeps
<1>3. CASE Next /\ ~RxOne /\ ~Push
    BY <1>3, QuietSteps, QuietKeeps
<1>4. CASE UNCHANGED vars
    <2>1. Quiet
        BY <1>4 DEF Quiet, vars, threadVars, lanVars, guestVars
    <2> QED BY <2>1, QuietKeeps
<1> QED BY <1>1, <1>2, <1>3, <1>4

\* Packet by packet is what RxInOrder says of the sequences.
LEMMA NumberedInOrder ==
    ASSUME PacketsNumbered
    PROVE  RxInOrder
<1>1. /\ lan \in Nat /\ delivered \in Seq(Nat) /\ pending \in Seq(Nat)
      /\ Len(delivered) \in Nat /\ Len(pending) \in Nat
      /\ Len(delivered) + Lost + Len(pending) = lan
      /\ \A i \in 1..Len(delivered) : delivered[i] = i
      /\ \A i \in 1..Len(pending) : pending[i] = Len(delivered) + Lost + i
    BY DEF PacketsNumbered
<1>2. CASE death = "WriteZero"
    <2>1. Lost = 1
        BY <1>2 DEF Lost
    <2>2. delivered = Upto(Len(delivered))
        BY <1>1 DEF Upto
    <2>3. pending = [i \in 1..(lan - Len(delivered) - 1) |-> Len(delivered) + 1 + i]
        <3>1. PICK k \in Nat : k = Len(pending)
            BY <1>1
        <3>2. lan - Len(delivered) - 1 = k
            BY <1>1, <2>1, <3>1
        <3>3. pending = [i \in 1..k |-> pending[i]]
            BY <1>1, <3>1
        <3>4. \A i \in 1..k : pending[i] = Len(delivered) + 1 + i
            BY <1>1, <2>1, <3>1
        <3> QED BY ONLY <3>2, <3>3, <3>4
    <2> QED BY <1>2, <2>2, <2>3 DEF RxInOrder
<1>3. CASE death # "WriteZero"
    <2>1. Lost = 0
        BY <1>3 DEF Lost
    <2> DEFINE s == delivered \o pending
    <2>2. s \in Seq(Nat) /\ Len(s) = lan
        BY <1>1, <2>1
    <2>3. ASSUME NEW i \in 1..lan PROVE s[i] = i
        <3>1. CASE i <= Len(delivered)
            BY <1>1, <3>1
        <3>2. CASE i > Len(delivered)
            <4>1. s[i] = pending[i - Len(delivered)] /\ i - Len(delivered) \in 1..Len(pending)
                BY <1>1, <2>1, <3>2
            <4> QED BY <1>1, <2>1, <4>1
        <3>3. i <= Len(delivered) \/ i > Len(delivered)
            BY <1>1
        <3> QED BY <3>1, <3>2, <3>3
    <2> HIDE DEF s
    <2>4. s = Upto(lan)
        BY <1>1, <2>2, <2>3 DEF Upto
    <2> QED BY <1>3, <2>4 DEF RxInOrder, s
<1> QED BY <1>2, <1>3

-----------------------------------------------------------------------------
(* The control stream. *)

\* A step that neither sends nor reads a message, nor touches the queues' state.
StreamIdle ==
    UNCHANGED <<stream, awaiting, phase, base, starts, ready, kick_fd, kick_fds,
                registered>>

\* A message is read that neither starts nor stops a vring.
Took ==
    /\ stream # <<>> /\ stream' = Tail(stream)
    /\ awaiting' = awaiting \/ (awaiting' = FALSE /\ Head(stream).kind \in Answered)
    /\ UNCHANGED <<phase, base, starts, ready, kick_fd, kick_fds, registered>>

\* Message m is sent.
Sends(m) ==
    /\ m \in Messages /\ awaiting = FALSE
    /\ stream' = Append(stream, m)
    /\ awaiting' \in BOOLEAN /\ (m.kind \in Answered => awaiting' = TRUE)
    /\ phase' \in [Queues -> {"idle", "based", "addressed", "running"}]
    /\ starts' \in [Queues -> Nat]
    /\ \A q \in Queues : phase[q] = "running" => phase'[q] = "running"
    /\ m.kind = "SET_VRING_KICK" => phase[m.q] # "running" /\ phase'[m.q] = "running"
    /\ m.kind = "SET_VRING_BASE" => m.num = base[m.q] /\ starts[m.q] < MaxStarts
    /\ m.kind = "SET_VRING_KICK" => starts'[m.q] > 0
    /\ \A q \in Queues : starts[q] > 0 => starts'[q] > 0
    /\ UNCHANGED <<base, ready, kick_fd, kick_fds, registered, next_avail>>

\* SET_VRING_KICK is read and starts its vring.
Started ==
    LET q == Head(stream).q
        token == Len(kick_fds) + 2 IN
    /\ stream # <<>> /\ stream' = Tail(stream) /\ Head(stream).kind = "SET_VRING_KICK"
    /\ kick_fd' = [kick_fd EXCEPT ![q] = token]
    /\ ready' = [ready EXCEPT ![q] = TRUE]
    /\ kick_fds' = Append(kick_fds, q)
    /\ registered' = registered \cup {token}
    /\ UNCHANGED <<awaiting, phase, base, starts>>

\* GET_VRING_BASE is read and stops its vring.
Stopped ==
    LET q == Head(stream).q IN
    /\ stream # <<>> /\ stream' = Tail(stream) /\ Head(stream).kind = "GET_VRING_BASE"
    /\ ready' = [ready EXCEPT ![q] = FALSE]
    /\ kick_fd' = [kick_fd EXCEPT ![q] = None]
    /\ registered' = registered \ {kick_fd[q]}
    /\ base' = [base EXCEPT ![q] = 0]
    /\ phase' = [phase EXCEPT ![q] = "idle"]
    /\ awaiting' = FALSE
    /\ UNCHANGED <<starts, kick_fds>>

\* Outside the control stream nothing of this changes.
LEMMA IdleSteps ==
    ASSUME Next, ~parse_msg, ~SendPlain,
           \A q \in Queues : ~(SendBase(q) \/ SendAddr(q) \/ SendKick(q)
                               \/ SendCallOrEnable(q) \/ SendStop(q))
    PROVE  StreamIdle
<1>1. ASSUME Poll PROVE StreamIdle
    BY <1>1 DEF Poll, StreamIdle, AtStream, threadVars, queueVars, devVars, kernelVars,
           lanVars, guestVars, feVars
<1>2. ASSUME StreamDrained PROVE StreamIdle
    BY <1>2 DEF StreamDrained, EventDone, StreamIdle, AtStream, threadVars, queueVars,
           devVars, kernelVars, lanVars, guestVars, feVars
<1>3. ASSUME StreamClosed PROVE StreamIdle
    BY <1>3 DEF StreamClosed, Die, StreamIdle, AtStream, threadVars, queueVars, devVars,
           kernelVars, lanVars, guestVars, feVars
<1>4. ASSUME HandleWake PROVE StreamIdle
    BY <1>4 DEF HandleWake, handle_rx_queued, EventDone, Die, StreamIdle, AtStream,
           threadVars, queueVars, devVars, kernelVars, lanVars, guestVars, feVars
<1>5. ASSUME kick_rx PROVE StreamIdle
    BY <1>5 DEF kick_rx, ReadKick, handle_rx_queued, EventDone, Die, StreamIdle,
           AtStream, threadVars, queueVars, devVars, kernelVars, lanVars, guestVars, feVars
<1>6. ASSUME RxOne PROVE StreamIdle
    BY <1>6 DEF RxOne, Die, StreamIdle, AtStream, threadVars, queueVars, devVars,
           kernelVars, lanVars, guestVars, feVars
<1>7. ASSUME RxDone PROVE StreamIdle
    BY <1>7 DEF RxDone, call, EventDone, Die, StreamIdle, AtStream, threadVars,
           queueVars, devVars, kernelVars, lanVars, guestVars, feVars
<1>8. ASSUME kick_tx PROVE StreamIdle
    BY <1>8 DEF kick_tx, ReadKick, TxFailure, EventDone, Die, StreamIdle, AtStream,
           threadVars, queueVars, devVars, kernelVars, lanVars, guestVars, feVars
<1>9. ASSUME TxOne PROVE StreamIdle
    BY <1>9 DEF TxOne, Die, StreamIdle, AtStream, threadVars, queueVars, devVars,
           kernelVars, lanVars, guestVars, feVars
<1>10. ASSUME TxDone PROVE StreamIdle
    BY <1>10 DEF TxDone, call, EventDone, Die, StreamIdle, AtStream, threadVars,
           queueVars, devVars, kernelVars, lanVars, guestVars, feVars
<1>11. ASSUME Push PROVE StreamIdle
    BY <1>11 DEF Push, StreamIdle, AtStream, threadVars, queueVars, devVars, kernelVars,
           lanVars, guestVars, feVars
<1>12. ASSUME Wake PROVE StreamIdle
    BY <1>12 DEF Wake, StreamIdle, AtStream, threadVars, queueVars, devVars, kernelVars,
           lanVars, guestVars, feVars
<1>13. ASSUME NEW q, NEW buf, Post(q, buf) PROVE StreamIdle
    BY <1>13 DEF Post, StreamIdle, AtStream, threadVars, queueVars, devVars, kernelVars,
           lanVars, guestVars, feVars
<1>14. ASSUME NEW q, Kick(q) PROVE StreamIdle
    BY <1>14 DEF Kick, StreamIdle, AtStream, threadVars, queueVars, devVars, kernelVars,
           lanVars, guestVars, feVars
<1>15. ASSUME Close PROVE StreamIdle
    BY <1>15 DEF Close, StreamIdle, AtStream, threadVars, queueVars, devVars,
           kernelVars, lanVars, guestVars, feVars
<1> QED BY <1>1, <1>2, <1>3, <1>4, <1>5, <1>6, <1>7, <1>8, <1>9, <1>10, <1>11,
       <1>12, <1>13, <1>14, <1>15, VringsAssumption
    DEF Next, Device, Guest, FrontEnd

\* What parse_msg does with a message.
LEMMA ReadSteps ==
    ASSUME parse_msg
    PROVE  Took \/ Started \/ Stopped
<1>1. ASSUME Query PROVE Took
    BY <1>1 DEF Query, ReadOk, ReadErr, ReadMsg, Die, Took, Answered, AtStream,
           threadVars, queueVars, devVars, kernelVars, lanVars, guestVars, feVars
<1>2. ASSUME Note PROVE Took
    BY <1>2 DEF Note, ReadOk, ReadMsg, Took, Answered, AtStream, threadVars, queueVars,
           devVars, kernelVars, lanVars, guestVars, feVars
<1>3. ASSUME GetConfig PROVE Took
    BY <1>3 DEF GetConfig, ReadOk, ReadMsg, Took, Answered, AtStream, threadVars,
           queueVars, devVars, kernelVars, lanVars, guestVars, feVars
<1>4. ASSUME SetOwner PROVE Took
    BY <1>4 DEF SetOwner, ReadOk, ReadErr, ReadMsg, Die, Took, Answered, AtStream, threadVars,
           queueVars, devVars, kernelVars, lanVars, guestVars, feVars
<1>5. ASSUME SetBackendReqFd PROVE Took
    BY <1>5 DEF SetBackendReqFd, MissingFd, ReadOk, ReadErr, ReadMsg, Die, Took,
           Answered, AtStream, threadVars, queueVars, devVars, kernelVars, lanVars, guestVars,
           feVars
<1>6. ASSUME SetStatus PROVE Took
    BY <1>6 DEF SetStatus, ReadOk, ReadMsg, Took, Answered, AtStream, threadVars,
           queueVars, devVars, kernelVars, lanVars, guestVars, feVars
<1>7. ASSUME SetVringErr PROVE Took
    BY <1>7 DEF SetVringErr, MissingFd, ReadOk, ReadErr, ReadMsg, Die, Took, Answered,
           AtStream, threadVars, queueVars, devVars, kernelVars, lanVars, guestVars, feVars
<1>8. ASSUME SetMemTable PROVE Took
    BY <1>8 DEF SetMemTable, MissingFd, ReadOk, ReadErr, ReadMsg, Die, Took, Answered,
           AtStream, threadVars, queueVars, devVars, kernelVars, lanVars, guestVars, feVars
<1>9. ASSUME SetVringBase PROVE Took
    BY <1>9 DEF SetVringBase, ReadOk, ReadMsg, Took, Answered, AtStream, threadVars,
           queueVars, devVars, kernelVars, lanVars, guestVars, feVars
<1>10. ASSUME SetVringAddr PROVE Took
    BY <1>10 DEF SetVringAddr, ReadOk, ReadErr, ReadMsg, Die, Took, Answered, AtStream,
           threadVars, queueVars, devVars, kernelVars, lanVars, guestVars, feVars
<1>11. ASSUME SetVringCall PROVE Took
    BY <1>11 DEF SetVringCall, MissingFd, ReadOk, ReadErr, ReadMsg, Die, Took, Answered,
           AtStream, threadVars, queueVars, devVars, kernelVars, lanVars, guestVars, feVars
<1>12. ASSUME SetVringEnable PROVE Took
    BY <1>12 DEF SetVringEnable, ReadOk, ReadMsg, Took, Answered, AtStream, threadVars,
           queueVars, devVars, kernelVars, lanVars, guestVars, feVars
<1>13. ASSUME SetVringKick PROVE Took \/ Started
    BY <1>13 DEF SetVringKick, MissingFd, ReadOk, ReadErr, ReadMsg, Die, Took, Started,
           threadVars, queueVars, devVars, kernelVars, lanVars, guestVars, feVars
<1>14. ASSUME GetVringBase PROVE Took \/ Stopped
    BY <1>14 DEF GetVringBase, ReadOk, ReadErr, ReadMsg, Die, Took, Stopped, as_vec,
           threadVars, queueVars, devVars, kernelVars, lanVars, guestVars, feVars
<1> QED BY <1>1, <1>2, <1>3, <1>4, <1>5, <1>6, <1>7, <1>8, <1>9, <1>10, <1>11,
       <1>12, <1>13, <1>14
    DEF parse_msg


\* A message that is put together from a kind, a queue and a number.
LEMMA NewMessage ==
    ASSUME NEW kind \in KindsWithoutQueue \cup VringKinds, NEW q \in Queues, NEW num \in Nat,
           NEW m, m = [kind |-> kind, q |-> q, num |-> num]
    PROVE  m \in Messages /\ m.kind = kind /\ m.q = q /\ m.num = num
  BY DEF Messages

\* What SendMsg changes of this.
LEMMA SendMsgFacts ==
    ASSUME StreamTypes, NEW kind \in KindsWithoutQueue \cup VringKinds, NEW r \in Queues,
           NEW num \in Nat, SendMsg(kind, r, num)
    PROVE  \E m \in Messages :
              /\ m.kind = kind /\ m.q = r /\ m.num = num
              /\ stream' = Append(stream, m)
              /\ awaiting = FALSE /\ awaiting' \in BOOLEAN
              /\ m.kind \in Answered => awaiting' = TRUE
              /\ UNCHANGED <<base, ready, kick_fd, kick_fds, registered, next_avail>>
<1> DEFINE m == [kind |-> kind, q |-> r, num |-> num]
<1>1. m \in Messages /\ m.kind = kind /\ m.q = r /\ m.num = num
    BY NewMessage
<1>2. /\ stream' = Append(stream, m) /\ awaiting' = (kind \in Answered)
      /\ UNCHANGED <<base, ready, kick_fd, kick_fds, registered, next_avail>> /\ ~awaiting
    BY DEF SendMsg, queueVars, devVars
<1> HIDE DEF m
<1>3. awaiting = FALSE
    BY <1>2 DEF StreamTypes
<1>4. awaiting' \in BOOLEAN /\ (kind \in Answered => awaiting' = TRUE)
    <2>1. CASE kind \in Answered
        BY <1>2, <2>1
    <2>2. CASE kind \notin Answered
        BY <1>2, <2>2
    <2> QED BY <2>1, <2>2
<1> QED BY <1>1, <1>2, <1>3, <1>4

\* The front end starts a vring only from "addressed", and phases it sets
\* are never a step back from "running".
LEMMA PhaseFacts ==
    ASSUME StreamTypes, NEW q \in Queues,
           NEW from \in {"idle", "based", "addressed"},
           NEW to \in {"idle", "based", "addressed", "running"}, NextPhase(q, from, to)
    PROVE  /\ phase' \in [Queues -> {"idle", "based", "addressed", "running"}]
           /\ phase[q] = from /\ phase'[q] = to
           /\ \A r \in Queues : r # q => phase'[r] = phase[r]
           /\ \A r \in Queues : phase[r] = "running" => phase'[r] = "running"
  BY DEF NextPhase, StreamTypes

\* What the front end sends.
LEMMA SendSteps ==
    ASSUME StreamTypes,
           \/ SendPlain
           \/ \E q \in Queues : SendBase(q) \/ SendAddr(q) \/ SendKick(q)
                                \/ SendCallOrEnable(q) \/ SendStop(q)
    PROVE  \E m \in Messages : Sends(m)
<1>1. CASE SendPlain
    <2>1. PICK kind \in KindsWithoutQueue, num \in Flags :
             SendMsg(kind, RxQueue, num) /\ UNCHANGED <<phase, starts>>
        BY <1>1 DEF SendPlain
    <2>2. num \in Nat /\ RxQueue \in Queues /\ kind # "SET_VRING_KICK" /\ kind # "SET_VRING_BASE"
        BY FlagsAssumption DEF Queues, KindsWithoutQueue
    <2>3. PICK m \in Messages :
              /\ m.kind = kind /\ stream' = Append(stream, m)
              /\ awaiting = FALSE /\ awaiting' \in BOOLEAN
              /\ m.kind \in Answered => awaiting' = TRUE
              /\ UNCHANGED <<base, ready, kick_fd, kick_fds, registered, next_avail>>
        BY <2>1, <2>2, SendMsgFacts
    <2>4. Sends(m)
        BY <2>1, <2>2, <2>3 DEF Sends, StreamTypes
    <2> QED BY <2>4
<1>2. ASSUME NEW q \in Queues, SendBase(q) PROVE \E m \in Messages : Sends(m)
    <2>1. base[q] \in Nat /\ "SET_VRING_BASE" \in KindsWithoutQueue \cup VringKinds
        BY DEF VringKinds, StreamTypes
    <2>2. /\ SendMsg("SET_VRING_BASE", q, base[q]) /\ UNCHANGED starts
          /\ NextPhase(q, "idle", "based") /\ starts[q] < MaxStarts
        BY <1>2 DEF SendBase
    <2> DEFINE m == [kind |-> "SET_VRING_BASE", q |-> q, num |-> base[q]]
    <2>3. m \in Messages /\ m.kind = "SET_VRING_BASE" /\ m.q = q /\ m.num = base[q]
        BY <2>1, NewMessage
    <2>4. /\ stream' = Append(stream, m) /\ ~awaiting
          /\ awaiting' = ("SET_VRING_BASE" \in Answered)
          /\ UNCHANGED <<base, ready, kick_fd, kick_fds, registered, next_avail>>
        BY <2>2 DEF SendMsg, queueVars, devVars
    <2>5. awaiting = FALSE /\ awaiting' = FALSE /\ "SET_VRING_BASE" \notin Answered
        BY <2>4 DEF StreamTypes, Answered
    <2> HIDE DEF m
    <2>6. /\ phase' \in [Queues -> {"idle", "based", "addressed", "running"}]
          /\ \A r \in Queues : phase[r] = "running" => phase'[r] = "running"
        BY <2>2, PhaseFacts
    <2>7. starts' \in [Queues -> Nat] /\ starts' = starts
        BY <2>2 DEF StreamTypes
    <2>8. Sends(m)
        BY <2>2, <2>3, <2>4, <2>5, <2>6, <2>7 DEF Sends
    <2> QED BY <2>3, <2>8
<1>3. ASSUME NEW q \in Queues, SendAddr(q) PROVE \E m \in Messages : Sends(m)
    <2>1. 0 \in Nat /\ "SET_VRING_ADDR" \in VringKinds
        BY DEF VringKinds
    <2>2. SendMsg("SET_VRING_ADDR", q, 0) /\ UNCHANGED starts /\ NextPhase(q, "based", "addressed")
        BY <1>3 DEF SendAddr
    <2>3. PICK m \in Messages :
              /\ m.kind = "SET_VRING_ADDR" /\ stream' = Append(stream, m)
              /\ awaiting = FALSE /\ awaiting' \in BOOLEAN
              /\ m.kind \in Answered => awaiting' = TRUE
              /\ UNCHANGED <<base, ready, kick_fd, kick_fds, registered, next_avail>>
        BY <2>1, <2>2, SendMsgFacts
    <2>4. Sends(m)
        BY <2>2, <2>3, PhaseFacts DEF Sends, StreamTypes
    <2> QED BY <2>4
<1>4. ASSUME NEW q \in Queues, SendKick(q) PROVE \E m \in Messages : Sends(m)
    <2>1. PICK num \in Flags : SendMsg("SET_VRING_KICK", q, num) /\ UNCHANGED extra
        BY <1>4 DEF SendKick
    <2>2. NextPhase(q, "addressed", "running") /\ starts' = [starts EXCEPT ![q] = @ + 1]
        BY <1>4 DEF SendKick
    <2>3. num \in Nat /\ "SET_VRING_KICK" \in KindsWithoutQueue \cup VringKinds
        BY FlagsAssumption DEF VringKinds
    <2> DEFINE m == [kind |-> "SET_VRING_KICK", q |-> q, num |-> num]
    <2>4. m \in Messages /\ m.kind = "SET_VRING_KICK" /\ m.q = q
        BY <2>3, NewMessage
    <2>5. /\ stream' = Append(stream, m) /\ ~awaiting
          /\ awaiting' = ("SET_VRING_KICK" \in Answered)
          /\ UNCHANGED <<base, ready, kick_fd, kick_fds, registered, next_avail>>
        BY <2>1 DEF SendMsg, queueVars, devVars
    <2>6. awaiting = FALSE /\ awaiting' = FALSE /\ "SET_VRING_KICK" \notin Answered
        BY <2>5 DEF StreamTypes, Answered
    <2> HIDE DEF m
    <2>7. /\ phase' \in [Queues -> {"idle", "based", "addressed", "running"}]
          /\ phase[q] # "running" /\ phase'[q] = "running"
          /\ \A r \in Queues : phase[r] = "running" => phase'[r] = "running"
        BY <2>2, PhaseFacts
    <2>8. /\ starts' \in [Queues -> Nat] /\ starts'[q] > 0
          /\ \A r \in Queues : starts[r] > 0 => starts'[r] > 0
        BY <2>2 DEF StreamTypes
    <2>9. Sends(m)
        BY <2>4, <2>7, <2>8, <2>5, <2>6 DEF Sends
    <2> QED BY <2>4, <2>9
<1>5. ASSUME NEW q \in Queues, SendCallOrEnable(q) PROVE \E m \in Messages : Sends(m)
    <2>1. PICK num \in Flags, kind \in {"SET_VRING_CALL", "SET_VRING_ENABLE"} :
             SendMsg(kind, q, num) /\ UNCHANGED <<phase, starts>>
        BY <1>5 DEF SendCallOrEnable
    <2>2. num \in Nat /\ kind \in KindsWithoutQueue \cup VringKinds /\ kind # "SET_VRING_KICK" /\ kind # "SET_VRING_BASE"
        BY <2>1, FlagsAssumption DEF VringKinds
    <2>3. UNCHANGED <<phase, starts>>
        BY <1>5 DEF SendCallOrEnable
    <2>4. PICK m \in Messages :
              /\ m.kind = kind /\ stream' = Append(stream, m)
              /\ awaiting = FALSE /\ awaiting' \in BOOLEAN
              /\ m.kind \in Answered => awaiting' = TRUE
              /\ UNCHANGED <<base, ready, kick_fd, kick_fds, registered, next_avail>>
        <3>1. ASSUME NEW k \in KindsWithoutQueue \cup VringKinds, NEW n \in Nat, SendMsg(k, q, n)
              PROVE  \E m \in Messages :
                       /\ m.kind = k /\ stream' = Append(stream, m)
                       /\ awaiting = FALSE /\ awaiting' \in BOOLEAN
                       /\ m.kind \in Answered => awaiting' = TRUE
                       /\ UNCHANGED <<base, ready, kick_fd, kick_fds, registered, next_avail>>
            BY <3>1, SendMsgFacts
        <3> QED BY <2>1, <2>2, <3>1
    <2>5. Sends(m)
        BY <2>2, <2>3, <2>4 DEF Sends, StreamTypes
    <2> QED BY <2>5
<1>6. ASSUME NEW q \in Queues, SendStop(q) PROVE \E m \in Messages : Sends(m)
    <2>1. 0 \in Nat /\ "GET_VRING_BASE" \in VringKinds
        BY DEF VringKinds
    <2>2. SendMsg("GET_VRING_BASE", q, 0) /\ UNCHANGED <<phase, starts>>
        BY <1>6 DEF SendStop
    <2>3. PICK m \in Messages :
              /\ m.kind = "GET_VRING_BASE" /\ stream' = Append(stream, m)
              /\ awaiting = FALSE /\ awaiting' \in BOOLEAN
              /\ m.kind \in Answered => awaiting' = TRUE
              /\ UNCHANGED <<base, ready, kick_fd, kick_fds, registered, next_avail>>
        BY <2>1, <2>2, SendMsgFacts
    <2>4. Sends(m)
        BY <2>2, <2>3 DEF Sends, StreamTypes
    <2> QED BY <2>4
<1> QED BY <1>1, <1>2, <1>3, <1>4, <1>5, <1>6

\* Nothing touched, nothing lost.
LEMMA IdleKeeps ==
    ASSUME StreamInv, StreamIdle
    PROVE  StreamInv'
<1> USE DEF StreamInv, StreamIdle
<1>1. StreamTypes'
    BY DEF StreamTypes
<1>2. AnswersAwaited'
    BY DEF AnswersAwaited
<1>3. StartsOnce'
    BY DEF StartsOnce, IsKick
<1>4. TokensOwned'
    BY DEF TokensOwned
<1> QED BY <1>1, <1>2, <1>3, <1>4

\* The stream without its first message.
LEMMA StreamTail ==
    ASSUME StreamTypes, stream # <<>>, stream' = Tail(stream)
    PROVE  /\ stream' \in Seq(Messages) /\ Len(stream) \in Nat /\ Len(stream) > 0
           /\ Len(stream') = Len(stream) - 1 /\ Head(stream) = stream[1]
           /\ Head(stream) \in Messages /\ Head(stream).q \in Queues /\ 1 \in 1..Len(stream)
           /\ \A i \in 1..Len(stream') : stream'[i] = stream[i + 1] /\ i + 1 \in 1..Len(stream)
           /\ \A i \in 1..Len(stream') : stream'[i] \in Messages /\ stream'[i].q \in Queues
<1>1. stream \in Seq(Messages)
    BY DEF StreamTypes
<1>2. /\ stream' \in Seq(Messages) /\ Len(stream) \in Nat /\ Len(stream) > 0
      /\ Len(stream') = Len(stream) - 1 /\ Head(stream) = stream[1]
      /\ Head(stream) \in Messages
      /\ \A i \in 1..Len(stream') : stream'[i] = stream[i + 1] /\ i + 1 \in 1..Len(stream)
    BY <1>1, TailFacts
<1>3. \A m \in Messages : m.q \in Queues
    BY DEF Messages
<1>4. \A i \in 1..Len(stream') : stream'[i] \in Messages
    BY <1>2
<1>5. 1 \in 1..Len(stream)
    BY <1>2
<1> QED BY <1>2, <1>3, <1>4, <1>5

\* Reading a message leaves the others as they were.
LEMMA TookKeeps ==
    ASSUME StreamInv, Took
    PROVE  StreamInv'
<1>1. StreamTypes /\ AnswersAwaited /\ StartsOnce /\ TokensOwned
    BY DEF StreamInv
<1>2. /\ stream # <<>> /\ stream' = Tail(stream)
      /\ awaiting' = awaiting \/ (awaiting' = FALSE /\ Head(stream).kind \in Answered)
      /\ UNCHANGED <<phase, base, starts, ready, kick_fd, kick_fds, registered>>
    BY DEF Took
<1>3. /\ stream' \in Seq(Messages) /\ Len(stream) \in Nat
      /\ Len(stream') = Len(stream) - 1 /\ Head(stream) = stream[1] /\ 1 \in 1..Len(stream)
      /\ \A i \in 1..Len(stream') : stream'[i] = stream[i + 1] /\ i + 1 \in 1..Len(stream)
      /\ \A i \in 1..Len(stream') : stream'[i] \in Messages /\ stream'[i].q \in Queues
    BY <1>1, <1>2, StreamTail
<1>4. StreamTypes'
    BY <1>1, <1>2, <1>3 DEF StreamTypes
<1>5. AnswersAwaited'
    <2>1. CASE awaiting' = awaiting
        BY <1>1, <1>3, <2>1 DEF AnswersAwaited
    <2>2. CASE Head(stream).kind \in Answered
        <3>1. Len(stream) = 1
            BY <1>1, <1>3, <2>2 DEF AnswersAwaited
        <3> QED BY <1>3, <3>1 DEF AnswersAwaited
    <2> QED BY <1>2, <2>1, <2>2
<1>6. StartsOnce'
    <2>1. \A q \in Queues : ready'[q] = TRUE => phase'[q] = "running"
        BY <1>1, <1>2 DEF StartsOnce
    <2>2. ASSUME NEW i \in 1..Len(stream'), IsKick(i)'
          PROVE  phase'[stream'[i].q] = "running" /\ ready'[stream'[i].q] = FALSE
        BY <1>1, <1>2, <1>3, <2>2 DEF StartsOnce, IsKick
    <2>3. ASSUME NEW i \in 1..Len(stream'), NEW j \in 1..Len(stream'), IsKick(i)', IsKick(j)',
                 stream'[i].q = stream'[j].q
          PROVE  i = j
        <3>1. i + 1 = j + 1
            BY <1>1, <1>3, <2>3 DEF StartsOnce, IsKick
        <3> QED BY <3>1
    <2> QED BY <2>1, <2>2, <2>3 DEF StartsOnce
<1>7. TokensOwned'
    BY <1>1, <1>2 DEF TokensOwned
<1> QED BY <1>4, <1>5, <1>6, <1>7 DEF StreamInv

\* Sending a message adds it behind the others.
LEMMA SendsKeeps ==
    ASSUME StreamInv, NEW m, Sends(m)
    PROVE  StreamInv'
<1>1. StreamTypes /\ AnswersAwaited /\ StartsOnce /\ TokensOwned
    BY DEF StreamInv
<1>2. /\ m \in Messages /\ m.q \in Queues /\ awaiting = FALSE /\ stream' = Append(stream, m)
      /\ awaiting' \in BOOLEAN /\ (m.kind \in Answered => awaiting' = TRUE)
      /\ phase' \in [Queues -> {"idle", "based", "addressed", "running"}]
      /\ starts' \in [Queues -> Nat]
      /\ \A q \in Queues : phase[q] = "running" => phase'[q] = "running"
      /\ m.kind = "SET_VRING_KICK" => phase[m.q] # "running" /\ phase'[m.q] = "running"
      /\ UNCHANGED <<base, ready, kick_fd, kick_fds, registered>>
    BY DEF Sends, Messages
<1> PICK n \in Nat : n = Len(stream)
    BY <1>1 DEF StreamTypes
<1>3. /\ stream' \in Seq(Messages) /\ n \in Nat /\ Len(stream') = n + 1 /\ stream'[n + 1] = m
      /\ \A i \in 1..n : stream'[i] = stream[i]
      /\ \A i \in 1..(n + 1) : i \in 1..n \/ i = n + 1
    BY <1>1, <1>2, AppendFacts DEF StreamTypes
<1>4. \A i \in 1..n : stream[i].q \in Queues
    <2>1. \A i \in 1..n : stream[i] \in Messages
        BY <1>1 DEF StreamTypes
    <2> QED BY <2>1 DEF Messages
<1>5. StreamTypes'
    BY <1>1, <1>2, <1>3 DEF StreamTypes
<1>6. \A i \in 1..n : stream[i].kind \notin Answered
    BY <1>1, <1>2 DEF AnswersAwaited
<1>7. AnswersAwaited'
    BY <1>2, <1>3, <1>6 DEF AnswersAwaited
<1>8. /\ \A q \in Queues : ready[q] = TRUE => phase[q] = "running"
      /\ \A i \in 1..n : IsKick(i) => phase[stream[i].q] = "running" /\ ready[stream[i].q] = FALSE
      /\ \A i, j \in 1..n : IsKick(i) /\ IsKick(j) /\ stream[i].q = stream[j].q => i = j
    BY <1>1 DEF StartsOnce
<1>9. \A q \in Queues : ready[q] \in {TRUE, FALSE}
    BY <1>1 DEF StreamTypes
<1>10. /\ \A i \in 1..n : IsKick(i)' = IsKick(i)
       /\ IsKick(n + 1)' => phase[m.q] # "running" /\ phase'[m.q] = "running"
    BY <1>2, <1>3 DEF IsKick
<1>11. ASSUME NEW i \in 1..(n + 1), IsKick(i)'
       PROVE  phase'[stream'[i].q] = "running" /\ ready'[stream'[i].q] = FALSE
    <2>1. CASE i \in 1..n
        BY <1>2, <1>3, <1>4, <1>8, <1>10, <1>11, <2>1
    <2>2. CASE i = n + 1
        <3>1. phase[m.q] # "running" /\ phase'[m.q] = "running"
            BY <1>10, <1>11, <2>2
        <3>2. ready[m.q] = FALSE
            BY <1>2, <1>8, <1>9, <3>1
        <3> QED BY <1>2, <1>3, <2>2, <3>1, <3>2
    <2> QED BY <1>3, <2>1, <2>2
<1>12. ASSUME NEW i \in 1..n, IsKick(i)', IsKick(n + 1)', stream'[i].q = stream'[n + 1].q
       PROVE  FALSE
    BY <1>3, <1>4, <1>8, <1>10, <1>12
<1>13. ASSUME NEW i \in 1..(n + 1), NEW j \in 1..(n + 1), IsKick(i)', IsKick(j)',
              stream'[i].q = stream'[j].q
       PROVE  i = j
    <2>1. CASE i \in 1..n /\ j \in 1..n
        BY <1>3, <1>8, <1>10, <1>13, <2>1
    <2>2. CASE i \in 1..n /\ j = n + 1
        BY <1>12, <1>13, <2>2
    <2>3. CASE i = n + 1 /\ j \in 1..n
        BY <1>12, <1>13, <2>3
    <2> QED BY <1>3, <2>1, <2>2, <2>3
<1>14. StartsOnce'
    BY <1>2, <1>3, <1>8, <1>11, <1>13 DEF StartsOnce
<1>15. TokensOwned'
    BY <1>1, <1>2 DEF TokensOwned
<1> QED BY <1>5, <1>7, <1>14, <1>15 DEF StreamInv


\* A vring is started: its new token is the only one of its queue.
LEMMA StartedKeeps ==
    ASSUME StreamInv, Started
    PROVE  StreamInv'
<1>1. StreamTypes /\ AnswersAwaited /\ StartsOnce /\ TokensOwned
    BY DEF StreamInv
<1> PICK q \in Queues, token \in Nat : q = Head(stream).q /\ token = Len(kick_fds) + 2
    BY <1>1, StreamTail DEF Started, StreamTypes
<1>2. /\ stream # <<>> /\ stream' = Tail(stream) /\ Head(stream).kind = "SET_VRING_KICK"
      /\ kick_fd' = [kick_fd EXCEPT ![q] = token]
      /\ ready' = [ready EXCEPT ![q] = TRUE]
      /\ kick_fds' = Append(kick_fds, q)
      /\ registered' = registered \cup {token}
      /\ UNCHANGED <<awaiting, phase, base, starts>>
    BY DEF Started
<1>3. /\ stream' \in Seq(Messages) /\ Len(stream) \in Nat
      /\ Len(stream') = Len(stream) - 1 /\ Head(stream) = stream[1] /\ 1 \in 1..Len(stream)
      /\ \A i \in 1..Len(stream') : stream'[i] = stream[i + 1] /\ i + 1 \in 1..Len(stream)
      /\ \A i \in 1..Len(stream') : stream'[i] \in Messages /\ stream'[i].q \in Queues
    BY <1>1, <1>2, StreamTail
<1>4. /\ kick_fds' \in Seq(Queues) /\ Len(kick_fds) \in Nat /\ Len(kick_fds') = Len(kick_fds) + 1
      /\ kick_fds'[Len(kick_fds) + 1] = q
      /\ \A i \in 1..Len(kick_fds) : kick_fds'[i] = kick_fds[i]
    BY <1>1, <1>2, AppendFacts DEF StreamTypes
<1>5. /\ kick_fd' \in [Queues -> Int] /\ ready' \in [Queues -> BOOLEAN]
      /\ kick_fd'[q] = token /\ ready'[q] = TRUE
      /\ \A r \in Queues : r # q => kick_fd'[r] = kick_fd[r] /\ ready'[r] = ready[r]
    BY <1>1, <1>2 DEF StreamTypes
<1>6. StreamTypes'
    BY <1>1, <1>2, <1>3, <1>4, <1>5 DEF StreamTypes
<1>7. AnswersAwaited'
    <2>1. awaiting' = awaiting
        BY <1>2
    <2>2. ASSUME NEW i \in 1..Len(stream'), stream'[i].kind \in Answered
          PROVE  i = Len(stream') /\ awaiting' = TRUE
        <3>1. i + 1 = Len(stream) /\ awaiting = TRUE
            BY <1>1, <1>3, <2>2 DEF AnswersAwaited
        <3> QED BY <1>3, <2>1, <3>1
    <2> QED BY <2>2 DEF AnswersAwaited
<1>8. phase[q] = "running" /\ ready[q] = FALSE
    BY <1>1, <1>2, <1>3 DEF StartsOnce, IsKick
<1>9. \A i \in 1..Len(stream') : stream'[i].kind = "SET_VRING_KICK" => stream'[i].q # q
    BY <1>1, <1>2, <1>3 DEF StartsOnce, IsKick
<1>10. StartsOnce'
    <2>1. \A r \in Queues : ready'[r] = TRUE => phase'[r] = "running"
        BY <1>1, <1>2, <1>5, <1>8 DEF StartsOnce
    <2>2. ASSUME NEW i \in 1..Len(stream'), stream'[i].kind = "SET_VRING_KICK"
          PROVE  phase'[stream'[i].q] = "running" /\ ready'[stream'[i].q] = FALSE
        <3>1. phase[stream'[i].q] = "running" /\ ready[stream'[i].q] = FALSE
            BY <1>1, <1>3, <2>2 DEF StartsOnce, IsKick
        <3> QED BY <1>2, <1>3, <1>5, <1>9, <2>2, <3>1
    <2>3. ASSUME NEW i \in 1..Len(stream'), NEW j \in 1..Len(stream'),
                 stream'[i].kind = "SET_VRING_KICK", stream'[j].kind = "SET_VRING_KICK",
                 stream'[i].q = stream'[j].q
          PROVE  i = j
        <3>1. i + 1 = j + 1
            BY <1>1, <1>3, <2>3 DEF StartsOnce, IsKick
        <3> QED BY <3>1
    <2> QED BY <2>1, <2>2, <2>3 DEF StartsOnce, IsKick
<1>11. kick_fd[q] = None
    BY <1>1, <1>8 DEF TokensOwned
<1>12. TokensOwned'
    <2>1. token \in 2..(Len(kick_fds') + 1) /\ kick_fds'[token - 1] = q /\ token # None
        BY <1>4 DEF None
    <2>2. ASSUME NEW r \in Queues
          PROVE  \/ ready'[r] = FALSE /\ kick_fd'[r] = None
                 \/ /\ ready'[r] = TRUE /\ kick_fd'[r] \in 2..(Len(kick_fds') + 1)
                    /\ kick_fds'[kick_fd'[r] - 1] = r
        <3>1. CASE r = q
            BY <1>5, <2>1, <3>1
        <3>2. CASE r # q
            <4>1. CASE ready[r] = FALSE /\ kick_fd[r] = None
                BY <1>5, <3>2, <4>1
            <4>2. CASE /\ ready[r] = TRUE /\ kick_fd[r] \in 2..(Len(kick_fds) + 1)
                       /\ kick_fds[kick_fd[r] - 1] = r
                <5>1. /\ kick_fd'[r] = kick_fd[r] /\ ready'[r] = TRUE
                      /\ kick_fd[r] - 1 \in 1..Len(kick_fds)
                      /\ kick_fd[r] \in 2..(Len(kick_fds') + 1)
                    <6>1. kick_fd'[r] = kick_fd[r] /\ ready'[r] = TRUE
                        BY <1>5, <3>2, <4>2
                    <6>2. /\ kick_fd[r] \in 2..(Len(kick_fds) + 1) /\ Len(kick_fds) \in Nat
                          /\ Len(kick_fds') = Len(kick_fds) + 1
                        BY <1>4, <4>2
                    <6> QED BY ONLY <6>1, <6>2
                <5> QED BY <1>4, <4>2, <5>1
            <4> QED BY <1>1, <4>1, <4>2 DEF TokensOwned
        <3> QED BY <3>1, <3>2
    <2>3. registered' = {kick_fd'[r] : r \in Queues} \ {None}
        <3>1. registered = {kick_fd[r] : r \in Queues} \ {None}
            BY <1>1 DEF TokensOwned
        <3>2. ASSUME NEW t, t \in registered'
              PROVE  t \in {kick_fd'[r] : r \in Queues} \ {None}
            <4>1. CASE t = token
                BY <1>5, <2>1, <4>1
            <4>2. CASE t \in registered
                <5>1. PICK r \in Queues : t = kick_fd[r] /\ t # None
                    BY <3>1, <4>2
                <5>2. r # q
                    BY <1>11, <5>1
                <5> QED BY <1>5, <5>1, <5>2
            <4> QED BY <1>2, <3>2, <4>1, <4>2
        <3>3. ASSUME NEW t, t \in {kick_fd'[r] : r \in Queues} \ {None}
              PROVE  t \in registered'
            <4>1. PICK r \in Queues : t = kick_fd'[r] /\ t # None
                BY <3>3
            <4>2. CASE r = q
                BY <1>2, <1>5, <4>1, <4>2
            <4>3. CASE r # q
                BY <1>2, <1>5, <3>1, <4>1, <4>3
            <4> QED BY <4>2, <4>3
        <3> QED BY <3>2, <3>3
    <2> QED BY <2>2, <2>3 DEF TokensOwned
<1> QED BY <1>6, <1>7, <1>10, <1>12 DEF StreamInv

\* A vring is stopped: the stream is empty, and its token is gone.
LEMMA StoppedKeeps ==
    ASSUME StreamInv, Stopped
    PROVE  StreamInv' /\ Len(stream') = 0
<1>1. StreamTypes /\ AnswersAwaited /\ StartsOnce /\ TokensOwned
    BY DEF StreamInv
<1> PICK q \in Queues : q = Head(stream).q
    BY <1>1, StreamTail DEF Stopped
<1>2. /\ stream # <<>> /\ stream' = Tail(stream) /\ Head(stream).kind = "GET_VRING_BASE"
      /\ ready' = [ready EXCEPT ![q] = FALSE]
      /\ kick_fd' = [kick_fd EXCEPT ![q] = None]
      /\ registered' = registered \ {kick_fd[q]}
      /\ base' = [base EXCEPT ![q] = 0]
      /\ phase' = [phase EXCEPT ![q] = "idle"]
      /\ awaiting' = FALSE
      /\ UNCHANGED <<starts, kick_fds>>
    BY DEF Stopped
<1>3. /\ stream' \in Seq(Messages) /\ Len(stream) \in Nat
      /\ Len(stream') = Len(stream) - 1 /\ Head(stream) = stream[1] /\ 1 \in 1..Len(stream)
    BY <1>1, <1>2, StreamTail
<1>4. Len(stream) = 1
    BY <1>1, <1>2, <1>3 DEF AnswersAwaited, Answered
<1>5. Len(stream') = 0
    BY <1>3, <1>4
<1>6. /\ kick_fd' \in [Queues -> Int] /\ ready' \in [Queues -> BOOLEAN]
      /\ kick_fd'[q] = None /\ ready'[q] = FALSE
      /\ \A r \in Queues : r # q => /\ kick_fd'[r] = kick_fd[r] /\ ready'[r] = ready[r]
                                    /\ phase'[r] = phase[r]
    BY <1>1, <1>2 DEF StreamTypes, None
<1>7. StreamTypes'
    <2>1. /\ base' \in [Queues -> Nat]
          /\ phase' \in [Queues -> {"idle", "based", "addressed", "running"}]
        BY <1>1, <1>2 DEF StreamTypes
    <2> QED BY <1>1, <1>2, <1>3, <1>6, <2>1 DEF StreamTypes
<1>8. AnswersAwaited'
    BY <1>5 DEF AnswersAwaited
<1>9. StartsOnce'
    <2>1. \A r \in Queues : ready'[r] = TRUE => phase'[r] = "running"
        BY <1>1, <1>6 DEF StartsOnce
    <2> QED BY <1>5, <2>1 DEF StartsOnce
<1>10. TokensOwned'
    <2>1. ASSUME NEW r \in Queues
          PROVE  \/ ready'[r] = FALSE /\ kick_fd'[r] = None
                 \/ /\ ready'[r] = TRUE /\ kick_fd'[r] \in 2..(Len(kick_fds') + 1)
                    /\ kick_fds'[kick_fd'[r] - 1] = r
        BY <1>1, <1>2, <1>6 DEF TokensOwned
    <2>2. registered' = {kick_fd'[r] : r \in Queues} \ {None}
        <3>1. registered = {kick_fd[r] : r \in Queues} \ {None}
            BY <1>1 DEF TokensOwned
        <3>2. ASSUME NEW t, t \in registered'
              PROVE  t \in {kick_fd'[r] : r \in Queues} \ {None}
            <4>1. t \in registered /\ t # kick_fd[q]
                BY <1>2, <3>2
            <4>2. PICK r \in Queues : t = kick_fd[r] /\ t # None
                BY <3>1, <4>1
            <4> QED BY <1>6, <4>1, <4>2
        <3>3. ASSUME NEW t, t \in {kick_fd'[r] : r \in Queues} \ {None}
              PROVE  t \in registered'
            <4>1. PICK r \in Queues : t = kick_fd'[r] /\ t # None
                BY <3>3
            <4>2. r # q /\ t = kick_fd[r]
                BY <1>6, <4>1
            <4>3. t # kick_fd[q]
                BY <1>1, <4>1, <4>2 DEF TokensOwned
            <4> QED BY <1>2, <3>1, <4>1, <4>2, <4>3
        <3> QED BY <3>2, <3>3
    <2> QED BY <2>1, <2>2 DEF TokensOwned
<1> QED BY <1>5, <1>7, <1>8, <1>9, <1>10 DEF StreamInv

\* The queues, the poll and the stream stay in step whatever happens.
LEMMA StreamStep ==
    ASSUME StreamInv, [Next]_vars
    PROVE  StreamInv'
<1>1. CASE parse_msg
    BY <1>1, ReadSteps, TookKeeps, StartedKeeps, StoppedKeeps
<1>2. CASE \/ SendPlain
           \/ \E q \in Queues : SendBase(q) \/ SendAddr(q) \/ SendKick(q)
                                \/ SendCallOrEnable(q) \/ SendStop(q)
    <2>1. PICK m \in Messages : Sends(m)
        BY <1>2, SendSteps DEF StreamInv
    <2> QED BY <2>1, SendsKeeps
<1>3. CASE /\ Next /\ ~parse_msg /\ ~SendPlain
           /\ \A q \in Queues : ~(SendBase(q) \/ SendAddr(q) \/ SendKick(q)
                                  \/ SendCallOrEnable(q) \/ SendStop(q))
    BY <1>3, IdleSteps, IdleKeeps
<1>4. CASE UNCHANGED vars
    <2>1. StreamIdle
        BY <1>4 DEF StreamIdle, vars, queueVars, devVars, kernelVars, feVars
    <2> QED BY <2>1, IdleKeeps
<1> QED BY <1>1, <1>2, <1>3, <1>4

\* What RegisteredIffReady says follows.
LEMMA OwnedRegistered ==
    ASSUME StreamTypes, TokensOwned
    PROVE  RegisteredIffReady
<1>1. ASSUME NEW q \in Queues PROVE ready[q] <=> kick_fd[q] \in registered
    <2>1. CASE ready[q] = FALSE /\ kick_fd[q] = None
        BY <2>1 DEF TokensOwned
    <2>2. CASE ready[q] = TRUE /\ kick_fd[q] \in 2..(Len(kick_fds) + 1)
        <3>1. kick_fd[q] # None
            BY <2>2 DEF None
        <3> QED BY <2>2, <3>1 DEF TokensOwned
    <2> QED BY <2>1, <2>2 DEF TokensOwned
<1>2. registered \subseteq {kick_fd[q] : q \in Queues}
    BY DEF TokensOwned
<1> QED BY <1>1, <1>2 DEF RegisteredIffReady


-----------------------------------------------------------------------------
(* The poll. *)

\* A step of another thread: the batch stays, no kick is taken back.
BatchStill == UNCHANGED <<batch, pc, kicks, kick_fds>>

\* A message is read: the batch stays, or the thread ends.
BatchRead ==
    /\ pc = "event" /\ UNCHANGED kicks
    /\ (UNCHANGED <<batch, pc>>) \/ (batch' = <<>> /\ pc' = "dead")
    /\ UNCHANGED kick_fds \/ kick_fds' = Append(kick_fds, Head(stream).q)

\* What a step other than a poll does to the batch: it stays, loses the event
\* that was handled, or goes with the thread; only the kick of its first event
\* may be taken back, and that event is then read.
BatchAdvances ==
    /\ \/ batch' = <<>> /\ pc' = "dead"
       \/ /\ pc \in {"event", "rx", "tx"} /\ batch' = Tail(batch)
          /\ pc' = IF Tail(batch) = <<>> THEN "poll" ELSE "event"
       \/ batch' = batch /\ (pc' = pc \/ (pc = "event" /\ pc' \in {"rx", "tx"}))
    /\ kicks' \in [Queues -> BOOLEAN]
    /\ \/ \A q \in Queues : kicks[q] = TRUE => kicks'[q] = TRUE
       \/ /\ pc = "event" /\ Head(batch) > TOKEN_WAKE /\ ~(batch' = batch /\ pc' = "event")
          /\ \A q \in Queues : q # kick_fds[Head(batch) - 1] => kicks'[q] = kicks[q]

\* The steps of the switch, the driver and the front end.
LEMMA StillSteps ==
    ASSUME NEW q, NEW buf,
           \/ Push \/ Wake \/ Post(q, buf) \/ SendPlain \/ Close \/ SendBase(q)
           \/ SendAddr(q) \/ SendKick(q) \/ SendCallOrEnable(q) \/ SendStop(q)
    PROVE  BatchStill
<1>1. ASSUME Push PROVE BatchStill
    BY <1>1 DEF Push, BatchStill, AtStream, threadVars, queueVars, devVars, kernelVars,
           lanVars, guestVars, feVars
<1>2. ASSUME Wake PROVE BatchStill
    BY <1>2 DEF Wake, BatchStill, AtStream, threadVars, queueVars, devVars, kernelVars,
           lanVars, guestVars, feVars
<1>3. ASSUME Post(q, buf) PROVE BatchStill
    BY <1>3 DEF Post, BatchStill, AtStream, threadVars, queueVars, devVars, kernelVars,
           lanVars, guestVars, feVars
<1>4. ASSUME SendPlain PROVE BatchStill
    BY <1>4 DEF SendPlain, SendMsg, Extra, BatchStill, AtStream, threadVars, queueVars,
           devVars, kernelVars, lanVars, guestVars, feVars
<1>5. ASSUME Close PROVE BatchStill
    BY <1>5 DEF Close, BatchStill, AtStream, threadVars, queueVars, devVars, kernelVars,
           lanVars, guestVars, feVars
<1>6. ASSUME SendBase(q) PROVE BatchStill
    BY <1>6 DEF SendBase, SendMsg, NextPhase, BatchStill, AtStream, threadVars,
           queueVars, devVars, kernelVars, lanVars, guestVars, feVars
<1>7. ASSUME SendAddr(q) PROVE BatchStill
    BY <1>7 DEF SendAddr, SendMsg, NextPhase, BatchStill, AtStream, threadVars,
           queueVars, devVars, kernelVars, lanVars, guestVars, feVars
<1>8. ASSUME SendKick(q) PROVE BatchStill
    BY <1>8 DEF SendKick, SendMsg, NextPhase, BatchStill, AtStream, threadVars,
           queueVars, devVars, kernelVars, lanVars, guestVars, feVars
<1>9. ASSUME SendCallOrEnable(q) PROVE BatchStill
    BY <1>9 DEF SendCallOrEnable, SendMsg, Extra, BatchStill, AtStream, threadVars,
           queueVars, devVars, kernelVars, lanVars, guestVars, feVars
<1>10. ASSUME SendStop(q) PROVE BatchStill
    BY <1>10 DEF SendStop, SendMsg, BatchStill, AtStream, threadVars, queueVars,
           devVars, kernelVars, lanVars, guestVars, feVars
<1> QED BY <1>1, <1>2, <1>3, <1>4, <1>5, <1>6, <1>7, <1>8, <1>9, <1>10

\* The messages parse_msg handles.
LEMMA ReadMsgSteps ==
    ASSUME parse_msg
    PROVE  BatchRead
<1>1. ASSUME Query PROVE BatchRead
    BY <1>1 DEF Query, ReadOk, ReadErr, ReadMsg, Die, BatchRead, AtStream, threadVars,
           queueVars, devVars, kernelVars, lanVars, guestVars, feVars
<1>2. ASSUME Note PROVE BatchRead
    BY <1>2 DEF Note, ReadOk, ReadMsg, BatchRead, AtStream, threadVars, queueVars,
           devVars, kernelVars, lanVars, guestVars, feVars
<1>3. ASSUME GetConfig PROVE BatchRead
    BY <1>3 DEF GetConfig, ReadOk, ReadMsg, BatchRead, AtStream, threadVars, queueVars,
           devVars, kernelVars, lanVars, guestVars, feVars
<1>4. ASSUME SetOwner PROVE BatchRead
    BY <1>4 DEF SetOwner, ReadOk, ReadErr, ReadMsg, Die, BatchRead, AtStream, threadVars, queueVars,
           devVars, kernelVars, lanVars, guestVars, feVars
<1>5. ASSUME SetBackendReqFd PROVE BatchRead
    BY <1>5 DEF SetBackendReqFd, MissingFd, ReadOk, ReadErr, ReadMsg, Die, BatchRead,
           AtStream, threadVars, queueVars, devVars, kernelVars, lanVars, guestVars, feVars
<1>6. ASSUME SetStatus PROVE BatchRead
    BY <1>6 DEF SetStatus, ReadOk, ReadMsg, BatchRead, AtStream, threadVars, queueVars,
           devVars, kernelVars, lanVars, guestVars, feVars
<1>7. ASSUME SetVringErr PROVE BatchRead
    BY <1>7 DEF SetVringErr, MissingFd, ReadOk, ReadErr, ReadMsg, Die, BatchRead,
           AtStream, threadVars, queueVars, devVars, kernelVars, lanVars, guestVars, feVars
<1>8. ASSUME SetMemTable PROVE BatchRead
    BY <1>8 DEF SetMemTable, MissingFd, ReadOk, ReadErr, ReadMsg, Die, BatchRead,
           AtStream, threadVars, queueVars, devVars, kernelVars, lanVars, guestVars, feVars
<1>9. ASSUME SetVringBase PROVE BatchRead
    BY <1>9 DEF SetVringBase, ReadOk, ReadMsg, BatchRead, AtStream, threadVars,
           queueVars, devVars, kernelVars, lanVars, guestVars, feVars
<1>10. ASSUME SetVringAddr PROVE BatchRead
    BY <1>10 DEF SetVringAddr, ReadOk, ReadErr, ReadMsg, Die, BatchRead, AtStream,
           threadVars, queueVars, devVars, kernelVars, lanVars, guestVars, feVars
<1>11. ASSUME SetVringCall PROVE BatchRead
    BY <1>11 DEF SetVringCall, MissingFd, ReadOk, ReadErr, ReadMsg, Die, BatchRead,
           AtStream, threadVars, queueVars, devVars, kernelVars, lanVars, guestVars, feVars
<1>12. ASSUME SetVringEnable PROVE BatchRead
    BY <1>12 DEF SetVringEnable, ReadOk, ReadMsg, BatchRead, AtStream, threadVars,
           queueVars, devVars, kernelVars, lanVars, guestVars, feVars
<1>13. ASSUME SetVringKick PROVE BatchRead
    BY <1>13 DEF SetVringKick, MissingFd, ReadOk, ReadErr, ReadMsg, Die, BatchRead,
           AtStream, threadVars, queueVars, devVars, kernelVars, lanVars, guestVars, feVars
<1>14. ASSUME GetVringBase PROVE BatchRead
    BY <1>14 DEF GetVringBase, ReadOk, ReadErr, ReadMsg, Die, BatchRead, AtStream,
           threadVars, queueVars, devVars, kernelVars, lanVars, guestVars, feVars
<1> QED BY <1>1, <1>2, <1>3, <1>4, <1>5, <1>6, <1>7, <1>8, <1>9, <1>10, <1>11,
       <1>12, <1>13, <1>14
    DEF parse_msg

\* The thread's own steps.
LEMMA AdvanceSteps ==
    ASSUME PollTypes, BatchReadable,
           \/ StreamDrained \/ StreamClosed \/ HandleWake \/ kick_rx \/ RxOne \/ RxDone
           \/ kick_tx \/ TxOne \/ TxDone \/ UNCHANGED vars
    PROVE  BatchAdvances /\ UNCHANGED kick_fds
<1> USE DEF PollTypes, BatchAdvances
<1>0. pc = "event" => batch # <<>>
    BY DEF BatchReadable
<1>1. CASE StreamDrained
    BY <1>1 DEF StreamDrained, AtStream, EventDone, kernelVars, devVars
<1>2. CASE StreamClosed
    BY <1>2 DEF StreamClosed, AtStream, Die, kernelVars, devVars
<1>3. CASE HandleWake
    BY <1>3 DEF HandleWake, handle_rx_queued, EventDone, Die, kernelVars, devVars
<1>4. CASE kick_rx
    <2>1. /\ pc = "event" /\ Head(batch) > TOKEN_WAKE /\ kick_fds[Head(batch) - 1] = RxQueue
          /\ kicks' = [kicks EXCEPT ![RxQueue] = FALSE] /\ UNCHANGED kick_fds
        BY <1>4 DEF kick_rx, ReadKick, devVars
    <2>2. \/ batch' = <<>> /\ pc' = "dead"
          \/ batch' = Tail(batch) /\ pc' = IF Tail(batch) = <<>> THEN "poll" ELSE "event"
          \/ batch' = batch /\ pc' = "rx"
        BY <1>4 DEF kick_rx, handle_rx_queued, EventDone, Die
    <2>3. /\ kicks' \in [Queues -> BOOLEAN]
          /\ \A q \in Queues : q # kick_fds[Head(batch) - 1] => kicks'[q] = kicks[q]
        BY <2>1
    <2>4. batch # <<>> => ~(batch' = batch /\ pc' = "event")
        BY <2>2, TailFacts
    <2> QED BY <1>0, <2>1, <2>2, <2>3, <2>4
<1>5. CASE RxOne
    BY <1>5 DEF RxOne, Die, kernelVars, devVars
<1>6. CASE RxDone
    BY <1>6 DEF RxDone, call, EventDone, Die, kernelVars, devVars
<1>7. CASE kick_tx
    BY <1>7 DEF kick_tx, ReadKick, Die, devVars, TxQueue, Queues
<1>8. CASE TxOne
    BY <1>8 DEF TxOne, Die, kernelVars, devVars
<1>9. CASE TxDone
    BY <1>9 DEF TxDone, call, EventDone, Die, kernelVars, devVars
<1>10. CASE UNCHANGED vars
    BY <1>10 DEF vars, threadVars, kernelVars, devVars
<1> QED BY <1>1, <1>2, <1>3, <1>4, <1>5, <1>6, <1>7, <1>8, <1>9, <1>10


\* What BatchReadable says of the batch survives such a step.
LEMMA BatchKept ==
    ASSUME PollTypes, StreamTypes, BatchReadable, BatchAdvances,
           UNCHANGED kick_fds \/ \E r \in Queues : kick_fds' = Append(kick_fds, r)
    PROVE  /\ pc' \in {"poll", "event", "rx", "tx", "dead"} /\ batch' \in Seq(Nat)
           /\ kicks' \in [Queues -> BOOLEAN] /\ BatchReadable'
<1>1. /\ pc \in {"poll", "event", "rx", "tx", "dead"} /\ batch \in Seq(Nat)
      /\ kicks' \in [Queues -> BOOLEAN] /\ kick_fds \in Seq(Queues)
      /\ Len(batch) \in Nat /\ Len(kick_fds) \in Nat
    BY DEF PollTypes, StreamTypes, BatchAdvances
<1>2. /\ Len(kick_fds') \in Nat /\ Len(kick_fds) <= Len(kick_fds')
      /\ \A i \in 1..Len(kick_fds) : kick_fds'[i] = kick_fds[i]
    <2>1. CASE UNCHANGED kick_fds
        BY <1>1, <2>1
    <2>2. ASSUME NEW r \in Queues, kick_fds' = Append(kick_fds, r)
          PROVE  /\ Len(kick_fds') \in Nat /\ Len(kick_fds) <= Len(kick_fds')
                 /\ \A i \in 1..Len(kick_fds) : kick_fds'[i] = kick_fds[i]
        BY <1>1, <2>2, AppendFacts
    <2> QED BY <2>1, <2>2
<1>3. \A i \in 1..Len(batch) : batch[i] \in Nat /\ batch[i] <= Len(kick_fds) + 1
    BY <1>1 DEF BatchReadable
<1>4. ASSUME NEW i \in 1..Len(batch), batch[i] > TOKEN_WAKE
      PROVE  kick_fds'[batch[i] - 1] = kick_fds[batch[i] - 1] /\ kick_fds[batch[i] - 1] \in Queues
    <2>1. batch[i] - 1 \in 1..Len(kick_fds)
        BY <1>1, <1>3, <1>4 DEF TOKEN_WAKE
    <2> QED BY <1>1, <1>2, <2>1
<1>5. \A i, j \in 1..Len(batch) :
         /\ batch[i] > TOKEN_WAKE /\ batch[j] > TOKEN_WAKE
         /\ kick_fds[batch[i] - 1] = kick_fds[batch[j] - 1]
         => i = j
    BY DEF BatchReadable
<1>6. ASSUME NEW i \in 1..Len(batch), batch[i] > TOKEN_WAKE, i # 1
      PROVE  kicks'[kick_fds'[batch[i] - 1]] = TRUE
    <2>1. kicks[kick_fds[batch[i] - 1]] = TRUE
        BY <1>6 DEF BatchReadable, ToRead
    <2>2. CASE \A q \in Queues : kicks[q] = TRUE => kicks'[q] = TRUE
        BY <1>4, <1>6, <2>1, <2>2
    <2>3. CASE /\ Head(batch) > TOKEN_WAKE
               /\ \A q \in Queues : q # kick_fds[Head(batch) - 1] => kicks'[q] = kicks[q]
        <3>1. 1 \in 1..Len(batch) /\ batch[1] = Head(batch)
            BY <1>1, <1>6
        <3>2. kick_fds[batch[i] - 1] # kick_fds[Head(batch) - 1]
            BY <1>5, <1>6, <2>3, <3>1
        <3> QED BY <1>4, <1>6, <2>1, <2>3, <3>2
    <2> QED BY <2>2, <2>3 DEF BatchAdvances
<1>7. ASSUME batch' = batch, pc' = "event", 1 \in 1..Len(batch), batch[1] > TOKEN_WAKE,
             pc = "event"
      PROVE  kicks'[kick_fds'[batch[1] - 1]] = TRUE
    <2>1. kicks[kick_fds[batch[1] - 1]] = TRUE
        BY <1>7 DEF BatchReadable, ToRead
    <2>2. \A q \in Queues : kicks[q] = TRUE => kicks'[q] = TRUE
        BY <1>7 DEF BatchAdvances
    <2> QED BY <1>4, <1>7, <2>1, <2>2
<1>8. CASE batch' = <<>> /\ pc' = "dead"
    <2>1. Len(batch') = 0 /\ batch' \in Seq(Nat)
        BY <1>8
    <2> QED BY <1>1, <1>8, <2>1 DEF BatchReadable
<1>9. CASE /\ pc \in {"event", "rx", "tx"} /\ batch' = Tail(batch)
           /\ pc' = IF Tail(batch) = <<>> THEN "poll" ELSE "event"
    <2>1. batch # <<>>
        BY <1>9 DEF BatchReadable
    <2>2. /\ batch' \in Seq(Nat)
          /\ \A i \in 1..Len(batch') : batch'[i] = batch[i + 1] /\ i + 1 \in 1..Len(batch)
        BY <1>1, <1>9, <2>1, TailFacts
    <2>3. pc' \in {"poll", "event"} /\ (pc' = "event" => batch' # <<>>)
        BY <1>9
    <2>4. \A i \in 1..Len(batch') : batch'[i] <= Len(kick_fds') + 1
        BY <1>1, <1>2, <1>3, <2>2
    <2>5. ASSUME NEW i \in 1..Len(batch'), batch'[i] > TOKEN_WAKE
          PROVE  kicks'[kick_fds'[batch'[i] - 1]] = TRUE
        <3>1. batch[i + 1] > TOKEN_WAKE /\ i + 1 # 1 /\ i + 1 \in 1..Len(batch)
            BY <2>2, <2>5
        <3> QED BY <1>6, <2>2, <3>1
    <2>6. ASSUME NEW i \in 1..Len(batch'), NEW j \in 1..Len(batch'),
                 batch'[i] > TOKEN_WAKE, batch'[j] > TOKEN_WAKE,
                 kick_fds'[batch'[i] - 1] = kick_fds'[batch'[j] - 1]
          PROVE  i = j
        <3>1. /\ batch[i + 1] > TOKEN_WAKE /\ batch[j + 1] > TOKEN_WAKE
              /\ i + 1 \in 1..Len(batch) /\ j + 1 \in 1..Len(batch)
              /\ kick_fds'[batch[i + 1] - 1] = kick_fds'[batch[j + 1] - 1]
            BY <2>2, <2>6
        <3>2. kick_fds[batch[i + 1] - 1] = kick_fds[batch[j + 1] - 1]
            BY <1>4, <3>1
        <3>3. i + 1 = j + 1
            BY <1>5, <3>1, <3>2
        <3> QED BY <3>3
    <2> QED BY <1>1, <2>2, <2>3, <2>4, <2>5, <2>6 DEF BatchReadable, ToRead
<1>10. CASE batch' = batch /\ (pc' = pc \/ (pc = "event" /\ pc' \in {"rx", "tx"}))
    <2>1. pc' \in {"event", "rx", "tx"} => batch' # <<>>
        BY <1>10 DEF BatchReadable
    <2>2. \A i \in 1..Len(batch') : batch'[i] <= Len(kick_fds') + 1
        BY <1>1, <1>2, <1>3, <1>10
    <2>3. ASSUME NEW i \in 1..Len(batch'), batch'[i] > TOKEN_WAKE, i = 1 => pc' = "event"
          PROVE  kicks'[kick_fds'[batch'[i] - 1]] = TRUE
        <3>1. batch[i] > TOKEN_WAKE /\ i \in 1..Len(batch)
            BY <1>10, <2>3
        <3>2. CASE i # 1
            BY <1>6, <1>10, <3>1, <3>2
        <3>3. CASE i = 1
            <4>1. pc = "event" /\ pc' = "event"
                BY <1>10, <2>3, <3>3
            <4> QED BY <1>7, <1>10, <3>1, <3>3, <4>1
        <3> QED BY <3>2, <3>3
    <2>4. ASSUME NEW i \in 1..Len(batch'), NEW j \in 1..Len(batch'),
                 batch'[i] > TOKEN_WAKE, batch'[j] > TOKEN_WAKE,
                 kick_fds'[batch'[i] - 1] = kick_fds'[batch'[j] - 1]
          PROVE  i = j
        BY <1>4, <1>5, <1>10, <2>4
    <2>5. pc' \in {"poll", "event", "rx", "tx", "dead"} /\ batch' \in Seq(Nat)
        BY <1>1, <1>10
    <2> QED BY <1>1, <2>1, <2>2, <2>3, <2>4, <2>5 DEF BatchReadable, ToRead
<1> QED BY <1>8, <1>9, <1>10 DEF BatchAdvances

\* A registered token is the one of its queue.
LEMMA TokenOfQueue ==
    ASSUME TokensOwned, NEW t \in registered
    PROVE  kick_fds[t - 1] \in Queues /\ t = kick_fd[kick_fds[t - 1]]
<1>1. PICK q \in Queues : t = kick_fd[q] /\ t # None
    BY DEF TokensOwned
<1>2. kick_fds[kick_fd[q] - 1] = q
    BY <1>1 DEF TokensOwned
<1> QED BY <1>1, <1>2

\* A poll reports every queue once, and only what can still be read.
LEMMA PollKeeps ==
    ASSUME PollTypes, StreamTypes, TokensOwned, Distinct(events), Poll
    PROVE  /\ pc' \in {"poll", "event", "rx", "tx", "dead"} /\ batch' \in Seq(Nat)
           /\ kicks' \in [Queues -> BOOLEAN] /\ BatchReadable'
           /\ events' \in Seq(Nat) /\ Distinct(events')
<1> DEFINE S == {t \in Tokens : StillReady(t)}
<1>1. /\ batch' = Keep(events, S) /\ events' = <<>>
      /\ pc' = IF batch' = <<>> THEN "poll" ELSE "event"
      /\ UNCHANGED <<kicks, kick_fds>>
    BY DEF Poll, devVars
<1>2. \A t \in S : t \in Tokens /\ StillReady(t)
    OBVIOUS
<1> HIDE DEF S
<1>3. /\ batch' \in Seq(Nat) /\ \A k \in 1..Len(batch') : batch'[k] \in S
      /\ Distinct(batch')
    BY <1>1, KeepFacts DEF PollTypes
<1>4. \A k \in 1..Len(batch') : batch'[k] <= Len(kick_fds) + 1
    BY <1>2, <1>3 DEF Tokens, StreamTypes
<1>5. ASSUME NEW k \in 1..Len(batch'), batch'[k] > TOKEN_WAKE
      PROVE  batch'[k] \in registered /\ kicks[kick_fds[batch'[k] - 1]] = TRUE
    <2>1. PICK t : t = batch'[k] /\ t \in Nat /\ t \in S /\ t > TOKEN_WAKE
        BY <1>3, <1>5
    <2>2. StillReady(t) /\ t # TOKEN_STRM /\ t # TOKEN_WAKE
        BY <1>2, <2>1 DEF TOKEN_STRM, TOKEN_WAKE
    <2>3. t \in registered /\ kicks[kick_fds[t - 1]]
        BY <2>2 DEF StillReady
    <2>4. kick_fds[t - 1] \in Queues
        BY <2>3, TokenOfQueue
    <2>5. kicks[kick_fds[t - 1]] = TRUE
        BY <2>3, <2>4 DEF PollTypes
    <2> QED BY <2>1, <2>3, <2>5
<1>6. ASSUME NEW i \in 1..Len(batch'), NEW j \in 1..Len(batch'),
             batch'[i] > TOKEN_WAKE, batch'[j] > TOKEN_WAKE,
             kick_fds[batch'[i] - 1] = kick_fds[batch'[j] - 1]
      PROVE  i = j
    <2>1. batch'[i] = batch'[j]
        BY <1>5, <1>6, TokenOfQueue
    <2> QED BY <1>3, <2>1 DEF Distinct
<1>7. events' \in Seq(Nat) /\ Distinct(events')
    BY <1>1 DEF Distinct
<1>8. pc' \in {"poll", "event"} /\ (pc' = "event" => batch' # <<>>)
    BY <1>1
<1>9. BatchReadable'
    BY <1>1, <1>3, <1>4, <1>5, <1>6, <1>8 DEF BatchReadable, ToRead
<1> QED BY <1>1, <1>3, <1>7, <1>8, <1>9 DEF PollTypes

\* What a step does to the list of events: a token is listed, a vring's token
\* is struck off, or the tokens of a kick are added.
EventsShape ==
    \/ UNCHANGED events
    \/ \E t \in Nat : events' = Signal(events, t)
    \/ \E S : events' = Keep(events, S)
    \/ \E n \in Nat : \E S : /\ events' = events \o Keep(Upto(n), S)
                             /\ \A t \in S : ~Listed(events, t)

\* In each of them no token is listed twice.
LEMMA EventsKept ==
    ASSUME events \in Seq(Nat), Distinct(events), EventsShape
    PROVE  events' \in Seq(Nat) /\ Distinct(events')
<1>1. CASE UNCHANGED events
    BY <1>1 DEF Distinct
<1>2. ASSUME NEW t \in Nat, events' = Signal(events, t)
      PROVE  events' \in Seq(Nat) /\ Distinct(events')
    <2>1. CASE Listed(events, t)
        <3>1. events' = events
            BY <1>2, <2>1 DEF Signal
        <3> QED BY <3>1
    <2>2. CASE ~Listed(events, t)
        <3>1. events' = Append(events, t)
            BY <1>2, <2>2 DEF Signal
        <3>2. /\ events' \in Seq(Nat) /\ Len(events) \in Nat /\ Len(events') = Len(events) + 1
              /\ events'[Len(events) + 1] = t
              /\ \A i \in 1..Len(events) : events'[i] = events[i]
              /\ \A i \in 1..(Len(events) + 1) : i \in 1..Len(events) \/ i = Len(events) + 1
            BY <3>1, AppendFacts
        <3>3. \A i \in 1..Len(events) : events[i] # t
            BY <2>2 DEF Listed
        <3> QED BY <3>2, <3>3 DEF Distinct
    <2> QED BY <2>1, <2>2
<1>3. ASSUME NEW S, events' = Keep(events, S)
      PROVE  events' \in Seq(Nat) /\ Distinct(events')
    BY <1>3, KeepFacts
<1>4. ASSUME NEW n \in Nat, NEW S, events' = events \o Keep(Upto(n), S),
             \A t \in S : ~Listed(events, t)
      PROVE  events' \in Seq(Nat) /\ Distinct(events')
    <2> DEFINE new == Keep(Upto(n), S)
    <2>1. Upto(n) \in Seq(Nat) /\ Distinct(Upto(n))
        BY DEF Upto, Distinct
    <2>2. new \in Seq(Nat) /\ Distinct(new) /\ \A k \in 1..Len(new) : new[k] \in S
        BY <2>1, KeepFacts
    <2>3. events' = events \o new
        BY <1>4
    <2> HIDE DEF new
    <2>4. /\ events' \in Seq(Nat) /\ Len(events') = Len(events) + Len(new)
          /\ Len(events) \in Nat /\ Len(new) \in Nat
          /\ \A i \in 1..Len(events) : events'[i] = events[i]
          /\ \A i \in 1..Len(events') : i \notin 1..Len(events) =>
               i - Len(events) \in 1..Len(new) /\ events'[i] = new[i - Len(events)]
        BY <2>2, <2>3
    <2>5. \A i \in 1..Len(events), k \in 1..Len(new) : events[i] # new[k]
        BY <1>4, <2>2 DEF Listed
    <2>6. ASSUME NEW i \in 1..Len(events'), NEW j \in 1..Len(events'), events'[i] = events'[j]
          PROVE  i = j
        <3>1. \A k \in 1..Len(events') :
                 \/ k \in 1..Len(events)
                 \/ k - Len(events) \in 1..Len(new) /\ events'[k] = new[k - Len(events)]
            BY <2>4
        <3>2. CASE i \in 1..Len(events) /\ j \in 1..Len(events)
            BY <2>4, <2>6, <3>2 DEF Distinct
        <3>3. CASE i \in 1..Len(events) /\ j \notin 1..Len(events)
            BY <2>4, <2>5, <2>6, <3>1, <3>3
        <3>4. CASE i \notin 1..Len(events) /\ j \in 1..Len(events)
            BY <2>4, <2>5, <2>6, <3>1, <3>4
        <3>5. CASE i \notin 1..Len(events) /\ j \notin 1..Len(events)
            <4>1. i - Len(events) = j - Len(events)
                BY <2>2, <2>6, <3>1, <3>5 DEF Distinct
            <4> QED BY <2>4, <4>1
        <3> QED BY <3>2, <3>3, <3>4, <3>5
    <2> QED BY <2>4, <2>6 DEF Distinct
<1> QED BY <1>1, <1>2, <1>3, <1>4 DEF EventsShape

\* Every step but a poll has such a shape.
LEMMA EventsSteps ==
    ASSUME StreamTypes, Next, ~Poll
    PROVE  EventsShape
<1>1. ASSUME StreamDrained PROVE EventsShape
    BY <1>1 DEF StreamDrained, EventDone, EventsShape, AtStream, threadVars, queueVars,
           devVars, kernelVars, lanVars, guestVars, feVars
<1>2. ASSUME StreamClosed PROVE EventsShape
    BY <1>2 DEF StreamClosed, Die, EventsShape, AtStream, threadVars, queueVars,
           devVars, kernelVars, lanVars, guestVars, feVars
<1>3. ASSUME Query PROVE EventsShape
    BY <1>3 DEF Query, ReadOk, ReadErr, ReadMsg, Die, EventsShape, AtStream, threadVars,
           queueVars, devVars, kernelVars, lanVars, guestVars, feVars
<1>4. ASSUME Note PROVE EventsShape
    BY <1>4 DEF Note, ReadOk, ReadMsg, EventsShape, AtStream, threadVars, queueVars,
           devVars, kernelVars, lanVars, guestVars, feVars
<1>5. ASSUME GetConfig PROVE EventsShape
    BY <1>5 DEF GetConfig, ReadOk, ReadMsg, EventsShape, AtStream, threadVars,
           queueVars, devVars, kernelVars, lanVars, guestVars, feVars
<1>6. ASSUME SetOwner PROVE EventsShape
    BY <1>6 DEF SetOwner, ReadOk, ReadErr, ReadMsg, Die, EventsShape, AtStream, threadVars, queueVars,
           devVars, kernelVars, lanVars, guestVars, feVars
<1>7. ASSUME SetBackendReqFd PROVE EventsShape
    BY <1>7 DEF SetBackendReqFd, MissingFd, ReadOk, ReadErr, ReadMsg, Die, EventsShape,
           AtStream, threadVars, queueVars, devVars, kernelVars, lanVars, guestVars, feVars
<1>8. ASSUME SetStatus PROVE EventsShape
    BY <1>8 DEF SetStatus, ReadOk, ReadMsg, EventsShape, AtStream, threadVars,
           queueVars, devVars, kernelVars, lanVars, guestVars, feVars
<1>9. ASSUME SetVringErr PROVE EventsShape
    BY <1>9 DEF SetVringErr, MissingFd, ReadOk, ReadErr, ReadMsg, Die, EventsShape,
           AtStream, threadVars, queueVars, devVars, kernelVars, lanVars, guestVars, feVars
<1>10. ASSUME SetMemTable PROVE EventsShape
    BY <1>10 DEF SetMemTable, MissingFd, ReadOk, ReadErr, ReadMsg, Die, EventsShape,
           AtStream, threadVars, queueVars, devVars, kernelVars, lanVars, guestVars, feVars
<1>11. ASSUME SetVringBase PROVE EventsShape
    BY <1>11 DEF SetVringBase, ReadOk, ReadMsg, EventsShape, AtStream, threadVars,
           queueVars, devVars, kernelVars, lanVars, guestVars, feVars
<1>12. ASSUME SetVringAddr PROVE EventsShape
    BY <1>12 DEF SetVringAddr, ReadOk, ReadErr, ReadMsg, Die, EventsShape, AtStream,
           threadVars, queueVars, devVars, kernelVars, lanVars, guestVars, feVars
<1>13. ASSUME SetVringKick PROVE EventsShape
    <2>1. \/ UNCHANGED events
          \/ events' = Signal(events, Len(kick_fds) + 2) /\ Len(kick_fds) + 2 \in Nat
        BY <1>13 DEF SetVringKick, MissingFd, ReadOk, ReadErr, ReadMsg, Die, StreamTypes
    <2> QED BY <2>1 DEF EventsShape
<1>14. ASSUME SetVringCall PROVE EventsShape
    BY <1>14 DEF SetVringCall, MissingFd, ReadOk, ReadErr, ReadMsg, Die, EventsShape,
           AtStream, threadVars, queueVars, devVars, kernelVars, lanVars, guestVars, feVars
<1>15. ASSUME SetVringEnable PROVE EventsShape
    BY <1>15 DEF SetVringEnable, ReadOk, ReadMsg, EventsShape, AtStream, threadVars,
           queueVars, devVars, kernelVars, lanVars, guestVars, feVars
<1>16. ASSUME GetVringBase PROVE EventsShape
    <2>1. \/ UNCHANGED events
          \/ events' = Keep(events, Tokens \ {kick_fd[Head(stream).q]})
        BY <1>16 DEF GetVringBase, ReadOk, ReadErr, ReadMsg, Die
    <2> QED BY <2>1 DEF EventsShape
<1>17. ASSUME HandleWake PROVE EventsShape
    BY <1>17 DEF HandleWake, handle_rx_queued, EventDone, Die, EventsShape, AtStream,
           threadVars, queueVars, devVars, kernelVars, lanVars, guestVars, feVars
<1>18. ASSUME kick_rx PROVE EventsShape
    BY <1>18 DEF kick_rx, ReadKick, handle_rx_queued, EventDone, Die, EventsShape,
           AtStream, threadVars, queueVars, devVars, kernelVars, lanVars, guestVars, feVars
<1>19. ASSUME RxOne PROVE EventsShape
    BY <1>19 DEF RxOne, Die, EventsShape, AtStream, threadVars, queueVars, devVars,
           kernelVars, lanVars, guestVars, feVars
<1>20. ASSUME RxDone PROVE EventsShape
    BY <1>20 DEF RxDone, call, EventDone, Die, EventsShape, AtStream, threadVars,
           queueVars, devVars, kernelVars, lanVars, guestVars, feVars
<1>21. ASSUME kick_tx PROVE EventsShape
    BY <1>21 DEF kick_tx, ReadKick, TxFailure, EventDone, Die, EventsShape, AtStream,
           threadVars, queueVars, devVars, kernelVars, lanVars, guestVars, feVars
<1>22. ASSUME TxOne PROVE EventsShape
    BY <1>22 DEF TxOne, Die, EventsShape, AtStream, threadVars, queueVars, devVars,
           kernelVars, lanVars, guestVars, feVars
<1>23. ASSUME TxDone PROVE EventsShape
    BY <1>23 DEF TxDone, call, EventDone, Die, EventsShape, AtStream, threadVars,
           queueVars, devVars, kernelVars, lanVars, guestVars, feVars
<1>24. ASSUME Push PROVE EventsShape
    BY <1>24 DEF Push, EventsShape, AtStream, threadVars, queueVars, devVars,
           kernelVars, lanVars, guestVars, feVars
<1>25. ASSUME Wake PROVE EventsShape
    <2>1. events' = Signal(events, TOKEN_WAKE) /\ TOKEN_WAKE \in Nat
        BY <1>25 DEF Wake, TOKEN_WAKE
    <2> QED BY <2>1 DEF EventsShape
<1>26. ASSUME NEW q, NEW buf, Post(q, buf) PROVE EventsShape
    BY <1>26 DEF Post, EventsShape, AtStream, threadVars, queueVars, devVars,
           kernelVars, lanVars, guestVars, feVars
<1>27. ASSUME NEW q, Kick(q) PROVE EventsShape
    <2> DEFINE S == {t \in KickTokens(q) : ~Listed(events, t)}
    <2>1. events' = events \o Keep(Upto(Len(kick_fds) + 1), S)
        BY <1>27 DEF Kick
    <2>2. \A t \in S : ~Listed(events, t)
        OBVIOUS
    <2> HIDE DEF S
    <2>3. Len(kick_fds) + 1 \in Nat
        BY DEF StreamTypes
    <2> QED BY <2>1, <2>2, <2>3 DEF EventsShape
<1>28. ASSUME SendPlain PROVE EventsShape
    <2>1. events' = Signal(events, TOKEN_STRM) /\ TOKEN_STRM \in Nat
        BY <1>28 DEF SendPlain, SendMsg, Extra, TOKEN_STRM
    <2> QED BY <2>1 DEF EventsShape
<1>29. ASSUME Close PROVE EventsShape
    <2>1. events' = Signal(events, TOKEN_STRM) /\ TOKEN_STRM \in Nat
        BY <1>29 DEF Close, TOKEN_STRM
    <2> QED BY <2>1 DEF EventsShape
<1>30. ASSUME NEW q, SendBase(q) PROVE EventsShape
    <2>1. events' = Signal(events, TOKEN_STRM) /\ TOKEN_STRM \in Nat
        BY <1>30 DEF SendBase, SendMsg, NextPhase, TOKEN_STRM
    <2> QED BY <2>1 DEF EventsShape
<1>31. ASSUME NEW q, SendAddr(q) PROVE EventsShape
    <2>1. events' = Signal(events, TOKEN_STRM) /\ TOKEN_STRM \in Nat
        BY <1>31 DEF SendAddr, SendMsg, NextPhase, TOKEN_STRM
    <2> QED BY <2>1 DEF EventsShape
<1>32. ASSUME NEW q, SendKick(q) PROVE EventsShape
    <2>1. events' = Signal(events, TOKEN_STRM) /\ TOKEN_STRM \in Nat
        BY <1>32 DEF SendKick, SendMsg, NextPhase, TOKEN_STRM
    <2> QED BY <2>1 DEF EventsShape
<1>33. ASSUME NEW q, SendCallOrEnable(q) PROVE EventsShape
    <2>1. events' = Signal(events, TOKEN_STRM) /\ TOKEN_STRM \in Nat
        BY <1>33 DEF SendCallOrEnable, SendMsg, Extra, TOKEN_STRM
    <2> QED BY <2>1 DEF EventsShape
<1>34. ASSUME NEW q, SendStop(q) PROVE EventsShape
    <2>1. events' = Signal(events, TOKEN_STRM) /\ TOKEN_STRM \in Nat
        BY <1>34 DEF SendStop, SendMsg, TOKEN_STRM
    <2> QED BY <2>1 DEF EventsShape
<1> QED BY <1>1, <1>2, <1>3, <1>4, <1>5, <1>6, <1>7, <1>8, <1>9, <1>10, <1>11,
       <1>12, <1>13, <1>14, <1>15, <1>16, <1>17, <1>18, <1>19, <1>20, <1>21,
       <1>22, <1>23, <1>24, <1>25, <1>26, <1>27, <1>28, <1>29, <1>30, <1>31,
       <1>32, <1>33, <1>34
    DEF Next, Device, parse_msg, Guest, FrontEnd

\* Every step but a poll leaves the batch readable.
LEMMA BatchStep ==
    ASSUME PollTypes, StreamTypes, BatchReadable, Next, ~Poll
    PROVE  /\ pc' \in {"poll", "event", "rx", "tx", "dead"} /\ batch' \in Seq(Nat)
           /\ kicks' \in [Queues -> BOOLEAN] /\ BatchReadable'
<1>1. ASSUME NEW q, NEW buf,
             \/ Push \/ Wake \/ Post(q, buf) \/ SendPlain \/ Close \/ SendBase(q)
             \/ SendAddr(q) \/ SendKick(q) \/ SendCallOrEnable(q) \/ SendStop(q)
      PROVE  BatchAdvances /\ UNCHANGED kick_fds
    <2>1. BatchStill
        BY <1>1, StillSteps
    <2> QED BY <2>1 DEF BatchStill, BatchAdvances, PollTypes
<1>2. ASSUME NEW q \in Queues, Kick(q)
      PROVE  BatchAdvances /\ UNCHANGED kick_fds
    <2>1. kicks' = [kicks EXCEPT ![q] = TRUE] /\ UNCHANGED <<batch, pc, kick_fds>>
        BY <1>2 DEF Kick, threadVars, devVars
    <2> QED BY <2>1 DEF BatchAdvances, PollTypes
<1>3. ASSUME parse_msg
      PROVE  /\ BatchAdvances
             /\ UNCHANGED kick_fds \/ \E r \in Queues : kick_fds' = Append(kick_fds, r)
    <2>1. BatchRead
        BY <1>3, ReadMsgSteps
    <2>2. BatchAdvances
        BY <2>1 DEF BatchRead, BatchAdvances, PollTypes
    <2>3. stream # <<>> /\ stream' = Tail(stream)
        BY <1>3, ReadSteps DEF Took, Started, Stopped
    <2>4. Head(stream).q \in Queues
        BY <2>3, StreamTail
    <2> QED BY <2>1, <2>2, <2>4 DEF BatchRead
<1>4. ASSUME \/ StreamDrained \/ StreamClosed \/ HandleWake \/ kick_rx \/ RxOne \/ RxDone
             \/ kick_tx \/ TxOne \/ TxDone
      PROVE  BatchAdvances /\ UNCHANGED kick_fds
    BY <1>4, AdvanceSteps
<1>5. /\ BatchAdvances
      /\ UNCHANGED kick_fds \/ \E r \in Queues : kick_fds' = Append(kick_fds, r)
    BY <1>1, <1>2, <1>3, <1>4 DEF Next, Device, Guest, FrontEnd
<1> QED BY <1>5, BatchKept


\* A step that does not end the thread for want of a kick to read.
Readable == UNCHANGED death \/ death' # "EAGAIN"

\* The kick at the head of the batch can be read.
LEMMA HeadReadable ==
    ASSUME PollTypes, BatchReadable, NEW q \in Queues, ReadKick(q)
    PROVE  kicks[q] = TRUE
<1>1. pc = "event" /\ Head(batch) > TOKEN_WAKE /\ kick_fds[Head(batch) - 1] = q
    BY DEF ReadKick
<1>2. batch # <<>>
    BY <1>1 DEF BatchReadable
<1>3. 1 \in 1..Len(batch) /\ Head(batch) = batch[1]
    BY <1>2 DEF PollTypes
<1> QED BY <1>1, <1>3 DEF BatchReadable, ToRead

\* No step does.
LEMMA ReadableSteps ==
    ASSUME PollTypes, BatchReadable, Next
    PROVE  Readable
<1>1. ASSUME Poll PROVE Readable
    BY <1>1 DEF Poll, Readable, AtStream, threadVars, queueVars, devVars, kernelVars,
           lanVars, guestVars, feVars
<1>2. ASSUME StreamDrained PROVE Readable
    BY <1>2 DEF StreamDrained, EventDone, Readable, AtStream, threadVars, queueVars,
           devVars, kernelVars, lanVars, guestVars, feVars
<1>3. ASSUME StreamClosed PROVE Readable
    BY <1>3 DEF StreamClosed, Die, Readable, AtStream, threadVars, queueVars, devVars,
           kernelVars, lanVars, guestVars, feVars
<1>4. ASSUME Query PROVE Readable
    BY <1>4 DEF Query, ReadOk, ReadErr, ReadMsg, Die, Readable, AtStream, threadVars,
           queueVars, devVars, kernelVars, lanVars, guestVars, feVars
<1>5. ASSUME Note PROVE Readable
    BY <1>5 DEF Note, ReadOk, ReadMsg, Readable, AtStream, threadVars, queueVars,
           devVars, kernelVars, lanVars, guestVars, feVars
<1>6. ASSUME GetConfig PROVE Readable
    BY <1>6 DEF GetConfig, ReadOk, ReadMsg, Readable, AtStream, threadVars, queueVars,
           devVars, kernelVars, lanVars, guestVars, feVars
<1>7. ASSUME SetOwner PROVE Readable
    BY <1>7 DEF SetOwner, ReadOk, ReadErr, ReadMsg, Die, Readable, AtStream, threadVars, queueVars,
           devVars, kernelVars, lanVars, guestVars, feVars
<1>8. ASSUME SetBackendReqFd PROVE Readable
    BY <1>8 DEF SetBackendReqFd, MissingFd, ReadOk, ReadErr, ReadMsg, Die, Readable,
           AtStream, threadVars, queueVars, devVars, kernelVars, lanVars, guestVars, feVars
<1>9. ASSUME SetStatus PROVE Readable
    BY <1>9 DEF SetStatus, ReadOk, ReadMsg, Readable, AtStream, threadVars, queueVars,
           devVars, kernelVars, lanVars, guestVars, feVars
<1>10. ASSUME SetVringErr PROVE Readable
    BY <1>10 DEF SetVringErr, MissingFd, ReadOk, ReadErr, ReadMsg, Die, Readable,
           AtStream, threadVars, queueVars, devVars, kernelVars, lanVars, guestVars, feVars
<1>11. ASSUME SetMemTable PROVE Readable
    BY <1>11 DEF SetMemTable, MissingFd, ReadOk, ReadErr, ReadMsg, Die, Readable,
           AtStream, threadVars, queueVars, devVars, kernelVars, lanVars, guestVars, feVars
<1>12. ASSUME SetVringBase PROVE Readable
    BY <1>12 DEF SetVringBase, ReadOk, ReadMsg, Readable, AtStream, threadVars,
           queueVars, devVars, kernelVars, lanVars, guestVars, feVars
<1>13. ASSUME SetVringAddr PROVE Readable
    BY <1>13 DEF SetVringAddr, ReadOk, ReadErr, ReadMsg, Die, Readable, AtStream,
           threadVars, queueVars, devVars, kernelVars, lanVars, guestVars, feVars
<1>14. ASSUME SetVringKick PROVE Readable
    BY <1>14 DEF SetVringKick, MissingFd, ReadOk, ReadErr, ReadMsg, Die, Readable,
           AtStream, threadVars, queueVars, devVars, kernelVars, lanVars, guestVars, feVars
<1>15. ASSUME SetVringCall PROVE Readable
    BY <1>15 DEF SetVringCall, MissingFd, ReadOk, ReadErr, ReadMsg, Die, Readable,
           AtStream, threadVars, queueVars, devVars, kernelVars, lanVars, guestVars, feVars
<1>16. ASSUME SetVringEnable PROVE Readable
    BY <1>16 DEF SetVringEnable, ReadOk, ReadMsg, Readable, AtStream, threadVars,
           queueVars, devVars, kernelVars, lanVars, guestVars, feVars
<1>17. ASSUME GetVringBase PROVE Readable
    BY <1>17 DEF GetVringBase, ReadOk, ReadErr, ReadMsg, Die, Readable, AtStream,
           threadVars, queueVars, devVars, kernelVars, lanVars, guestVars, feVars
<1>18. ASSUME HandleWake PROVE Readable
    BY <1>18 DEF HandleWake, handle_rx_queued, EventDone, Die, Readable, AtStream,
           threadVars, queueVars, devVars, kernelVars, lanVars, guestVars, feVars
<1>19. ASSUME RxOne PROVE Readable
    BY <1>19 DEF RxOne, Die, Readable, AtStream, threadVars, queueVars, devVars,
           kernelVars, lanVars, guestVars, feVars
<1>20. ASSUME RxDone PROVE Readable
    BY <1>20 DEF RxDone, call, EventDone, Die, Readable, AtStream, threadVars,
           queueVars, devVars, kernelVars, lanVars, guestVars, feVars
<1>21. ASSUME TxOne PROVE Readable
    BY <1>21 DEF TxOne, Die, Readable, AtStream, threadVars, queueVars, devVars,
           kernelVars, lanVars, guestVars, feVars
<1>22. ASSUME TxDone PROVE Readable
    BY <1>22 DEF TxDone, call, EventDone, Die, Readable, AtStream, threadVars,
           queueVars, devVars, kernelVars, lanVars, guestVars, feVars
<1>23. ASSUME Push PROVE Readable
    BY <1>23 DEF Push, Readable, AtStream, threadVars, queueVars, devVars, kernelVars,
           lanVars, guestVars, feVars
<1>24. ASSUME Wake PROVE Readable
    BY <1>24 DEF Wake, Readable, AtStream, threadVars, queueVars, devVars, kernelVars,
           lanVars, guestVars, feVars
<1>25. ASSUME NEW q, NEW buf, Post(q, buf) PROVE Readable
    BY <1>25 DEF Post, Readable, AtStream, threadVars, queueVars, devVars, kernelVars,
           lanVars, guestVars, feVars
<1>26. ASSUME NEW q, Kick(q) PROVE Readable
    BY <1>26 DEF Kick, Readable, AtStream, threadVars, queueVars, devVars, kernelVars,
           lanVars, guestVars, feVars
<1>27. ASSUME SendPlain PROVE Readable
    BY <1>27 DEF SendPlain, SendMsg, Extra, Readable, AtStream, threadVars, queueVars,
           devVars, kernelVars, lanVars, guestVars, feVars
<1>28. ASSUME Close PROVE Readable
    BY <1>28 DEF Close, Readable, AtStream, threadVars, queueVars, devVars, kernelVars,
           lanVars, guestVars, feVars
<1>29. ASSUME NEW q, SendBase(q) PROVE Readable
    BY <1>29 DEF SendBase, SendMsg, NextPhase, Readable, AtStream, threadVars,
           queueVars, devVars, kernelVars, lanVars, guestVars, feVars
<1>30. ASSUME NEW q, SendAddr(q) PROVE Readable
    BY <1>30 DEF SendAddr, SendMsg, NextPhase, Readable, AtStream, threadVars,
           queueVars, devVars, kernelVars, lanVars, guestVars, feVars
<1>31. ASSUME NEW q, SendKick(q) PROVE Readable
    BY <1>31 DEF SendKick, SendMsg, NextPhase, Readable, AtStream, threadVars,
           queueVars, devVars, kernelVars, lanVars, guestVars, feVars
<1>32. ASSUME NEW q, SendCallOrEnable(q) PROVE Readable
    BY <1>32 DEF SendCallOrEnable, SendMsg, Extra, Readable, AtStream, threadVars,
           queueVars, devVars, kernelVars, lanVars, guestVars, feVars
<1>33. ASSUME NEW q, SendStop(q) PROVE Readable
    BY <1>33 DEF SendStop, SendMsg, Readable, AtStream, threadVars, queueVars, devVars,
           kernelVars, lanVars, guestVars, feVars
<1>34. ASSUME kick_rx PROVE Readable
    <2>1. kicks[RxQueue] = TRUE
        BY <1>34, HeadReadable DEF kick_rx, Queues
    <2> QED BY <1>34, <2>1 DEF kick_rx, handle_rx_queued, Die, Readable
<1>35. ASSUME kick_tx PROVE Readable
    <2>1. kicks[TxQueue] = TRUE
        BY <1>35, HeadReadable DEF kick_tx, Queues
    <2>2. UNCHANGED death \/ (TxFailure # "" /\ death' = TxFailure)
        BY <1>35 DEF kick_tx, Die
    <2> QED BY <2>1, <2>2 DEF TxFailure, Readable
<1> QED BY <1>1, <1>2, <1>3, <1>4, <1>5, <1>6, <1>7, <1>8, <1>9, <1>10, <1>11,
       <1>12, <1>13, <1>14, <1>15, <1>16, <1>17, <1>18, <1>19, <1>20, <1>21,
       <1>22, <1>23, <1>24, <1>25, <1>26, <1>27, <1>28, <1>29, <1>30, <1>31,
       <1>32, <1>33,
       <1>34, <1>35
    DEF Next, Device, parse_msg, Guest, FrontEnd

-----------------------------------------------------------------------------
(* The theorems. *)

\* The initial state satisfies the invariant.
LEMMA InitIInv ==
    ASSUME Init
    PROVE  IInv
<1>1. /\ pc = "poll" /\ death = "" /\ lan = 0 /\ awaiting = FALSE /\ registered = {}
      /\ batch = <<>> /\ events = <<>> /\ stream = <<>> /\ kick_fds = <<>>
      /\ pending = <<>> /\ delivered = <<>>
      /\ kicks = [q \in Queues |-> FALSE] /\ ready = [q \in Queues |-> FALSE]
      /\ kick_fd = [q \in Queues |-> None] /\ phase = [q \in Queues |-> "idle"]
      /\ base = [q \in Queues |-> 0] /\ starts = [q \in Queues |-> 0]
    BY DEF Init
<1>2. /\ pending \in Seq(Nat) /\ delivered \in Seq(Nat) /\ batch \in Seq(Nat)
      /\ events \in Seq(Nat) /\ stream \in Seq(Messages) /\ kick_fds \in Seq(Queues)
      /\ Len(pending) = 0 /\ Len(delivered) = 0 /\ Len(batch) = 0 /\ Len(events) = 0
      /\ Len(stream) = 0
    BY <1>1, EmptyFacts
<1>3. PacketsNumbered /\ DeadForACause
    <2>1. Lost = 0
        BY <1>1 DEF Lost
    <2>2. death = "" /\ pc = "poll" /\ lan = 0
        BY <1>1
    <2>3. DeadForACause
        BY <2>2 DEF DeadForACause
    <2>4. \A i : i \notin 1..Len(delivered) /\ i \notin 1..Len(pending)
        BY <1>1, EmptyFacts
    <2>5. Len(delivered) + Lost + Len(pending) = lan
        <3>1. Len(delivered) = 0 /\ Len(pending) = 0
            BY <1>2
        <3>2. 0 + 0 + 0 = 0
            OBVIOUS
        <3> QED BY <2>1, <2>2, <3>1, <3>2, Zenon
    <2>6. lan \in Nat /\ delivered \in Seq(Nat) /\ pending \in Seq(Nat)
        BY <1>2, <2>2
    <2> QED BY ONLY <2>3, <2>4, <2>5, <2>6 DEF PacketsNumbered
<1>4. StreamTypes
    <2>1. None \in Int
        BY DEF None
    <2>2. /\ awaiting \in BOOLEAN /\ ready \in [Queues -> BOOLEAN] /\ kick_fd \in [Queues -> Int]
          /\ phase \in [Queues -> {"idle", "based", "addressed", "running"}]
          /\ base \in [Queues -> Nat] /\ starts \in [Queues -> Nat]
        BY <1>1, <2>1
    <2> QED BY ONLY <1>2, <2>2 DEF StreamTypes
<1>5. \A q \in Queues : ready[q] = FALSE /\ kick_fd[q] = None
    BY <1>1
<1>6. AnswersAwaited /\ StartsOnce
    BY ONLY <1>2, <1>5 DEF AnswersAwaited, StartsOnce
<1>7. TokensOwned
    <2>1. registered = {}
        BY <1>1
    <2> QED BY ONLY <1>5, <2>1 DEF TokensOwned
<1>8. PollTypes
    <2>1. pc = "poll" /\ kicks \in [Queues -> BOOLEAN]
        BY <1>1
    <2> QED BY ONLY <1>2, <2>1 DEF PollTypes
<1>9. KicksPending
    <2>1. pc = "poll" /\ death = ""
        BY <1>1
    <2>2. KickReadable
        BY ONLY <2>1 DEF KickReadable
    <2>3. Distinct(events)
        BY ONLY <1>2 DEF Distinct
    <2>4. BatchReadable
        <3>1. \A i : i \notin 1..Len(batch)
            BY <1>1, EmptyFacts
        <3> QED BY ONLY <2>1, <3>1 DEF BatchReadable
    <2> QED BY <2>2, <2>3, <2>4 DEF KicksPending
<1> QED BY <1>3, <1>4, <1>6, <1>7, <1>8, <1>9 DEF IInv, StreamInv

\* Every step preserves it.
LEMMA NextIInv ==
    ASSUME IInv, [Next]_vars
    PROVE  IInv'
<1>1. /\ PacketsNumbered /\ DeadForACause /\ StreamInv /\ PollTypes /\ KicksPending
      /\ StreamTypes /\ TokensOwned /\ Distinct(events) /\ BatchReadable /\ KickReadable
    BY DEF IInv, StreamInv, KicksPending
<1>2. (PacketsNumbered /\ DeadForACause)'
    BY <1>1, PacketsStep
<1>3. StreamInv'
    BY <1>1, StreamStep
<1>4. (PollTypes /\ KicksPending)'
    <2>1. CASE UNCHANGED vars
        BY <1>1, <2>1 DEF vars, threadVars, kernelVars, devVars, PollTypes, KicksPending,
              KickReadable, BatchReadable, Distinct, ToRead
    <2>2. CASE Next
        <3>1. Readable
            BY <1>1, <2>2, ReadableSteps
        <3>2. death' # "EAGAIN"
            BY <1>1, <3>1 DEF Readable, KickReadable
        <3>3. events \in Seq(Nat)
            BY <1>1 DEF PollTypes
        <3>4. /\ pc' \in {"poll", "event", "rx", "tx", "dead"} /\ batch' \in Seq(Nat)
              /\ kicks' \in [Queues -> BOOLEAN] /\ BatchReadable'
              /\ events' \in Seq(Nat) /\ Distinct(events')
            <4>1. CASE Poll
                BY <1>1, <4>1, PollKeeps
            <4>2. CASE ~Poll
                <5>1. EventsShape
                    BY <1>1, <2>2, <4>2, EventsSteps
                <5>2. events' \in Seq(Nat) /\ Distinct(events')
                    BY <1>1, <3>3, <5>1, EventsKept
                <5> QED BY <1>1, <2>2, <4>2, <5>2, BatchStep
            <4> QED BY <4>1, <4>2
        <3> QED BY <3>2, <3>4 DEF PollTypes, KicksPending, KickReadable
    <2> QED BY <2>1, <2>2
<1> QED BY <1>2, <1>3, <1>4 DEF IInv

\* IInv is an invariant of the device with its neighbours, however many
\* packets, chains, messages and restarts there are.
THEOREM InvariantHolds == Spec => []IInv
<1>1. Init => IInv
    BY InitIInv
<1>2. IInv /\ [Next]_vars => IInv'
    BY NextIInv
<1> QED BY <1>1, <1>2, PTL DEF Spec

\* handle_rx_queued and enqueue keep every LAN packet, in order: only one that
\* does not fit its buffer is lost, and it ends the thread.
THEOREM PacketsStayInOrder == Spec => []RxInOrder
<1>1. IInv => RxInOrder
    BY NumberedInOrder DEF IInv
<1> QED BY <1>1, InvariantHolds, PTL

\* SET_VRING_KICK and GET_VRING_BASE keep the poll in step with the queues over
\* any number of restarts, in any order of messages.
THEOREM PollFollowsQueues == Spec => []RegisteredIffReady
<1>1. IInv => RegisteredIffReady
    BY OwnedRegistered DEF IInv, StreamInv
<1> QED BY <1>1, InvariantHolds, PTL

\* The eventfd of a kick that poll reported can still be read when its turn
\* comes, whatever happened in between.
THEOREM ReportedKicksAreReadable == Spec => []KickReadable
<1>1. IInv => KickReadable
    BY DEF IInv, KicksPending
<1> QED BY <1>1, InvariantHolds, PTL

-----------------------------------------------------------------------------
(* Descriptor chains. *)

\* More chains are posted.
LEMMA AccountGrows ==
    ASSUME NEW u \in Seq(Nat), NEW b \in Nat, NEW g \in Nat, NEW h \in Nat, NEW n \in Nat,
           NEW p \in Nat, NEW r \in Nat, Account(u, b, g, h, n, p), p <= r
    PROVE  Account(u, b, g, h, n, r)
<1>1. \A i \in 1..Len(u) : u[i] \in 1..r
    BY DEF Account
<1> QED BY <1>1 DEF Account

\* The chains up to index m are taken.
LEMMA AccountTakes ==
    ASSUME NEW u \in Seq(Nat), NEW b \in Nat, NEW g \in Nat, NEW n \in Nat,
           NEW p \in Nat, NEW m \in Nat, Account(u, b, g, 0, n, p), n <= m, m <= p
    PROVE  Account(u, b, g, m - n, m, p)
<1>1. Len(u) \in Nat /\ Len(u) + 0 - g = n - b
    BY DEF Account
<1>2. Len(u) + (m - n) - g = m - b
    BY <1>1
<1> QED BY <1>2 DEF Account

\* The first of the chains in hand is given back.
LEMMA AccountGives ==
    ASSUME NEW u \in Seq(Nat), NEW b \in Nat, NEW g \in Nat, NEW h \in Nat, NEW n \in Nat,
           NEW p \in Nat, Account(u, b, g, h, n, p), h > 0
    PROVE  n - h + 1 \in Nat /\ Account(Append(u, n - h + 1), b, g, h - 1, n, p)
<1>1. /\ Len(u) \in Nat /\ g <= Len(u) /\ Len(u) + h - g = n - b /\ n <= p
      /\ \A i \in 1..Len(u) : u[i] \in 1..p /\ (i > g => u[i] = b + i - g)
    BY DEF Account
<1>2. PICK x : x = n - h + 1
    OBVIOUS
<1>3. x = b + (Len(u) + 1) - g /\ x \in 1..p
    <2>1. PICK l \in Nat : l = Len(u)
        BY <1>1
    <2>2. l + h - g = n - b /\ g <= l /\ n <= p
        BY <1>1, <2>1
    <2>3. x = b + (l + 1) - g /\ x \in 1..p
        BY ONLY <1>2, <2>2, b \in Nat, g \in Nat, h \in Nat, n \in Nat, p \in Nat,
                l \in Nat, h > 0
    <2> QED BY <2>1, <2>3
<1>4. PICK v : v = Append(u, x)
    OBVIOUS
<1>5. /\ v \in Seq(Nat) /\ Len(v) = Len(u) + 1 /\ v[Len(u) + 1] = x
      /\ \A i \in 1..Len(u) : v[i] = u[i]
      /\ \A i \in 1..(Len(u) + 1) : i \in 1..Len(u) \/ i = Len(u) + 1
    BY <1>3, <1>4, AppendFacts
<1>6. \A i \in 1..Len(v) : v[i] \in 1..p /\ (i > g => v[i] = b + i - g)
    BY <1>1, <1>3, <1>5
<1>7. g <= Len(v) /\ Len(v) + (h - 1) - g = n - b
    <2>1. PICK l \in Nat : l = Len(u)
        BY <1>1
    <2>2. l + h - g = n - b /\ g <= l /\ Len(v) = l + 1
        BY <1>1, <1>5, <2>1
    <2> QED BY ONLY <2>2, b \in Nat, g \in Nat, h \in Nat, n \in Nat, l \in Nat
<1>8. Account(v, b, g, h - 1, n, p)
    BY <1>1, <1>6, <1>7 DEF Account
<1> QED BY <1>2, <1>3, <1>4, <1>8

\* A base is set.
LEMMA AccountBegins ==
    ASSUME NEW u \in Seq(Nat), NEW b \in Nat, NEW g \in Nat, NEW n \in Nat,
           NEW p \in Nat, NEW m \in Nat, Account(u, b, g, 0, n, p)
    PROVE  Account(u, m, Len(u), 0, m, p)
<1>1. Len(u) \in Nat /\ \A i \in 1..Len(u) : u[i] \in 1..p
    BY DEF Account
<1>2. \A i \in 1..Len(u) : ~(i > Len(u))
    BY <1>1
<1>3. Len(u) + 0 - Len(u) = m - m
    BY <1>1
<1> QED BY <1>1, <1>2, <1>3 DEF Account

\* What the account of a queue is made of.
LEMMA ChainValues ==
    ASSUME ChainTypes, NEW q \in Queues
    PROVE  /\ used[q] \in Seq(Nat) /\ Len(used[q]) \in Nat /\ next_avail[q] \in Nat
           /\ begun[q].base \in Nat /\ begun[q].given \in Nat /\ Len(posted[q]) \in Nat
           /\ Len(chains) \in Nat /\ posted[q] \in Seq(RxBufs \cup TxBufs)
<1>1. used[q] \in Seq(Nat) /\ next_avail[q] \in Nat /\ posted[q] \in Seq(RxBufs \cup TxBufs)
    BY DEF ChainTypes
<1>2. begun[q] \in [base : Nat, given : Nat]
    BY DEF ChainTypes
<1>3. begun[q].base \in Nat /\ begun[q].given \in Nat
    BY <1>2
<1>4. Len(chains) \in Nat
    BY DEF ChainTypes
<1>5. Len(used[q]) \in Nat /\ Len(posted[q]) \in Nat
    BY <1>1
<1> QED BY <1>1, <1>3, <1>4, <1>5

\* A step that takes and returns no chain.
BadChain == {"NotEnoughData", "Panic", "WriteZero"}
ChainsStill ==
    /\ UNCHANGED <<next_avail, used, chains, sent, posted, begun>>
    /\ UNCHANGED death \/ (death = "" /\ death' \notin BadChain)
    /\ pc' \notin {"tx", "dead"} => chains = <<>>

\* It keeps the account.
LEMMA StillKeeps ==
    ASSUME ChainsNumbered, ChainsStill
    PROVE  ChainsNumbered'
<1>1. UNCHANGED <<next_avail, used, chains, sent, posted, begun>>
    BY DEF ChainsStill
<1>2. \A q \in Queues : Held(q)' = Held(q)
    BY <1>1 DEF ChainsStill, Held, BadChain
<1>3. \A q \in Queues : ChainsOf(q)'
    <2>1. SUFFICES ASSUME NEW q \in Queues PROVE ChainsOf(q)'
        OBVIOUS
    <2>2. ChainsOf(q)
        BY DEF ChainsNumbered
    <2> QED BY <1>1, <1>2, <2>2 DEF ChainsOf
<1>4. ChainTypes'
    BY <1>1 DEF ChainsNumbered, ChainTypes
<1> QED BY <1>1, <1>3, <1>4 DEF ChainsNumbered, ChainsStill

\* Which steps those are.
LEMMA StillChains ==
    ASSUME ChainsNumbered, DeadForACause, Next, ~RxOne, ~kick_tx, ~TxOne, ~SetVringBase,
           \A q \in Queues, buf \in RxBufs \cup TxBufs : ~Post(q, buf)
    PROVE  ChainsStill
<1>0. (pc \notin {"tx", "dead"} => chains = <<>>) /\ (death # "" <=> pc = "dead")
    BY DEF ChainsNumbered, DeadForACause
<1>1. ASSUME Poll PROVE ChainsStill
    BY <1>0, <1>1 DEF Poll, BadChain, ChainsStill, AtStream, threadVars, queueVars, devVars,
           kernelVars, lanVars, guestVars, feVars
<1>2. ASSUME StreamDrained PROVE ChainsStill
    BY <1>0, <1>2 DEF StreamDrained, EventDone, BadChain, ChainsStill, AtStream, threadVars,
           queueVars, devVars, kernelVars, lanVars, guestVars, feVars
<1>3. ASSUME StreamClosed PROVE ChainsStill
    BY <1>0, <1>3 DEF StreamClosed, Die, BadChain, ChainsStill, AtStream, threadVars, queueVars,
           devVars, kernelVars, lanVars, guestVars, feVars
<1>4. ASSUME Query PROVE ChainsStill
    BY <1>0, <1>4 DEF Query, ReadOk, ReadErr, ReadMsg, Die, BadChain, ChainsStill, AtStream,
           threadVars, queueVars, devVars, kernelVars, lanVars, guestVars, feVars
<1>5. ASSUME Note PROVE ChainsStill
    BY <1>0, <1>5 DEF Note, ReadOk, ReadMsg, BadChain, ChainsStill, AtStream, threadVars,
           queueVars, devVars, kernelVars, lanVars, guestVars, feVars
<1>6. ASSUME GetConfig PROVE ChainsStill
    BY <1>0, <1>6 DEF GetConfig, ReadOk, ReadMsg, BadChain, ChainsStill, AtStream, threadVars,
           queueVars, devVars, kernelVars, lanVars, guestVars, feVars
<1>7. ASSUME SetOwner PROVE ChainsStill
    BY <1>0, <1>7 DEF SetOwner, ReadOk, ReadErr, ReadMsg, Die, BadChain, ChainsStill, AtStream, threadVars,
           queueVars, devVars, kernelVars, lanVars, guestVars, feVars
<1>8. ASSUME SetBackendReqFd PROVE ChainsStill
    BY <1>0, <1>8 DEF SetBackendReqFd, MissingFd, ReadOk, ReadErr, ReadMsg, Die,
           BadChain, ChainsStill, AtStream, threadVars, queueVars, devVars, kernelVars, lanVars,
           guestVars, feVars
<1>9. ASSUME SetStatus PROVE ChainsStill
    BY <1>0, <1>9 DEF SetStatus, ReadOk, ReadMsg, BadChain, ChainsStill, AtStream, threadVars,
           queueVars, devVars, kernelVars, lanVars, guestVars, feVars
<1>10. ASSUME SetVringErr PROVE ChainsStill
    BY <1>0, <1>10 DEF SetVringErr, MissingFd, ReadOk, ReadErr, ReadMsg, Die,
           BadChain, ChainsStill, AtStream, threadVars, queueVars, devVars, kernelVars, lanVars,
           guestVars, feVars
<1>11. ASSUME SetMemTable PROVE ChainsStill
    BY <1>0, <1>11 DEF SetMemTable, MissingFd, ReadOk, ReadErr, ReadMsg, Die,
           BadChain, ChainsStill, AtStream, threadVars, queueVars, devVars, kernelVars, lanVars,
           guestVars, feVars
<1>12. ASSUME SetVringAddr PROVE ChainsStill
    BY <1>0, <1>12 DEF SetVringAddr, ReadOk, ReadErr, ReadMsg, Die, BadChain, ChainsStill,
           AtStream, threadVars, queueVars, devVars, kernelVars, lanVars, guestVars, feVars
<1>13. ASSUME SetVringKick PROVE ChainsStill
    BY <1>0, <1>13 DEF SetVringKick, MissingFd, ReadOk, ReadErr, ReadMsg, Die,
           BadChain, ChainsStill, AtStream, threadVars, queueVars, devVars, kernelVars, lanVars,
           guestVars, feVars
<1>14. ASSUME SetVringCall PROVE ChainsStill
    BY <1>0, <1>14 DEF SetVringCall, MissingFd, ReadOk, ReadErr, ReadMsg, Die,
           BadChain, ChainsStill, AtStream, threadVars, queueVars, devVars, kernelVars, lanVars,
           guestVars, feVars
<1>15. ASSUME SetVringEnable PROVE ChainsStill
    BY <1>0, <1>15 DEF SetVringEnable, ReadOk, ReadMsg, BadChain, ChainsStill, AtStream,
           threadVars, queueVars, devVars, kernelVars, lanVars, guestVars, feVars
<1>16. ASSUME GetVringBase PROVE ChainsStill
    BY <1>0, <1>16 DEF GetVringBase, ReadOk, ReadErr, ReadMsg, Die, BadChain, ChainsStill,
           AtStream, threadVars, queueVars, devVars, kernelVars, lanVars, guestVars, feVars
<1>17. ASSUME HandleWake PROVE ChainsStill
    BY <1>0, <1>17 DEF HandleWake, handle_rx_queued, EventDone, Die, BadChain, ChainsStill,
           AtStream, threadVars, queueVars, devVars, kernelVars, lanVars, guestVars, feVars
<1>18. ASSUME kick_rx PROVE ChainsStill
    BY <1>0, <1>18 DEF kick_rx, ReadKick, handle_rx_queued, EventDone, Die, BadChain, ChainsStill,
           AtStream, threadVars, queueVars, devVars, kernelVars, lanVars, guestVars, feVars
<1>19. ASSUME RxDone PROVE ChainsStill
    BY <1>0, <1>19 DEF RxDone, call, EventDone, Die, BadChain, ChainsStill, AtStream, threadVars,
           queueVars, devVars, kernelVars, lanVars, guestVars, feVars
<1>20. ASSUME TxDone PROVE ChainsStill
    BY <1>0, <1>20 DEF TxDone, call, EventDone, Die, BadChain, ChainsStill, AtStream, threadVars,
           queueVars, devVars, kernelVars, lanVars, guestVars, feVars
<1>21. ASSUME Push PROVE ChainsStill
    BY <1>0, <1>21 DEF Push, BadChain, ChainsStill, AtStream, threadVars, queueVars, devVars,
           kernelVars, lanVars, guestVars, feVars
<1>22. ASSUME Wake PROVE ChainsStill
    BY <1>0, <1>22 DEF Wake, BadChain, ChainsStill, AtStream, threadVars, queueVars, devVars,
           kernelVars, lanVars, guestVars, feVars
<1>23. ASSUME NEW q, Kick(q) PROVE ChainsStill
    BY <1>0, <1>23 DEF Kick, BadChain, ChainsStill, AtStream, threadVars, queueVars, devVars,
           kernelVars, lanVars, guestVars, feVars
<1>24. ASSUME SendPlain PROVE ChainsStill
    BY <1>0, <1>24 DEF SendPlain, SendMsg, Extra, BadChain, ChainsStill, AtStream, threadVars,
           queueVars, devVars, kernelVars, lanVars, guestVars, feVars
<1>25. ASSUME Close PROVE ChainsStill
    BY <1>0, <1>25 DEF Close, BadChain, ChainsStill, AtStream, threadVars, queueVars, devVars,
           kernelVars, lanVars, guestVars, feVars
<1>26. ASSUME NEW q, SendBase(q) PROVE ChainsStill
    BY <1>0, <1>26 DEF SendBase, SendMsg, NextPhase, BadChain, ChainsStill, AtStream, threadVars,
           queueVars, devVars, kernelVars, lanVars, guestVars, feVars
<1>27. ASSUME NEW q, SendAddr(q) PROVE ChainsStill
    BY <1>0, <1>27 DEF SendAddr, SendMsg, NextPhase, BadChain, ChainsStill, AtStream, threadVars,
           queueVars, devVars, kernelVars, lanVars, guestVars, feVars
<1>28. ASSUME NEW q, SendKick(q) PROVE ChainsStill
    BY <1>0, <1>28 DEF SendKick, SendMsg, NextPhase, BadChain, ChainsStill, AtStream, threadVars,
           queueVars, devVars, kernelVars, lanVars, guestVars, feVars
<1>29. ASSUME NEW q, SendCallOrEnable(q) PROVE ChainsStill
    BY <1>0, <1>29 DEF SendCallOrEnable, SendMsg, Extra, BadChain, ChainsStill, AtStream,
           threadVars, queueVars, devVars, kernelVars, lanVars, guestVars, feVars
<1>30. ASSUME NEW q, SendStop(q) PROVE ChainsStill
    BY <1>0, <1>30 DEF SendStop, SendMsg, BadChain, ChainsStill, AtStream, threadVars, queueVars,
           devVars, kernelVars, lanVars, guestVars, feVars
<1> QED BY <1>1, <1>2, <1>3, <1>4, <1>5, <1>6, <1>7, <1>8, <1>9, <1>10, <1>11,
       <1>12, <1>13, <1>14, <1>15, <1>16, <1>17, <1>18, <1>19, <1>20, <1>21,
       <1>22, <1>23, <1>24, <1>25, <1>26, <1>27, <1>28, <1>29, <1>30
    DEF Next, Device, parse_msg, Guest, FrontEnd, RxQueue, TxQueue, Queues


\* The guest posts a chain.
LEMMA PostKeeps ==
    ASSUME ChainsNumbered, NEW q \in Queues, NEW buf \in RxBufs \cup TxBufs, Post(q, buf)
    PROVE  ChainsNumbered'
<1>1. /\ posted' = [posted EXCEPT ![q] = Append(@, buf)]
      /\ UNCHANGED <<next_avail, used, chains, sent, death, pc, begun>>
    BY DEF Post, threadVars, queueVars, devVars
<1>2. ChainTypes
    BY DEF ChainsNumbered
<1>3. posted[q] \in Seq(RxBufs \cup TxBufs) /\ posted \in [Queues -> Seq(RxBufs \cup TxBufs)]
    BY <1>2 DEF ChainTypes
<1>4. /\ Append(posted[q], buf) \in Seq(RxBufs \cup TxBufs)
      /\ Len(Append(posted[q], buf)) = Len(posted[q]) + 1 /\ Len(posted[q]) \in Nat
    BY <1>3, AppendFacts
<1>5. /\ posted' \in [Queues -> Seq(RxBufs \cup TxBufs)]
      /\ posted'[q] = Append(posted[q], buf) /\ \A r \in Queues : r # q => posted'[r] = posted[r]
    BY <1>1, <1>3, <1>4
<1>6. ChainTypes'
    BY <1>1, <1>2, <1>5 DEF ChainTypes
<1>7. \A r \in Queues : ChainsOf(r)'
    <2>1. SUFFICES ASSUME NEW r \in Queues PROVE ChainsOf(r)'
        OBVIOUS
    <2>2. PICK n \in Nat : n = Len(posted'[r]) /\ Len(posted[r]) <= n
        <3>1. Len(posted[r]) \in Nat
            BY <1>2, ChainValues
        <3> QED BY <1>4, <1>5, <3>1
    <2>3. PICK h : h = Held(r)
        OBVIOUS
    <2>4. Held(r)' = h
        BY <1>1, <2>3 DEF Held
    <2>5. h \in Nat
        BY <1>2, <2>3, ChainValues DEF Held
    <2>6. Account(used[r], begun[r].base, begun[r].given, h, next_avail[r], Len(posted[r]))
        BY <2>3 DEF ChainsNumbered, ChainsOf
    <2>7. Account(used[r], begun[r].base, begun[r].given, h, next_avail[r], n)
        BY <1>2, <2>2, <2>5, <2>6, ChainValues, AccountGrows
    <2> QED BY <1>1, <2>2, <2>4, <2>7 DEF ChainsOf
<1> QED BY <1>1, <1>6, <1>7 DEF ChainsNumbered

\* A packet takes the next chain, and gives it back or ends the thread.
LEMMA RxChain ==
    ASSUME ChainsNumbered, DeadForACause, RxOne
    PROVE  ChainsNumbered'
<1>0. RxQueue \in Queues /\ TxQueue \in Queues /\ RxQueue # TxQueue
    BY DEF RxQueue, TxQueue, Queues
<1>1. ChainTypes
    BY DEF ChainsNumbered
<1>2. PICK a \in Nat, p \in Nat, b \in Nat, g \in Nat :
          /\ a = next_avail[RxQueue] /\ p = Len(posted[RxQueue])
          /\ b = begun[RxQueue].base /\ g = begun[RxQueue].given
    BY <1>0, <1>1, ChainValues
<1>3. /\ pc = "rx" /\ p - a \in 1..QueueSize
      /\ next_avail' = [next_avail EXCEPT ![RxQueue] = a + 1]
      /\ \/ used' = [used EXCEPT ![RxQueue] = Append(@, a + 1)] /\ UNCHANGED <<pc, death>>
         \/ used' = used /\ pc' = "dead" /\ death' = "WriteZero"
      /\ UNCHANGED <<chains, posted, sent, begun>>
    BY <1>2 DEF RxOne, Die, ChainAvailable, Ahead, devVars
<1>4. a + 1 <= p
    BY <1>3, QueueSizeAssumption
<1>5. chains = <<>> /\ death = "" /\ Len(chains) = 0
    <2>1. chains = <<>> /\ death = ""
        BY <1>3 DEF ChainsNumbered, DeadForACause
    <2> QED BY <2>1
<1>6. /\ next_avail \in [Queues -> Nat] /\ used \in [Queues -> Seq(Nat)]
      /\ used[RxQueue] \in Seq(Nat)
    BY <1>0, <1>1 DEF ChainTypes
<1>7. /\ next_avail' \in [Queues -> Nat] /\ next_avail'[RxQueue] = a + 1
      /\ next_avail'[TxQueue] = next_avail[TxQueue]
    BY <1>0, <1>3, <1>6
<1>8. PICK u : u = used[RxQueue]
    OBVIOUS
<1>9. Account(u, b, g, 0, a, p)
    <2>1. Held(RxQueue) = 0
        BY <1>0, <1>5 DEF Held
    <2>2. ChainsOf(RxQueue)
        BY <1>0 DEF ChainsNumbered
    <2> QED BY <1>2, <1>8, <2>1, <2>2 DEF ChainsOf
<1>10. Account(u, b, g, 1, a + 1, p)
    <2>1. (a + 1) - a = 1 /\ a + 1 \in Nat /\ a <= a + 1
        OBVIOUS
    <2>2. Account(u, b, g, (a + 1) - a, a + 1, p)
        BY <1>4, <1>6, <1>8, <1>9, <2>1, AccountTakes
    <2> QED BY <2>1, <2>2
<1>11. ASSUME used'[TxQueue] = used[TxQueue], death' = "" \/ death' = "WriteZero"
       PROVE  ChainsOf(TxQueue)'
    <2>1. Held(TxQueue) = 0
        BY <1>0, <1>5 DEF Held
    <2>2. Held(TxQueue)' = 0
        BY <1>0, <1>3, <1>5, <1>11 DEF Held
    <2>3. ChainsOf(TxQueue)
        BY <1>0 DEF ChainsNumbered
    <2> QED BY <1>3, <1>7, <1>11, <2>1, <2>2, <2>3 DEF ChainsOf
<1>12. \A i \in 1..Len(chains') : chains'[i] = next_avail'[TxQueue] - Len(chains') + i
    BY <1>3, <1>7 DEF ChainsNumbered
<1>13. CASE used' = used /\ pc' = "dead" /\ death' = "WriteZero"
    <2>1. Held(RxQueue)' = 1
        BY <1>0, <1>13 DEF Held
    <2>2. ChainsOf(RxQueue)'
        BY <1>2, <1>3, <1>7, <1>8, <1>10, <1>13, <2>1 DEF ChainsOf
    <2>3. ChainsOf(TxQueue)'
        BY <1>11, <1>13
    <2>4. \A q \in Queues : ChainsOf(q)'
        BY <2>2, <2>3 DEF Queues
    <2>5. ChainTypes'
        BY <1>1, <1>3, <1>7, <1>13 DEF ChainTypes
    <2> QED BY <1>3, <1>12, <1>13, <2>4, <2>5 DEF ChainsNumbered
<1>14. CASE used' = [used EXCEPT ![RxQueue] = Append(@, a + 1)] /\ UNCHANGED <<pc, death>>
    <2>1. Account(Append(u, a + 1), b, g, 0, a + 1, p)
        <3>1. (a + 1) - 1 + 1 = a + 1 /\ 1 - 1 = 0 /\ a + 1 \in Nat /\ 1 > 0 /\ 1 \in Nat
            OBVIOUS
        <3>2. Account(Append(u, (a + 1) - 1 + 1), b, g, 1 - 1, a + 1, p)
            BY <1>6, <1>8, <1>10, <3>1, AccountGives
        <3> QED BY <3>1, <3>2
    <2>2. PICK v : v = Append(u, a + 1)
        OBVIOUS
    <2>3. v \in Seq(Nat)
        BY <1>6, <1>8, <2>2, AppendFacts
    <2>4. used' = [used EXCEPT ![RxQueue] = v]
        BY <1>8, <1>14, <2>2
    <2>5. /\ used' \in [Queues -> Seq(Nat)] /\ used'[RxQueue] = v
          /\ used'[TxQueue] = used[TxQueue]
        BY <1>0, <1>6, <2>3, <2>4
    <2>6. Held(RxQueue)' = 0
        BY <1>0, <1>5, <1>14 DEF Held
    <2>7. ChainsOf(RxQueue)'
        BY <1>2, <1>3, <1>7, <2>1, <2>2, <2>5, <2>6 DEF ChainsOf
    <2>8. ChainsOf(TxQueue)'
        BY <1>5, <1>11, <1>14, <2>5
    <2>9. \A q \in Queues : ChainsOf(q)'
        BY <2>7, <2>8 DEF Queues
    <2>10. ChainTypes'
        BY <1>1, <1>3, <1>7, <2>5 DEF ChainTypes
    <2>11. sent' = used'[TxQueue]
        BY <1>3, <2>5 DEF ChainsNumbered
    <2> QED BY <1>3, <1>5, <1>12, <2>9, <2>10, <2>11 DEF ChainsNumbered
<1> QED BY <1>3, <1>13, <1>14

\* What happens on the transmit queue leaves the account of the other alone.
LEMMA OtherQueue ==
    ASSUME ChainsNumbered, used'[RxQueue] = used[RxQueue], death = "", death' # "WriteZero",
           next_avail'[RxQueue] = next_avail[RxQueue], UNCHANGED <<posted, begun>>
    PROVE  ChainsOf(RxQueue)'
<1>1. RxQueue \in Queues /\ RxQueue # TxQueue
    BY ONLY DEF RxQueue, TxQueue, Queues
<1>2. Held(RxQueue) = Held(RxQueue)'
    BY <1>1 DEF Held
<1>3. ChainsOf(RxQueue)
    BY <1>1 DEF ChainsNumbered
<1> QED BY <1>2, <1>3 DEF ChainsOf

\* kick_tx takes every chain that is there.
LEMMA KickTxChains ==
    ASSUME ChainsNumbered, DeadForACause, kick_tx
    PROVE  ChainsNumbered'
<1>0. RxQueue \in Queues /\ TxQueue \in Queues /\ RxQueue # TxQueue
    BY DEF RxQueue, TxQueue, Queues
<1>1. ChainTypes
    BY DEF ChainsNumbered
<1>2. pc = "event" /\ UNCHANGED <<posted, used, sent, begun>>
    BY DEF kick_tx, ReadKick, guestVars, devVars
<1>3. chains = <<>> /\ death = ""
    BY <1>2 DEF ChainsNumbered, DeadForACause
<1>4. CASE TxFailure # "" /\ Die(TxFailure) /\ UNCHANGED <<chains, next_avail>>
    <2>1. pc' = "dead" /\ death' \notin BadChain /\ UNCHANGED <<chains, next_avail>>
        BY <1>4 DEF Die, TxFailure, BadChain
    <2>2. ChainsStill
        BY <1>2, <1>3, <2>1 DEF ChainsStill
    <2> QED BY <2>2, StillKeeps
<1>5. CASE /\ TxFailure = ""
           /\ chains' = [i \in 1..Ahead(TxQueue) |-> next_avail[TxQueue] + i]
           /\ next_avail' = [next_avail EXCEPT ![TxQueue] = Len(posted[TxQueue])]
           /\ pc' = "tx" /\ UNCHANGED <<batch, death>>
    <2>1. PICK a \in Nat, p \in Nat, b \in Nat, g \in Nat :
              /\ a = next_avail[TxQueue] /\ p = Len(posted[TxQueue])
              /\ b = begun[TxQueue].base /\ g = begun[TxQueue].given
        BY <1>0, <1>1, ChainValues
    <2>2. p - a \in 0..QueueSize
        BY <1>5, <2>1 DEF TxFailure, Ahead
    <2>3. a <= p
        BY <2>2, QueueSizeAssumption
    <2>4. chains' = [i \in 1..(p - a) |-> a + i]
        BY <1>5, <2>1 DEF Ahead
    <2>5. /\ chains' \in Seq(Nat) /\ Len(chains') = p - a
          /\ \A i \in 1..Len(chains') : chains'[i] = a + i
        BY <2>3, <2>4
    <2>6. /\ next_avail' \in [Queues -> Nat] /\ next_avail'[TxQueue] = p
          /\ next_avail'[RxQueue] = next_avail[RxQueue]
        BY <1>0, <1>1, <1>5, <2>1 DEF ChainTypes
    <2>7. \A i \in 1..Len(chains') : chains'[i] = next_avail'[TxQueue] - Len(chains') + i
        BY <2>3, <2>5, <2>6
    <2>8. Account(used[TxQueue], b, g, 0, a, p)
        <3>1. Len(chains) = 0
            BY <1>3
        <3>2. Held(TxQueue) = 0
            BY <1>0, <1>3, <3>1 DEF Held
        <3>3. ChainsOf(TxQueue)
            BY <1>0 DEF ChainsNumbered
        <3> QED BY <2>1, <3>2, <3>3 DEF ChainsOf
    <2>9. Account(used[TxQueue], b, g, p - a, p, p)
        BY <1>0, <1>1, <2>3, <2>8, ChainValues, AccountTakes
    <2>10. Held(TxQueue)' = p - a
        BY <1>0, <1>3, <1>5, <2>3, <2>5 DEF Held
    <2>11. ChainsOf(TxQueue)'
        BY <1>2, <2>1, <2>6, <2>9, <2>10 DEF ChainsOf
    <2>12. ChainsOf(RxQueue)'
        BY <1>2, <1>3, <1>5, <2>6, OtherQueue
    <2>13. \A q \in Queues : ChainsOf(q)'
        BY <2>11, <2>12 DEF Queues
    <2>14. ChainTypes'
        BY <1>1, <1>2, <2>5, <2>6 DEF ChainTypes
    <2> QED BY <1>2, <1>5, <2>7, <2>13, <2>14 DEF ChainsNumbered
<1> QED BY <1>4, <1>5 DEF kick_tx

\* A chain of the burst is sent and given back, or ends the thread.
LEMMA TxChain ==
    ASSUME ChainsNumbered, DeadForACause, TxOne
    PROVE  ChainsNumbered'
<1>0. RxQueue \in Queues /\ TxQueue \in Queues /\ RxQueue # TxQueue
    BY DEF RxQueue, TxQueue, Queues
<1>1. ChainTypes /\ chains \in Seq(Nat) /\ sent \in Seq(Nat) /\ sent = used[TxQueue]
    BY DEF ChainsNumbered, ChainTypes
<1>2. /\ pc = "tx" /\ chains # <<>> /\ chains' = Tail(chains)
      /\ UNCHANGED <<posted, next_avail, begun>>
      /\ \/ /\ sent' = Append(sent, Head(chains))
            /\ used' = [used EXCEPT ![TxQueue] = Append(@, Head(chains))]
            /\ UNCHANGED <<pc, death>>
         \/ pc' = "dead" /\ death' \in {"NotEnoughData", "Panic"} /\ UNCHANGED <<sent, used>>
    BY DEF TxOne, Die, queueVars, devVars
<1>3. death = ""
    BY <1>2 DEF DeadForACause
<1>4. PICK n \in Nat, p \in Nat, b \in Nat, g \in Nat, h \in Nat :
          /\ n = next_avail[TxQueue] /\ p = Len(posted[TxQueue]) /\ h = Len(chains)
          /\ b = begun[TxQueue].base /\ g = begun[TxQueue].given
    BY <1>0, <1>1, ChainValues
<1>5. /\ chains' \in Seq(Nat) /\ h > 0 /\ Len(chains') = h - 1
      /\ Head(chains) = chains[1] /\ 1 \in 1..h
      /\ \A i \in 1..Len(chains') : chains'[i] = chains[i + 1] /\ i + 1 \in 1..h
    <2>1. /\ chains' \in Seq(Nat) /\ Len(chains) \in Nat /\ Len(chains) > 0
          /\ Len(chains') = Len(chains) - 1 /\ Head(chains) = chains[1]
          /\ \A i \in 1..Len(chains') : chains'[i] = chains[i + 1] /\ i + 1 \in 1..Len(chains)
        BY <1>1, <1>2, TailFacts
    <2> QED BY <1>4, <2>1
<1>6. \A i \in 1..h : chains[i] = n - h + i
    BY <1>4 DEF ChainsNumbered
<1>7. Head(chains) = n - h + 1
    BY <1>5, <1>6
<1>8. \A i \in 1..Len(chains') : chains'[i] = next_avail'[TxQueue] - Len(chains') + i
    <2>1. SUFFICES ASSUME NEW i \in 1..Len(chains') PROVE chains'[i] = n - (h - 1) + i
        BY <1>2, <1>4, <1>5
    <2>2. chains'[i] = n - h + (i + 1)
        BY <1>5, <1>6
    <2> QED BY <2>2
<1>9. PICK u \in Seq(Nat) : u = used[TxQueue]
    BY <1>0, <1>1, ChainValues
<1>10. Account(u, b, g, h, n, p)
    <2>1. Held(TxQueue) = h
        BY <1>0, <1>3, <1>4 DEF Held
    <2>2. ChainsOf(TxQueue)
        BY <1>0 DEF ChainsNumbered
    <2> QED BY <1>4, <1>9, <2>1, <2>2 DEF ChainsOf
<1>11. CASE pc' = "dead" /\ death' \in {"NotEnoughData", "Panic"} /\ UNCHANGED <<sent, used>>
    <2>1. Held(TxQueue)' = h
        BY <1>0, <1>5, <1>11 DEF Held
    <2>2. ChainsOf(TxQueue)'
        BY <1>2, <1>4, <1>9, <1>10, <1>11, <2>1 DEF ChainsOf
    <2>3. ChainsOf(RxQueue)'
        BY <1>2, <1>3, <1>11, OtherQueue
    <2>4. \A q \in Queues : ChainsOf(q)'
        BY <2>2, <2>3 DEF Queues
    <2>5. ChainTypes'
        BY <1>1, <1>2, <1>5, <1>11 DEF ChainTypes
    <2> QED BY <1>1, <1>8, <1>11, <2>4, <2>5 DEF ChainsNumbered
<1>12. CASE /\ sent' = Append(sent, Head(chains))
            /\ used' = [used EXCEPT ![TxQueue] = Append(@, Head(chains))]
            /\ UNCHANGED <<pc, death>>
    <2>1. PICK x \in Nat : x = n - h + 1
        BY <1>5, <1>10, AccountGives
    <2>2. PICK v : v = Append(u, x)
        OBVIOUS
    <2>3. Account(v, b, g, h - 1, n, p)
        BY <1>5, <1>10, <2>1, <2>2, AccountGives
    <2>4. v \in Seq(Nat)
        BY <2>1, <2>2, AppendFacts
    <2>5. used' = [used EXCEPT ![TxQueue] = v] /\ sent' = v
        BY <1>1, <1>7, <1>9, <1>12, <2>1, <2>2
    <2>6. /\ used' \in [Queues -> Seq(Nat)] /\ used'[TxQueue] = v
          /\ used'[RxQueue] = used[RxQueue]
        BY <1>0, <1>1, <2>4, <2>5 DEF ChainTypes
    <2>7. Held(TxQueue)' = h - 1
        BY <1>0, <1>3, <1>5, <1>12 DEF Held
    <2>8. ChainsOf(TxQueue)'
        BY <1>2, <1>4, <2>3, <2>6, <2>7 DEF ChainsOf
    <2>9. ChainsOf(RxQueue)'
        BY <1>2, <1>3, <1>12, <2>6, OtherQueue
    <2>10. \A q \in Queues : ChainsOf(q)'
        BY <2>8, <2>9 DEF Queues
    <2>11. ChainTypes'
        BY <1>1, <1>2, <1>5, <2>4, <2>5, <2>6 DEF ChainTypes
    <2> QED BY <1>2, <1>8, <1>12, <2>5, <2>6, <2>10, <2>11 DEF ChainsNumbered
<1> QED BY <1>2, <1>11, <1>12

\* SET_VRING_BASE begins a new account.
LEMMA BaseChains ==
    ASSUME ChainsNumbered, DeadForACause, StreamTypes, SetVringBase
    PROVE  ChainsNumbered'
<1>1. ChainTypes
    BY DEF ChainsNumbered
<1>2. PICK q \in Queues, m \in Nat : q = Head(stream).q /\ m = Head(stream).num
    <2>1. stream # <<>> /\ stream \in Seq(Messages)
        BY DEF SetVringBase, ReadOk, ReadMsg, StreamTypes
    <2>2. Head(stream) \in Messages
        BY <2>1
    <2> QED BY <2>2 DEF Messages
<1>3. /\ pc = "event" /\ next_avail' = [next_avail EXCEPT ![q] = m]
      /\ begun' = [begun EXCEPT ![q] = [base |-> m, given |-> Len(used[q])]]
      /\ UNCHANGED <<pc, chains, death, used, posted, sent>>
    BY <1>2 DEF SetVringBase, ReadOk, ReadMsg, AtStream, guestVars
<1>4. chains = <<>> /\ death = "" /\ Len(chains) = 0
    <2>1. chains = <<>> /\ death = ""
        BY <1>3 DEF ChainsNumbered, DeadForACause
    <2> QED BY <2>1
<1>5. \A r \in Queues : Held(r) = 0 /\ Held(r)' = 0
    BY <1>3, <1>4 DEF Held
<1>6. PICK l \in Nat : l = Len(used[q])
    BY <1>1, ChainValues
<1>20. PICK e : e = [base |-> m, given |-> l]
    OBVIOUS
<1>7. e \in [base : Nat, given : Nat] /\ e.base = m /\ e.given = l
    BY <1>20
<1>8. begun' = [begun EXCEPT ![q] = e]
    BY <1>3, <1>6, <1>20
<1>9. /\ next_avail' \in [Queues -> Nat] /\ next_avail'[q] = m
      /\ begun' \in [Queues -> [base : Nat, given : Nat]] /\ begun'[q] = e
      /\ \A r \in Queues : r # q => next_avail'[r] = next_avail[r] /\ begun'[r] = begun[r]
    BY <1>1, <1>3, <1>7, <1>8 DEF ChainTypes
<1>10. ASSUME NEW r \in Queues PROVE ChainsOf(r)'
    <2>1. Account(used[r], begun[r].base, begun[r].given, 0, next_avail[r], Len(posted[r]))
        BY <1>5 DEF ChainsNumbered, ChainsOf
    <2>2. CASE r # q
        BY <1>3, <1>5, <1>9, <2>1, <2>2 DEF ChainsOf
    <2>3. CASE r = q
        <3>1. Account(used[q], m, Len(used[q]), 0, m, Len(posted[q]))
            BY <1>1, <2>1, <2>3, ChainValues, AccountBegins
        <3>2. begun'[q].base = m /\ begun'[q].given = Len(used[q])
            BY <1>6, <1>7, <1>9
        <3> QED BY <1>3, <1>5, <1>9, <2>3, <3>1, <3>2 DEF ChainsOf
    <2> QED BY <2>2, <2>3
<1>11. ChainTypes'
    BY <1>1, <1>3, <1>9 DEF ChainTypes
<1>12. \A i \in 1..Len(chains') : chains'[i] = next_avail'[TxQueue] - Len(chains') + i
    <2>1. \A i : i \notin 1..Len(chains)
        BY <1>4, EmptyFacts
    <2> QED BY <1>3, <2>1
<1> QED BY <1>3, <1>4, <1>10, <1>11, <1>12 DEF ChainsNumbered

\* Every step keeps the account.
LEMMA ChainStep ==
    ASSUME IInv, ChainsNumbered, [Next]_vars
    PROVE  ChainsNumbered'
<1>1. StreamTypes /\ DeadForACause
    BY DEF IInv, StreamInv
<1>2. CASE RxOne
    BY <1>1, <1>2, RxChain
<1>3. CASE kick_tx
    BY <1>1, <1>3, KickTxChains
<1>4. CASE TxOne
    BY <1>1, <1>4, TxChain
<1>5. CASE SetVringBase
    BY <1>1, <1>5, BaseChains
<1>6. ASSUME NEW q \in Queues, NEW buf \in RxBufs \cup TxBufs, Post(q, buf)
      PROVE  ChainsNumbered'
    BY <1>6, PostKeeps
<1>7. CASE /\ Next /\ ~RxOne /\ ~kick_tx /\ ~TxOne /\ ~SetVringBase
           /\ \A q \in Queues, buf \in RxBufs \cup TxBufs : ~Post(q, buf)
    BY <1>1, <1>7, StillChains, StillKeeps
<1>8. CASE UNCHANGED vars
    <2>1. ChainsStill
        BY <1>8 DEF vars, threadVars, queueVars, devVars, guestVars, ChainsStill,
               ChainsNumbered
    <2> QED BY <2>1, StillKeeps
<1> QED BY <1>2, <1>3, <1>4, <1>5, <1>6, <1>7, <1>8

\* At the start nothing is taken and nothing is owed.
LEMMA InitChains ==
    ASSUME Init
    PROVE  ChainsNumbered
<1>1. /\ chains = <<>> /\ sent = <<>> /\ pc = "poll" /\ death = ""
      /\ next_avail = [q \in Queues |-> 0]
      /\ begun = [q \in Queues |-> [base |-> 0, given |-> 0]]
      /\ used = [q \in Queues |-> <<>>] /\ posted = [q \in Queues |-> <<>>]
    BY DEF Init
<1>2. <<>> \in Seq(Nat) /\ <<>> \in Seq(RxBufs \cup TxBufs) /\ Len(<<>>) = 0
    OBVIOUS
<1>3. ChainTypes
    <2>1. [base |-> 0, given |-> 0] \in [base : Nat, given : Nat]
        OBVIOUS
    <2>2. begun \in [Queues -> [base : Nat, given : Nat]]
        BY <1>1, <2>1
    <2>3. /\ next_avail \in [Queues -> Nat] /\ used \in [Queues -> Seq(Nat)]
          /\ posted \in [Queues -> Seq(RxBufs \cup TxBufs)]
          /\ chains \in Seq(Nat) /\ sent \in Seq(Nat)
        BY <1>1, <1>2
    <2> QED BY <2>2, <2>3 DEF ChainTypes
<1>4. Len(chains) = 0 /\ \A i : i \notin 1..Len(chains)
    BY <1>1, EmptyFacts
<1>5. ASSUME NEW q \in Queues PROVE ChainsOf(q)
    <2>1. /\ used[q] = <<>> /\ Len(posted[q]) = 0 /\ next_avail[q] = 0
          /\ begun[q] = [base |-> 0, given |-> 0]
        BY <1>1, <1>2
    <2>2. begun[q].base = 0 /\ begun[q].given = 0
        BY <2>1
    <2>3. Held(q) = 0
        BY <1>1, <1>4 DEF Held
    <2>4. Account(<<>>, 0, 0, 0, 0, 0)
        BY <1>2, EmptyFacts DEF Account
    <2> QED BY <2>1, <2>2, <2>3, <2>4 DEF ChainsOf
<1>6. sent = used[TxQueue]
    BY <1>1 DEF TxQueue, Queues
<1> QED BY <1>1, <1>3, <1>4, <1>5, <1>6 DEF ChainsNumbered

\* The sequence that an account is about, from the base on.
LEMMA AccountIs ==
    ASSUME NEW t \in Seq(Nat), NEW b \in Nat, NEW g \in Nat, NEW n \in Nat,
           g <= Len(t), Len(t) - g = n - b,
           \A i \in 1..Len(t) : i > g => t[i] = b + i - g
    PROVE  SubSeq(t, g + 1, Len(t)) = [i \in 1..(n - b) |-> b + i]
<1>1. Len(t) \in Nat /\ n - b \in Nat
    OBVIOUS
<1>2. SubSeq(t, g + 1, Len(t)) = [i \in 1..(n - b) |-> t[g + i]]
    <2>1. SubSeq(t, g + 1, Len(t)) = [i \in 1..(1 + Len(t) - (g + 1)) |-> t[(g + 1) + i - 1]]
        BY <1>1
    <2>2. 1 + Len(t) - (g + 1) = n - b
        BY <1>1
    <2>3. \A i \in 1..(n - b) : (g + 1) + i - 1 = g + i
        OBVIOUS
    <2> QED BY <2>1, <2>2, <2>3
<1>3. \A i \in 1..(n - b) : t[g + i] = b + i
    <2>1. SUFFICES ASSUME NEW i \in 1..(n - b) PROVE t[g + i] = b + i
        OBVIOUS
    <2>2. g + i \in 1..Len(t) /\ g + i > g
        BY <1>1
    <2>3. t[g + i] = b + (g + i) - g
        BY <2>2
    <2> QED BY <2>3
<1> QED BY <1>2, <1>3

\* The chains in hand, by their numbers.
LEMMA InHandIs ==
    ASSUME ChainsNumbered, NEW q \in Queues, NEW n \in Nat, n = next_avail[q]
    PROVE  /\ InHand(q) \in Seq(Nat) /\ Len(InHand(q)) = Held(q)
           /\ \A i \in 1..Len(InHand(q)) : InHand(q)[i] = n - Len(InHand(q)) + i
<1>0. RxQueue # TxQueue /\ (q = RxQueue \/ q = TxQueue)
    BY ONLY q \in Queues DEF RxQueue, TxQueue, Queues
<1>1. ChainTypes /\ chains \in Seq(Nat)
    BY DEF ChainsNumbered, ChainTypes
<1>2. PICK c : c = InHand(q)
    OBVIOUS
<1>3. PICK l \in Nat : l = Len(chains)
    BY <1>1
<1>4. CASE q = RxQueue
    <2>1. c = Failed(q) \o <<>>
        BY <1>0, <1>2, <1>4 DEF InHand
    <2>2. CASE death = "WriteZero"
        <3>1. Failed(q) = <<n>> /\ Held(q) = 1
            BY <1>0, <1>4, <2>2 DEF Failed, Held
        <3>2. c = <<n>>
            BY <2>1, <3>1
        <3>3. c \in Seq(Nat) /\ Len(c) = 1 /\ c[1] = n
            BY <3>2
        <3>4. \A i \in 1..1 : i = 1 /\ n - 1 + i = n
            OBVIOUS
        <3> QED BY <1>2, <3>1, <3>3, <3>4
    <2>3. CASE death # "WriteZero"
        <3>1. Failed(q) = <<>> /\ Held(q) = 0
            BY <1>0, <1>4, <2>3 DEF Failed, Held
        <3>2. c = <<>>
            BY <2>1, <3>1
        <3>3. c \in Seq(Nat) /\ Len(c) = 0 /\ \A i : i \notin 1..Len(c)
            BY <3>2, EmptyFacts
        <3> QED BY <1>2, <3>1, <3>3
    <2> QED BY <2>2, <2>3
<1>5. CASE q = TxQueue
    <2>1. c = Failed(q) \o chains
        BY <1>2, <1>5 DEF InHand
    <2>2. \A i \in 1..l : chains[i] = n - l + i
        BY <1>3, <1>5 DEF ChainsNumbered
    <2>3. CASE death \in {"NotEnoughData", "Panic"}
        <3>1. Failed(q) = <<n - l>> /\ Held(q) = 1 + l
            BY <1>3, <1>5, <2>3 DEF Failed, Held
        <3>2. n - l \in Nat
            <4>1. Account(used[q], begun[q].base, begun[q].given, 1 + l, n, Len(posted[q]))
                BY <3>1 DEF ChainsNumbered, ChainsOf
            <4>2. PICK k \in Nat, b \in Nat, g \in Nat :
                      k = Len(used[q]) /\ b = begun[q].base /\ g = begun[q].given
                BY <1>1, ChainValues
            <4>3. g <= k /\ k + (1 + l) - g = n - b
                BY <4>1, <4>2 DEF Account
            <4> QED BY ONLY <4>3, k \in Nat, b \in Nat, g \in Nat, l \in Nat, n \in Nat
        <3>3. PICK x \in Nat : x = n - l
            BY <3>2
        <3>4. c = <<x>> \o chains
            BY <2>1, <3>1, <3>3
        <3>5. <<x>> \in Seq(Nat) /\ Len(<<x>>) = 1 /\ <<x>>[1] = x
            OBVIOUS
        <3>6. /\ c \in Seq(Nat) /\ Len(c) = 1 + l
              /\ \A i \in 1..(1 + l) : c[i] = IF i <= 1 THEN <<x>>[i] ELSE chains[i - 1]
            BY <1>1, <1>3, <3>4, <3>5
        <3>7. ASSUME NEW i \in 1..(1 + l) PROVE c[i] = n - (1 + l) + i
            <4>1. CASE i = 1
                <5>1. c[1] = x
                    BY <3>5, <3>6, <4>1
                <5> QED BY <3>3, <4>1, <5>1
            <4>2. CASE i # 1
                <5>1. i - 1 \in 1..l /\ ~(i <= 1)
                    BY <4>2
                <5>2. chains[i - 1] = n - l + (i - 1)
                    BY <2>2, <5>1
                <5>3. c[i] = chains[i - 1]
                    BY <3>6, <5>1
                <5> QED BY <5>2, <5>3
            <4> QED BY <4>1, <4>2
        <3> QED BY <1>2, <3>1, <3>6, <3>7
    <2>4. CASE death \notin {"NotEnoughData", "Panic"}
        <3>1. Failed(q) = <<>> /\ Held(q) = l
            BY <1>0, <1>3, <1>5, <2>4 DEF Failed, Held
        <3>2. c = chains
            BY <1>1, <2>1, <3>1
        <3> QED BY <1>1, <1>2, <1>3, <2>2, <3>1, <3>2
    <2> QED BY <2>3, <2>4
<1> QED BY <1>0, <1>4, <1>5

\* The elements of a concatenation.
LEMMA ConcatFacts ==
    ASSUME NEW T, NEW s \in Seq(T), NEW t \in Seq(T), NEW k \in Nat, NEW l \in Nat,
           k = Len(s), l = Len(t)
    PROVE  /\ s \o t \in Seq(T) /\ Len(s \o t) = k + l
           /\ \A i \in 1..k : (s \o t)[i] = s[i]
           /\ \A i \in 1..(k + l) : i > k => (s \o t)[i] = t[i - k] /\ i - k \in 1..l
<1>1. /\ s \o t \in Seq(T) /\ Len(s \o t) = k + l
      /\ \A i \in 1..(k + l) : (s \o t)[i] = IF i <= k THEN s[i] ELSE t[i - k]
    OBVIOUS
<1>2. \A i \in 1..k : i \in 1..(k + l) /\ i <= k
    OBVIOUS
<1>3. \A i \in 1..(k + l) : i > k => ~(i <= k) /\ i - k \in 1..l
    OBVIOUS
<1> QED BY <1>1, <1>2, <1>3

\* Chain by chain is what ChainsAccounted says of the sequences.
LEMMA NumberedAccounted ==
    ASSUME ChainsNumbered
    PROVE  ChainsAccounted
<1>1. ChainTypes
    BY DEF ChainsNumbered
<1>2. ASSUME NEW q \in Queues
      PROVE  /\ SubSeq(Taken(q), begun[q].given + 1, Len(Taken(q))) =
                    [i \in 1..(next_avail[q] - begun[q].base) |-> begun[q].base + i]
             /\ \A i \in 1..Len(Taken(q)) : Taken(q)[i] \in 1..Len(posted[q])
    <2>1. PICK n \in Nat, p \in Nat, b \in Nat, g \in Nat :
              /\ n = next_avail[q] /\ p = Len(posted[q])
              /\ b = begun[q].base /\ g = begun[q].given
        BY <1>1, <1>2, ChainValues
    <2>2. PICK u \in Seq(Nat) : u = used[q]
        BY <1>1, <1>2, ChainValues
    <2>3. PICK c \in Seq(Nat) :
              /\ c = InHand(q) /\ Len(c) = Held(q)
              /\ \A i \in 1..Len(c) : c[i] = n - Len(c) + i
        BY <1>2, <2>1, InHandIs
    <2>4. PICK k \in Nat, l \in Nat : k = Len(u) /\ l = Len(c)
        BY <2>2, <2>3
    <2>5. Account(u, b, g, l, n, p)
        BY <1>2, <2>1, <2>2, <2>3, <2>4 DEF ChainsNumbered, ChainsOf
    <2>6. PICK t : t = u \o c
        OBVIOUS
    <2>7. Taken(q) = t
        BY <2>2, <2>3, <2>6 DEF Taken
    <2>8. /\ t \in Seq(Nat) /\ Len(t) = k + l
          /\ \A i \in 1..k : t[i] = u[i]
          /\ \A i \in 1..(k + l) : i > k => t[i] = c[i - k] /\ i - k \in 1..l
        BY <2>4, <2>6, ConcatFacts
    <2>9. /\ g <= k /\ k + l - g = n - b /\ (l > 0 => n <= p)
          /\ \A i \in 1..k : u[i] \in 1..p /\ (i > g => u[i] = b + i - g)
        BY <2>4, <2>5 DEF Account
    <2>10. \A i \in 1..l : c[i] = n - l + i
        BY <2>3, <2>4
    <2>11. ASSUME NEW i \in 1..(k + l)
           PROVE  t[i] \in 1..p /\ (i > g => t[i] = b + i - g)
        <3>1. CASE i <= k
            <4>1. i \in 1..k
                BY <3>1
            <4> QED BY <2>8, <2>9, <4>1
        <3>2. CASE i > k
            <4>1. i - k \in 1..l /\ t[i] = c[i - k]
                BY <2>8, <3>2
            <4>2. t[i] = n - l + (i - k)
                BY <2>10, <4>1
            <4>3. g <= k /\ k + l - g = n - b /\ n <= p
                BY <2>9, <4>1
            <4>4. n - l + (i - k) = b + i - g /\ n - l + (i - k) \in 1..p
                BY ONLY <3>2, <4>1, <4>3, i \in 1..(k + l), k \in Nat, l \in Nat,
                        g \in Nat, b \in Nat, n \in Nat, p \in Nat
            <4> QED BY <4>2, <4>4
        <3> QED BY <3>1, <3>2
    <2>12. g <= Len(t) /\ Len(t) - g = n - b
        <3>1. g <= k + l /\ (k + l) - g = n - b
            BY <2>9
        <3> QED BY <2>8, <3>1
    <2>13. \A i \in 1..Len(t) : t[i] \in 1..p /\ (i > g => t[i] = b + i - g)
        BY <2>8, <2>11
    <2>14. SubSeq(t, g + 1, Len(t)) = [i \in 1..(n - b) |-> b + i]
        BY <2>8, <2>12, <2>13, AccountIs
    <2> QED BY <2>1, <2>7, <2>13, <2>14
<1>3. sent = used[TxQueue]
    BY DEF ChainsNumbered
<1> QED BY <1>2, <1>3 DEF ChainsAccounted

\* From each start of a vring on the device takes the chains that follow its base,
\* each once and in order, and gives all of them back but those of the burst in
\* work or cut short by a bad chain; whatever the ring size and the number of
\* starts.
THEOREM ChainsAreAccounted == Spec => []ChainsAccounted
<1>1. Init => ChainsNumbered
    BY InitChains
<1>2. IInv /\ ChainsNumbered /\ [Next]_vars => ChainsNumbered'
    BY ChainStep
<1>3. IInv /\ ChainsNumbered => ChainsAccounted
    BY NumberedAccounted
<1> QED BY <1>1, <1>2, <1>3, InvariantHolds, PTL DEF Spec

-----------------------------------------------------------------------------
(* Guest memory: the translation of the ring addresses that the front end  *)
(* sends (module GuestMemory), for any tables, any addresses and any       *)
(* number of rings.  Its own invariant is inductive; it holds the first    *)
(* table apart from later ones, since a ring keeps the address it was      *)
(* given when the table is replaced.                                       *)

\* guest_addr fails exactly on the addresses its mapping does not cover: a
\* translated address is never mistaken for a failure.
LEMMA GuestAddr ==
    ASSUME NEW m \in Region, NEW vmm \in Int
    PROVE  /\ guest_addr(m, vmm) \in Int
           /\ Covers(m, vmm) => guest_addr(m, vmm) = vmm - m.host + m.guest
           /\ guest_addr(m, vmm) # NoAddr <=> Covers(m, vmm)
<1>1. m.host \in Nat /\ m.guest \in Nat /\ m.size \in Nat
    BY DEF Region
<1> QED BY <1>1 DEF guest_addr, Covers, host_end, NoAddr

\* compute_guest_address translates with one of the mappings that cover the
\* address, and fails only when there is none.
LEMMA ComputeGuestAddress ==
    ASSUME NEW ms \in Seq(Region), NEW vmm \in Int
    PROVE  /\ compute_guest_address(ms, vmm) \in Int
           /\ compute_guest_address(ms, vmm) = NoAddr =>
                  \A j \in 1..Len(ms) : ~Covers(ms[j], vmm)
           /\ compute_guest_address(ms, vmm) # NoAddr =>
                  \E i \in 1..Len(ms) : /\ Covers(ms[i], vmm)
                                        /\ compute_guest_address(ms, vmm)
                                               = vmm - ms[i].host + ms[i].guest
<1> DEFINE hits == {i \in 1..Len(ms) : guest_addr(ms[i], vmm) # NoAddr}
<1>1. \A i \in 1..Len(ms) : ms[i] \in Region
    OBVIOUS
<1>2. \A i \in 1..Len(ms) : i \in hits <=> Covers(ms[i], vmm)
    BY <1>1, GuestAddr
<1>3. hits \subseteq 1..Len(ms) /\ hits \subseteq Nat
    OBVIOUS
<1>4. CASE hits = {}
    <2>1. compute_guest_address(ms, vmm) = NoAddr
        BY <1>4 DEF compute_guest_address
    <2>2. \A j \in 1..Len(ms) : ~Covers(ms[j], vmm)
        BY <1>2, <1>4
    <2> QED BY <2>1, <2>2 DEF NoAddr
<1>5. CASE hits # {}
    <2> DEFINE i == CHOOSE k \in hits : \A j \in hits : k <= j
    <2>1. compute_guest_address(ms, vmm) = guest_addr(ms[i], vmm)
        BY <1>5 DEF compute_guest_address
    <2> HIDE DEF hits
    <2>2. \E k \in hits : \A j \in hits : k <= j
        BY <1>3, <1>5, LeastIndex
    <2>3. i \in hits
        BY <2>2
    <2> HIDE DEF i
    <2>4. i \in 1..Len(ms) /\ Covers(ms[i], vmm) /\ ms[i] \in Region
        BY <1>1, <1>2, <1>3, <2>3
    <2> QED BY <2>1, <2>4, GuestAddr
<1> QED BY <1>4, <1>5

\* Before the first table nothing is mapped and no ring is set.
LEMMA MemoryInit == MemInit => MemIInv
<1> SUFFICES ASSUME MemInit PROVE MemIInv
    OBVIOUS
<1> USE DEF MemInit, NoAddr
<1>1. MemTypeOK
    BY DEF MemTypeOK
<1>2. FirstTable
    BY DEF FirstTable
<1>3. NewestMapped
    BY DEF NewestMapped
<1> QED BY <1>1, <1>2, <1>3 DEF MemIInv

\* SET_MEM_TABLE: the new regions are appended to the mappings, so that every
\* region of the table is found behind those of earlier tables.
LEMMA SetMemTableStep ==
    ASSUME MemIInv, NEW t \in Tables, MemTable(t)
    PROVE  MemIInv'
<1> USE DEF MemTable
<1>1. /\ t \in Seq(Region) /\ mappings \in Seq(Region)
      /\ mappings \o t \in Seq(Region)
      /\ Len(mappings) \in Nat /\ Len(t) \in Nat
      /\ Len(mappings \o t) = Len(mappings) + Len(t)
      /\ \A i \in 1..Len(t) : (mappings \o t)[Len(mappings) + i] = t[i]
    BY TablesAssumption DEF MemIInv, MemTypeOK
<1>2. MemTypeOK'
    BY <1>1 DEF MemIInv, MemTypeOK
<1>3. FirstTable'
    <2>1. tables' # 0
        BY DEF MemIInv, MemTypeOK
    <2>2. CASE tables = 0
        <3>1. mappings = <<>> /\ \A r \in Rings : ring'[r] = NoAddr
            BY <2>2 DEF MemIInv, FirstTable
        <3>2. mappings' = t /\ memory' = t
            BY <1>1, <3>1
        <3> QED BY <2>1, <3>1, <3>2 DEF FirstTable
    <2>3. CASE tables # 0
        <3>1. tables' # 1
            BY <2>3 DEF MemIInv, MemTypeOK
        <3> QED BY <2>1, <3>1 DEF FirstTable
    <2> QED BY <2>2, <2>3
<1>4. NewestMapped'
    <2>1. ASSUME NEW i \in 1..Len(t)
          PROVE  \E j \in 1..Len(mappings \o t) : (mappings \o t)[j] = t[i]
        <3>1. Len(mappings) + i \in 1..Len(mappings \o t)
            BY <1>1
        <3> QED BY <1>1, <3>1
    <2> QED BY <2>1 DEF NewestMapped
<1> QED BY <1>2, <1>3, <1>4 DEF MemIInv

\* SET_VRING_ADDR: the rings get their translations, or the device gives up on
\* an address that no mapping covers.
LEMMA SetVringAddrStep ==
    ASSUME MemIInv, NEW vmm \in [Rings -> HostAddrs], VringAddr(vmm)
    PROVE  MemIInv'
<1> DEFINE guest == [r \in Rings |-> compute_guest_address(mappings, vmm[r])]
<1> DEFINE failed == {r \in Rings : mappings = <<>> \/ guest[r] = NoAddr}
<1>0. mappings \in Seq(Region) /\ \A r \in Rings : vmm[r] \in Int
    <2>1. mappings \in Seq(Region)
        BY DEF MemIInv, MemTypeOK
    <2>2. \A r \in Rings : vmm[r] \in HostAddrs
        OBVIOUS
    <2>3. \A a \in HostAddrs : a \in Int
        BY ONLY AddrsAssumption
    <2>4. \A r \in Rings : vmm[r] \in Int
        BY ONLY <2>2, <2>3
    <2> QED BY ONLY <2>1, <2>4
<1>1. guest \in [Rings -> Int] /\ vmm \in [Rings -> Int]
    <2>1. \A r \in Rings : compute_guest_address(mappings, vmm[r]) \in Int
        BY <1>0, ComputeGuestAddress
    <2> QED BY <1>0, <2>1
<1>2. UNCHANGED <<mappings, memory, tables>> /\ refused = NoAddr
    BY DEF VringAddr
<1>3. CASE failed = {} /\ ring' = guest /\ asked' = vmm /\ UNCHANGED refused
    <2>1. MemTypeOK'
        BY <1>1, <1>2, <1>3 DEF MemIInv, MemTypeOK
    <2>2. Rings # {} => tables # 0
        BY <1>3 DEF MemIInv, FirstTable
    <2>3. ASSUME tables = 1, NEW s \in Rings, ring'[s] # NoAddr
          PROVE  ring'[s] = compute_guest_address(memory, asked'[s])
        <3>1. mappings = memory
            BY <2>3 DEF MemIInv, FirstTable
        <3> QED BY <1>3, <3>1
    <2>4. FirstTable'
        BY <1>2, <2>2, <2>3 DEF MemIInv, FirstTable
    <2>5. NewestMapped'
        BY <1>2, <1>3 DEF MemIInv, NewestMapped
    <2> QED BY <2>1, <2>4, <2>5 DEF MemIInv
<1>4. CASE (\E r \in failed : refused' = vmm[r]) /\ UNCHANGED <<ring, asked>>
    <2>0. PICK r \in Rings :
              /\ refused' = vmm[r]
              /\ mappings = <<>> \/ compute_guest_address(mappings, vmm[r]) = NoAddr
        BY <1>4
    <2>1. MemTypeOK'
        BY <1>0, <1>2, <1>4, <2>0 DEF MemIInv, MemTypeOK
    <2>2. FirstTable'
        BY <1>2, <1>4 DEF MemIInv, FirstTable
    <2>3. \A j \in 1..Len(mappings) : ~Covers(mappings[j], vmm[r])
        BY <1>0, <2>0, ComputeGuestAddress
    <2>4. NewestMapped'
        BY <1>2, <1>4, <2>0, <2>3 DEF MemIInv, NewestMapped
    <2> QED BY <2>1, <2>2, <2>4 DEF MemIInv
<1> QED BY <1>3, <1>4 DEF VringAddr

\* The invariant holds in every reachable state.
THEOREM MemoryInvariantHolds == MemSpec => []MemIInv
<1>1. MemInit => MemIInv
    BY MemoryInit
<1>2. MemIInv /\ [MemNext]_memVars => MemIInv'
    <2> SUFFICES ASSUME MemIInv, [MemNext]_memVars PROVE MemIInv'
        OBVIOUS
    <2>1. CASE \E t \in Tables : MemTable(t)
        BY <2>1, SetMemTableStep
    <2>2. CASE \E vmm \in [Rings -> HostAddrs] : VringAddr(vmm)
        BY <2>2, SetVringAddrStep
    <2>3. CASE UNCHANGED memVars
        BY <2>3 DEF memVars, MemIInv, MemTypeOK, FirstTable,
                   NewestMapped
    <2> QED BY <2>1, <2>2, <2>3 DEF MemNext
<1> QED BY <1>1, <1>2, PTL DEF MemSpec

\* A ring that the only table places inside a region, and not where another
\* region ends, is used at the guest address that the table gives it.
THEOREM RingsAreTranslated == MemSpec => []RingTranslated
<1>1. MemIInv => RingTranslated
    <2> SUFFICES ASSUME MemIInv, NEW r \in Rings, tables = 1, ring[r] # NoAddr,
                        ~AdjacentHost(asked[r])
                 PROVE  ring[r] \in Translations(asked[r])
        BY DEF RingTranslated
    <2>1. memory \in Seq(Region) /\ asked[r] \in Int
        BY DEF MemIInv, MemTypeOK
    <2>2. ring[r] = compute_guest_address(memory, asked[r])
        BY DEF MemIInv, FirstTable
    <2>3. PICK i \in 1..Len(memory) :
              /\ Covers(memory[i], asked[r])
              /\ ring[r] = asked[r] - memory[i].host + memory[i].guest
        BY <2>1, <2>2, ComputeGuestAddress
    <2>4. memory[i] \in Region
        BY <2>1
    <2>5. memory[i].host \in Nat /\ memory[i].guest \in Nat /\ memory[i].size \in Nat
        BY <2>4 DEF Region
    <2>6. asked[r] # host_end(memory[i])
        BY DEF AdjacentHost
    <2>7. Inside(memory[i], asked[r])
        BY <2>1, <2>3, <2>5, <2>6 DEF Covers, Inside, host_end
    <2>8. ring[r] = memory[i].guest + asked[r] - memory[i].host
        BY <2>1, <2>3, <2>5
    <2> QED BY <2>7, <2>8 DEF Translations
<1> QED BY <1>1, MemoryInvariantHolds, PTL

\* The device gives up on a ring only when the newest table does not place it,
\* however many tables it has received.
THEOREM RefusalsAreOutside == MemSpec => []RefusedOnlyOutside
<1>1. MemIInv => RefusedOnlyOutside
    <2> SUFFICES ASSUME MemIInv, NEW i \in 1..Len(memory), refused # NoAddr
                 PROVE  ~Inside(memory[i], refused)
        BY DEF RefusedOnlyOutside
    <2>1. PICK j \in 1..Len(mappings) : mappings[j] = memory[i]
        BY DEF MemIInv, NewestMapped
    <2>2. ~Covers(memory[i], refused)
        BY <2>1 DEF MemIInv, NewestMapped
    <2>3. memory[i] \in Region /\ refused \in Int
        BY DEF MemIInv, MemTypeOK
    <2>4. memory[i].host \in Nat /\ memory[i].size \in Nat
        BY <2>3 DEF Region
    <2> QED BY <2>2, <2>3, <2>4 DEF Covers, Inside, host_end
<1> QED BY <1>1, MemoryInvariantHolds, PTL
=============================================================================
