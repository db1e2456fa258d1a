---------------------------- MODULE SwitchProofs ----------------------------
(***************************************************************************)
(* The safety properties of module Switch, for any number of ports, hosts  *)
(* and frames.  The inductive invariant is IInv: the types, the locking    *)
(* discipline, and the two strengthenings FrameOfPort and                  *)
(* BroadcastProgress; there is one lemma per step of a thread.  On top of  *)
(* it, FifoInv is inductive and gives the order of the frames.             *)
(***************************************************************************)
EXTENDS Switch, TLAPS

\* The initial state, with only the router connected, satisfies the invariant.
LEMMA InitIInv == Init => IInv
<1> SUFFICES ASSUME Init PROVE IInv
    OBVIOUS
<1> USE SwitchAssumption DEF Init, Ports
<1>1. TypeOK
    <2>1. 0 \in 0..(NumPorts - 1) /\ 1 \in 1..NumPorts
        OBVIOUS
    <2>2. queue \in [Ports -> Seq(Frames)]
        OBVIOUS
    <2>3. frame \in [Ports -> Frames \cup {NoFrame}]
        OBVIOUS
    <2>4. connecting \in BOOLEAN
        BY Zenon
    <2>5. /\ cache \in [Macs -> Ports \cup {None}]
          /\ nports \in 1..NumPorts
          /\ readers \subseteq Ports
        BY <2>1
    <2>6. /\ pc \in [Ports -> {"idle", "learn", "associate", "forward", "lookup",
                               "enqueue"}]
          /\ sent \in [Ports -> Nat]
          /\ todo \in [Ports -> SUBSET Ports]
          /\ spoke \in [Ports -> SUBSET Macs]
        OBVIOUS
    <2> QED BY <2>2, <2>3, <2>4, <2>5, <2>6, Zenon DEF TypeOK
<1>2. /\ ConnectBounded /\ LockHeldWhileForwarding /\ FrameOfPort
      /\ BroadcastProgress /\ HeardIsReachable
    BY DEF ConnectBounded, LockHeldWhileForwarding, FrameOfPort,
           BroadcastProgress, HeardIsReachable
<1> QED BY <1>1, <1>2 DEF IInv

\* A step that delivers nothing, connects nothing and leaves the threads that
\* are handing out a frame alone preserves BroadcastProgress.
LEMMA KeepBroadcast ==
    ASSUME BroadcastProgress, nports' = nports, queue' = queue,
           \A u \in Ports : pc'[u] = "enqueue" =>
               pc[u] = "enqueue" /\ frame'[u] = frame[u] /\ todo'[u] = todo[u]
    PROVE  BroadcastProgress'
<1> SUFFICES ASSUME NEW u \in Ports, (pc[u] = "enqueue" /\ frame[u].dst = Bcast)',
                    NEW p \in Connected', p # u, (p \notin todo[u])'
             PROVE  Received(p, frame[u])'
    BY DEF BroadcastProgress
<1>1. p \in Connected /\ pc[u] = "enqueue" /\ frame[u].dst = Bcast /\ p \notin todo[u]
    BY DEF Connected
<1>2. Received(p, frame[u])
    BY <1>1 DEF BroadcastProgress
<1> QED BY <1>2 DEF Received

\* process() is called: a fresh frame, nothing learned from it yet.
LEMMA ProcessStep ==
    ASSUME IInv, NEW t \in Ports, NEW src \in Macs, NEW dst \in Macs \cup {Bcast},
           Process(t, src, dst)
    PROVE  IInv'
<1> DEFINE f == [port |-> t, seq |-> sent[t] + 1, src |-> src, dst |-> dst]
<1> USE SwitchAssumption DEF IInv, Process, At, Goto
<1>1. sent[t] + 1 \in Nat
    BY DEF TypeOK
<1>2. f \in Frames
    BY <1>1 DEF Frames
<1>3. /\ pc' = [pc EXCEPT ![t] = "learn"] /\ frame' = [frame EXCEPT ![t] = f]
      /\ spoke' = [spoke EXCEPT ![t] = @ \cup {src}] /\ pc[t] = "idle"
    OBVIOUS
<1> HIDE DEF f
<1>4. TypeOK'
    BY <1>1, <1>2, <1>3 DEF TypeOK
<1>5. LockHeldWhileForwarding'
    BY <1>3 DEF TypeOK, LockHeldWhileForwarding, Connected
<1>6. FrameOfPort'
    <2>1. f.port = t /\ f.src = src /\ f.dst # Absent
        BY DEF f
    <2> QED BY <1>2, <1>3, <2>1 DEF TypeOK, FrameOfPort
<1>7. BroadcastProgress'
    BY <1>3, KeepBroadcast DEF TypeOK
<1>8. HeardIsReachable'
    <2>1. f.src = src
        BY DEF f
    <2> QED BY <1>3, <2>1 DEF TypeOK, HeardIsReachable
<1> QED BY <1>4, <1>5, <1>6, <1>7, <1>8 DEF ConnectBounded

\* The same for a frame to an address that no host has.
LEMMA AbsentStep ==
    ASSUME IInv, NEW t \in Ports, NEW src \in Macs, ProcessAbsent(t, src)
    PROVE  IInv'
<1> DEFINE f == [port |-> t, seq |-> 0, src |-> src, dst |-> Absent]
<1> USE SwitchAssumption DEF IInv, ProcessAbsent, At, Goto
<1>1. todo[t] = {}
    BY DEF LockHeldWhileForwarding
<1>2. f \in Frames
    BY DEF Frames
<1>3. /\ pc' = [pc EXCEPT ![t] = "learn"] /\ frame' = [frame EXCEPT ![t] = f]
      /\ spoke' = [spoke EXCEPT ![t] = @ \cup {src}] /\ pc[t] = "idle"
    OBVIOUS
<1> HIDE DEF f
<1>4. TypeOK'
    BY <1>2, <1>3 DEF TypeOK
<1>5. LockHeldWhileForwarding'
    BY <1>3 DEF TypeOK, LockHeldWhileForwarding, Connected
<1>6. FrameOfPort'
    <2>1. f.port = t /\ f.src = src 
        BY DEF f
    <2> QED BY <1>1, <1>2, <1>3, <2>1 DEF TypeOK, FrameOfPort
<1>7. BroadcastProgress'
    BY <1>3, KeepBroadcast DEF TypeOK
<1>8. HeardIsReachable'
    <2>1. f.src = src
        BY DEF f
    <2> QED BY <1>3, <2>1 DEF TypeOK, HeardIsReachable
<1> QED BY <1>4, <1>5, <1>6, <1>7, <1>8 DEF ConnectBounded

\* get_port(frame.src): the thread skips the association only when the cache
\* already names its port.
LEMMA LearnStep ==
    ASSUME IInv, NEW t \in Ports, Learn(t)
    PROVE  IInv'
<1> USE DEF IInv, Learn, At
<1>1. PICK label \in {"forward", "associate"} :
          /\ pc' = [pc EXCEPT ![t] = label]
          /\ label = "forward" => cache[frame[t].src] = t
    BY DEF Goto
<1>2. TypeOK'
    BY <1>1 DEF TypeOK
<1>3. LockHeldWhileForwarding'
    BY <1>1 DEF TypeOK, LockHeldWhileForwarding, Connected
<1>4. FrameOfPort'
    BY <1>1 DEF TypeOK, FrameOfPort
<1>5. BroadcastProgress'
    BY <1>1, KeepBroadcast DEF TypeOK
<1>6. HeardIsReachable'
    BY <1>1 DEF TypeOK, HeardIsReachable
<1> QED BY <1>2, <1>3, <1>4, <1>5, <1>6 DEF ConnectBounded

\* associate_port: the entry of an address that only this port uses is not
\* taken by another port.
LEMMA AssociateStep ==
    ASSUME IInv, NEW t \in Ports, associate_port(t)
    PROVE  IInv'
<1> USE DEF IInv, associate_port, At, Goto
<1>1. frame[t] \in Frames /\ frame[t].src \in Macs /\ frame[t].src \in spoke[t]
    BY DEF FrameOfPort, Frames
<1>2. TypeOK'
    BY <1>1 DEF TypeOK
<1>3. LockHeldWhileForwarding'
    BY DEF TypeOK, LockHeldWhileForwarding, Connected
<1>4. FrameOfPort'
    BY DEF TypeOK, FrameOfPort
<1>5. BroadcastProgress'
    BY KeepBroadcast DEF TypeOK
<1>6. HeardIsReachable'
    BY <1>1 DEF TypeOK, HeardIsReachable
<1> QED BY <1>2, <1>3, <1>4, <1>5, <1>6 DEF ConnectBounded

\* The lock is taken for a broadcast: all other ports are to be served.
LEMMA LockBroadcastStep ==
    ASSUME IInv, NEW t \in Ports, LockBroadcast(t)
    PROVE  IInv'
<1> USE SwitchAssumption DEF IInv, LockBroadcast, At, Goto
<1>1. Fanout(t) \subseteq Connected /\ Connected \subseteq Ports
    BY DEF Fanout, Connected, Ports, TypeOK
<1>2. TypeOK'
    BY <1>1 DEF TypeOK
<1>3. LockHeldWhileForwarding'
    BY <1>1 DEF TypeOK, LockHeldWhileForwarding, Connected
<1>4. FrameOfPort'
    BY DEF TypeOK, FrameOfPort
<1>5. BroadcastProgress'
    <2> SUFFICES ASSUME NEW u \in Ports, (pc[u] = "enqueue" /\ frame[u].dst = Bcast)',
                        NEW p \in Connected', p # u, (p \notin todo[u])'
                 PROVE  Received(p, frame[u])'
        BY DEF BroadcastProgress
    <2>1. p \in Connected
        BY DEF Connected
    <2>2. u # t
        BY <2>1 DEF Fanout, TypeOK
    <2>3. Received(p, frame[u])
        BY <2>1, <2>2 DEF BroadcastProgress, TypeOK
    <2> QED BY <2>3 DEF Received
<1>6. HeardIsReachable'
    BY DEF TypeOK, HeardIsReachable
<1> QED BY <1>2, <1>3, <1>4, <1>5, <1>6 DEF ConnectBounded

\* The lock is taken for a unicast frame.
LEMMA LockUnicastStep ==
    ASSUME IInv, NEW t \in Ports, LockUnicast(t)
    PROVE  IInv'
<1> USE DEF IInv, LockUnicast, At, Goto
<1>1. TypeOK'
    BY DEF TypeOK
<1>2. LockHeldWhileForwarding'
    BY DEF TypeOK, LockHeldWhileForwarding, Connected
<1>3. FrameOfPort'
    BY DEF TypeOK, FrameOfPort
<1>4. BroadcastProgress'
    BY KeepBroadcast DEF TypeOK
<1>5. HeardIsReachable'
    BY DEF TypeOK, HeardIsReachable
<1> QED BY <1>1, <1>2, <1>3, <1>4, <1>5 DEF ConnectBounded

\* The destination is looked up while the lock is held.
LEMMA LookupStep ==
    ASSUME IInv, NEW t \in Ports, Lookup(t)
    PROVE  IInv'
<1> USE SwitchAssumption DEF IInv, Lookup, At, Goto
<1>1. PICK S \in SUBSET Connected :
          todo' = [todo EXCEPT ![t] = S] /\ (frame[t].dst = Absent => S = {})
    <2>1. frame[t].dst = Absent => get_port(frame[t].dst) = None
        BY DEF TypeOK, get_port
    <2>2. None \notin Connected
        BY DEF None, Connected, TypeOK
    <2> QED BY <2>1, <2>2
<1>2. Connected \subseteq Ports /\ Connected' = Connected
    BY DEF Connected, Ports, TypeOK
<1>3. TypeOK'
    BY <1>1, <1>2 DEF TypeOK
<1>4. LockHeldWhileForwarding'
    BY <1>1, <1>2 DEF TypeOK, LockHeldWhileForwarding
<1>5. FrameOfPort'
    BY <1>1 DEF TypeOK, FrameOfPort
<1>6. BroadcastProgress'
    <2> SUFFICES ASSUME NEW u \in Ports, (pc[u] = "enqueue" /\ frame[u].dst = Bcast)',
                        NEW p \in Connected', p # u, (p \notin todo[u])'
                 PROVE  Received(p, frame[u])'
        BY DEF BroadcastProgress
    <2>1. u # t
        BY DEF FrameOfPort, TypeOK
    <2>2. Received(p, frame[u])
        BY <1>2, <2>1 DEF BroadcastProgress, TypeOK
    <2> QED BY <2>2 DEF Received
<1>7. HeardIsReachable'
    BY DEF TypeOK, HeardIsReachable
<1> QED BY <1>3, <1>4, <1>5, <1>6, <1>7 DEF ConnectBounded

\* One port gets the frame: it is received there, and nothing received before
\* is lost.
LEMMA EnqueueStep ==
    ASSUME IInv, NEW t \in Ports, Enqueue(t)
    PROVE  IInv'
<1> USE SwitchAssumption DEF IInv, Enqueue, At
<1>1. PICK d \in todo[t] : /\ queue' = [queue EXCEPT ![d] = Append(@, frame[t])]
                           /\ todo' = [todo EXCEPT ![t] = @ \ {d}]
    OBVIOUS
<1>2. d \in Ports /\ frame[t] \in Frames /\ queue[d] \in Seq(Frames)
    BY DEF TypeOK, FrameOfPort
<1>3. queue' \in [Ports -> Seq(Frames)]
    BY <1>1, <1>2 DEF TypeOK
<1>4. TypeOK'
    <2>1. todo' \in [Ports -> SUBSET Ports]
        BY <1>1 DEF TypeOK
    <2> QED BY <1>3, <2>1 DEF TypeOK
<1>5. LockHeldWhileForwarding'
    BY <1>1 DEF TypeOK, LockHeldWhileForwarding, Connected
<1>6. FrameOfPort'
    BY DEF TypeOK, FrameOfPort
<1>7. ASSUME NEW p \in Ports, NEW g, Received(p, g) \/ (p = d /\ g = frame[t])
      PROVE  \E i \in 1..Len(queue'[p]) : queue'[p][i] = g
    <2>1. CASE p # d
        BY <1>1, <1>7, <2>1 DEF TypeOK, Received
    <2>2. CASE p = d
        <3>1. /\ queue'[p] = Append(queue[p], frame[t]) /\ queue[p] \in Seq(Frames)
              /\ Len(queue'[p]) = Len(queue[p]) + 1 /\ Len(queue[p]) \in Nat
            BY <1>1, <1>2, <2>2 DEF TypeOK
        <3>2. CASE Received(p, g)
            <4>1. PICK i \in 1..Len(queue[p]) : queue[p][i] = g
                BY <3>2 DEF Received
            <4>2. i \in 1..Len(queue'[p]) /\ queue'[p][i] = g
                BY <3>1, <4>1
            <4> QED BY <4>2
        <3>3. CASE g = frame[t]
            <4>1. queue'[p][Len(queue[p]) + 1] = g
                BY <3>1, <3>3
            <4> QED BY <3>1, <4>1
        <3> QED BY <1>7, <3>2, <3>3
    <2> QED BY <2>1, <2>2
<1>8. BroadcastProgress'
    <2> SUFFICES ASSUME NEW u \in Ports, (pc[u] = "enqueue" /\ frame[u].dst = Bcast)',
                        NEW p \in Connected', p # u, (p \notin todo[u])'
                 PROVE  Received(p, frame[u])'
        BY DEF BroadcastProgress
    <2>1. p \in Connected /\ p \in Ports /\ frame'[u] = frame[u] /\ pc[u] = "enqueue"
        BY DEF Connected, Ports, TypeOK
    <2>2. Received(p, frame[u]) \/ (p = d /\ frame[u] = frame[t])
        BY <1>1, <2>1 DEF BroadcastProgress, TypeOK
    <2>3. \E i \in 1..Len(queue'[p]) : queue'[p][i] = frame[u]
        BY ONLY <1>7, <2>1, <2>2, Zenon
    <2> QED BY ONLY <2>1, <2>3, Zenon DEF Received
<1>9. HeardIsReachable'
    BY DEF TypeOK, HeardIsReachable
<1> QED BY <1>4, <1>5, <1>6, <1>8, <1>9 DEF ConnectBounded

\* process returns: the lock is released.
LEMMA ReturnStep ==
    ASSUME IInv, NEW t \in Ports, Return(t)
    PROVE  IInv'
<1> USE DEF IInv, Return, At, Goto
<1>1. TypeOK'
    BY DEF TypeOK
<1>2. LockHeldWhileForwarding'
    BY DEF TypeOK, LockHeldWhileForwarding, Connected
<1>3. FrameOfPort'
    BY DEF TypeOK, FrameOfPort
<1>4. BroadcastProgress'
    BY KeepBroadcast DEF TypeOK
<1>5. HeardIsReachable'
    BY DEF TypeOK, HeardIsReachable
<1> QED BY <1>1, <1>2, <1>3, <1>4, <1>5 DEF ConnectBounded

\* connect: while a port is added nobody holds the read lock, so no thread is
\* in the middle of a broadcast.
LEMMA ConnectStep ==
    ASSUME IInv, ConnectBegin \/ Connect
    PROVE  IInv'
<1> USE SwitchAssumption DEF IInv
<1>1. CASE ConnectBegin
    <2> USE <1>1 DEF ConnectBegin
    <2>1. TypeOK'
        BY DEF TypeOK
    <2>2. LockHeldWhileForwarding'
        BY DEF LockHeldWhileForwarding, Connected
    <2>3. FrameOfPort' /\ HeardIsReachable'
        BY DEF FrameOfPort, HeardIsReachable
    <2>4. BroadcastProgress'
        BY KeepBroadcast
    <2> QED BY <2>1, <2>2, <2>3, <2>4 DEF ConnectBounded
<1>2. CASE Connect
    <2> USE <1>2 DEF Connect
    <2>1. Connected \subseteq Connected'
        BY DEF Connected, TypeOK
    <2>2. nports' \in 1..NumPorts /\ connecting' \in BOOLEAN
        <3>1. nports < NumPorts
            BY Zenon DEF ConnectBounded
        <3>2. nports \in 1..NumPorts /\ nports' = nports + 1
            BY DEF TypeOK
        <3>3. nports' \in 1..NumPorts
            BY <3>1, <3>2
        <3>4. connecting' \in BOOLEAN
            BY Zenon
        <3> QED BY <3>3, <3>4
    <2>3. TypeOK'
        BY <2>2 DEF TypeOK
    <2>4. LockHeldWhileForwarding'
        BY <2>1 DEF LockHeldWhileForwarding
    <2>5. FrameOfPort' /\ HeardIsReachable'
        BY DEF FrameOfPort, HeardIsReachable
    <2>6. \A u \in Ports : pc[u] # "enqueue"
        BY DEF LockHeldWhileForwarding
    <2>7. BroadcastProgress'
        BY <2>6 DEF BroadcastProgress
    <2> QED BY <2>3, <2>4, <2>5, <2>7 DEF ConnectBounded
<1> QED BY <1>1, <1>2

\* The invariant holds in every reachable state.
THEOREM IInvHolds == Spec => []IInv
<1>1. Init => IInv
    BY InitIInv
<1>2. IInv /\ [Next]_vars => IInv'
    <2> SUFFICES ASSUME IInv, [Next]_vars PROVE IInv'
        OBVIOUS
    <2>1. CASE \E t \in Ports : Thread(t)
        BY <2>1, LearnStep, AssociateStep, LockBroadcastStep, LockUnicastStep,
           LookupStep, EnqueueStep, ReturnStep DEF Thread
    <2>2. CASE \E t \in Ports, src \in Macs, dst \in Macs \cup {Bcast} :
                   Process(t, src, dst)
        BY <2>2, ProcessStep
    <2>5. CASE \E t \in Ports, src \in Macs : ProcessAbsent(t, src)
        BY <2>5, AbsentStep
    <2>3. CASE ConnectBegin \/ Connect
        BY <2>3, ConnectStep
    <2>4. CASE UNCHANGED vars
        BY <2>4 DEF vars, IInv, TypeOK, ConnectBounded, LockHeldWhileForwarding,
                    FrameOfPort, BroadcastProgress, HeardIsReachable, Connected, Received
    <2> QED BY <2>1, <2>2, <2>3, <2>4, <2>5 DEF Next
<1> QED BY <1>1, <1>2, PTL DEF Spec

\* Every variable of the switch keeps its type, however the threads interleave.
THEOREM SwitchTypes == Spec => []TypeOK
<1>1. IInv => TypeOK
    BY DEF IInv
<1> QED BY <1>1, IInvHolds, PTL

\* process holds the read lock on `ports` exactly while it hands a frame out,
\* and the ports it has still to serve stay connected.
THEOREM LocksAreHeld == Spec => []LockHeldWhileForwarding
<1>1. IInv => LockHeldWhileForwarding
    BY DEF IInv
<1> QED BY <1>1, IInvHolds, PTL

\* A broadcast reaches every port connected by the time process returns, save
\* the originator's, whatever connects and forwards meanwhile.
THEOREM BroadcastsAreComplete == Spec => []BroadcastComplete
<1>1. IInv => BroadcastComplete
    BY DEF IInv, BroadcastProgress, BroadcastComplete
<1> QED BY <1>1, IInvHolds, PTL

\* The two accesses of process to the cache are not atomic, and yet a host that
\* only one port uses stays associated with that port once it was heard.
THEOREM HeardHostsAreReachable == Spec => []HeardIsReachable
<1>1. IInv => HeardIsReachable
    BY DEF IInv
<1> QED BY <1>1, IInvHolds, PTL
-----------------------------------------------------------------------------
(* The order of the frames in the queues. *)

Early == {"learn", "associate", "forward", "lookup"}

\* The frame of the thread has still to reach the queues it is for.
Behind(u) == pc[u] \in Early /\ frame[u].dst # Absent

\* What an entry of a queue is, and that its sender is a port.
LEMMA QueuedType ==
    ASSUME IInv, NEW p \in Ports, NEW i \in 1..Len(queue[p])
    PROVE  queue[p][i] \in Frames /\ queue[p][i].port \in Ports /\ queue[p][i].seq \in Nat
<1>1. queue[p] \in Seq(Frames)
    BY DEF IInv, TypeOK
<1>2. queue[p][i] \in Frames
    BY <1>1
<1> QED BY <1>2 DEF Frames

\* A step that enqueues and sends nothing preserves the order as long as no
\* thread goes back, and a thread that has ports to serve has either just
\* found them or had them before.
LEMMA KeepFifo ==
    ASSUME IInv, FifoInv, queue' = queue, sent' = sent,
           \A u \in Ports : pc'[u] # "idle" => frame'[u] = frame[u],
           \A u \in Ports : pc'[u] # "idle" => pc[u] # "idle",
           \A u \in Ports : pc'[u] \in Early => pc[u] \in Early,
           \A u \in Ports : \/ pc[u] \in Early /\ frame[u].dst # Absent
                            \/ todo'[u] \subseteq todo[u],
           \A u \in Ports : pc'[u] = "enqueue" /\ frame[u].dst = Bcast => u \notin todo'[u]
    PROVE  FifoInv'
<1>1. FifoPerSender'
    BY DEF FifoInv, FifoPerSender
<1>2. WorksOnLast'
    BY DEF FifoInv, WorksOnLast
<1>3. ASSUME NEW p \in Ports, NEW i \in 1..Len(queue[p])
      PROVE  /\ queue[p][i].seq <= sent[queue[p][i].port]
             /\ (pc'[queue[p][i].port] \in Early /\ frame'[queue[p][i].port].dst # Absent)
                \/ p \in todo'[queue[p][i].port]
                => queue[p][i].seq < sent[queue[p][i].port]
    <2>1. queue[p][i].port \in Ports
        BY QueuedType
    <2>2. /\ queue[p][i].seq <= sent[queue[p][i].port]
          /\ Behind(queue[p][i].port) \/ p \in todo[queue[p][i].port]
             => queue[p][i].seq < sent[queue[p][i].port]
        BY DEF FifoInv, QueuedBefore, Behind, Early
    <2>3. PICK u \in Ports : u = queue[p][i].port
        BY <2>1
    <2>4. (pc'[u] \in Early /\ frame'[u].dst # Absent) => Behind(u)
        BY DEF Early, Behind
    <2>5. Behind(u) \/ todo'[u] \subseteq todo[u]
        BY DEF Behind
    <2> QED BY <2>2, <2>3, <2>4, <2>5
<1>4. QueuedBefore'
    BY <1>3 DEF QueuedBefore, Early
<1> QED BY <1>1, <1>2, <1>4 DEF FifoInv

\* A frame that is sent is newer than every queued frame of its port.
LEMMA ProcessFifo ==
    ASSUME IInv, FifoInv, NEW t \in Ports, NEW src \in Macs,
           NEW dst \in Macs \cup {Bcast}, Process(t, src, dst)
    PROVE  FifoInv'
<1> USE DEF Process, At, Goto
<1>1. FifoPerSender'
    BY DEF FifoInv, FifoPerSender
<1>2. WorksOnLast'
    <2>1. frame'[t].seq = sent[t] + 1 /\ sent'[t] = sent[t] + 1
        BY DEF IInv, TypeOK
    <2> QED BY <2>1 DEF IInv, TypeOK, FifoInv, WorksOnLast
<1>3. ASSUME NEW p \in Ports, NEW i \in 1..Len(queue[p])
      PROVE  /\ queue[p][i].seq <= sent'[queue[p][i].port]
             /\ (pc'[queue[p][i].port] \in Early /\ frame'[queue[p][i].port].dst # Absent)
                \/ p \in todo'[queue[p][i].port]
                => queue[p][i].seq < sent'[queue[p][i].port]
    <2>1. queue[p][i].port \in Ports /\ queue[p][i].seq \in Nat
        BY QueuedType
    <2>2. /\ queue[p][i].seq <= sent[queue[p][i].port]
          /\ Behind(queue[p][i].port) \/ p \in todo[queue[p][i].port]
             => queue[p][i].seq < sent[queue[p][i].port]
        BY DEF FifoInv, QueuedBefore, Behind, Early
    <2>3. CASE queue[p][i].port = t
        <3>1. sent'[t] = sent[t] + 1 /\ sent[t] \in Nat
            BY DEF IInv, TypeOK
        <3> QED BY <2>1, <2>2, <2>3, <3>1
    <2>4. CASE queue[p][i].port # t
        <3>1. PICK u \in Ports \ {t} : u = queue[p][i].port
            BY <2>1, <2>4
        <3>2. pc'[u] = pc[u] /\ frame'[u] = frame[u] /\ sent'[u] = sent[u] /\ todo' = todo
            BY DEF IInv, TypeOK
        <3> QED BY <2>2, <3>1, <3>2 DEF Behind
    <2> QED BY <2>3, <2>4
<1>4. QueuedBefore'
    BY <1>3 DEF QueuedBefore, Behind, Early
<1> QED BY <1>1, <1>2, <1>4 DEF FifoInv

\* A frame to Absent leaves the order alone.
LEMMA AbsentFifo ==
    ASSUME IInv, FifoInv, NEW t \in Ports, NEW src \in Macs, ProcessAbsent(t, src)
    PROVE  FifoInv'
<1> USE DEF ProcessAbsent, At, Goto
<1>1. FifoPerSender'
    BY DEF FifoInv, FifoPerSender
<1>2. frame'[t].dst = Absent /\ pc'[t] = "learn" /\ todo[t] = {}
    BY DEF IInv, TypeOK, LockHeldWhileForwarding
<1>3. WorksOnLast'
    BY <1>2 DEF IInv, TypeOK, FifoInv, WorksOnLast
<1>4. ASSUME NEW p \in Ports, NEW i \in 1..Len(queue[p])
      PROVE  /\ queue[p][i].seq <= sent[queue[p][i].port]
             /\ (pc'[queue[p][i].port] \in Early /\ frame'[queue[p][i].port].dst # Absent)
                \/ p \in todo[queue[p][i].port]
                => queue[p][i].seq < sent[queue[p][i].port]
    <2>1. PICK u \in Ports : u = queue[p][i].port
        BY QueuedType
    <2>2. /\ queue[p][i].seq <= sent[u]
          /\ Behind(u) \/ p \in todo[u] => queue[p][i].seq < sent[u]
        BY <2>1 DEF FifoInv, QueuedBefore, Behind, Early
    <2>3. (pc'[u] \in Early /\ frame'[u].dst # Absent) => Behind(u)
        BY <1>2 DEF IInv, TypeOK, Behind
    <2> QED BY <2>1, <2>2, <2>3
<1>5. QueuedBefore'
    BY <1>4 DEF QueuedBefore, Early
<1> QED BY <1>1, <1>3, <1>5 DEF FifoInv

\* A port gets the frame behind older frames of the same sender only.
LEMMA EnqueueFifo ==
    ASSUME IInv, FifoInv, NEW t \in Ports, Enqueue(t)
    PROVE  FifoInv'
<1>1. PICK d \in todo[t] : /\ queue' = [queue EXCEPT ![d] = Append(@, frame[t])]
                           /\ todo' = [todo EXCEPT ![t] = @ \ {d}]
    BY DEF Enqueue
<1>2. /\ pc[t] = "enqueue" /\ pc' = pc /\ frame' = frame /\ sent' = sent
      /\ d \in Ports
    BY DEF Enqueue, At, IInv, TypeOK
<1>3. /\ frame[t] \in Frames /\ frame[t].port = t /\ frame[t].seq = sent[t]
      /\ frame[t].dst = Bcast => t \notin todo[t]
    BY <1>2 DEF IInv, FrameOfPort, FifoInv, WorksOnLast
<1>4. /\ queue[d] \in Seq(Frames) /\ Len(queue[d]) \in Nat
      /\ queue'[d] = Append(queue[d], frame[t])
      /\ Len(queue'[d]) = Len(queue[d]) + 1
      /\ queue'[d][Len(queue[d]) + 1] = frame[t]
      /\ \A i \in 1..Len(queue[d]) : queue'[d][i] = queue[d][i]
    <2>1. queue[d] \in Seq(Frames) /\ queue'[d] = Append(queue[d], frame[t])
        BY <1>1, <1>2 DEF IInv, TypeOK
    <2> QED BY <1>3, <2>1
<1>5. \A p \in Ports \ {d} : queue'[p] = queue[p]
    BY <1>1 DEF IInv, TypeOK
<1>6. \A i \in 1..Len(queue[d]) : queue[d][i].port = t => queue[d][i].seq < frame[t].seq
    BY <1>2, <1>3 DEF FifoInv, QueuedBefore
<1>7. WorksOnLast'
    BY <1>1, <1>2 DEF IInv, TypeOK, FifoInv, WorksOnLast
<1>8. QueuedBefore'
    <2>1. ASSUME NEW p \in Ports, NEW i \in 1..Len(queue'[p])
          PROVE  /\ queue'[p][i].seq <= sent[queue'[p][i].port]
                 /\ Behind(queue'[p][i].port) \/ p \in todo'[queue'[p][i].port]
                    => queue'[p][i].seq < sent[queue'[p][i].port]
        <3>1. CASE p = d /\ i = Len(queue[d]) + 1
            <4>1. queue'[p][i] = frame[t]
                BY <1>4, <3>1
            <4>2. d \notin todo'[t] /\ pc[t] \notin Early
                BY <1>1, <1>2 DEF IInv, TypeOK, Early
            <4>3. sent[t] \in Nat
                BY DEF IInv, TypeOK
            <4>4. frame[t].seq <= sent[t]
                BY <1>3, <4>3
            <4>5. queue'[p][i].port = t /\ ~Behind(t) /\ p \notin todo'[t]
                BY <1>3, <3>1, <4>1, <4>2 DEF Behind
            <4> QED BY <4>1, <4>4, <4>5
        <3>2. CASE ~(p = d /\ i = Len(queue[d]) + 1)
            <4>1. i \in 1..Len(queue[p]) /\ queue'[p][i] = queue[p][i]
                BY <1>4, <1>5, <2>1, <3>2
            <4>2. queue[p][i].port \in Ports
                BY <4>1, QueuedType
            <4>3. todo'[queue[p][i].port] \subseteq todo[queue[p][i].port]
                BY <1>1, <4>2 DEF IInv, TypeOK
            <4>4. /\ queue[p][i].seq <= sent[queue[p][i].port]
                  /\ Behind(queue[p][i].port) \/ p \in todo[queue[p][i].port]
                     => queue[p][i].seq < sent[queue[p][i].port]
                BY <4>1 DEF FifoInv, QueuedBefore, Behind, Early
            <4> QED BY <4>1, <4>3, <4>4
        <3> QED BY <3>1, <3>2
    <2> QED BY <1>2, <2>1 DEF QueuedBefore, Behind, Early
<1>9. FifoPerSender'
    <2>1. ASSUME NEW p \in Ports, NEW i \in 1..Len(queue'[p]), NEW j \in 1..Len(queue'[p]),
                 i < j, queue'[p][i].port = queue'[p][j].port
          PROVE  queue'[p][i].seq < queue'[p][j].seq
        <3>1. CASE p = d /\ j = Len(queue[d]) + 1
            <4>1. /\ queue'[p][j] = frame[t] /\ i \in 1..Len(queue[d])
                  /\ queue'[p][i] = queue[d][i]
                BY <1>4, <2>1, <3>1
            <4> QED BY <1>3, <1>6, <2>1, <4>1
        <3>2. CASE ~(p = d /\ j = Len(queue[d]) + 1)
            <4>1. /\ i \in 1..Len(queue[p]) /\ j \in 1..Len(queue[p])
                  /\ queue'[p][i] = queue[p][i] /\ queue'[p][j] = queue[p][j]
                <5>1. CASE p # d
                    BY <1>5, <2>1, <5>1
                <5>2. CASE p = d
                    <6>1. i \in 1..Len(queue[d]) /\ j \in 1..Len(queue[d])
                        BY <1>4, <2>1, <3>2, <5>2
                    <6> QED BY <1>4, <5>2, <6>1
                <5> QED BY <5>1, <5>2
            <4> QED BY <2>1, <4>1 DEF FifoInv, FifoPerSender
        <3> QED BY <3>1, <3>2
    <2>2. ASSUME NEW p \in Ports, NEW i \in 1..Len(queue'[p]), queue'[p][i].dst = Bcast
          PROVE  queue'[p][i].port # p
        <3>1. CASE p = d /\ i = Len(queue[d]) + 1
            BY <1>3, <1>4, <2>2, <3>1
        <3>2. CASE ~(p = d /\ i = Len(queue[d]) + 1)
            <4>1. i \in 1..Len(queue[p]) /\ queue'[p][i] = queue[p][i]
                BY <1>4, <1>5, <2>2, <3>2
            <4> QED BY <2>2, <4>1 DEF FifoInv, FifoPerSender
        <3> QED BY <3>1, <3>2
    <2> QED BY <2>1, <2>2 DEF FifoPerSender
<1> QED BY <1>7, <1>8, <1>9 DEF FifoInv

\* The steps of a thread that enqueue nothing.
LEMMA ThreadFifo ==
    ASSUME IInv, FifoInv, NEW t \in Ports, Thread(t)
    PROVE  FifoInv'
<1> USE DEF At, Goto, Early
<1>1. CASE Learn(t)
    BY <1>1, KeepFifo DEF Learn, IInv, TypeOK, FifoInv, WorksOnLast
<1>2. CASE associate_port(t)
    BY <1>2, KeepFifo DEF associate_port, IInv, TypeOK, FifoInv, WorksOnLast
<1>3. CASE LockBroadcast(t)
    <2>1. frame[t].dst # Absent
        BY <1>3, SwitchAssumption DEF LockBroadcast
    <2> QED BY <1>3, <2>1, KeepFifo DEF LockBroadcast, Fanout, IInv, TypeOK, FifoInv,
               WorksOnLast
<1>4. CASE LockUnicast(t)
    BY <1>4, KeepFifo DEF LockUnicast, IInv, TypeOK, FifoInv, WorksOnLast
<1>5. CASE Lookup(t)
    <2>1. frame[t].dst # Bcast
        BY <1>5 DEF Lookup, IInv, FrameOfPort
    <2>2. pc[t] = "lookup" /\ frame' = frame /\ queue' = queue /\ sent' = sent
        BY <1>5 DEF Lookup
    <2>3. pc' = [pc EXCEPT ![t] = "enqueue"] /\ \E S : todo' = [todo EXCEPT ![t] = S]
        BY <1>5 DEF Lookup
    <2>4. frame[t].dst = Absent => todo'[t] = {}
        <3>1. (pc[t] # "idle" /\ frame[t].dst = Absent => todo[t] = {})'
            BY <1>5, LookupStep DEF IInv, FrameOfPort
        <3> QED BY <2>2, <2>3, <3>1 DEF IInv, TypeOK
    <2>5. ASSUME NEW u \in Ports
          PROVE  \/ pc[u] \in Early /\ frame[u].dst # Absent
                 \/ todo'[u] \subseteq todo[u]
        BY <2>2, <2>3, <2>4 DEF IInv, TypeOK
    <2>6. ASSUME NEW u \in Ports
          PROVE  /\ pc'[u] # "idle" => pc[u] # "idle"
                 /\ pc'[u] \in Early => pc[u] \in Early
                 /\ pc'[u] = "enqueue" /\ frame[u].dst = Bcast => u \notin todo'[u]
        BY <2>1, <2>2, <2>3 DEF IInv, TypeOK, FifoInv, WorksOnLast
    <2> HIDE DEF Early
    <2> QED BY <2>2, <2>5, <2>6, KeepFifo
<1>6. CASE Enqueue(t)
    BY <1>6, EnqueueFifo
<1>7. CASE Return(t)
    BY <1>7, KeepFifo DEF Return, IInv, TypeOK, FifoInv, WorksOnLast
<1> QED BY <1>1, <1>2, <1>3, <1>4, <1>5, <1>6, <1>7 DEF Thread

\* Whatever threads interleave, no port gets a frame twice, the frames of one
\* sender are not reordered, and no broadcast returns to its originator.
THEOREM FramesStayInOrder == Spec => []FifoPerSender
<1>1. Init => FifoInv
    BY SwitchAssumption DEF Init, Ports, FifoInv, QueuedBefore, WorksOnLast, FifoPerSender
<1>2. IInv /\ FifoInv /\ [Next]_vars => FifoInv'
    <2> SUFFICES ASSUME IInv, FifoInv, [Next]_vars PROVE FifoInv'
        OBVIOUS
    <2>1. CASE \E t \in Ports : Thread(t)
        BY <2>1, ThreadFifo
    <2>2. CASE \E t \in Ports, src \in Macs, dst \in Macs \cup {Bcast} :
                   Process(t, src, dst)
        BY <2>2, ProcessFifo
    <2>4. CASE \E t \in Ports, src \in Macs : ProcessAbsent(t, src)
        BY <2>4, AbsentFifo
    <2>3. CASE ConnectBegin \/ Connect \/ UNCHANGED vars
        BY <2>3, KeepFifo DEF ConnectBegin, Connect, vars, FifoInv, WorksOnLast
    <2> QED BY <2>1, <2>2, <2>3, <2>4 DEF Next
<1>3. FifoInv => FifoPerSender
    BY DEF FifoInv
<1> QED BY <1>1, <1>2, <1>3, IInvHolds, PTL DEF Spec
=============================================================================
