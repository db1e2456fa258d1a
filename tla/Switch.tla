------------------------------- MODULE Switch -------------------------------
(***************************************************************************)
(* The bridge's layer 2 switch (oathgate-bridge/src/net/switch.rs).  It    *)
(* has no thread of its own: the router thread and the threads of the      *)
(* devices call process() concurrently, each for the port it is connected  *)
(* to, and the main thread connects new devices meanwhile.  They share     *)
(* `ports` and `cache`, each behind a reader-writer lock.                  *)
(*                                                                         *)
(* An access to `cache` is one step, since its lock is held for nothing    *)
(* else; the read lock on `ports` is held while a frame is handed out.     *)
(* The lock (parking_lot) lets no new reader in while a writer waits.      *)
(***************************************************************************)
EXTENDS Integers, Sequences, FiniteSets

CONSTANTS Macs,       \* hardware addresses of hosts
          Bcast,      \* the broadcast address
          Absent,     \* an address that no host has
          Chatty,     \* bound: ports, with the source, that send to Absent
          NumPorts,   \* bound: ports ever connected
          MaxSent     \* bound: MaxSent[p] frames are sent by port p, save to Absent

ASSUME SwitchAssumption ==
    /\ Bcast \notin Macs /\ Absent \notin Macs \cup {Bcast}
    /\ NumPorts \in Nat \ {0}
    /\ Chatty \subseteq (0..(NumPorts - 1)) \X Macs
    /\ MaxSent \in [0..(NumPorts - 1) -> Nat]

Ports == 0..(NumPorts - 1)
None == -1

Frames == [port : Ports, seq : Nat, src : Macs, dst : Macs \cup {Bcast, Absent}]

VARIABLES
    nports,     \* length of `ports`
    cache,      \* cache[m]: the port associated with m, or None
    queue,      \* queue[p]: frames enqueued to the device at port p
    pc,         \* pc[t]: where the thread of port t is in process()
    frame,      \* frame[t]: the frame it works on
    todo,       \* todo[t]: ports it has still to enqueue the frame to
    readers,    \* threads that hold the read lock on `ports`
    connecting, \* the main thread waits for the write lock on `ports`
    sent,       \* sent[t]: frames port t has sent, save to Absent
    spoke       \* history: the source addresses port t has used

vars == <<nports, cache, queue, pc, frame, todo, readers, connecting, sent,
          spoke>>

Connected == 0..(nports - 1)

NoFrame == [port |-> None]

\* Bridge::run connects the router before any device.
Init ==
    /\ nports = 1
    /\ cache = [m \in Macs |-> None]
    /\ queue = [p \in Ports |-> <<>>]
    /\ pc = [t \in Ports |-> "idle"]
    /\ frame = [t \in Ports |-> NoFrame]
    /\ todo = [t \in Ports |-> {}]
    /\ readers = {} /\ connecting = FALSE
    /\ sent = [t \in Ports |-> 0]
    /\ spoke = [t \in Ports |-> {}]

At(t, label) == pc[t] = label
Goto(t, label) == pc' = [pc EXCEPT ![t] = label]

\* The device at port t calls process with a well-formed frame.
Process(t, src, dst) ==
    /\ At(t, "idle") /\ t \in Connected /\ sent[t] < MaxSent[t]
    /\ Goto(t, "learn")
    /\ sent' = [sent EXCEPT ![t] = @ + 1]
    /\ frame' = [frame EXCEPT ![t] =
                    [port |-> t, seq |-> sent[t] + 1, src |-> src, dst |-> dst]]
    /\ spoke' = [spoke EXCEPT ![t] = @ \cup {src}]
    /\ UNCHANGED <<nports, cache, queue, todo, readers, connecting>>

\* The same for a frame to an address no host has.  Such frames leave no trace
\* in a queue and come without bound.
ProcessAbsent(t, src) ==
    /\ At(t, "idle") /\ t \in Connected /\ <<t, src>> \in Chatty
    /\ Goto(t, "learn")
    /\ frame' = [frame EXCEPT ![t] =
                    [port |-> t, seq |-> 0, src |-> src, dst |-> Absent]]
    /\ spoke' = [spoke EXCEPT ![t] = @ \cup {src}]
    /\ UNCHANGED <<nports, cache, queue, todo, readers, connecting, sent>>

\* Fault: nothing is learned from broadcasts.
LearnUnicastOnly(t) ==
    /\ At(t, "learn")
    /\ Goto(t, IF frame[t].dst = Bcast \/ cache[frame[t].src] = t
               THEN "forward" ELSE "associate")
    /\ UNCHANGED <<nports, cache, queue, frame, todo, readers, connecting, sent,
                   spoke>>

\* get_port(frame.src), under the read lock of `cache`.
Learn(t) ==
    /\ At(t, "learn")
    /\ Goto(t, IF cache[frame[t].src] = t THEN "forward" ELSE "associate")
    /\ UNCHANGED <<nports, cache, queue, frame, todo, readers, connecting, sent,
                   spoke>>

\* associate_port, under the write lock of `cache`: another thread may have
\* changed the entry since get_port.
associate_port(t) ==
    /\ At(t, "associate")
    /\ Goto(t, "forward")
    /\ cache' = [cache EXCEPT ![frame[t].src] = t]
    /\ UNCHANGED <<nports, queue, frame, todo, readers, connecting, sent,
                   spoke>>

\* Fault: the originator is not left out.
FanoutAll(t) == Connected

\* A broadcast goes to all ports but the originator's.
Fanout(t) == Connected \ {t}

\* The read lock on `ports` is taken, for a broadcast ...
LockBroadcast(t) ==
    /\ At(t, "forward") /\ frame[t].dst = Bcast /\ ~connecting
    /\ readers' = readers \cup {t}
    /\ todo' = [todo EXCEPT ![t] = Fanout(t)]
    /\ Goto(t, "enqueue")
    /\ UNCHANGED <<nports, cache, queue, frame, connecting, sent, spoke>>

\* Fault: readers do not wait for a writer.
LockUnicastBarging(t) ==
    /\ At(t, "forward") /\ frame[t].dst # Bcast
    /\ readers' = readers \cup {t}
    /\ Goto(t, "lookup")
    /\ UNCHANGED <<nports, cache, queue, frame, todo, connecting, sent, spoke>>

\* ... or for any other frame, whose destination is then looked up.
LockUnicast(t) ==
    /\ At(t, "forward") /\ frame[t].dst # Bcast /\ ~connecting
    /\ readers' = readers \cup {t}
    /\ Goto(t, "lookup")
    /\ UNCHANGED <<nports, cache, queue, frame, todo, connecting, sent, spoke>>

get_port(m) == IF m \in DOMAIN cache THEN cache[m] ELSE None

\* get_port(frame.dst): an address without a port, or with a port that is not
\* connected, drops the frame.
Lookup(t) ==
    /\ At(t, "lookup")
    /\ Goto(t, "enqueue")
    /\ todo' = [todo EXCEPT ![t] = {get_port(frame[t].dst)} \cap Connected]
    /\ UNCHANGED <<nports, cache, queue, frame, readers, connecting, sent,
                   spoke>>

\* The next port, in the order of `ports`, gets the frame.
Enqueue(t) ==
    /\ At(t, "enqueue")
    /\ \E p \in todo[t] :
          /\ \A other \in todo[t] : p <= other
          /\ queue' = [queue EXCEPT ![p] = Append(@, frame[t])]
          /\ todo' = [todo EXCEPT ![t] = @ \ {p}]
    /\ UNCHANGED <<nports, cache, pc, frame, readers, connecting, sent, spoke>>

\* Fault: the lock is kept.
ReturnLocked(t) ==
    /\ At(t, "enqueue") /\ todo[t] = {}
    /\ Goto(t, "idle")
    /\ frame' = [frame EXCEPT ![t] = NoFrame]
    /\ UNCHANGED <<nports, cache, queue, todo, readers, connecting, sent, spoke>>

\* process returns and the lock is released.
Return(t) ==
    /\ At(t, "enqueue") /\ todo[t] = {}
    /\ Goto(t, "idle")
    /\ readers' = readers \ {t}
    /\ frame' = [frame EXCEPT ![t] = NoFrame]
    /\ UNCHANGED <<nports, cache, queue, todo, connecting, sent, spoke>>

Thread(t) == Learn(t) \/ associate_port(t) \/ LockBroadcast(t) \/ LockUnicast(t)
             \/ Lookup(t) \/ Enqueue(t) \/ Return(t)

\* connect: the main thread asks for the write lock on `ports` ...
ConnectBegin ==
    /\ ~connecting /\ nports < NumPorts
    /\ connecting' = TRUE
    /\ UNCHANGED <<nports, cache, queue, pc, frame, todo, readers, sent, spoke>>

\* Fault: the port is pushed without waiting for the readers.
ConnectUnlocked ==
    /\ connecting
    /\ nports' = nports + 1
    /\ connecting' = FALSE
    /\ UNCHANGED <<cache, queue, pc, frame, todo, readers, sent, spoke>>

\* ... and pushes the port when the readers are gone.
Connect ==
    /\ connecting /\ readers = {}
    /\ nports' = nports + 1
    /\ connecting' = FALSE
    /\ UNCHANGED <<cache, queue, pc, frame, todo, readers, sent, spoke>>

Next ==
    \/ \E t \in Ports : Thread(t)
    \/ \E t \in Ports, src \in Macs, dst \in Macs \cup {Bcast} : Process(t, src, dst)
    \/ \E t \in Ports, src \in Macs : ProcessAbsent(t, src)
    \/ ConnectBegin \/ Connect

Spec == Init /\ [][Next]_vars

\* Threads are scheduled, and the lock is granted when it is free; that a
\* device has something to send is not promised.
Fairness == WF_vars(Connect) /\ \A t \in Ports : WF_vars(Thread(t))

FairSpec == Spec /\ Fairness

-----------------------------------------------------------------------------
(* Properties *)

\* Every variable keeps its type.
TypeOK ==
    /\ nports \in 1..NumPorts
    /\ cache \in [Macs -> Ports \cup {None}]
    /\ queue \in [Ports -> Seq(Frames)]
    /\ pc \in [Ports -> {"idle", "learn", "associate", "forward", "lookup",
                         "enqueue"}]
    /\ frame \in [Ports -> Frames \cup {NoFrame}]
    /\ todo \in [Ports -> SUBSET Ports]
    /\ readers \subseteq Ports /\ connecting \in BOOLEAN
    /\ sent \in [Ports -> Nat]
    /\ spoke \in [Ports -> SUBSET Macs]

\* The locking discipline: the threads that hold the read lock are exactly
\* those handing out a frame, and the ports they still have to serve stay
\* connected while others connect.
LockHeldWhileForwarding ==
    \A t \in Ports :
        /\ t \in readers <=> pc[t] \in {"lookup", "enqueue"}
        /\ todo[t] \subseteq Connected
        /\ todo[t] # {} => pc[t] = "enqueue"

Received(p, f) == \E i \in 1..Len(queue[p]) : queue[p][i] = f

\* A broadcast reaches every port connected by the time process returns, save
\* the originator's, even when devices connect and other threads forward
\* meanwhile.
BroadcastComplete ==
    \A t \in Ports : pc[t] = "enqueue" /\ todo[t] = {} /\ frame[t].dst = Bcast =>
        \A p \in Connected \ {t} : Received(p, frame[t])

\* No port gets a frame twice, frames of one sender are not reordered, and no
\* broadcast returns to its originator.
FifoPerSender ==
    \A p \in Ports :
        /\ \A i, j \in 1..Len(queue[p]) :
              i < j /\ queue[p][i].port = queue[p][j].port
                  => queue[p][i].seq < queue[p][j].seq
        /\ \A i \in 1..Len(queue[p]) : queue[p][i].dst = Bcast => queue[p][i].port # p

\* A host is reachable once it was heard: when a frame of m was put through by
\* port p and no other port ever used m, m is associated with p, so that an
\* answer finds it whatever the other threads learn meanwhile.
HeardIsReachable ==
    \A m \in Macs, p \in Ports :
        /\ m \in spoke[p] /\ \A q \in Ports \ {p} : m \notin spoke[q]
        /\ pc[p] \in {"learn", "associate"} => frame[p].src # m
        => cache[m] = p

\* Strengthening: a thread inside process works on a frame of its own port, and
\* looks no broadcast up; a frame to Absent goes nowhere.
FrameOfPort ==
    \A t \in Ports : pc[t] # "idle" =>
        /\ frame[t] \in Frames /\ frame[t].port = t /\ frame[t].src \in spoke[t]
        /\ pc[t] = "lookup" => frame[t].dst # Bcast
        /\ frame[t].dst = Absent => todo[t] = {}

\* Strengthening of BroadcastComplete: in the middle of a broadcast the ports
\* that are not in `todo` any more have the frame.
BroadcastProgress ==
    \A t \in Ports : pc[t] = "enqueue" /\ frame[t].dst = Bcast =>
        \A p \in Connected : p # t /\ p \notin todo[t] => Received(p, frame[t])

\* Strengthening: a port is asked for only while the bound allows one more.
ConnectBounded == connecting => nports < NumPorts

IInv == /\ TypeOK /\ ConnectBounded /\ LockHeldWhileForwarding
        /\ FrameOfPort /\ BroadcastProgress /\ HeardIsReachable

\* Strengthening of FifoPerSender: a frame in a queue was sent, and before the
\* frame its sender works on when that one has still to reach the queue.
QueuedBefore ==
    \A p \in Ports : \A i \in 1..Len(queue[p]) :
        /\ queue[p][i].seq <= sent[queue[p][i].port]
        /\ \/ /\ pc[queue[p][i].port] \in {"learn", "associate", "forward", "lookup"}
              /\ frame[queue[p][i].port].dst # Absent
           \/ p \in todo[queue[p][i].port]
           => queue[p][i].seq < sent[queue[p][i].port]

\* Strengthening: a thread works on the last frame its port sent, and has not
\* its own port to serve with a broadcast.
WorksOnLast ==
    \A t \in Ports : pc[t] # "idle" =>
        /\ frame[t].dst # Absent => frame[t].seq = sent[t]
        /\ pc[t] = "enqueue" /\ frame[t].dst = Bcast => t \notin todo[t]

FifoInv == QueuedBefore /\ WorksOnLast /\ FifoPerSender

\* Every call of process returns: no order of readers and writers of the two
\* locks blocks a thread for ever.
ProcessReturns == \A t \in Ports : pc[t] # "idle" ~> pc[t] = "idle"

\* A device gets its port even when frames keep coming for ever: a waiting writer
\* holds back the readers that come after it.
ConnectReturns == connecting ~> ~connecting
=============================================================================
