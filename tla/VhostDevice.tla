----------------------------- MODULE VhostDevice -----------------------------
(***************************************************************************)
(* One vhost-user network device of the bridge: the thread of              *)
(* oathgate-vhost/src/device.rs with the virtqueues of queue.rs, and its   *)
(* three neighbours, which run concurrently with it:                       *)
(*   - the front end (the VM's hypervisor) writes control messages to the  *)
(*     stream, and waits for the answer of those that have one;            *)
(*   - the guest driver makes descriptor chains available and kicks;       *)
(*   - other threads of the bridge enqueue LAN packets through the switch  *)
(*     port (VirtioDeviceRxQueue::enqueue).                                *)
(*                                                                         *)
(* The thread sleeps in an edge-triggered poll.  `events` is the kernel's  *)
(* list of descriptors that became ready, in order; a poll takes the whole *)
(* list as a batch, and what becomes ready while the batch is worked off   *)
(* waits for the next poll.  LAN packets are numbered 1, 2, ... in the     *)
(* order of their arrival, descriptor chains in the order of their posting.*)
(***************************************************************************)
EXTENDS Integers, Sequences, FiniteSets

CONSTANTS Kinds,      \* control messages the front end sends in a run
          Vrings,     \* vrings it sets up
          RxBufs,     \* sizes of receive buffers: "ok" or "small"
          TxBufs,     \* what the guest transmits: "frame", "short", "alien"
          MaxLan,     \* bound: LAN packets for this device
          MaxRx,      \* bound: chains the guest posts on the receive queue
          MaxTx,      \* bound: chains the guest posts on the transmit queue
          QueueSize,  \* entries of a ring (SET_VRING_NUM)
          MaxStarts,  \* bound: how often a vring is started
          MaxStream,  \* bound: control messages in the stream
          MaxExtra,   \* bound: messages outside the start and stop of vrings
          Flags,      \* values of the enable flag, and of "descriptor attached"
          MayClose    \* whether the front end may hang up

ASSUME FlagsAssumption == Flags \subseteq Nat
ASSUME QueueSizeAssumption == QueueSize \in Nat \ {0}

RxQueue == 0
TxQueue == 1
Queues  == {RxQueue, TxQueue}   \* one receive/transmit pair (device_queues = 1)

ASSUME VringsAssumption == Vrings \subseteq Queues

TOKEN_STRM == 0
TOKEN_WAKE == 1

None == -1

KindsWithoutQueue == {"QUERY", "NOTE", "GET_CONFIG", "SET_OWNER",
                      "SET_BACKEND_REQ_FD", "SET_VRING_ERR", "SET_STATUS",
                      "SET_MEM_TABLE"}
VringKinds == {"SET_VRING_BASE", "SET_VRING_ADDR", "SET_VRING_KICK",
               "SET_VRING_CALL", "SET_VRING_ENABLE", "GET_VRING_BASE"}
Answered == {"QUERY", "GET_CONFIG", "GET_VRING_BASE"}

\* `num` is the payload of a vring message: the base index, the enable flag,
\* or, for the requests that carry file descriptors, whether they are attached.
Messages == [kind : KindsWithoutQueue \cup VringKinds, q : Queues, num : Nat]

VARIABLES
    \* the device thread
    pc,         \* "poll", "event", "rx", "tx" or "dead"
    batch,      \* tokens of the current batch still to be handled
    chains,     \* transmit chains collected and not yet processed
    death,      \* why the thread ended, "" while it runs
    \* VirtioDevice and VirtQueue
    mapped,     \* SET_MEM_TABLE was handled: mappings and queue memory exist
    addrs,      \* addrs[q]: ring addresses are set
    enabled, ready, call_fd, next_avail,
    kick_fd,    \* kick_fd[q]: token of the queue's kick descriptor, or None
    kick_fds,   \* queue of each kick token ever inserted; token = 1 + index
    channel, status,
    begun,      \* history: begun[q] is the base of the last SET_VRING_BASE and
                \* how many chains had been given back when it was handled
    \* kernel
    events,     \* descriptors that became ready since the last poll
    registered, \* kick tokens registered with the poll
    stream, closed,
    \* switch side
    pending,    \* LAN packets waiting for the guest
    lan,        \* number of LAN packets enqueued so far
    wakers,     \* threads between push_back and wake in enqueue
    \* guest
    posted,     \* posted[q]: the chains made available, in order
    used,       \* used[q]: chain numbers given back, in order
    unkicked,   \* unkicked[q]: a chain was posted and its kick is outstanding
    kicks,      \* kicks[q]: the kick eventfd's counter is not zero
    delivered,  \* LAN packets written to receive buffers
    sent,       \* chain numbers whose frame went to the switch
    \* front end
    phase,      \* phase[q]: "idle", "based", "addressed" or "running"
    base,       \* base[q]: next index for SET_VRING_BASE
    starts, awaiting, owned, extra

threadVars == <<pc, batch, chains, death>>
queueVars  == <<mapped, addrs, enabled, ready, call_fd, next_avail, kick_fd>>
devVars    == <<kick_fds, channel, status, begun>>
kernelVars == <<events, registered, stream, closed, kicks>>
lanVars    == <<pending, lan, wakers>>
guestVars  == <<posted, used, unkicked, delivered, sent>>
feVars     == <<phase, base, starts, extra, awaiting, owned>>
vars == <<threadVars, queueVars, devVars, kernelVars, lanVars, guestVars, feVars>>

\* VirtioDevice::new connects the switch port before the handshake; run()
\* registers the stream.
Init ==
    /\ pc = "poll" /\ batch = <<>> /\ chains = <<>> /\ death = ""
    /\ mapped = FALSE
    /\ addrs = [q \in Queues |-> FALSE]
    /\ enabled = [q \in Queues |-> FALSE]
    /\ ready = [q \in Queues |-> FALSE]
    /\ call_fd = [q \in Queues |-> FALSE]
    /\ next_avail = [q \in Queues |-> 0]
    /\ kick_fd = [q \in Queues |-> None]
    /\ kick_fds = <<>> /\ channel = FALSE /\ status = 0
    /\ begun = [q \in Queues |-> [base |-> 0, given |-> 0]]
    /\ events = <<>> /\ registered = {} /\ stream = <<>> /\ closed = FALSE
    /\ pending = <<>> /\ lan = 0 /\ wakers = 0
    /\ posted = [q \in Queues |-> <<>>]
    /\ used = [q \in Queues |-> <<>>]
    /\ unkicked = [q \in Queues |-> FALSE]
    /\ kicks = [q \in Queues |-> FALSE]
    /\ delivered = <<>> /\ sent = <<>>
    /\ phase = [q \in Queues |-> "idle"]
    /\ base = [q \in Queues |-> 0]
    /\ starts = [q \in Queues |-> 0]
    /\ extra = 0 /\ awaiting = FALSE /\ owned = FALSE

-----------------------------------------------------------------------------
(* The poll *)

\* Edge-triggered readiness: a token is listed once until the next poll.
Listed(list, token) == \E i \in 1..Len(list) : list[i] = token
Signal(list, token) == IF Listed(list, token) THEN list ELSE Append(list, token)

Upto(n) == [i \in 1..n |-> i]

\* The members of the list that are in the set, in order.
Keep(list, set) ==
    LET kept[i \in 0..Len(list)] ==
            IF i = 0 THEN <<>>
            ELSE IF list[i] \in set THEN Append(kept[i - 1], list[i])
            ELSE kept[i - 1]
    IN  kept[Len(list)]

\* The tokens given out so far.
Tokens == 0..(Len(kick_fds) + 1)

\* The kick tokens that report queue q.
KickTokens(q) == {t \in registered : kick_fds[t - 1] = q}

\* The kernel rechecks readiness when it reports an event: the waker's eventfd
\* is never read and stays readable.
StillReady(t) ==
    \/ t = TOKEN_STRM /\ (stream # <<>> \/ closed)
    \/ t = TOKEN_WAKE
    \/ t \in registered /\ kicks[kick_fds[t - 1]]

Poll ==
    /\ pc = "poll" /\ events # <<>>
    /\ batch' = Keep(events, {t \in Tokens : StillReady(t)})
    /\ events' = <<>>
    /\ pc' = IF batch' = <<>> THEN "poll" ELSE "event"
    /\ UNCHANGED <<chains, death, queueVars, devVars, registered, stream,
                   closed, kicks, lanVars, guestVars, feVars>>

\* The event at the head of the batch is done.
EventDone ==
    /\ batch' = Tail(batch)
    /\ pc' = IF Tail(batch) = <<>> THEN "poll" ELSE "event"

\* An error returned through run(): the thread ends, its switch port stays.
Die(cause) ==
    /\ pc' = "dead" /\ death' = cause
    /\ batch' = <<>>

-----------------------------------------------------------------------------
(* The control stream *)

\* The thread is in the read loop of a stream event.
AtStream == pc = "event" /\ Head(batch) = TOKEN_STRM

\* EWOULDBLOCK ends the read loop.
StreamDrained ==
    /\ AtStream /\ stream = <<>> /\ ~closed
    /\ EventDone
    /\ UNCHANGED <<chains, death, queueVars, devVars, kernelVars, lanVars,
                   guestVars, feVars>>

StreamClosed ==
    /\ AtStream /\ stream = <<>> /\ closed
    /\ Die("Disconnected")
    /\ UNCHANGED <<chains, queueVars, devVars, kernelVars, lanVars,
                   guestVars, feVars>>

\* read_stream takes a whole message off the stream and hands it to parse_msg.
ReadMsg(kind) ==
    /\ AtStream /\ stream # <<>> /\ Head(stream).kind = kind
    /\ stream' = Tail(stream)

\* Fault: one message is read for each event.
ReadOkOnce(kind) ==
    /\ ReadMsg(kind)
    /\ EventDone
    /\ UNCHANGED <<chains, death, closed, kicks, lanVars, guestVars>>

\* A message that is handled without an error: the read loop goes on.
ReadOk(kind) ==
    /\ ReadMsg(kind)
    /\ UNCHANGED <<pc, batch, chains, death, closed, kicks, lanVars, guestVars>>

ReadErr(kind, cause) ==
    /\ ReadMsg(kind)
    /\ Die(cause)
    /\ UNCHANGED <<chains, closed, kicks, events, registered, queueVars,
                   devVars, lanVars, guestVars, feVars>>

\* GET_FEATURES, GET_PROTOCOL_FEATURES, GET_QUEUE_NUM, GET_MAX_MEM_SLOTS and
\* GET_STATUS: answered, nothing changes.  send_response fails when the front
\* end has hung up.
Query ==
    \/ /\ ReadOk("QUERY") /\ ~closed
       /\ awaiting' = FALSE
       /\ UNCHANGED <<queueVars, devVars, events, registered, phase, base, starts,
                      extra, owned>>
    \/ /\ ReadErr("QUERY", "Disconnected")
       /\ closed

\* SET_FEATURES, SET_PROTOCOL_FEATURES, SET_VRING_NUM, ADD_MEM_REG, SET_CONFIG
\* and unknown requests: nothing depends on what they store but the ring size,
\* which the bounds on posted chains stand for.
Note ==
    /\ ReadOk("NOTE")
    /\ UNCHANGED <<queueVars, devVars, events, registered, feVars>>

\* GET_CONFIG is logged and not answered.
GetConfig ==
    /\ ReadOk("GET_CONFIG")
    /\ UNCHANGED <<queueVars, devVars, events, registered, feVars>>

\* SET_OWNER reports a configuration change when there is a back-end channel.
SetOwner ==
    \/ /\ ReadOk("SET_OWNER") /\ ~(channel /\ closed)
       /\ owned' = channel
       /\ UNCHANGED <<queueVars, devVars, events, registered, phase, base, starts,
                      extra, awaiting>>
    \/ /\ ReadErr("SET_OWNER", "Disconnected")
       /\ channel /\ closed

\* extract_fd (extract_fds for the memory table) fails on a message without
\* descriptors, which ends the thread.
HasFd == Head(stream).num = 1
MissingFd(kind) == ReadErr(kind, "MissingControlData") /\ ~HasFd

SetBackendReqFd ==
    \/ /\ ReadOk("SET_BACKEND_REQ_FD") /\ HasFd
       /\ channel' = TRUE
       /\ UNCHANGED <<queueVars, kick_fds, status, begun, events, registered, feVars>>
    \/ MissingFd("SET_BACKEND_REQ_FD")

\* The error descriptor is stored and never used.
SetVringErr ==
    \/ /\ ReadOk("SET_VRING_ERR") /\ HasFd
       /\ UNCHANGED <<queueVars, devVars, events, registered, feVars>>
    \/ MissingFd("SET_VRING_ERR")

SetStatus ==
    /\ ReadOk("SET_STATUS")
    /\ status' = Head(stream).num
    /\ UNCHANGED <<queueVars, kick_fds, channel, begun, events, registered, feVars>>

\* SET_MEM_TABLE maps the regions and gives the memory to every queue.  It fails
\* when the descriptors do not match the regions, or one cannot be mapped.
SetMemTable ==
    \/ /\ ReadOk("SET_MEM_TABLE") /\ HasFd
       /\ mapped' = TRUE
       /\ UNCHANGED <<addrs, enabled, ready, call_fd, next_avail, kick_fd,
                      devVars, events, registered, feVars>>
    \/ MissingFd("SET_MEM_TABLE")
    \/ /\ ReadErr("SET_MEM_TABLE", "MemoryError")
       /\ HasFd

SetVringBase ==
    LET m == Head(stream) IN
    /\ ReadOk("SET_VRING_BASE")
    /\ next_avail' = [next_avail EXCEPT ![m.q] = m.num]
    /\ begun' = [begun EXCEPT ![m.q] = [base |-> m.num, given |-> Len(used[m.q])]]
    /\ UNCHANGED <<mapped, addrs, enabled, ready, call_fd, kick_fd, kick_fds,
                   channel, status, events, registered, feVars>>

SetVringAddr ==
    \/ /\ mapped
       /\ ReadOk("SET_VRING_ADDR")
       /\ addrs' = [addrs EXCEPT ![Head(stream).q] = TRUE]
       /\ UNCHANGED <<mapped, enabled, ready, call_fd, next_avail, kick_fd,
                      devVars, events, registered, feVars>>
    \/ /\ ~mapped
       /\ ReadErr("SET_VRING_ADDR", "NoMappedMemory")

\* Fault: the kick descriptor is stored but not registered with the poll.
SetVringKickUnregistered ==
    LET q == Head(stream).q
        token == Len(kick_fds) + 2 IN
    /\ ReadOk("SET_VRING_KICK")
    /\ kick_fd' = [kick_fd EXCEPT ![q] = token]
    /\ ready' = [ready EXCEPT ![q] = TRUE]
    /\ kick_fds' = Append(kick_fds, q)
    /\ UNCHANGED <<mapped, addrs, enabled, call_fd, next_avail, channel, status,
                   begun, events, registered, feVars>>

\* SET_VRING_KICK starts the vring; an eventfd that was kicked before it was
\* registered is reported by the next poll.
SetVringKick ==
    LET q == Head(stream).q
        token == Len(kick_fds) + 2 IN
    \/ /\ ReadOk("SET_VRING_KICK") /\ HasFd
       /\ kick_fd' = [kick_fd EXCEPT ![q] = token]
       /\ ready' = [ready EXCEPT ![q] = TRUE]
       /\ kick_fds' = Append(kick_fds, q)
       /\ registered' = registered \cup {token}
       /\ events' = IF kicks[q] THEN Signal(events, token) ELSE events
       /\ UNCHANGED <<mapped, addrs, enabled, call_fd, next_avail, channel,
                      status, begun, feVars>>
    \/ MissingFd("SET_VRING_KICK")

SetVringCall ==
    \/ /\ ReadOk("SET_VRING_CALL") /\ HasFd
       /\ call_fd' = [call_fd EXCEPT ![Head(stream).q] = TRUE]
       /\ UNCHANGED <<mapped, addrs, enabled, ready, next_avail, kick_fd,
                      devVars, events, registered, feVars>>
    \/ MissingFd("SET_VRING_CALL")

\* SET_VRING_ENABLE enables, whatever the flag says.
SetVringEnable ==
    LET m == Head(stream) IN
    /\ ReadOk("SET_VRING_ENABLE")
    /\ enabled' = [enabled EXCEPT ![m.q] = TRUE]
    /\ UNCHANGED <<mapped, addrs, ready, call_fd, next_avail, kick_fd, devVars,
                   events, registered, phase, base, starts, extra, awaiting,
                   owned>>

\* VRingDescriptor::as_vec leaves the second word zero.
as_vec(index, avail) == [index |-> index, avail |-> 0]

\* Fault: the stopped vring's kick descriptor stays registered.
GetVringBaseRegistered ==
    LET q == Head(stream).q IN
    /\ ReadOk("GET_VRING_BASE")
    /\ ready' = [ready EXCEPT ![q] = FALSE]
    /\ kick_fd' = [kick_fd EXCEPT ![q] = None]
    /\ call_fd' = [call_fd EXCEPT ![q] = FALSE]
    /\ base' = [base EXCEPT ![q] = as_vec(q, next_avail[q]).avail]
    /\ phase' = [phase EXCEPT ![q] = "idle"]
    /\ awaiting' = FALSE
    /\ UNCHANGED <<mapped, addrs, enabled, next_avail, devVars, events,
                   registered, starts, extra, owned>>

\* GET_VRING_BASE stops the vring, takes its descriptors, deregisters the kick
\* descriptor (its entry in kick_fds stays) and answers with the next index.
GetVringBase ==
    LET q == Head(stream).q
        gone == kick_fd[q] IN
    \/ /\ ReadOk("GET_VRING_BASE") /\ ~closed
       /\ ready' = [ready EXCEPT ![q] = FALSE]
       /\ kick_fd' = [kick_fd EXCEPT ![q] = None]
       /\ call_fd' = [call_fd EXCEPT ![q] = FALSE]
       /\ registered' = registered \ {gone}
       /\ events' = Keep(events, Tokens \ {gone})
       /\ base' = [base EXCEPT ![q] = as_vec(q, next_avail[q]).avail]
       /\ phase' = [phase EXCEPT ![q] = "idle"]
       /\ awaiting' = FALSE
       /\ UNCHANGED <<mapped, addrs, enabled, next_avail, devVars, starts, extra,
                      owned>>
    \/ /\ ReadErr("GET_VRING_BASE", "Disconnected")
       /\ closed

parse_msg ==
    \/ Query \/ Note \/ GetConfig \/ SetOwner \/ SetBackendReqFd \/ SetStatus
    \/ SetVringErr \/ SetMemTable \/ SetVringBase \/ SetVringAddr \/ SetVringKick
    \/ SetVringCall \/ SetVringEnable \/ GetVringBase

-----------------------------------------------------------------------------
(* The virtqueues *)

\* Queue::iter and pop_descriptor_chain (virtio-queue): chains next_avail + 1
\* up to the driver's index are there to be taken, if the queue is ready and
\* they are not more than the ring has entries.
Ahead(q) == Len(posted[q]) - next_avail[q]
ChainAvailable(q) == ready[q] /\ Ahead(q) \in 1..QueueSize

\* call: notify the driver at the end of a burst; an error when the queue is
\* not enabled.
call(q) ==
    \/ enabled[q] /\ EventDone /\ UNCHANGED death
    \/ ~enabled[q] /\ Die("QueueDisabled")

\* handle_rx_queued takes the lock on `pending` and keeps it in "rx".
handle_rx_queued ==
    \/ /\ pending = <<>>
       /\ EventDone
       /\ UNCHANGED death
    \/ /\ pending # <<>> /\ ~mapped
       /\ Die("NoMappedMemory")
    \/ /\ pending # <<>> /\ mapped
       /\ pc' = "rx"
       /\ UNCHANGED <<batch, death>>

\* TOKEN_WAKE: the first receive queue drains the packets.
HandleWake ==
    /\ pc = "event" /\ Head(batch) = TOKEN_WAKE
    /\ handle_rx_queued
    /\ UNCHANGED <<chains, queueVars, devVars, kernelVars, lanVars, guestVars,
                   feVars>>

\* The event is the kick of queue q; reading the eventfd clears its counter.
ReadKick(q) ==
    /\ pc = "event" /\ Head(batch) > TOKEN_WAKE
    /\ kick_fds[Head(batch) - 1] = q
    /\ kicks' = [kicks EXCEPT ![q] = FALSE]
    /\ UNCHANGED <<events, registered, stream, closed>>

\* read(2) fails on an eventfd whose counter is zero.
kick_rx ==
    /\ ReadKick(RxQueue)
    /\ IF kicks[RxQueue] THEN handle_rx_queued
                         ELSE Die("EAGAIN")
    /\ UNCHANGED <<chains, queueVars, devVars, lanVars, guestVars, feVars>>

\* Fault: the packet is taken off the queue only when the burst ends.
RxOneKeepsPacket ==
    /\ pc = "rx" /\ pending # <<>> /\ ChainAvailable(RxQueue)
    /\ LET n == next_avail[RxQueue] + 1 IN
       /\ next_avail' = [next_avail EXCEPT ![RxQueue] = n]
       /\ delivered' = Append(delivered, Head(pending))
       /\ used' = [used EXCEPT ![RxQueue] = Append(@, n)]
    /\ UNCHANGED <<threadVars, mapped, addrs, enabled, ready, call_fd, kick_fd,
                   devVars, kernelVars, lanVars, posted, unkicked, sent, feVars>>

\* One packet is written to one chain.  A buffer that is too small ends the
\* thread with the packet taken and the chain not given back.
RxOne ==
    /\ pc = "rx" /\ pending # <<>> /\ ChainAvailable(RxQueue)
    /\ pending' = Tail(pending)
    /\ LET n == next_avail[RxQueue] + 1 IN
       /\ next_avail' = [next_avail EXCEPT ![RxQueue] = n]
       /\ \/ /\ posted[RxQueue][n] = "ok"
             /\ delivered' = Append(delivered, Head(pending))
             /\ used' = [used EXCEPT ![RxQueue] = Append(@, n)]
             /\ UNCHANGED <<pc, batch, death>>
          \/ /\ posted[RxQueue][n] = "small"
             /\ Die("WriteZero")
             /\ UNCHANGED <<delivered, used>>
    /\ UNCHANGED <<chains, mapped, addrs, enabled, ready, call_fd, kick_fd,
                   devVars, kernelVars, lan, wakers, posted, unkicked, sent, feVars>>

\* Packets or chains have run out: release the lock and notify.
RxDone ==
    /\ pc = "rx" /\ (pending = <<>> \/ ~ChainAvailable(RxQueue))
    /\ call(RxQueue)
    /\ UNCHANGED <<chains, queueVars, devVars, kernelVars, lanVars,
                   guestVars, feVars>>

\* Why kick_tx fails before it takes a chain, or "": nothing to read, no memory
\* table yet, a stopped queue, a driver's index too far ahead (Queue::iter).
TxFailure ==
    IF ~kicks[TxQueue] THEN "EAGAIN"
    ELSE IF ~mapped THEN "NoMappedMemory"
    ELSE IF ~ready[TxQueue] THEN "QueueNotReady"
    ELSE IF Ahead(TxQueue) \notin 0..QueueSize THEN "InvalidAvailRingIndex"
    ELSE ""

\* kick_tx collects every available chain, advancing next_avail past them.
kick_tx ==
    /\ ReadKick(TxQueue)
    /\ \/ /\ TxFailure # ""
          /\ Die(TxFailure)
          /\ UNCHANGED <<chains, next_avail>>
       \/ /\ TxFailure = ""
          /\ chains' = [i \in 1..Ahead(TxQueue) |-> next_avail[TxQueue] + i]
          /\ next_avail' = [next_avail EXCEPT ![TxQueue] = Len(posted[TxQueue])]
          /\ pc' = "tx"
          /\ UNCHANGED <<batch, death>>
    /\ UNCHANGED <<mapped, addrs, enabled, ready, call_fd, kick_fd, devVars,
                   lanVars, guestVars, feVars>>

\* Fault: a chain without a frame is skipped, and the burst goes on.
TxOneSkips ==
    /\ pc = "tx" /\ chains # <<>>
    /\ LET n == Head(chains)
           frame == posted[TxQueue][n] = "frame" IN
       /\ sent' = IF frame THEN Append(sent, n) ELSE sent
       /\ used' = IF frame THEN [used EXCEPT ![TxQueue] = Append(@, n)] ELSE used
    /\ chains' = Tail(chains)
    /\ UNCHANGED <<pc, batch, death, queueVars, devVars, kernelVars, lanVars,
                   posted, unkicked, delivered, feVars>>

\* One frame goes to the switch and its chain back to the driver.  A chain
\* shorter than the virtio header is an error; a frame the switch refuses
\* (an ethertype it does not know) is unwrapped, which ends the thread.
TxOne ==
    /\ pc = "tx" /\ chains # <<>>
    /\ chains' = Tail(chains)
    /\ LET n == Head(chains) IN
       \/ /\ posted[TxQueue][n] = "frame"
          /\ sent' = Append(sent, n)
          /\ used' = [used EXCEPT ![TxQueue] = Append(@, n)]
          /\ UNCHANGED <<pc, batch, death>>
       \/ /\ posted[TxQueue][n] = "short"
          /\ Die("NotEnoughData")
          /\ UNCHANGED <<sent, used>>
       \/ /\ posted[TxQueue][n] = "alien"
          /\ Die("Panic")
          /\ UNCHANGED <<sent, used>>
    /\ UNCHANGED <<queueVars, devVars, kernelVars, lanVars, posted, unkicked,
                   delivered, feVars>>

TxDone ==
    /\ pc = "tx" /\ chains = <<>>
    /\ call(TxQueue)
    /\ UNCHANGED <<chains, queueVars, devVars, kernelVars, lanVars,
                   guestVars, feVars>>

Device ==
    \/ Poll \/ StreamDrained \/ StreamClosed \/ parse_msg
    \/ HandleWake \/ kick_rx \/ RxOne \/ RxDone \/ kick_tx \/ TxOne \/ TxDone

-----------------------------------------------------------------------------
(* The other threads: enqueue pushes under the lock, then wakes the device *)

Push ==
    /\ lan < MaxLan /\ pc # "rx"
    /\ lan' = lan + 1
    /\ pending' = Append(pending, lan + 1)
    /\ wakers' = wakers + 1
    /\ UNCHANGED <<threadVars, queueVars, devVars, kernelVars, guestVars, feVars>>

\* Fault: the waker is only used when the device was idle.
WakeIfIdle ==
    /\ wakers > 0
    /\ wakers' = wakers - 1
    /\ events' = IF batch = <<>> THEN Signal(events, TOKEN_WAKE) ELSE events
    /\ UNCHANGED <<threadVars, queueVars, devVars, registered, stream, closed,
                   kicks, pending, lan, guestVars, feVars>>

Wake ==
    /\ wakers > 0
    /\ wakers' = wakers - 1
    /\ events' = Signal(events, TOKEN_WAKE)
    /\ UNCHANGED <<threadVars, queueVars, devVars, registered, stream, closed,
                   kicks, pending, lan, guestVars, feVars>>

-----------------------------------------------------------------------------
(* The guest driver (external) *)

\* The ring has an entry for every chain that the driver has not got back.
Outstanding(q) == {n \in 1..Len(posted[q]) : ~Listed(used[q], n)}

Post(q, buf) ==
    /\ Len(posted[q]) < IF q = RxQueue THEN MaxRx ELSE MaxTx
    /\ Cardinality(Outstanding(q)) < QueueSize
    /\ posted' = [posted EXCEPT ![q] = Append(@, buf)]
    /\ unkicked' = [unkicked EXCEPT ![q] = TRUE]
    /\ UNCHANGED <<threadVars, queueVars, devVars, kernelVars, lanVars, used,
                   delivered, sent, feVars>>

Kick(q) ==
    /\ unkicked[q]
    /\ unkicked' = [unkicked EXCEPT ![q] = FALSE]
    /\ kicks' = [kicks EXCEPT ![q] = TRUE]
    /\ events' = events \o Keep(Upto(Len(kick_fds) + 1),
                              {t \in KickTokens(q) : ~Listed(events, t)})
    /\ UNCHANGED <<threadVars, queueVars, devVars, registered, stream, closed,
                   lanVars, posted, used, delivered, sent, feVars>>

Guest ==
    \/ \E buf \in RxBufs : Post(RxQueue, buf)
    \/ \E buf \in TxBufs : Post(TxQueue, buf)
    \/ \E q \in Queues : Kick(q)

-----------------------------------------------------------------------------
(* The front end (external): it sets a vring's base, then its addresses, then *)
(* starts it; it may send anything else at any time, and waits for answers.   *)
(* A thread that ends drops its end of the stream, so sending stops with it.  *)

SendMsg(kind, q, num) ==
    /\ kind \in Kinds /\ ~closed /\ ~awaiting /\ death = ""
    /\ Len(stream) < MaxStream
    /\ stream' = Append(stream, [kind |-> kind, q |-> q, num |-> num])
    /\ events' = Signal(events, TOKEN_STRM)
    /\ awaiting' = (kind \in Answered)
    /\ UNCHANGED <<threadVars, queueVars, devVars, registered, closed, kicks,
                   lanVars, guestVars, base, owned>>

NextPhase(q, from, to) ==
    /\ phase[q] = from
    /\ phase' = [phase EXCEPT ![q] = to]

\* The messages that no start or stop calls for are counted.
Extra ==
    /\ extra < MaxExtra
    /\ extra' = extra + 1

SendPlain == \E kind \in KindsWithoutQueue, num \in Flags :
    /\ Extra
    /\ SendMsg(kind, RxQueue, num)
    /\ UNCHANGED <<phase, starts>>

SendBase(q) ==
    /\ starts[q] < MaxStarts
    /\ NextPhase(q, "idle", "based")
    /\ SendMsg("SET_VRING_BASE", q, base[q])
    /\ UNCHANGED <<starts, extra>>

SendAddr(q) ==
    /\ NextPhase(q, "based", "addressed")
    /\ SendMsg("SET_VRING_ADDR", q, 0)
    /\ UNCHANGED <<starts, extra>>

SendKick(q) ==
    /\ NextPhase(q, "addressed", "running")
    /\ starts' = [starts EXCEPT ![q] = @ + 1]
    /\ \E num \in Flags : SendMsg("SET_VRING_KICK", q, num)
    /\ UNCHANGED extra

SendCallOrEnable(q) ==
    /\ Extra
    /\ \E num \in Flags : \/ SendMsg("SET_VRING_CALL", q, num)
                           \/ SendMsg("SET_VRING_ENABLE", q, num)
    /\ UNCHANGED <<phase, starts>>

SendStop(q) ==
    /\ phase[q] = "running"
    /\ SendMsg("GET_VRING_BASE", q, 0)
    /\ UNCHANGED <<phase, starts, extra>>

Close ==
    /\ MayClose /\ ~closed /\ death = ""
    /\ closed' = TRUE
    /\ events' = Signal(events, TOKEN_STRM)
    /\ UNCHANGED <<threadVars, queueVars, devVars, registered, stream, kicks,
                   lanVars, guestVars, feVars>>

FrontEnd ==
    \/ SendPlain \/ Close
    \/ \E q \in Vrings : SendBase(q) \/ SendAddr(q) \/ SendKick(q)
                         \/ SendCallOrEnable(q) \/ SendStop(q)

-----------------------------------------------------------------------------
Next == Device \/ Push \/ Wake \/ Guest \/ FrontEnd

Spec == Init /\ [][Next]_vars

\* The scheduler runs the device thread, a thread that is inside enqueue gets
\* to its wake call, and a driver kicks what it has posted.  Packets, messages
\* and new descriptors are not owed.
Fairness == /\ WF_vars(Device)
            /\ WF_vars(Wake)
            /\ \A q \in Queues : WF_vars(Kick(q))

FairSpec == Spec /\ Fairness

-----------------------------------------------------------------------------
(* Properties *)

\* handle_rx_queued against concurrent enqueues: the packets written to the
\* guest and those still pending are exactly the packets enqueued, in order;
\* only a packet that does not fit its buffer is lost, and it ends the thread.
RxInOrder ==
    IF death = "WriteZero"
    THEN /\ delivered = Upto(Len(delivered))
         /\ pending = [i \in 1..(lan - Len(delivered) - 1) |-> Len(delivered) + 1 + i]
    ELSE delivered \o pending = Upto(lan)

\* The chains the device took, in order: given back, the one it failed on, and
\* the rest of the burst being transmitted or cut short by the failure.
Failed(q) ==
    IF q = TxQueue /\ death \in {"NotEnoughData", "Panic"}
    THEN <<next_avail[q] - Len(chains)>>
    ELSE IF q = RxQueue /\ death = "WriteZero" THEN <<next_avail[q]>>
    ELSE <<>>
InHand(q) == Failed(q) \o (IF q = TxQueue THEN chains ELSE <<>>)
Taken(q)  == used[q] \o InHand(q)

\* From each start of a vring on the device takes the chains that follow its base,
\* each once and in order, and only chains the driver has posted; all of them
\* are given back but those of the burst in work and, when a bad chain ends the
\* thread, that chain and those behind it.  What is given back on the transmit
\* queue is what the switch received.
ChainsAccounted ==
    /\ \A q \in Queues :
         /\ SubSeq(Taken(q), begun[q].given + 1, Len(Taken(q))) =
                [i \in 1..(next_avail[q] - begun[q].base) |-> begun[q].base + i]
         /\ \A i \in 1..Len(Taken(q)) : Taken(q)[i] \in 1..Len(posted[q])
    /\ sent = used[TxQueue]

\* SET_VRING_KICK and GET_VRING_BASE keep the poll in step with the queues:
\* a queue is ready exactly while its own kick descriptor is registered, and
\* no other kick descriptor is.
RegisteredIffReady ==
    death = "" =>
        /\ \A q \in Queues : ready[q] <=> kick_fd[q] \in registered
        /\ registered \subseteq {kick_fd[q] : q \in Queues}

\* A kick that poll reported is still there to be read when its turn in the
\* batch comes, restarts of the queue in between included: the read of the
\* eventfd never fails and ends the thread.
KickReadable == death # "EAGAIN"

\* No wake-up is lost: a packet does not wait for ever while the started
\* receive queue has a free chain, whatever the order of push, wake, drain,
\* kick and the start of the queue.
PacketsDrain ==
    LET Stuck == pending # <<>> /\ ChainAvailable(RxQueue) /\ death = ""
    IN  Stuck ~> ~Stuck

\* The stream is edge-triggered too: a message of the front end that arrives with
\* others, or while the thread is busy, does not stay unread.
MessagesRead ==
    LET Stuck == stream # <<>> /\ death = ""
    IN  Stuck ~> ~Stuck

\* Every chain the guest posts on the started transmit queue is taken, stops and
\* restarts of the queue between the posting and the kick included.  (A start
\* makes the chains given back before it available again, with no kick to come.)
ChainsTaken ==
    LET Fresh == ~Listed(used[TxQueue], Len(posted[TxQueue]))
        Stuck == ChainAvailable(TxQueue) /\ Fresh /\ death = ""
    IN  Stuck ~> ~Stuck

-----------------------------------------------------------------------------
(* The inductive invariants behind them. *)

\* Types of what the control stream and the poll work on.
StreamTypes ==
    /\ stream \in Seq(Messages) /\ awaiting \in BOOLEAN
    /\ phase \in [Queues -> {"idle", "based", "addressed", "running"}]
    /\ base \in [Queues -> Nat] /\ starts \in [Queues -> Nat]
    /\ ready \in [Queues -> BOOLEAN] /\ kick_fd \in [Queues -> Int]
    /\ kick_fds \in Seq(Queues)

PollTypes ==
    /\ pc \in {"poll", "event", "rx", "tx", "dead"}
    /\ batch \in Seq(Nat) /\ events \in Seq(Nat) /\ kicks \in [Queues -> BOOLEAN]

\* The thread has a cause of death exactly when it has ended.
DeadForACause == death # "" <=> pc = "dead"

\* Strengthening of RxInOrder, packet by packet: one that did not fit is lost.
Lost == IF death = "WriteZero" THEN 1 ELSE 0
PacketsNumbered ==
    /\ lan \in Nat /\ delivered \in Seq(Nat) /\ pending \in Seq(Nat)
    /\ Len(delivered) + Lost + Len(pending) = lan
    /\ \A i \in 1..Len(delivered) : delivered[i] = i
    /\ \A i \in 1..Len(pending) : pending[i] = Len(delivered) + Lost + i

IsKick(i) == stream[i].kind = "SET_VRING_KICK"
IsBase(i) == stream[i].kind = "SET_VRING_BASE"

\* Nothing follows a request that the front end waits for.
AnswersAwaited ==
    \A i \in 1..Len(stream) :
        stream[i].kind \in Answered => i = Len(stream) /\ awaiting = TRUE

\* A vring that is ready, or about to be, is one the front end has started and
\* not stopped; it is started once.
StartsOnce ==
    /\ \A q \in Queues : ready[q] = TRUE => phase[q] = "running"
    /\ \A i \in 1..Len(stream) : IsKick(i) =>
         phase[stream[i].q] = "running" /\ ready[stream[i].q] = FALSE
    /\ \A i, j \in 1..Len(stream) :
         IsKick(i) /\ IsKick(j) /\ stream[i].q = stream[j].q => i = j

\* Strengthening of RegisteredIffReady: a token belongs to its queue.
TokensOwned ==
    /\ \A q \in Queues :
         \/ ready[q] = FALSE /\ kick_fd[q] = None
         \/ /\ ready[q] = TRUE /\ kick_fd[q] \in 2..(Len(kick_fds) + 1)
            /\ kick_fds[kick_fd[q] - 1] = q
    /\ registered = {kick_fd[q] : q \in Queues} \ {None}

Distinct(list) == \A i, j \in 1..Len(list) : list[i] = list[j] => i = j

\* Strengthening of KickReadable: the kicks in the batch that are still to be
\* read are of different queues and have their eventfd set.  In "rx" and "tx"
\* the first event of the batch has been read.
ToRead(i) == batch[i] > TOKEN_WAKE /\ (i = 1 => pc = "event")
BatchReadable ==
    /\ pc \in {"event", "rx", "tx"} => batch # <<>>
    /\ \A i \in 1..Len(batch) : batch[i] <= Len(kick_fds) + 1
    /\ \A i \in 1..Len(batch) : ToRead(i) => kicks[kick_fds[batch[i] - 1]] = TRUE
    /\ \A i, j \in 1..Len(batch) :
         /\ batch[i] > TOKEN_WAKE /\ batch[j] > TOKEN_WAKE
         /\ kick_fds[batch[i] - 1] = kick_fds[batch[j] - 1]
         => i = j

KicksPending == KickReadable /\ Distinct(events) /\ BatchReadable

StreamInv == StreamTypes /\ AnswersAwaited /\ StartsOnce /\ TokensOwned

IInv == PacketsNumbered /\ DeadForACause /\ StreamInv /\ PollTypes /\ KicksPending

\* Strengthening of ChainsAccounted, chain by chain.
Held(q) ==
    IF q = TxQueue
    THEN IF death \in {"NotEnoughData", "Panic"} THEN 1 + Len(chains) ELSE Len(chains)
    ELSE IF death = "WriteZero" THEN 1 ELSE 0
ChainTypes ==
    /\ next_avail \in [Queues -> Nat] /\ used \in [Queues -> Seq(Nat)]
    /\ posted \in [Queues -> Seq(RxBufs \cup TxBufs)]
    /\ begun \in [Queues -> [base : Nat, given : Nat]]
    /\ chains \in Seq(Nat) /\ sent \in Seq(Nat)

\* Chains u were given back, the first `given` of them before the base was set;
\* `held` are taken and not given back, `next` is the index and `last` the
\* driver's.
Account(u, base0, given, held, next, last) ==
    /\ given <= Len(u) /\ Len(u) + held - given = next - base0
    /\ \A i \in 1..Len(u) : u[i] \in 1..last /\ (i > given => u[i] = base0 + i - given)
    /\ held > 0 => next <= last

ChainsOf(q) ==
    Account(used[q], begun[q].base, begun[q].given, Held(q), next_avail[q],
            Len(posted[q]))
ChainsNumbered ==
    /\ ChainTypes
    /\ pc \notin {"tx", "dead"} => chains = <<>>
    /\ \A q \in Queues : ChainsOf(q)
    /\ \A i \in 1..Len(chains) : chains[i] = next_avail[TxQueue] - Len(chains) + i
    /\ sent = used[TxQueue]
=============================================================================
