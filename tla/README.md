# A TLA+ model of oathgate

oathgate runs small virtual networks on one host. A *bridge* process offers a
vhost-user socket; each virtual machine (*shard*) connects its network card to
it. Inside the bridge a layer 2 switch joins the devices with a layer 3 router,
which answers ARP, ICMP and DHCP itself and forwards the rest to a WAN link. A
command line tool keeps kernels, images, bridges and shards in an SQLite
database and starts and stops their processes; a small daemon, fabrial, runs in
the guests.

The modules here model the bridge's data path and the protocols around it (the
places where threads, kernel events, a hypervisor and a guest meet), the links
to the outside, the commands that start and stop daemons side by side, the store
of kernels and images, and a terminal session with a guest. TLC checks them on
small instances; TLAPS proves every safety property the runs check (of the vhost
device, the translation of guest addresses, the switch, the router, the DHCP server
and its pool, the WAN links both ways, the commands and daemons of a host, the store
and the terminal session), for every number of packets, restarts, clients,
addresses, ports, frames, regions, hosts, commands, processes, files and keys.
Liveness is left to TLC.

## Inventory

| Part | State | Operations | Talks to |
|---|---|---|---|
| vhost device thread (`oathgate-vhost/src/device.rs`) | poll registry, mappings, virtqueues, `kick_fds`, back-end channel, status | `run` (poll, events), `read_stream`, `parse_msg` (22 requests), `send_response` | control stream of the hypervisor, eventfds of the guest, switch |
| virtqueues (`oathgate-vhost/src/queue.rs`) | ring addresses, `next_avail`, enabled, ready, kick/call descriptors | `kick_rx`, `kick_tx`, `handle_rx_queued`, `call` | guest memory, switch |
| guest memory (`device.rs`, `types.rs`) | `GuestMapping`s, `GuestMemoryMmap` | SET_MEM_TABLE, SET_VRING_ADDR, `guest_addr` | virtqueues |
| vhost socket (`oathgate-vhost/src/vhost.rs`) | listener, waker | `run`, `accept_and_spawn` | device threads, bridge |
| switch (`oathgate-bridge/src/net/switch.rs`) | `ports`, `cache` (MAC to port), each behind an `RwLock` | `connect`, `process` | every device thread, router thread |
| router (`oathgate-bridge/src/net/router.rs`) | ARP cache, handlers, WAN handle | `route`, `handle_action`, `handle_arp`, `route_ip4`, `write_to_switch`, `forward_packet` | switch, WAN thread, handlers |
| DHCP server (`net/dhcp.rs`, `router/handler/udp.rs`) | `available`, `leased` | `new`, `lease_ip`, `handle_discover`, `handle_request` | router thread |
| IPv4 networks (`oathgate-net/src/types/netaddress.rs`) | none | `new`, `contains`, `broadcast`, `next` | DHCP server, router |
| WAN links (`net/wan/*.rs`) | channel, waker, socket or tun, boringtun's session, fragment cache | `WanHandle::write`, `run`, `read_from_device`, `handle_tun_result`, `update_timers` | router, remote peers |
| NAT table (`oathgate-net/src/nat.rs`) | flows by protocol, remote and port or ICMP id | `insert`, `get` | WAN links |
| packets and checksums (`oathgate-net/src`) | none | fragments, (un)masquerading, checksums, parsing | everything |
| bridge main loop (`oathgate-bridge/src/lib.rs`) | signalfd, socket path, threads | `run` | vhost socket, commands |
| process control (`oathgate/src/process.rs`, `fork.rs`) | none of its own: a pid in a row | `check`, `stop`, `fork` | daemons, the kernel's pids |
| CLI and database (`oathgate/src/cmd/{bridge,shard}.rs`, `database/*`) | `devices` and `shards` rows with pids, shard directories | create, start, deploy, run, stop, delete | daemons, other commands |
| hypervisor daemon (`oathgate-runner/src/hypervisor.rs`) | vsock port, machine | `new`, `run`, `stop` | commands, guests |
| kernel and image store (`oathgate/src/cmd/{kernel,image}.rs`) | files named by hash, rows, the default | install, set default | file system, deploy |
| fabrial (`oathgate-fabrial/src`) | connection, pty, shell | `run`, `read_from_socket`, `handle_socket_data`, `handle_tty_resize` | terminal clients |
| terminal clients (`oathgate/src/cmd/shard/fabrial.rs`, `oathgate-runner/src/pty/fabrial.rs`) | connection, key buffer | attach, write, resize, read | fabrial |

What is hard in it:

- **Interleaving.** A LAN packet is pushed by any thread while the device thread
  drains, sleeps or is being configured. The switch is code that many threads
  run at once over two locks.
- **Edge-triggered events.** A poll takes a batch; what a message in the batch
  does (stop a vring, register another descriptor) meets events that were
  reported before it.
- **Protocol order.** Front ends send the vhost-user messages in different
  orders, stop and restart vrings, replace the memory table, hang up.
- **Error = end of thread.** Most errors travel up to `run` and end the device
  thread; its switch port stays.
- **Loss and retransmission.** DHCP clients repeat themselves, replies get lost;
  fragments of an answer are lost, repeated or overtake each other.
- **Commands that overlap or die.** A command loads a row, acts for seconds, and
  saves what it loaded; another may have changed the row, and pids are reused.
- **Messages in pieces.** fabrial reads type, length and payload with separate
  non-blocking calls from a stream on which they arrive separately.
- **Boundaries.** Address arithmetic that wraps, ranges with inclusive ends,
  rings that run out of chains.

Properties that make each part correct: the device delivers every LAN packet
once and in order, takes every chain the guest posts and reads every message,
without a lost wake-up, and accounts for the chains it took; a ring is where the
memory table says; the switch loses no broadcast and does not deadlock; the
router delivers to the host that has the address; the DHCP server never gives
one address to two clients nor loses one; a WAN link sends everything in order
and gives an answer to the host that asked, with its fragments in place; `stop`
tells the truth about the daemon and returns, what runs is listed, and no shard
runs twice; an installed file is what was installed; a shell gets what was typed,
and is reaped at the end.

## Modules

| Module | Models | Kind |
|---|---|---|
| `VhostDevice` | device thread, virtqueues, and around them the hypervisor, the guest driver and the enqueueing threads | component with its environment |
| `GuestMemory` | memory tables and ring addresses | component |
| `Switch` | `process` and `connect` at the granularity of their locks | component |
| `Router` | router thread, ARP cache, decisions; LAN hosts and WAN thread as environment | component |
| `Dhcp` | DHCP server, its clients and the channel between them | component with its environment |
| `LeaseBook` | what a DHCP server promises | abstract specification |
| `AddressPool` | the constructor loop that fills the pool | algorithm |
| `Wan` | the three kinds of WAN link, NAT and reassembly, with peer and network | component with its environment |
| `Process` | processes, pids, and `check`, `stop`, `fork` as steps of a command | component |
| `Bridges` | bridge commands, devices table, a bridge daemon from outside | component over `Process` |
| `Shards` | shard commands, shards table, a hypervisor daemon from outside | component over `Process` |
| `Host` | `Bridges` and `Shards` on one system of processes | composition |
| `Store` | installing kernels and images, choosing a default, deploying a disk | component |
| `Terminal` | a terminal session: client, stream, tty thread, shell | composition |
| `VhostDeviceProofs`, `DhcpProofs`, `SwitchProofs`, `RouterProofs`, `WanProofs`, `HostProofs`, `StoreProofs`, `TerminalProofs` | theorems | proofs |
| `MC...` | constants for TLC | instances |

### VhostDevice

The thread is at `poll`, `event` (the event at the head of `batch` is being
handled), `rx` (in the burst of `handle_rx_queued`, holding the lock on the
pending packets), `tx` (working off the chains `kick_tx` has collected) or
`dead`, with `death` the error that ended it. `events` is the kernel's ready
list; `Poll` takes it as a batch, dropping what is no longer ready, as epoll
does. Each arm of `parse_msg` is an action; the requests that only store values
nothing in the model depends on share `Note`, those that only answer share
`Query`. A stopped vring (GET_VRING_BASE) loses its descriptors and its poll
registration; its entry in `kick_fds` stays, as in the code.

`enqueue` is two steps, `Push` (under the lock) and `Wake`, so a drain may come
between them. Packets and chains are numbered, so that order, loss and
duplication show. The ring is the sequence of chains ever posted and
`next_avail` the number taken; what a chain holds is "ok"/"small" for a receive
buffer and "frame"/"short"/"alien" for a transmission (shorter than the virtio
header; an ethertype the switch rejects and whose error is unwrapped). A ring has
`QueueSize` entries, and an index of the driver that is further ahead of `next_avail`
is the error InvalidAvailRingIndex, which a restart reaches: GET_VRING_BASE
answers 0, so the front end starts the vring from 0 again. `begun` records from
which base and after how many chains given back a start began. The front end
sets base, addresses and kick of a vring in this order, SET_VRING_KICK once for
each start, and may send anything else at any time.

A request that lacks its descriptors is an error and ends the thread, and so is a
message that cannot be read or carried out (a stream error, a memory table whose
regions do not match its descriptors or cannot be mapped, an answer that cannot
be sent).

Abstractions: a message is read in one step (the code reads header and payload
by two non-blocking calls), is well formed and names a queue that exists; one
receive/transmit pair; the ring layout and the
eventfds belong to libraries and the kernel and are modelled from their use.

### GuestMemory

A table is a sequence of regions with host and guest address and size.
`mappings` grows with each SET_MEM_TABLE, `memory` is replaced, and
`compute_guest_address` takes the first mapping that covers an address, the
address one past its end included, as in the code. SET_VRING_ADDR translates all
rings of a queue before it sets any, and gives up at the first that fails.

### Switch

Each port's thread walks through `process`: `learn` (read lock on `cache`),
`associate` (write lock on `cache`), `forward` (take the read lock on `ports`),
`lookup` (read lock on `cache` under it), `enqueue` (one port per step) and
return. `connect` announces itself, then waits until there are no readers;
while it waits no new reader gets in (parking_lot's fairness). Frames to `Absent`,
an address nobody has, leave no trace in the state but take the locks like any
other: the ports of `Chatty` send them without end, so that readers could starve a
writer.

### Router

One action per message source, `FromLan` and `FromWan`, each the whole handling
of a message: learn, decide, resolve, send. `out` is what became of the last
message. `local` says what the ICMP or UDP handler makes of a packet (answer,
silence, error), so every outcome of the handlers is explored without their
contents. Hosts may move addresses between them and announce them; `owner`
records who took an address last.

### Dhcp, LeaseBook, AddressPool

`lease_ip` is the code's: a requested address is honoured when it is free or the
client's own, otherwise the front of `available` is taken. Clients may
retransmit, ask for anything, lose replies, release and reboot. `LeaseBook` is
the promise: an address is granted once and for ever, and configured only by
its owner. `AddressPool` runs the loop of `DhcpServer::new` on `Width`-bit
addresses with wrapping increment; that it repeats no address (part of
`PoolIsTheRange`) is what `Dhcp` assumes of its pool. Every prefix is included: with
one as long as the address, which is what a network without a prefix gets, and a
range that ends at the last address, the loop does not end (`Endless`), and the
model stops pushing at `MaxPool`.

### Wan

A question is a packet a LAN host sends to a remote one; the answer comes back
whole or in fragments. Data is counted in cells of four bytes, so that a cell
holds a port, a checksum or a piece of the payload, and where a fragment is
written can go wrong as it can in `ipv4.rs`. A checksum is the pair of what it was
computed over, so a missing update shows; its arithmetic is left out.

`Send` and `Wake` are the two steps of the handle's `write`; `StartDrain` takes the
channel, `Encapsulate` masquerades one packet and hands it to boringtun, which
holds it until there is a session (external, modelled from its use: a queue, a
handshake with a timer that repeats it and gives it up). `StartRead` to `EndRead`
is the read loop, `handle_tun_result` the reassembly, the NAT lookup and the way to
the router. `udp` writes from the router's own thread; `tap` reads and discards.
A network may lose, repeat, reorder or damage; `mishaps` records which kinds
happened, and each property names those it excepts.

### Process, Bridges, Shards, Host

A command is loaded with a row (`Begin`), and every later call that another
command or a daemon may come between is a step of its own: the operator's
answer, each `check` and each signal of `process::stop`, the fork, the save. A save
writes the row that was loaded, whether or not it is still there. `procs` are the
daemons and the strangers that were given a free pid; daemons have SIGTERM blocked
and read it from a signalfd, so a signal is remembered in `term`. A bridge binds its
path, replacing whatever is there, and removes it when it is told to end, whoever
bound it. `Hypervisor::new` binds the port of a shard before the fork, which is what
makes shards exclusive; a machine that outlives its hypervisor has inherited the
descriptor, and then binding fails although nobody serves the port
(`PortInherited`). A command may be killed, or a save of it fail, between any two
steps (`Crash`), and a failed first child leaves it waiting on its own pipe
(`run_child_fails`).

`mishaps` holds "crash", "overlap" and "double" (a start of what was seen to run);
`DaemonsListed` and `ServingReachable` are stated for
histories without them, because the code does not keep it otherwise (see below).
`ShardExclusive`, `StopIsTruthful`, `StopReturns` and `TermHonoured` hold with all of
them.

### Store

A file is a sequence of parts and `hash_file` is its first part: the code hashes
the first 8 MiB. Opening, copying part by part and saving are separate steps of
concurrent commands; `Save` is the transaction with its triggers. `sources` records
which files were copied to a path, since files with a common beginning share one.
Deploying saves the shard first and then copies its disk, part by part as well: a
command that is killed leaves a listed shard with the beginning of its disk.

### Terminal

The stream is modelled byte by byte, with one element of `flight` per `send`. The
tty thread is at `poll`, in `read_from_socket` (`sock`), past `run` (`reap`) or `done`.
`attach` sends a four-byte length where the daemon reads two, and `FabrialPty` sends
header and payload separately. `slot` is the part of `attach`'s buffer that keys are
encoded in; with shift a character goes to an earlier place, and bytes of earlier
keys are sent in its stead. A size is two 16-bit numbers. The thread ends when a
length or a size is zero, when a write to the tty fails because the shell is gone, or
when a receive fails because the client is (`RecvFails`). Output is counted in
buffers, with a bound on those under way and none on how many there are in all;
`burst` records that output was waiting while more came, when an edge stands for more
than one read.

## Runs

| Run | Shows |
|---|---|
| `dhcp` | leases are conserved and exclusive (`PoolConserved`, `GrantsAreOwned`, `NoSharedAddress`) and the server implements `LeaseBook` |
| `address_pool` | for every start, end and prefix the loop ends, except for a prefix as long as the address with a range up to the last one, where it does not; when it ends it has repeated no address, and a range inside one subnet is yielded without the broadcast address |
| `guest_memory` | with one table rings are translated as it says, except at the end of a region; a ring is refused only when the newest table does not cover it |
| `switch` | complete broadcasts, reachability of heard hosts, no reordering, duplication or echo; no thread (`ProcessReturns`) and no connecting device (`ConnectReturns`) waits for ever on the locks, though frames keep coming |
| `router` | the ARP cache follows moving addresses, WAN packets reach the owner, answers reach the asker |
| `vhost_data` | packets reach the guest in order and none is lost but one that does not fit its buffer; no wake-up is lost and no message of the front end stays unread |
| `vhost_restart` | poll registrations stay in step with the queues and a reported kick can be read, over two starts of each vring and with every other kind of message in between |
| `vhost_live` | bursts of transmit chains over a restart: each start takes the chains behind its base once and in order, a chain that was taken is given back, is in the burst, or was in a burst that an error ended, and no chain is forgotten |
| `host` | commands side by side, crashing, with pids reused: `stop` tells the truth and returns, a bridge honours SIGTERM even before it is up, no shard runs twice; without overlap or crash everything that runs is listed and reachable |
| `store` | the default kernel is the one chosen last; what is installed is the file that was given, through crashes and reinstallation, a disk copied to its end is too, and one whose copying was cut short is a beginning of it |
| `wan` | packets leave in order and all of them, the socket is drained, answers reach the asker and are reassembled exactly |
| `terminal` | the shell gets only what was typed and in order, the size follows, input is drained, the shell is reaped |

### Bounds

- `vhost_data`: two packets and two receive chains, one start of the receive queue.
  Two packets are the least that can be reordered, and two chains posted at
  different times let a burst end for lack of chains and resume. There is no
  restart: a start makes chains available again for which no kick comes, and then
  a packet may wait beside them.
- `vhost_live`: three transmit chains on a ring of two entries, two starts: a burst
  of two, a bad chain in front of a good one, and, after the restart from 0, a
  driver index too far ahead all happen.
  `ChainsAccounted` of the receive queue is left to its theorem.
- `vhost_restart`: two starts of each vring and one chain per queue. A stale event
  needs one stop and one start while its token is in a batch.
- `MaxExtra` bounds the messages outside the start sequence: two are what it takes
  to run one queue (memory table and enable).
- `MaxStream` is two messages in `vhost_data`, so that messages arrive together, and
  one elsewhere: the thread reads the stream until it is empty, so a longer stream
  is a front end that is faster than the loop.
- `CONSTRAINT Alive` stops the exploration at states whose device thread has
  ended (`vhost_restart` only); nothing its properties speak of happens after them,
  and they are themselves checked.
- `switch`: three ports, the first sending one frame and the second two, the third
  connecting late: two threads can broadcast while a third connects. The first also
  sends to an absent host, without a bound.
- `host`: two commands at a time and three in all, one bridge and one shard, two
  pids and two processes, one of them possibly a stranger. Two commands are what a
  stale row takes, and three a stop between a start and a delete; a pid can be
  reused because there are as many pids as processes.
- `wan`: two questions out of three flows (two of them share port, protocol and
  remote), answers whole or in three fragments (first, middle and last are added
  by different code), two fragments in the socket, one kind of mishap in each
  behaviour.
- `store`: two commands, two installs of each kind and two other commands or
  crashes; three files, two of which agree in the hashed part. Deploying and
  crashing in the middle of the copy take two.
- `terminal`: two entries by the user after the first size (a character of three
  bytes, an arrow key, two proper sizes, one of them with a zero byte, and a size
  without rows), two buffers of output under way, room for one on the connection, so
  that messages tear and output piles up.
- `router`: two hosts, two addresses that move between them, one outside peer,
  two messages in the channel, so that an announcement can wait behind or in
  front of a packet.
- `dhcp`: two clients, three addresses, two of them the pool: exhaustion and a
  request outside the pool both happen.
- `address_pool`: 4-bit addresses with every prefix, start and end; a pool that does
  not end is followed until an address has been pushed twice.
- `guest_memory`: three rings, two tables; one has regions that are adjacent in the
  hypervisor and apart in the guest, one moves a region.

The bounded environments may stop for good (no packet and no message is owed),
so deadlock is not checked for the device, the switch, the guest memory, the WAN,
the commands, the store and the terminal. It is checked for the DHCP server, the
router and the pool loop. Symmetry is used where only invariants, action properties
and a refinement are checked: hosts in `dhcp` and `router`, commands in `store`.

### Fairness

`VhostDevice`: weak fairness of the device thread (the operating system
schedules it and epoll returns when an event is listed), of `Wake` (a thread
inside `enqueue` gets from the push to the wake call, with nothing that blocks
in between) and of the driver's kick after a post (external: virtio requires
the notification). Sending packets or messages is not assumed fair. `Switch`: weak
fairness of each thread inside `process` and of the granting of the write lock;
a thread is never obliged to send. The lock refuses new readers while a writer
waits, so weak fairness is enough for `ConnectReturns`; with a lock that lets readers
pass (its mutant), the frames that keep coming starve the writer. `AddressPool`: the loop
runs. `Wan`: weak fairness of the WAN thread, of `Wake`, of the timer and of the
peer's answer to a handshake; a handshake message may still be lost and the
handshake given up. `Host`: weak fairness of the rounds of `process::stop` (a loop of
system calls and sleeps) and of a bridge daemon; operators need not answer and a
machine that is told to end need not. `Terminal`: weak fairness of client, transport
and tty thread, and strong fairness of each of the thread's two events, which one
call of poll reports together and the loop handles in turn.

## Proofs

`DhcpProofs` proves, for every set of clients and addresses and every pool
without duplicates (`PoolAssumption`), that `IInv` is inductive and from it
`TypeCorrect`, `PoolIsConserved`, `GrantsAreAlwaysOwned`, `AddressesAreExclusive`
and `Refinement`
(`Dhcp` implements `LeaseBook`). `NoSharedAddress` is not inductive by itself: a
client configures the address of an acknowledgement, so the invariant has to
say (`GrantsAreOwned`) that every offer and acknowledgement on its way names an
address leased to its receiver. Leases are never given back, so that fact
survives every step; `lease_ip` records the owner in the step that creates the
reply. `PoolConserved` rests on the lemmas about `Retain` (it removes exactly one
address and keeps the others distinct).

The last section of `DhcpProofs` proves `PoolIsBuiltRight` (`PoolIsTheRange` of
`AddressPool`), for addresses of any width and any prefix, start and end.
`PowersAssumption` spells out two facts of arithmetic about powers of two, which the
provers do not know with a variable exponent: a subnet has two addresses at least
unless the prefix is as long as the address, and its size divides the number of
addresses. From them `NetworkHolds` derives what the
loop needs of `Ipv4Network`: subnets are intervals, the broadcast address ends them,
and the last address of all is a broadcast address. The invariant `BuildInv` says that
the loop has run `Straight` from the start, or started at the very last address and is
`Wrapped` to 0; it cannot come to the last address a second time, since `next` stops
in front of a broadcast address, which is why no address is pushed twice. All of it is
said of a loop that is not the endless one (`Bounded`). `Within`
keeps a range of one subnet inside it.

`SwitchProofs` proves, for any number of ports, hosts and frames, `SwitchTypes`,
`LocksAreHeld`, `BroadcastsAreComplete` and `HeardHostsAreReachable`. The
inductive invariant adds to them: `FrameOfPort` (a thread inside `process` works
on a frame of its own port whose source it has used), `BroadcastProgress` (in the
middle of a broadcast every connected port outside `todo` has the frame) and
`ConnectBounded`. `Connect` is the interesting step: it extends the set that
`BroadcastProgress` quantifies over, and is harmless because the locking
discipline says nobody is enqueueing while there are no readers.
`FramesStayInOrder` (`FifoPerSender`) has an invariant of its own, `FifoInv`: the
frame a thread works on is the newest of its port (`WorksOnLast`), so whatever is
in a queue came before it (`QueuedBefore`), and appending it keeps the order.

`RouterProofs` proves, for any hosts, addresses and channel length
(`AddressAssumption`: the special addresses differ from those of hosts),
`RouterTypes`, `CacheCatchesUp`, `WanPacketsReachOwner` and `AnswersReturn`.
`CacheFollowsOwners` speaks only of addresses with no announcement waiting, so it
needs `NewestIsOwner`: the last announcement that waits comes from the owner. Taking
a message from the front then leaves either a later announcement or the one that
brings the cache up to date. `WanReachesOwner` follows because a packet from the WAN
teaches the cache nothing.

The last section of `VhostDeviceProofs` is about `GuestMemory`: for any tables of
regions and any addresses (`TablesAssumption`, `AddrsAssumption`) it proves
`RingsAreTranslated` (`RingTranslated`) and `RefusalsAreOutside`
(`RefusedOnlyOutside`). The invariant says that with one table the mappings are its
regions and every ring was translated by it (`FirstTable`), and that the regions of
the newest table are among the mappings, none of which covers the address the device
gave up on (`NewestMapped`). That the translation finds a region whenever one covers
the address needs a least covering index, which comes from the well-foundedness of
`<`, not from an induction over the list.

`VhostDeviceProofs` proves, for any number of packets, buffers, messages and starts
of the vrings (`FlagsAssumption`: flag values are numbers), `InvariantHolds` and from
it `PacketsStayInOrder` (`RxInOrder`), `PollFollowsQueues` (`RegisteredIffReady`) and
`ReportedKicksAreReadable` (`KickReadable`). The parts of `IInv`: packets
carry the numbers they were enqueued with, the one that did not fit left out
(`PacketsNumbered`); nothing follows a request the front end waits for
(`AnswersAwaited`), so the start of a vring on the stream is its only one and is
for a vring that is not ready (`StartsOnce`); `kick_fds` holds the queue of a
ready queue's token, and `registered` holds these tokens and no other (`TokensOwned`).
`KickReadable` needs most: an entry of `kick_fds` is never removed, so a batch may
hold a token of a queue that was stopped, and started again under another token,
since the poll. `BatchReadable` says that the kicks of a batch still to be read are
of different queues and have their eventfd set; a restart then adds no second
reader, and the guest only sets the eventfd. That the poll and GET_VRING_BASE keep
this rests on `KeepFacts`, the lemma about the filter both use, which is proved by
a least position without a value instead of an induction.
`ChainsAreAccounted` (`ChainsAccounted`) holds for any size of the rings and any number
of starts, a restart from base 0, which takes chains a second time, included. Its
invariant `ChainsNumbered` keeps an account for each queue (`Account`): the chains
given back since the vring was started, together with those held (`Held`: the burst
in work, or what an error left behind), are as many as the index has moved from the
base, and each given back follows the one before it. SET_VRING_BASE opens a new
account, and no burst is in work when it is read; a transmission moves a chain from
held to given back, and an error leaves it and those behind it held.

`WanProofs` proves `QuestionsLeaveInOrder` (`LeaveInOrder`) for any flows and any
number of questions (`WanAssumption`). A packet on its way out is in the channel,
drained, held by boringtun, or sent; `StagesNumbered` says that each stage continues
the numbers of the stage before it. A drained packet goes straight to the wire when
there is a session, past the packets that are held: that nothing is held then is
`HeldForAReason` (the loop over empty datagrams flushes all of it before the thread
polls again), and `OwnWayOut` says the same of the links that hold nothing.
`masquerade` and the checksum rewrite the packet and keep its number. The invariant says
nothing once a packet was lost to a failed write or an expired handshake, as
`LeaveInOrder` does.

The way back is `AnswersAccountedFor`, with `BackInv` for an invariant, and from it
`AnswersReassembled` (`ReassembledExactly`) and `AnswersFindTheirHost`
(`AnswersReachAsker`), for any number of questions and answers and any places to cut
them. Like the properties, `BackInv` speaks of behaviours without a mishap. For each
answer there are a number g of cells that were read and an e where the network's part
begins: the cache holds exactly the first g cells (`Stored`), the fragments in the
socket cover g to e (`Between`) and those in the network the rest (`Coming`), each in
order and without a gap. The next fragment that is read therefore starts at g, which
is the one case in which `add_fragment_data`, whose offsets count from the payload, puts
the cells where they belong. No induction over the data is needed: a step adds one
fragment, and the invariant says which cells the packet in the cache has. `Noted` says
that the NAT table has an entry for each tracked question that was masqueraded, naming
the last host that used it; a question is masqueraded before it is held for a
handshake, so the entry is there when its answer comes. TLC checked `BackInv` on the
instance of the run `wan` before it was proved.

`HostProofs` proves, for any number of commands, names, pids and processes
(`ProcessAssumption`), the types of the composed system and `ShardsAreExclusive`,
`StopsAreTruthful`, `RunningDaemonsAreListed` and `ServingBridgesAreReachable`, all
from `InvariantsHold`. `IInv` is what holds whatever happens: live processes have
different pids (`PidsUnique`); a command that has bound its port and not yet handed
it to a daemon counts as an owner (`PortsExclusive`); as long as a command stops a
process it asks for the pid of the process its row stood for (`StopsWhatWasSeen`);
it takes only the steps of its operation (`KeepsToItsSteps`); ids are never given
twice (`RowsKeyed`). `Undisturbed` adds, as long as `mishaps` is empty, `Calm`: one
command is busy, it acts on a row that is still in the table with the pid it
loaded (`ActsOnItsRow`), every live daemon has its row and its pid in it or its
command is about to save it (`DaemonOfRow`), no row has two daemons
(`OneDaemonPerRow`) and a serving bridge owns its socket (`SocketsServed`). The
recorded mishaps are exactly the steps at which `Calm` can fail, which is what the
proof of each action shows. Every action is reduced to a few shapes (processes
only age, one is spawned, a command ends or moves on) for which the invariants are
shown once.

`StoreProofs` proves, for any number of concurrent commands and any files, none of
them empty (`StoreAssumption`), `StoreTypes`, `DefaultKernelIsLastChosen` and
`InstalledStaysIntact`. The first needs `IdsAreFresh` (the ids of installs in progress
are neither in the table nor drawn twice, so an install never replaces a row) and
`LoadedIsDefault` (a row that set-default loaded is still in the table: rows are
never removed); with them a save replaces one row, fails and changes nothing, or
appends one, and `DefaultById` survives each. The second needs `PathsHoldPrefixes`
(a path only one file was copied to holds a beginning of it) and `CopiesProgress`
(a copy has written what comes before its position): copying the same file again
over itself then changes nothing, and the last part of the first copy completes it.
A disk under way is a beginning of its image (`DiskOK`): what it is copied from is
complete before the row it was found in was saved, so the next part is the image's.
That is why a crash or a repeated install does no harm as long as files are not
truncated when they are opened.

`TerminalProofs` proves, for keys of up to 255 bytes, any sizes that fit 16 bits, and any
number of entries,
`StreamFramed` and from it `TtySizeFollows` (`SizeFollows`) and `KeysIntact`
(`InputIntact`). `TerminalAssumption` says that keys are nonempty sequences of bytes
from 3 on: `attach` sends two bytes more of a length than the daemon reads, so the end
of a key is read as the types of messages, and a byte 1 or 2 there would begin one. What
earlier keys left in the buffer, which shift sends, is of such bytes too (`Stale`).
The tty thread reads type, length and payload with separate calls, so the invariant
cuts the bytes in the socket into messages: from every cut a byte to skip, a size, or
the header of a key with its payload leads to the next (`Cuts`). A header at the end
of the socket has its payload next in flight, or still with the client (`Awaited`).
The thread is then at a cut whenever it looks for a type, whatever pieces the stream
came in. `LastSize` adds that the last size on its way is the one sent last, and
`Keyed` that a header stands for the key with its number, counted from the writes to
the tty.

Only model-checked: all liveness (`PoolGetsBuilt`, `ProcessReturns`, `ConnectReturns`,
`PacketsDrain`, `MessagesRead`, `ChainsTaken`, `StopReturns`, `TermHonoured`, `QuestionsLeave`,
`SocketDrains`, `InputDrains`, `ShellReaped`), which the prover does not cover.

## Noted while modelling

The code and its comments disagree, or the code does something a reader may not
expect, in these places. The modules follow the code; a property that would not
hold is stated with the exception.

Bridge:

- A packet that one LAN host sends to another through the router goes back to its
  sender (`router.rs:163`), where the comment at `router.rs:243` speaks of the
  appropriate destination.
- An ARP packet whose own lengths exceed it panics (`arp.rs:98`) and ends the router
  thread; the hosts of `Router` do not send one.
- A transmit kick that is handled after GET_VRING_BASE ends the thread
  (QueueNotReady), and after a restart from 0 so does a driver index that is further
  ahead than the ring is long (InvalidAvailRingIndex, `queue.rs:175`).
- A network without a prefix has one of 32 bits (`netaddress.rs:164`): a DHCP range that
  ends at the last address is then never finished.
- A packet between SET_MEM_TABLE and SET_VRING_ENABLE ends the device thread, where
  the log message says the call is ignored (`queue.rs:289`).
- GET_VRING_BASE always answers index 0 (`types.rs:537`), whatever `device.rs:645`
  passes.
- `oathgate-bridge/src/net/switch.rs:88` speaks of flooding frames for unknown
  addresses; they are dropped (line 124).
- `README.md:150` gives the range of DHCP leases; a client that asks for an
  address outside it gets that address (`net/dhcp.rs:60`).
- `oathgate-vhost/src/types.rs:298` promises None outside a mapping; the address
  one past the end is accepted (line 306).
- A second SET_MEM_TABLE adds its mappings behind those of the first
  (`device.rs:775`), so an address covered by both is translated by the old one.
- SET_VRING_ENABLE with flag 0 enables (`device.rs:478`); SET_VRING_CALL without a
  descriptor, described as a request for polling (`device.rs:501`), is an error;
  GET_CONFIG names a reply (`device.rs:808`) and sends none.
- `next` of an `Ipv4Network` steps from a broadcast address into the next subnet
  (`netaddress.rs:77`).

- The bridge, fabrial and the hypervisor accept one connection per edge of the
  listener.

WAN links and packets:

- Two hosts that use the same port towards the same remote share one NAT entry;
  answers to both go to whoever asked last (`nat.rs:59`).
- The fragment cache is keyed by the identification alone. A lost middle fragment
  leaves a hole that the recomputed checksum (`ipv4.rs:325`) covers up; a last
  fragment without its first ends the WAN thread (`wireguard.rs:174`).
- A send that would block ends the WAN thread (`wireguard.rs:147`). The handle of the
  udp link keeps the number of the descriptor and goes on using it when the thread
  has ended and closed it (`udp.rs:22`).
- A fragment longer than the rest of a cached packet, in the middle of it, panics
  (`ipv4.rs:287`); the segments of `Wan` are too short for it.
- Outgoing fragments are encoded with an offset in bytes, and masquerading takes
  the bytes of a later fragment for ports and checksum.
- The tap link discards what it reads, one packet per edge.
- The checksum folds its carry once (`oathgate-net/src/lib.rs:63`, `96`).

Commands and daemons:

- Starting a bridge that runs starts a second daemon and overwrites the pid of the
  first; when either ends, it removes the path of the other.
- Commands that overlap write rows they loaded earlier: a stop may save NULL over a
  new pid, and a run may bring back a row that delete removed, whose files are gone.
- A command that dies, or whose save fails, between fork and save leaves a daemon no
  row names.
- A command that dies while it deploys leaves a shard in the table with a part of its
  disk, or none (`database/shard.rs:240`).
- A stored pid may be another process by the time it is signalled.
- When the first child of `fork` fails, the command waits for ever (`fork.rs:79`).
- A hypervisor that is killed leaves its machine running, and does not notice when
  the machine ends; the machine keeps the port bound (`hypervisor.rs:78`).
- Only the first 8 MiB of a kernel or image are hashed (`cmd.rs:187`), where
  `kernel.rs:89` speaks of a unique id: files that share them overwrite each other.

Terminal:

- `attach` sends a length of four bytes; the daemon reads two (`tty.rs:183`), so keys do
  not reach the shell as typed. With shift the byte left by an earlier key is sent.
- A zero type, the end of the stream and an empty socket are the same to the daemon;
  a payload that arrives after its header was read is taken for message types.
- One buffer of output is read per edge, so the last output, or the exit of the shell
  behind it, may go unnoticed.
- When the client is gone, `shutdown` may fail, and then the shell is neither killed
  nor waited for (`tty.rs:78`).
- The runner's `read_pty` reads on at the end of the stream.

## Not modelled, and the plan

Left out for good: byte layouts, text parsing, logging and pcap output, the
terminal user interface of the runner (its module is commented out) and the
template store (it refers to types the database no longer has), the udp-dummy test
upstream, IPv6, which is passed on unchanged, and the building of the hypervisor's
command line.

Modelled only in part: the accept loops of bridge, hypervisor and fabrial (a
session starts with an accepted connection); the vhost control stream, whose
messages are read whole, and whose front end sends SET_VRING_KICK once for each start
(a second one would be registered beside the first); the ICMP and UDP handlers, as
decisions; malformed ARP packets, as dropped; the hard link of the kernel when a shard
is deployed, whose failure is a command that ends; the tty of a terminal session, which
is assumed to take what is written to it (`write_to_tty` may block while the shell does
not read), and the first size, whose sending is assumed to succeed (both clients ignore
its failure).

Planned, in this order:

1. An abstract learning switch that `Switch` implements, and ports whose device has
   ended.
2. Header and payload of the vhost control stream in pieces (`read_stream`), with a
   stream that never runs empty.
3. The accept loops, with two connections on one edge.
4. The composition of router, switch and WAN.
5. The one's complement sum against a reference definition.
