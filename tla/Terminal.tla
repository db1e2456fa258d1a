------------------------------ MODULE Terminal ------------------------------
(***************************************************************************)
(* A terminal session: a client on the host (`shard attach`, or the        *)
(* runner's FabrialPty), the stream between them, and the fabrial daemon's *)
(* tty thread with the shell it started.  The stream is modelled byte by   *)
(* byte, because the daemon reads message type, length and payload with    *)
(* separate non-blocking calls.  What one send() writes arrives together.  *)
(***************************************************************************)
EXTENDS Naturals, Sequences, SequencesExt

CONSTANTS Clients,    \* the kinds of client examined
          Keys,       \* byte strings that keys are encoded as
          Sizes,      \* window sizes <<rows, cols>>
          MaxMsgs,    \* bound: keys and sizes the user enters
          MaxOut,     \* bound: buffers of output on their way
          MaxBack     \* buffers the connection to the client holds

\* No key is encoded with the bytes that are message types.
ASSUME TerminalAssumption ==
    /\ Clients \subseteq {"attach", "runner"}
    /\ Keys \subseteq Seq(3..255) \ {<<>>} /\ \A k \in Keys : Len(k) <= 255
    /\ \A s \in Sizes : s \in Nat \X Nat /\ s[1] < 2^16 /\ s[2] < 2^16
    /\ MaxMsgs \in Nat /\ MaxOut \in Nat /\ MaxBack \in Nat

VARIABLES
    client,     \* which client this is
    half,       \* runner: payload still to be sent, <<>> if none
    slot,       \* attach: bytes[5..], with what earlier keys left there
    up,         \* client: "up", "spin" (read_pty on a closed stream) or "gone"
    flight,     \* sends on their way to the daemon
    inq, edge,  \* bytes in the daemon's socket; its readable event
    pc,         \* tty thread
    why,        \* why run() returned
    input,      \* writes to the tty, in order
    winsz,      \* window size of the tty
    child,      \* the shell
    out, outEdge, \* buffers of output in the pty; its readable event
    burst,      \* output was written while earlier output was unread
    back,       \* buffers on their way to the client
    conn,       \* the connection: "open", or "shut" by the daemon
    typed, sizes  \* what the user entered

clientVars == <<client, half, slot, up, typed, sizes>>
sockVars == <<inq, edge, input, winsz>>
shellVars == <<child, out, outEdge, burst>>
backVars == <<back, conn>>
vars == <<clientVars, flight, sockVars, shellVars, backVars, pc, why>>

\* resize_pty: the type and two little-endian u16.
Resize(s) == <<2, s[1] % 256, s[1] \div 256, s[2] % 256, s[2] \div 256>>

\* TerminalMap::insert and the start of run_ui send the size first.
Init ==
    /\ client \in Clients /\ half = <<>> /\ slot = <<0, 0, 0, 0, 0>> /\ up = "up"
    /\ \E s \in Sizes : sizes = <<s>> /\ flight = <<Resize(s)>>
    /\ inq = <<>> /\ edge = FALSE /\ pc = "poll" /\ why = ""
    /\ input = <<>> /\ winsz = <<0, 0>>
    /\ child = "running" /\ out = 0 /\ outEdge = FALSE /\ burst = FALSE
    /\ back = 0 /\ conn = "open" /\ typed = <<>>

----------------------------------------------------------------------------
(* The clients.                                                            *)

CanSend == up = "up" /\ conn = "open" /\ half = <<>> /\ Len(typed) + Len(sizes) <= MaxMsgs
Sent(bytes) == flight' = Append(flight, bytes)

\* What is left in bytes[5..] when a key is encoded there, and when a character
\* is encoded at bytes[3..], where the length is put next.
Encoded(k) == k \o SubSeq(slot, Len(k) + 1, 5)
Shifted(k) ==
    IF Len(k) < 3 THEN slot ELSE SubSeq(k, 3, Len(k)) \o SubSeq(slot, Len(k) - 1, 5)
\* One character in UTF-8, not the sequence of an arrow or function key.
IsChar(k) == Len(k) = 1 \/ (Len(k) <= 4 /\ k[1] >= 192)

\* run_ui: one send; the length takes four bytes.
TypeAttach(k) ==
    /\ client = "attach" /\ CanSend /\ Len(k) <= 5
    /\ slot' = Encoded(k)
    /\ Sent(<<1, Len(k), 0, 0, 0>> \o k)
    /\ typed' = Append(typed, k)
    /\ UNCHANGED <<client, half, up, sizes, sockVars, shellVars, backVars, pc, why>>

\* With shift, bytes left by earlier keys are sent.
TypeShift(k) ==
    /\ client = "attach" /\ CanSend /\ IsChar(k)
    /\ slot' = Shifted(k)
    /\ Sent(<<1, Len(k), 0, 0, 0>> \o SubSeq(slot', 1, Len(k)))
    /\ typed' = Append(typed, k)
    /\ UNCHANGED <<client, half, up, sizes, sockVars, shellVars, backVars, pc, why>>

\* FabrialPty::write_pty: the header, and the payload in a second send.
TypeRunner(k) ==
    /\ client = "runner" /\ CanSend
    /\ Sent(<<1, Len(k), 0>>)
    /\ typed' = Append(typed, k) /\ half' = k
    /\ UNCHANGED <<client, slot, up, sizes, sockVars, shellVars, backVars, pc, why>>

SendPayload ==
    /\ half # <<>> /\ half' = <<>>
    /\ flight' = IF conn = "open" THEN Append(flight, half) ELSE flight
    /\ UNCHANGED <<client, slot, up, typed, sizes, sockVars, shellVars, backVars, pc, why>>

\* resize_pty of either client.
ResizePty(s) ==
    /\ CanSend /\ Sent(Resize(s))
    /\ sizes' = Append(sizes, s)
    /\ UNCHANGED <<client, half, slot, up, typed, sockVars, shellVars, backVars, pc, why>>

\* run_socket and read_pty show what arrives.
Show ==
    /\ up = "up" /\ back > 0
    /\ back' = back - 1
    /\ UNCHANGED <<clientVars, flight, sockVars, shellVars, conn, pc, why>>

\* The end of the stream: run_socket leaves its loop; read_pty takes it for
\* data and reads again, with the parser locked.
SeeEnd ==
    /\ up = "up" /\ back = 0 /\ conn = "shut"
    /\ up' = IF client = "attach" THEN "gone" ELSE "spin"
    /\ UNCHANGED <<client, half, slot, typed, sizes, flight, sockVars, shellVars, backVars,
                   pc, why>>

\* The client is closed or killed; the daemon's socket becomes readable.
Leave ==
    /\ up = "up" /\ half = <<>> /\ up' = "gone" /\ edge' = TRUE
    /\ UNCHANGED <<client, half, slot, typed, sizes, flight, inq, input, winsz, shellVars,
                   backVars, pc, why>>

----------------------------------------------------------------------------
(* The tty thread.                                                         *)

Arrive ==
    /\ flight # <<>> /\ flight' = Tail(flight)
    /\ inq' = inq \o Head(flight) /\ edge' = TRUE
    /\ UNCHANGED <<clientVars, input, winsz, shellVars, backVars, pc, why>>

\* non_blocking_recv: as many of n bytes as there are, and the rest.
Recv(q, n) == SubSeq(q, 1, IF n < Len(q) THEN n ELSE Len(q))
Rest(q, n) == SubSeq(q, n + 1, Len(q))
\* Byte i of what was received into a zeroed buffer, and a little-endian u16.
Byte(bytes, i) == IF i <= Len(bytes) THEN bytes[i] ELSE 0
U16(bytes, i) == Byte(bytes, i) + 256 * Byte(bytes, i + 1)

End(reason) == pc' = "reap" /\ why' = reason
Go == pc' = "sock" /\ UNCHANGED why

\* An event on the socket: messages are read until one would block.
PollSock ==
    /\ pc = "poll" /\ edge
    /\ edge' = FALSE /\ Go
    /\ UNCHANGED <<clientVars, flight, inq, input, winsz, shellVars, backVars>>

\* Nothing to read, the end of the stream and a zero byte are all the same.
ReadZero ==
    /\ pc = "sock" /\ Byte(inq, 1) = 0
    /\ inq' = Rest(inq, 1) /\ pc' = "poll"
    /\ UNCHANGED <<clientVars, flight, edge, input, winsz, shellVars, backVars, why>>

\* Fault: the thread goes back to poll after a message.
ReadDataOnce ==
    /\ pc = "sock" /\ Byte(inq, 1) = 1
    /\ LET length == U16(Recv(Rest(inq, 1), 2), 1) IN
       /\ inq' = Rest(inq, 3 + length)
       /\ input' = Append(input, Recv(Rest(inq, 3), length))
    /\ pc' = "poll"
    /\ UNCHANGED <<clientVars, flight, edge, winsz, shellVars, backVars, why>>

\* Fault: what was asked for is taken for what was received.
ReadDataPadded ==
    /\ pc = "sock" /\ Byte(inq, 1) = 1
    /\ LET length == U16(Recv(Rest(inq, 1), 2), 1)
           payload == Recv(Rest(inq, 3), length)
       IN  /\ inq' = Rest(inq, 3 + length)
           /\ input' = Append(input, [i \in 1..length |-> Byte(payload, i)])
    /\ Go
    /\ UNCHANGED <<clientVars, flight, edge, winsz, shellVars, backVars>>

\* handle_socket_data, and write_to_tty with what arrived of the payload.  The
\* write may fail once the shell is gone, and then nothing is written.
ReadData ==
    /\ pc = "sock" /\ Byte(inq, 1) = 1
    /\ LET length == U16(Recv(Rest(inq, 1), 2), 1)
           payload == Recv(Rest(inq, 3), length)
       IN  /\ inq' = Rest(inq, 3 + length)
           /\ \/ length = 0 /\ End("length") /\ UNCHANGED input
              \/ length > 0 /\ input' = Append(input, payload) /\ Go
              \/ /\ length > 0 /\ child = "exited"
                 /\ input' = Append(input, <<>>) /\ End("write")
    /\ UNCHANGED <<clientVars, flight, edge, winsz, shellVars, backVars>>

\* Fault: a size is applied only if the tty had none.
ReadResizeOnce ==
    /\ pc = "sock" /\ Byte(inq, 1) = 2
    /\ LET buf == Recv(Rest(inq, 1), 4)
           size == <<U16(buf, 1), U16(buf, 3)>>
       IN  \/ (size[1] = 0 \/ size[2] = 0) /\ End("size") /\ UNCHANGED winsz
           \/ /\ size[1] # 0 /\ size[2] # 0 /\ Go
              /\ winsz' = IF winsz = <<0, 0>> THEN size ELSE winsz
    /\ inq' = Rest(inq, 5)
    /\ UNCHANGED <<clientVars, flight, edge, input, shellVars, backVars>>

\* handle_tty_resize.
ReadResize ==
    /\ pc = "sock" /\ Byte(inq, 1) = 2
    /\ LET buf == Recv(Rest(inq, 1), 4)
           size == <<U16(buf, 1), U16(buf, 3)>>
       IN  \/ (size[1] = 0 \/ size[2] = 0) /\ End("size") /\ UNCHANGED winsz
           \/ size[1] # 0 /\ size[2] # 0 /\ winsz' = size /\ Go
    /\ inq' = Rest(inq, 5)
    /\ UNCHANGED <<clientVars, flight, edge, input, shellVars, backVars>>

\* An unknown message type: only its own byte is skipped.
ReadUnknown ==
    /\ pc = "sock" /\ Byte(inq, 1) \notin {0, 1, 2}
    /\ inq' = Rest(inq, 1) /\ Go
    /\ UNCHANGED <<clientVars, flight, edge, input, winsz, shellVars, backVars>>

\* A call of non_blocking_recv fails: the client is gone and its connection reset.
RecvFails ==
    /\ pc = "sock" /\ up = "gone" /\ End("recv")
    /\ UNCHANGED <<clientVars, flight, sockVars, shellVars, backVars>>

\* An event on the tty: one buffer is read and sent on without blocking.  A
\* tty whose shell has ended fails to read once it is empty.
PollTty ==
    /\ pc = "poll" /\ outEdge /\ outEdge' = FALSE
    /\ \/ /\ out > 0 /\ out' = out - 1
          /\ \/ up = "gone" /\ End("gone") /\ UNCHANGED back
             \/ up # "gone" /\ back = MaxBack /\ End("full") /\ UNCHANGED back
             \/ up # "gone" /\ back < MaxBack /\ back' = back + 1 /\ UNCHANGED <<pc, why>>
       \/ out = 0 /\ child = "exited" /\ End("exit") /\ UNCHANGED <<out, back>>
    /\ UNCHANGED <<clientVars, flight, sockVars, child, burst, conn>>

\* Fault: the thread leaves the child to its parent.
ReapNone ==
    /\ pc = "reap" /\ pc' = "done" /\ conn' = "shut"
    /\ UNCHANGED <<clientVars, flight, sockVars, shellVars, back, why>>

\* After run(): shut the socket down, kill the shell, wait for it.  When the
\* peer is gone the first call may fail, and then the others are not made.
Reap ==
    /\ pc = "reap" /\ pc' = "done" /\ conn' = "shut"
    /\ \/ child' = "reaped"
       \/ up = "gone" /\ UNCHANGED child
    /\ UNCHANGED <<clientVars, flight, sockVars, out, outEdge, burst, back, why>>

----------------------------------------------------------------------------
(* The shell.                                                              *)

Output ==
    /\ child = "running" /\ pc \in {"poll", "sock"} /\ back + out < MaxOut
    /\ out' = out + 1 /\ outEdge' = TRUE /\ burst' = (burst \/ out > 0)
    /\ UNCHANGED <<clientVars, flight, sockVars, child, backVars, pc, why>>

Exit ==
    /\ child = "running" /\ child' = "exited" /\ outEdge' = TRUE
    /\ burst' = (burst \/ out > 0)
    /\ UNCHANGED <<clientVars, flight, sockVars, out, backVars, pc, why>>

Daemon ==
    \/ PollSock \/ ReadZero \/ ReadData \/ ReadResize \/ ReadUnknown \/ PollTty \/ Reap
Client == SendPayload \/ Show \/ SeeEnd

Next ==
    \/ \E k \in Keys : TypeAttach(k) \/ TypeShift(k) \/ TypeRunner(k)
    \/ \E s \in Sizes : ResizePty(s)
    \/ Client \/ Leave \/ Arrive \/ Daemon \/ RecvFails \/ Output \/ Exit

Spec == Init /\ [][Next]_vars

\* The client's threads, the transport and the daemon's thread keep going;
\* between the two events of the thread neither starves the other.
FairSpec ==
    /\ Spec
    /\ WF_vars(Client) /\ WF_vars(Arrive) /\ WF_vars(Daemon) /\ SF_vars(PollSock)
    /\ SF_vars(PollTty)

----------------------------------------------------------------------------
(* Properties.                                                             *)

\* write_pty against read_from_socket: the daemon may read between the two
\* sends, and then the key is lost; but the shell never gets bytes that were
\* not typed, a key twice, or keys out of order: each write is the next key, or
\* nothing in its place.
InputIntact ==
    client = "runner" =>
        /\ Len(input) <= Len(typed)
        /\ \A i \in 1..Len(input) : input[i] \in {<<>>, typed[i]}

\* handle_tty_resize behind any mixture of whole, torn and misread messages:
\* once everything sent was read, the tty has the size that was sent last; and
\* no misread size or length ends the session, only a size with a zero in it.
SizeFollows ==
    /\ flight = <<>> /\ inq = <<>> /\ pc = "poll" => winsz = Last(sizes)
    /\ why # "length"
    /\ why = "size" => \E i \in 1..Len(sizes) : 0 \in {sizes[i][1], sizes[i][2]}

\* The edge-triggered socket: what the runner sends is read to the end.
InputDrains ==
    client = "runner" /\ inq # <<>> ~> inq = <<>> \/ pc \in {"reap", "done"}

\* SockTTY::spawn after run(): a shell that exits, or whose thread ends, is
\* reaped, unless the client left first or output was waiting unread.
ShellReaped ==
    child = "exited" \/ pc = "reap" ~> child = "reaped" \/ up = "gone" \/ burst

=============================================================================
