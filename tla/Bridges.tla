------------------------------ MODULE Bridges ------------------------------
(* The bridge commands (cmd/bridge.rs), the devices table and the outside   *)
(* of a bridge daemon: its socket path and its reaction to SIGTERM.         *)
EXTENDS Process

CONSTANTS BridgeNames, MaxBridges

VARIABLES devices,   \* the table, in row order: [id, name, pid, cid |-> 0]
          created,   \* rows ever created
          sock       \* process that bound each socket path, 0 when absent

bridgeVars == <<devices, created, sock>>

BridgesInit ==
    /\ devices = <<>>
    /\ created = 0
    /\ sock = [n \in BridgeNames |-> 0]

\* create_bridge does not look for the name: two rows may share it.
create_bridge(name) ==
    /\ created < MaxBridges
    /\ created' = created + 1
    /\ devices' = Append(devices,
         [id |-> created + 1, name |-> name, pid |-> NoPid, cid |-> 0])
    /\ UNCHANGED <<processVars, sock>>

get_bridge(name) == FirstNamed(devices, name)

\* What list prints: every row with the state its pid has now.
list_bridges ==
    {[id |-> devices[i].id, state |-> StateOf(devices[i].pid)] : i \in DOMAIN devices}

\* Device::save of the loaded record with the state it has now.
device_save(c) ==
    devices' = Upsert(devices, [cmd[c].row EXCEPT !.pid = optional(cmd[c].state)])

-----------------------------------------------------------------------------
\* start_bridge: load, fork, save.  Nothing asks whether the bridge runs.
start_bridge(c, name) ==
    /\ \E row \in get_bridge(name) : Begin(c, "bridge start", "fork", row)
    /\ UNCHANGED <<procs, bridgeVars>>

StartFork(c) ==
    /\ cmd[c].op = "bridge start"
    /\ fork(c, "bridge")
    /\ UNCHANGED bridgeVars

StartSave(c) ==
    /\ At(c, "bridge start", "save")
    /\ device_save(c)
    /\ Finish(c)
    /\ UNCHANGED <<procs, ran, mishaps, created, sock>>

\* stop_bridge: load, ask, stop, save.
stop_bridge(c, name) ==
    /\ \E row \in get_bridge(name) : Begin(c, "bridge stop", "confirm", row)
    /\ UNCHANGED <<procs, bridgeVars>>

\* delete_bridge stops a bridge that runs first.
delete_bridge(c, name) ==
    /\ \E row \in get_bridge(name) :
         Begin(c, "bridge delete",
               IF StateOf(row.pid).st = "Running" THEN "confirm"
               ELSE "confirm delete", row)
    /\ UNCHANGED <<procs, bridgeVars>>

device_stop(c) ==
    /\ cmd[c].op \in {"bridge stop", "bridge delete"}
    /\ Stop(c)
    /\ UNCHANGED bridgeVars

\* set_stopped, then save; delete goes on to ask again.
StopSave(c) ==
    /\ cmd[c].pc = "stopped"
    /\ cmd[c].op \in {"bridge stop", "bridge delete"}
    /\ devices' = Upsert(devices, [cmd[c].row EXCEPT !.pid = optional(Stopped)])
    /\ IF cmd[c].op = "bridge stop" THEN Finish(c) ELSE Goto(c, "confirm delete")
    /\ UNCHANGED <<procs, ran, mishaps, created, sock>>

device_delete(c) ==
    /\ At(c, "bridge delete", "confirm delete")
    /\ devices' = Without(devices, cmd[c].row.id)
    /\ Finish(c)
    /\ UNCHANGED <<procs, ran, mishaps, created, sock>>

-----------------------------------------------------------------------------
\* Fault: a signal that was sent before the signalfd is polled is lost.
BindForgetsSignal(p) ==
    /\ procs[p].kind = "bridge" /\ procs[p].st = "setup"
    /\ sock' = [sock EXCEPT ![procs[p].row.name] = p]
    /\ procs' = [procs EXCEPT ![p].st = "serving", ![p].term = FALSE]
    /\ UNCHANGED <<cmd, ran, mishaps, devices, created>>

\* VHostSocket::new replaces whatever is at the path; then the bridge serves.
Bind(p) ==
    /\ procs[p].kind = "bridge" /\ procs[p].st = "setup"
    /\ sock' = [sock EXCEPT ![procs[p].row.name] = p]
    /\ procs' = [procs EXCEPT ![p].st = "serving"]
    /\ UNCHANGED <<cmd, ran, mishaps, devices, created>>

\* SIGTERM ends the poll loop; the path is removed, whoever bound it.
Terminate(p) ==
    /\ procs[p].kind = "bridge" /\ procs[p].st = "serving"
    /\ procs[p].term
    /\ sock' = [sock EXCEPT ![procs[p].row.name] = 0]
    /\ procs' = [procs EXCEPT ![p].st = "ending"]
    /\ UNCHANGED <<cmd, ran, mishaps, devices, created>>

BridgesNext ==
    \/ \E n \in BridgeNames : create_bridge(n)
    \/ \E c \in Cmds, n \in BridgeNames :
         start_bridge(c, n) \/ stop_bridge(c, n) \/ delete_bridge(c, n)
    \/ \E c \in Cmds : \/ StartFork(c) \/ StartSave(c) \/ device_stop(c)
                       \/ StopSave(c) \/ device_delete(c)
    \/ \E p \in DOMAIN procs : Bind(p) \/ Terminate(p)
=============================================================================
