-------------------------------- MODULE Host --------------------------------
(* Bridges and shards on one host: commands on either run side by side and  *)
(* their daemons draw their pids from one system.                           *)
EXTENDS Bridges, Shards

vars == <<processVars, bridgeVars, shardVars>>

Init == ProcessInit /\ BridgesInit /\ ShardsInit

Next ==
    \/ ProcessNext /\ UNCHANGED <<bridgeVars, shardVars>>
    \/ BridgesNext /\ UNCHANGED shardVars
    \/ ShardsNext /\ UNCHANGED bridgeVars

Spec == Init /\ [][Next]_vars

\* A command at work takes its next step, and a bridge daemon is scheduled.
\* Operators need not answer and machines need not end.
Fairness ==
    /\ \A c \in Cmds :
         WF_vars((Check(c) \/ Signal(c)) /\ UNCHANGED <<bridgeVars, shardVars>>)
    /\ \A p \in 1..MaxProcs :
         WF_vars(/\ p \in DOMAIN procs
                 /\ \/ Bind(p) \/ Terminate(p)
                    \/ procs[p].kind = "bridge" /\ Exit(p) /\ UNCHANGED bridgeVars
                 /\ UNCHANGED shardVars)

FairSpec == Spec /\ Fairness

-----------------------------------------------------------------------------
\* Two hypervisors never serve the same context id, whatever commands overlap:
\* Hypervisor::new binds the port in the command, before the fork.
ShardExclusive ==
    \A p, q \in DOMAIN procs :
        /\ Live(p) /\ Live(q)
        /\ procs[p].kind = "shard" /\ procs[q].kind = "shard"
        /\ procs[p].row.cid = procs[q].row.cid
        => p = q

\* process::stop returns Ok only when the process behind the loaded row is
\* gone, even when its pid is reused while it waits.
StopIsTruthful ==
    \A c \in Cmds : cmd[c].pc = "stopped" /\ cmd[c].seen # 0 => ~Live(cmd[c].seen)

\* As long as no command crashed, failed to save or overlapped another and none
\* started what was already running, list shows every daemon as running, with
\* its pid.
DaemonsListed ==
    mishaps = {} =>
        \A p \in DOMAIN procs :
            Live(p) /\ procs[p].kind \in Daemons =>
                \/ [id |-> procs[p].row.id, state |-> Running(procs[p].pid)] \in
                      IF procs[p].kind = "bridge" THEN list_bridges ELSE list_shards
                \/ \E c \in Cmds : /\ cmd[c].pc = "save"
                                   /\ cmd[c].state.pid = procs[p].pid

\* Under the same conditions a bridge that serves is reachable at its path:
\* no earlier daemon of that name is left that could remove it.
ServingReachable ==
    mishaps = {} =>
        \A p \in DOMAIN procs :
            procs[p].kind = "bridge" /\ procs[p].st = "serving"
                => sock[procs[p].row.name] = p

-----------------------------------------------------------------------------
(* The inductive invariant behind the four properties above. *)

Rows == [id : Nat, name : BridgeNames \cup ShardNames \cup {""},
         pid : Pids \cup {NoPid}, cid : Cids \cup {0}]
States == [st : {"Stopped", "Dead", "PermissionDenied", "Running"},
           pid : Pids \cup {NoPid}]
Procs == [pid : Pids, kind : Daemons \cup Strangers, row : Rows,
          st : {"setup", "serving", "ending", "dead"}, term : BOOLEAN]

BridgeOps == {"bridge start", "bridge stop", "bridge delete"}
ShardOps == {"shard deploy", "shard run", "shard stop", "shard delete"}
Steps == {"idle", "fork", "hung", "save", "confirm", "check", "signal", "stopped",
          "confirm delete", "purge", "bind", "files"}
Commands == [op : BridgeOps \cup ShardOps \cup {"none"}, pc : Steps, row : Rows,
             state : States, i : Nat, seen : Nat]

\* Every variable keeps its type.
TypeOK ==
    /\ procs \in Seq(Procs)
    /\ cmd \in [Cmds -> Commands]
    /\ ran \in Nat /\ mishaps \subseteq {"overlap", "crash", "double"}
    /\ devices \in Seq(Rows) /\ created \in Nat
    /\ shards \in Seq(Rows) /\ deployed \in Nat
    /\ sock \in [BridgeNames -> Nat]

\* Strengthening: no two live processes have the same pid.
PidsUnique ==
    \A p, q \in DOMAIN procs :
        Live(p) /\ Live(q) /\ procs[p].pid = procs[q].pid => p = q

\* A command that has bound its port and not handed it to a daemon.
HoldsPort(c) == cmd[c].op = "shard run" /\ cmd[c].pc \in {"fork", "hung"}

\* Strengthening of ShardExclusive: the commands that hold a port count too.
PortsExclusive ==
    /\ ShardExclusive
    /\ \A c, d \in Cmds :
         HoldsPort(c) /\ HoldsPort(d) /\ cmd[c].row.cid = cmd[d].row.cid => c = d
    /\ \A c \in Cmds, p \in DOMAIN procs :
         HoldsPort(c) /\ Live(p) /\ procs[p].kind = "shard"
             => procs[p].row.cid # cmd[c].row.cid

\* Strengthening of StopIsTruthful: as long as a command stops a process it
\* asks for the pid of the process its row stood for.
StopsWhatWasSeen ==
    /\ StopIsTruthful
    /\ \A c \in Cmds : cmd[c].seen # 0 =>
         /\ cmd[c].seen \in DOMAIN procs
         /\ cmd[c].pc \in {"confirm", "check", "signal"} =>
              /\ procs[cmd[c].seen].pid = cmd[c].state.pid
              /\ cmd[c].state.st \in {"Running", "PermissionDenied"}

\* Strengthening: a command takes the steps of its operation only.
StepsOf(op) ==
    CASE op = "bridge start"  -> {"fork", "hung", "save"}
      [] op = "shard run"     -> {"bind", "fork", "hung", "save"}
      [] op \in {"bridge stop", "shard stop"} -> {"confirm", "check", "signal", "stopped"}
      [] op = "bridge delete" -> {"confirm", "check", "signal", "stopped", "confirm delete"}
      [] op = "shard delete"  -> {"confirm delete", "purge"}
      [] op = "shard deploy"  -> {"files"}
      [] op = "none"          -> {"idle"}

KeepsToItsSteps == \A c \in Cmds : cmd[c].pc \in StepsOf(cmd[c].op)

\* Strengthening: ids are never given twice, and a row keeps its kind of name.
Keyed(table, names, last) ==
    /\ \A i \in DOMAIN table : table[i].id \in 1..last /\ table[i].name \in names
    /\ \A i, j \in DOMAIN table : table[i].id = table[j].id => i = j

RowsKeyed ==
    /\ Keyed(devices, BridgeNames, created)
    /\ Keyed(shards, ShardNames, deployed)
    /\ \A c \in Cmds :
         /\ cmd[c].op \in BridgeOps => cmd[c].row.id \in 1..created
                                       /\ cmd[c].row.name \in BridgeNames
         /\ cmd[c].op \in ShardOps => cmd[c].row.id \in 1..deployed
                                      /\ cmd[c].row.name \in ShardNames
    /\ \A p \in DOMAIN procs :
         procs[p].kind = "bridge" => procs[p].row.name \in BridgeNames

IInv == TypeOK /\ PidsUnique /\ PortsExclusive /\ StopsWhatWasSeen
        /\ KeepsToItsSteps /\ RowsKeyed

-----------------------------------------------------------------------------
(* What holds on top of it as long as nothing unusual has happened. *)

Table(kind) == IF kind = "bridge" THEN devices ELSE shards
KindOf(op) == IF op \in BridgeOps THEN "bridge" ELSE "shard"

\* The row is in the table, and the one its name finds.
Listed(table, row) ==
    \E i \in DOMAIN table : /\ table[i].id = row.id /\ table[i].name = row.name
                            /\ \A k \in 1..(i - 1) : table[k].name # row.name

PidIs(table, id, pid) == \A i \in DOMAIN table : table[i].id = id => table[i].pid = pid

\* No daemon is left that was forked for the row.
NoDaemon(kind, id) ==
    \A p \in DOMAIN procs :
        Live(p) /\ procs[p].kind = kind => procs[p].row.id # id

OneAtATime == \A c, d \in Cmds : Busy(c) /\ Busy(d) => c = d

\* A command still acts on the row it has loaded; it starts a daemon, or takes
\* one to be stopped, only when the row has none.
ActsOnItsRow(c) ==
    cmd[c].op \notin {"none", "shard deploy"} /\ cmd[c].pc # "purge" =>
        /\ Listed(Table(KindOf(cmd[c].op)), cmd[c].row)
        /\ cmd[c].pc # "confirm delete" =>
             PidIs(Table(KindOf(cmd[c].op)), cmd[c].row.id, cmd[c].row.pid)
        /\ cmd[c].pc \in {"confirm", "check", "signal"} => cmd[c].state.pid = cmd[c].row.pid
        /\ \/ cmd[c].pc \in {"stopped", "confirm delete"}
           \/ cmd[c].pc \in {"fork", "bind", "confirm"} /\ cmd[c].state.st # "Running"
           => NoDaemon(KindOf(cmd[c].op), cmd[c].row.id)
        /\ cmd[c].pc = "save" =>
             /\ cmd[c].state.st = "Running"
             /\ \A p \in DOMAIN procs :
                  /\ Live(p) /\ procs[p].kind = KindOf(cmd[c].op)
                  /\ procs[p].row.id = cmd[c].row.id
                  => procs[p].pid = cmd[c].state.pid

\* A daemon is in the table with its pid, or its command is about to save it.
Saved(p) ==
    \/ PidIs(Table(procs[p].kind), procs[p].row.id, procs[p].pid)
    \/ \E c \in Cmds : /\ cmd[c].pc = "save" /\ KindOf(cmd[c].op) = procs[p].kind
                       /\ cmd[c].row.id = procs[p].row.id

DaemonOfRow ==
    \A p \in DOMAIN procs : Live(p) /\ procs[p].kind \in Daemons =>
        Listed(Table(procs[p].kind), procs[p].row) /\ Saved(p)

OneDaemonPerRow ==
    \A p, q \in DOMAIN procs :
        /\ Live(p) /\ Live(q) /\ procs[p].kind \in Daemons
        /\ procs[p].kind = procs[q].kind /\ procs[p].row.id = procs[q].row.id
        => p = q

SocketsServed ==
    \A p \in DOMAIN procs :
        procs[p].kind = "bridge" /\ procs[p].st = "serving" => sock[procs[p].row.name] = p

Calm == /\ OneAtATime /\ \A c \in Cmds : ActsOnItsRow(c)
        /\ DaemonOfRow /\ OneDaemonPerRow /\ SocketsServed

Undisturbed == mishaps = {} => Calm

\* process::stop returns, however the process reacts to its signals.
StopReturns ==
    \A c \in Cmds :
        cmd[c].pc \in {"check", "signal"} ~> cmd[c].pc \notin {"check", "signal"}

\* A bridge that was sent SIGTERM ends, also when the signal comes before it
\* has opened its socket and polls its signalfd.
TermHonoured ==
    \A p \in 1..MaxProcs :
        (p \in DOMAIN procs /\ procs[p].kind = "bridge" /\ procs[p].term)
            ~> (p \in DOMAIN procs /\ procs[p].st = "dead")
=============================================================================
