------------------------------- MODULE Shards -------------------------------
(* The shard commands (cmd/shard.rs), the shards table and the outside of a *)
(* hypervisor daemon: the vsock port it holds and its reaction to SIGTERM.  *)
(* What is in the directory of a shard makes no difference to them: Store   *)
(* follows its disk.                                                        *)
EXTENDS Process

CONSTANTS ShardNames, MaxShards,
          Cids                      \* context ids; they may be drawn twice

VARIABLES shards,    \* the table, in row order: [id, name, pid, cid]
          deployed   \* rows ever created

shardVars == <<shards, deployed>>

ShardsInit ==
    /\ shards = <<>>
    /\ deployed = 0

get_shard(name) == FirstNamed(shards, name)

\* What list prints: every row with the state its pid has now.
list_shards ==
    {[id |-> shards[i].id, state |-> StateOf(shards[i].pid)] : i \in DOMAIN shards}

\* Shard::save of the loaded record with the state it has now.
shard_save(c) ==
    shards' = Upsert(shards, [cmd[c].row EXCEPT !.pid = optional(cmd[c].state)])

-----------------------------------------------------------------------------
\* ShardBuilder::build: a new id, a random context id, not running.
build(name, cid) ==
    [id |-> deployed + 1, name |-> name, pid |-> NoPid, cid |-> cid]

\* shard_deploy: the row is saved before the files are there.  Nothing that is
\* read before the operator agrees is used here (Store follows the image).
shard_deploy(c, name) ==
    /\ deployed < MaxShards
    /\ deployed' = deployed + 1
    /\ \E cid \in Cids :
         /\ Begin(c, "shard deploy", "files", build(name, cid))
         /\ shards' = Append(shards, build(name, cid))
    /\ UNCHANGED procs

\* create_dir_all, hard_link, copy; whichever fails, the command ends.
Deploy(c) ==
    /\ At(c, "shard deploy", "files")
    /\ Finish(c)
    /\ UNCHANGED <<procs, ran, mishaps, shardVars>>

-----------------------------------------------------------------------------
\* A port belongs to the hypervisor that listens on it, or to the command
\* that has bound it and not forked yet.
PortBound(cid) ==
    \/ \E p \in DOMAIN procs : /\ Live(p)
                                /\ procs[p].kind = "shard"
                                /\ procs[p].row.cid = cid
    \/ \E c \in Cmds : /\ cmd[c].op = "shard run"
                       /\ cmd[c].pc \in {"fork", "hung"}
                       /\ cmd[c].row.cid = cid

\* The descriptor is not closed on exec: a machine that outlives its hypervisor
\* keeps the port bound.
PortInherited(cid) ==
    \E p \in DOMAIN procs : /\ ~Live(p)
                            /\ procs[p].kind = "shard"
                            /\ procs[p].row.cid = cid

\* shard_run: load, bind the port, fork, save.
shard_run(c, name) ==
    /\ \E row \in get_shard(name) : Begin(c, "shard run", "bind", row)
    /\ UNCHANGED <<procs, shardVars>>

\* Fault: the port is bound by the daemon, after the fork.
HypervisorUnbound(c) ==
    /\ At(c, "shard run", "bind")
    /\ Goto(c, "fork")
    /\ UNCHANGED <<procs, ran, mishaps, shardVars>>

HypervisorNew(c) ==
    /\ At(c, "shard run", "bind")
    /\ \/ ~PortBound(cmd[c].row.cid) /\ Goto(c, "fork")
       \/ (PortBound(cmd[c].row.cid) \/ PortInherited(cmd[c].row.cid)) /\ Finish(c)
    /\ UNCHANGED <<procs, ran, mishaps, shardVars>>

RunFork(c) ==
    /\ cmd[c].op = "shard run"
    /\ fork(c, "shard")
    /\ UNCHANGED shardVars

\* Fault: the pid is not saved.
RunUnsaved(c) ==
    /\ At(c, "shard run", "save")
    /\ Finish(c)
    /\ UNCHANGED <<procs, ran, mishaps, shardVars>>

RunSave(c) ==
    /\ At(c, "shard run", "save")
    /\ shard_save(c)
    /\ Finish(c)
    /\ UNCHANGED <<procs, ran, mishaps, deployed>>

\* stop_shard: load, ask, stop, save.
stop_shard(c, name) ==
    /\ \E row \in get_shard(name) : Begin(c, "shard stop", "confirm", row)
    /\ UNCHANGED <<procs, shardVars>>

shard_stop(c) ==
    /\ cmd[c].op = "shard stop"
    /\ Stop(c)
    /\ UNCHANGED shardVars

ShardStopSave(c) ==
    /\ At(c, "shard stop", "stopped")
    /\ shards' = Upsert(shards, [cmd[c].row EXCEPT !.pid = optional(Stopped)])
    /\ Finish(c)
    /\ UNCHANGED <<procs, ran, mishaps, deployed>>

\* shard_delete refuses a shard that runs when it is loaded.
shard_delete(c, name) ==
    /\ \E row \in get_shard(name) :
         /\ StateOf(row.pid).st # "Running"
         /\ Begin(c, "shard delete", "confirm delete", row)
    /\ UNCHANGED <<procs, shardVars>>

\* purge: first the row, then the directory.
PurgeRow(c) ==
    /\ At(c, "shard delete", "confirm delete")
    /\ shards' = Without(shards, cmd[c].row.id)
    /\ Goto(c, "purge")
    /\ UNCHANGED <<procs, ran, mishaps, deployed>>

PurgeFiles(c) ==
    /\ At(c, "shard delete", "purge")
    /\ Finish(c)
    /\ UNCHANGED <<procs, ran, mishaps, shardVars>>

-----------------------------------------------------------------------------
\* Hypervisor::run starts the machine and polls its own signalfd.
MachineUp(p) ==
    /\ procs[p].kind = "shard" /\ procs[p].st = "setup"
    /\ procs' = [procs EXCEPT ![p].st = "serving"]
    /\ UNCHANGED <<cmd, ran, mishaps, shardVars>>

\* SIGTERM: the machine is told to end and is waited for, however long.
MachineDown(p) ==
    /\ procs[p].kind = "shard" /\ procs[p].st = "serving"
    /\ procs[p].term
    /\ procs' = [procs EXCEPT ![p].st = "ending"]
    /\ UNCHANGED <<cmd, ran, mishaps, shardVars>>

ShardsNext ==
    \/ \E c \in Cmds, n \in ShardNames :
         \/ shard_deploy(c, n) \/ shard_run(c, n)
         \/ stop_shard(c, n) \/ shard_delete(c, n)
    \/ \E c \in Cmds : \/ Deploy(c) \/ HypervisorNew(c) \/ RunFork(c) \/ RunSave(c)
                       \/ shard_stop(c) \/ ShardStopSave(c)
                       \/ PurgeRow(c) \/ PurgeFiles(c)
    \/ \E p \in DOMAIN procs : MachineUp(p) \/ MachineDown(p)
=============================================================================
