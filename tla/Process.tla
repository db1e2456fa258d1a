------------------------------ MODULE Process ------------------------------
(* Processes and the commands that control them (process.rs, fork.rs and    *)
(* the parts of main.rs and cmd.rs every command runs through).             *)
(*                                                                           *)
(* `procs` lists every process a pid of the database may name: the daemons  *)
(* forked by commands, in the order they were forked, and the processes of  *)
(* others that were given a pid after it became free.  A command is a       *)
(* process of its own: `cmd` holds the step each one is about to take.      *)
EXTENDS Integers, Sequences, FiniteSets

CONSTANTS Cmds,          \* commands that may be in progress together
          Pids,          \* process ids of the system
          MaxProcs,      \* bound on processes started
          MaxStrangers,  \* bound on processes that are not daemons
          MaxCommands    \* bound on commands started

ASSUME ProcessAssumption ==
    /\ Pids \subseteq Nat \ {0}
    /\ {MaxProcs, MaxStrangers, MaxCommands} \subseteq Nat

VARIABLES procs,    \* sequence of processes
          cmd,      \* the commands in progress
          ran,      \* commands started
          mishaps   \* what has gone wrong or unusually so far (history)

processVars == <<procs, cmd, ran, mishaps>>

NoPid == 0
Daemons == {"bridge", "shard"}
Strangers == {"own", "root"}    \* started by the same user, by another user

Live(p) == procs[p].st # "dead"
Holder(pid) == {p \in DOMAIN procs : Live(p) /\ procs[p].pid = pid}

-----------------------------------------------------------------------------
\* ProcessState is not stored: a row's pid is checked whenever it is loaded.

Stopped == [st |-> "Stopped", pid |-> NoPid]
Running(pid) == [st |-> "Running", pid |-> pid]

\* kill(pid, 0): ESRCH, EPERM or success.
check(pid) ==
    IF Holder(pid) = {} THEN [st |-> "Dead", pid |-> pid]
    ELSE IF \E p \in Holder(pid) : procs[p].kind = "root"
         THEN [st |-> "PermissionDenied", pid |-> pid]
         ELSE Running(pid)

StateOf(pid) == IF pid = NoPid THEN Stopped ELSE check(pid)

optional(state) ==
    IF state.st \in {"Running", "PermissionDenied"} THEN state.pid ELSE NoPid

\* INSERT ... ON CONFLICT(id) DO UPDATE: a row that was deleted since it was
\* loaded is inserted again, at the end of the table.
Upsert(table, row) ==
    IF \E i \in DOMAIN table : table[i].id = row.id
    THEN [i \in DOMAIN table |-> IF table[i].id = row.id THEN row ELSE table[i]]
    ELSE Append(table, row)

\* DELETE ... WHERE id = ?: the primary key, so that at most one row goes.
Without(table, id) ==
    IF \E i \in DOMAIN table : table[i].id = id
    THEN LET gone == CHOOSE i \in DOMAIN table : table[i].id = id
         IN  [k \in 1..(Len(table) - 1) |-> table[IF k < gone THEN k ELSE k + 1]]
    ELSE table

\* Names are not unique: a query by name takes the first row it meets.
FirstNamed(table, name) ==
    {table[i] : i \in {j \in DOMAIN table :
        /\ table[j].name = name
        /\ \A k \in 1..(j - 1) : table[k].name # name}}

-----------------------------------------------------------------------------
NoRow == [id |-> 0, name |-> "", pid |-> NoPid, cid |-> 0]
Idle == [op |-> "none", pc |-> "idle", row |-> NoRow, state |-> Stopped,
         i |-> 0, seen |-> 0]

Busy(c) == cmd[c].pc # "idle"
At(c, op, pc) == cmd[c].op = op /\ cmd[c].pc = pc
Goto(c, pc) == cmd' = [cmd EXCEPT ![c].pc = pc]
Finish(c) == cmd' = [cmd EXCEPT ![c] = Idle]

\* A command starts, with the row it has loaded.  `seen` remembers the
\* process that row stood for.
Begin(c, op, pc, row) ==
    /\ ~Busy(c)
    /\ ran < MaxCommands
    /\ ran' = ran + 1
    /\ cmd' = [cmd EXCEPT ![c] =
         [op |-> op, pc |-> pc, row |-> row, state |-> StateOf(row.pid), i |-> 0,
          seen |-> IF Holder(row.pid) = {} THEN 0
                   ELSE CHOOSE p \in Holder(row.pid) : TRUE]]
    /\ mishaps' = mishaps \cup
         (IF \E d \in Cmds \ {c} : Busy(d) THEN {"overlap"} ELSE {})

\* The operator answers no.
Cancel(c) ==
    /\ cmd[c].pc \in {"confirm", "confirm delete"}
    /\ Finish(c)
    /\ UNCHANGED <<procs, ran, mishaps>>

\* The command ends before its last step: it is killed, or one of its saves
\* fails and it returns the error.
Crash(c) ==
    /\ Busy(c)
    /\ "crash" \notin mishaps
    /\ mishaps' = mishaps \cup {"crash"}
    /\ Finish(c)
    /\ UNCHANGED <<procs, ran>>

\* Device::stop and Shard::stop act on the state that was loaded.
Stop(c) ==
    /\ cmd[c].pc = "confirm"
    /\ \/ cmd[c].state.st = "Running" /\ Goto(c, "check")
       \/ cmd[c].state.st \in {"Dead", "Stopped"} /\ Goto(c, "stopped")
       \/ cmd[c].state.st = "PermissionDenied" /\ Finish(c)
    /\ UNCHANGED <<procs, ran, mishaps>>

-----------------------------------------------------------------------------
\* process::stop: check, signal, sleep, and again; SIGKILL at the fourth round.

\* Fault: after the polite signal the process is taken to be gone.
CheckOnce(c) ==
    /\ cmd[c].pc = "check"
    /\ Goto(c, IF check(cmd[c].state.pid).st = "Running" /\ cmd[c].i = 0
               THEN "signal" ELSE "stopped")
    /\ UNCHANGED <<procs, ran, mishaps>>

Check(c) ==
    /\ cmd[c].pc = "check"
    /\ LET s == check(cmd[c].state.pid) IN
       \/ s.st = "Dead" /\ Goto(c, "stopped")
       \/ s.st = "PermissionDenied" /\ Finish(c)
       \/ s.st = "Running" /\ cmd[c].i = 4 /\ Finish(c)
       \/ s.st = "Running" /\ cmd[c].i < 4 /\ Goto(c, "signal")
    /\ UNCHANGED <<procs, ran, mishaps>>

\* Daemons are forked with SIGTERM blocked and read it from a signalfd.
Deliver(proc, signal) ==
    IF signal = "SIGTERM" /\ proc.kind \in Daemons
    THEN [proc EXCEPT !.term = TRUE]
    ELSE [proc EXCEPT !.st = "dead"]

\* Fault: the forced signal is never sent and rounds are not counted.
SignalPolitely(c) ==
    /\ cmd[c].pc = "signal"
    /\ LET targets == {p \in Holder(cmd[c].state.pid) : procs[p].kind # "root"} IN
       \/ targets = {} /\ Finish(c) /\ UNCHANGED procs
       \/ \E p \in targets :
            /\ procs' = [procs EXCEPT ![p] = Deliver(@, "SIGTERM")]
            /\ Goto(c, "check")
    /\ UNCHANGED <<ran, mishaps>>

Signal(c) ==
    /\ cmd[c].pc = "signal"
    /\ LET targets == {p \in Holder(cmd[c].state.pid) : procs[p].kind # "root"} IN
       \/ targets = {} /\ Finish(c) /\ UNCHANGED procs
       \/ \E p \in targets :
            /\ procs' = [procs EXCEPT
                 ![p] = Deliver(@, IF cmd[c].i = 3 THEN "SIGKILL" ELSE "SIGTERM")]
            /\ cmd' = [cmd EXCEPT ![c].pc = "check", ![c].i = @ + 1]
    /\ UNCHANGED <<ran, mishaps>>

-----------------------------------------------------------------------------
FreePids == {pid \in Pids : Holder(pid) = {}}

run_grandchild(pid, kind, row) ==
    [pid |-> pid, kind |-> kind, row |-> row, st |-> "setup", term |-> FALSE]

\* The daemon runs before the command has its pid.  Starting what was seen to
\* run when it was loaded is allowed, and remembered.
fork(c, kind) ==
    /\ cmd[c].pc = "fork"
    /\ Len(procs) < MaxProcs
    /\ \E pid \in FreePids :
         /\ procs' = Append(procs, run_grandchild(pid, kind, cmd[c].row))
         /\ cmd' = [cmd EXCEPT ![c].pc = "save", ![c].state = Running(pid)]
    /\ mishaps' = mishaps \cup
         (IF cmd[c].state.st = "Running" THEN {"double"} ELSE {})
    /\ UNCHANGED ran

\* The first child ends without writing a pid.  The command waits for it on
\* a pipe whose other end it holds itself.
run_child_fails(c) ==
    /\ cmd[c].pc = "fork"
    /\ Goto(c, "hung")
    /\ UNCHANGED <<procs, ran, mishaps>>

\* The daemon has returned: it sleeps for a second and exits.
Exit(p) ==
    /\ procs[p].st = "ending"
    /\ procs' = [procs EXCEPT ![p].st = "dead"]
    /\ UNCHANGED <<cmd, ran, mishaps>>

\* A process ends by itself: an error, a panic, the end of a program.
Die(p) ==
    /\ Live(p)
    /\ procs' = [procs EXCEPT ![p].st = "dead"]
    /\ UNCHANGED <<cmd, ran, mishaps>>

\* The system gives a free pid to a process of somebody else.
ReusePid(pid) ==
    /\ pid \in FreePids
    /\ Len(procs) < MaxProcs
    /\ Cardinality({p \in DOMAIN procs : procs[p].kind \in Strangers}) < MaxStrangers
    /\ \E p \in DOMAIN procs : procs[p].pid = pid
    /\ \E kind \in Strangers :
         procs' = Append(procs, [run_grandchild(pid, kind, NoRow)
                                   EXCEPT !.st = "serving"])
    /\ UNCHANGED <<cmd, ran, mishaps>>

ProcessInit ==
    /\ procs = <<>>
    /\ cmd = [c \in Cmds |-> Idle]
    /\ ran = 0
    /\ mishaps = {}

ProcessNext ==
    \/ \E c \in Cmds : Cancel(c) \/ Crash(c) \/ Check(c) \/ Signal(c)
                       \/ run_child_fails(c)
    \/ \E p \in DOMAIN procs : Exit(p) \/ Die(p)
    \/ \E pid \in Pids : ReusePid(pid)
=============================================================================
