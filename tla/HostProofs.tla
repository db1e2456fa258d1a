----------------------------- MODULE HostProofs -----------------------------
(***************************************************************************)
(* The safety properties of module Host, for any number of commands, pids, *)
(* names and processes.                                                    *)
(*                                                                         *)
(* IInv holds whatever happens: it gives ShardExclusive (the commands that *)
(* hold a port count with the daemons) and StopIsTruthful (a command asks  *)
(* for the pid of the process its row stood for, so an answer of "gone"    *)
(* is about that process).  Undisturbed holds on top of it as long as      *)
(* `mishaps` is empty: the one busy command acts on a row that is still    *)
(* listed, and every daemon has its row, its own pid in it and nobody      *)
(* beside it.  It gives DaemonsListed and ServingReachable.                *)
(*                                                                         *)
(* Every action is reduced to a few shapes (Aged, Spawned, Ends, MovesTo)  *)
(* for which IInv and Calm are shown once.                                 *)
(***************************************************************************)
EXTENDS Host, TLAPS

(* What a step does to the processes and to a command, whichever action it   *)
(* is: the lemmas below are about these shapes.                              *)

\* The processes are the same ones; some may have advanced or died.
Aged ==
    /\ procs' \in Seq(Procs) /\ Len(procs') = Len(procs)
    /\ \A p \in 1..Len(procs) :
         /\ procs'[p].pid = procs[p].pid /\ procs'[p].kind = procs[p].kind
         /\ procs'[p].row = procs[p].row
         /\ procs'[p].st # "dead" => procs[p].st # "dead"

\* One more process runs, under a pid nobody had.
Spawned(new) ==
    /\ new \in Procs /\ Holder(new.pid) = {}
    /\ procs' = Append(procs, new)

\* Only command c changes ...
Others(c) ==
    /\ cmd' \in [Cmds -> Commands]
    /\ \A d \in Cmds \ {c} : cmd'[d] = cmd[d]

\* ... it ends, or goes on to a step with what it has loaded.
Ends(c) == Others(c) /\ cmd'[c] = Idle

MovesTo(c, step) ==
    /\ Others(c)
    /\ cmd'[c].pc = step /\ cmd'[c].op = cmd[c].op /\ cmd'[c].row = cmd[c].row
    /\ cmd'[c].state = cmd[c].state /\ cmd'[c].seen = cmd[c].seen

\* The tables after a step are well formed, and ids only grow.
TablesKept ==
    /\ devices' \in Seq(Rows) /\ created' \in Nat /\ created <= created'
    /\ shards' \in Seq(Rows) /\ deployed' \in Nat /\ deployed <= deployed'
    /\ Keyed(devices', BridgeNames, created')
    /\ Keyed(shards', ShardNames, deployed')

RestTyped ==
    /\ ran' \in Nat /\ mishaps' \subseteq {"overlap", "crash", "double"}
    /\ sock' \in [BridgeNames -> Nat]

\* The idle command is well typed.
LEMMA IdleTyped == Idle \in Commands /\ NoRow \in Rows /\ Stopped \in States
<1>1. NoRow \in Rows /\ Stopped \in States
    BY DEF NoRow, Rows, Stopped, States
<1> QED BY <1>1 DEF Idle, Commands, Steps, NoPid

\* Finish ends the command.
LEMMA FinishEnds ==
    ASSUME TypeOK, NEW c \in Cmds, Finish(c)
    PROVE  Ends(c)
BY IdleTyped DEF TypeOK, Finish, Ends, Others

\* Goto moves the command to the step.
LEMMA GotoMoves ==
    ASSUME TypeOK, NEW c \in Cmds, NEW step \in Steps, Goto(c, step)
    PROVE  MovesTo(c, step)
<1>1. cmd' = [cmd EXCEPT ![c] = [cmd[c] EXCEPT !.pc = step]]
    BY DEF Goto
<1>2. cmd[c] \in Commands
    BY DEF TypeOK
<1> DEFINE k == [cmd[c] EXCEPT !.pc = step]
<1>3. /\ k \in Commands /\ k.pc = step /\ k.op = cmd[c].op /\ k.row = cmd[c].row
      /\ k.state = cmd[c].state /\ k.seen = cmd[c].seen
    BY <1>2 DEF Commands
<1> HIDE DEF k
<1>4. cmd' = [cmd EXCEPT ![c] = k]
    BY <1>1 DEF k
<1> QED BY <1>3, <1>4 DEF TypeOK, MovesTo, Others

\* The index range of the processes.
LEMMA Indices ==
    ASSUME TypeOK
    PROVE  /\ procs \in Seq(Procs) /\ Len(procs) \in Nat
           /\ DOMAIN procs = 1..Len(procs)
           /\ \A p \in 1..Len(procs) : procs[p] \in Procs
BY DEF TypeOK

\* A step that starts no process keeps their numbers.
LEMMA AgedIndices ==
    ASSUME TypeOK, Aged
    PROVE  DOMAIN procs' = DOMAIN procs /\ DOMAIN procs = 1..Len(procs)
BY Indices DEF Aged

\* Tables that no step touches.
LEMMA SameTables ==
    ASSUME IInv, UNCHANGED <<devices, created, shards, deployed>>
    PROVE  TablesKept
BY DEF IInv, TypeOK, RowsKeyed, TablesKept

-----------------------------------------------------------------------------
(* The parts of IInv under steps that start no process. *)

\* As processes only end, pids stay unique.
LEMMA PidsAged ==
    ASSUME TypeOK, PidsUnique, Aged
    PROVE  PidsUnique'
BY Indices DEF PidsUnique, Aged, Live

\* No command gets hold of a port and no process appears.
LEMMA PortsAged ==
    ASSUME TypeOK, PortsExclusive, Aged,
           \A d \in Cmds : HoldsPort(d)' => HoldsPort(d) /\ cmd'[d].row = cmd[d].row
    PROVE  PortsExclusive'
<1>1. DOMAIN procs' = 1..Len(procs) /\ DOMAIN procs = 1..Len(procs)
    BY Indices DEF Aged
<1>2. ShardExclusive'
    BY <1>1 DEF PortsExclusive, ShardExclusive, Aged, Live
<1>3. \A d, e \in Cmds :
         HoldsPort(d)' /\ HoldsPort(e)' /\ cmd'[d].row.cid = cmd'[e].row.cid => d = e
    BY DEF PortsExclusive
<1>4. \A d \in Cmds, p \in DOMAIN procs' :
         HoldsPort(d)' /\ procs'[p].st # "dead" /\ procs'[p].kind = "shard"
             => procs'[p].row.cid # cmd'[d].row.cid
    BY <1>1 DEF PortsExclusive, Aged, Live
<1> QED BY <1>2, <1>3, <1>4 DEF PortsExclusive, Live

\* No command starts to stop another process, and one that has stopped its
\* process has seen it gone.
LEMMA SeenAged ==
    ASSUME TypeOK, StopsWhatWasSeen, Aged,
           \A d \in Cmds : cmd'[d].seen # 0 =>
               /\ cmd'[d].seen = cmd[d].seen /\ cmd'[d].state = cmd[d].state
               /\ cmd'[d].pc \in {"confirm", "check", "signal"} =>
                      cmd[d].pc \in {"confirm", "check", "signal"}
               /\ cmd'[d].pc = "stopped" => cmd[d].pc = "stopped" \/ ~Live(cmd[d].seen)
    PROVE  StopsWhatWasSeen'
<1>1. DOMAIN procs' = 1..Len(procs) /\ DOMAIN procs = 1..Len(procs)
    BY Indices DEF Aged
<1>2. ASSUME NEW d \in Cmds, cmd'[d].seen # 0
      PROVE  /\ cmd'[d].seen \in DOMAIN procs'
             /\ cmd'[d].pc = "stopped" => procs'[cmd'[d].seen].st = "dead"
             /\ cmd'[d].pc \in {"confirm", "check", "signal"} =>
                  /\ procs'[cmd'[d].seen].pid = cmd'[d].state.pid
                  /\ cmd'[d].state.st \in {"Running", "PermissionDenied"}
    <2>1. cmd[d].seen \in DOMAIN procs
        BY <1>2 DEF StopsWhatWasSeen
    <2>2. cmd[d].pc = "stopped" => ~Live(cmd[d].seen)
        BY <1>2 DEF StopsWhatWasSeen, StopIsTruthful
    <2>3. cmd'[d].pc = "stopped" => procs'[cmd'[d].seen].st = "dead"
        BY <1>1, <1>2, <2>1, <2>2 DEF Aged, Live
    <2>4. cmd[d].pc \in {"confirm", "check", "signal"} =>
                  /\ procs[cmd[d].seen].pid = cmd[d].state.pid
                  /\ cmd[d].state.st \in {"Running", "PermissionDenied"}
        BY <1>2 DEF StopsWhatWasSeen
    <2> QED BY <1>1, <1>2, <2>1, <2>3, <2>4 DEF Aged
<1>3. StopIsTruthful'
    BY <1>2 DEF StopIsTruthful, Live
<1> QED BY <1>2, <1>3 DEF StopsWhatWasSeen

\* Commands keep their row or end.
LEMMA RowsAged ==
    ASSUME TypeOK, RowsKeyed, Aged, TablesKept,
           \A d \in Cmds : \/ cmd'[d].op = "none"
                           \/ cmd'[d].op = cmd[d].op /\ cmd'[d].row = cmd[d].row
    PROVE  RowsKeyed'
<1>1. Keyed(devices', BridgeNames, created') /\ Keyed(shards', ShardNames, deployed')
    BY DEF TablesKept
<1>2. ASSUME NEW d \in Cmds
      PROVE  /\ cmd'[d].op \in BridgeOps => cmd'[d].row.id \in 1..created'
                                            /\ cmd'[d].row.name \in BridgeNames
             /\ cmd'[d].op \in ShardOps => cmd'[d].row.id \in 1..deployed'
                                           /\ cmd'[d].row.name \in ShardNames
    <2>1. /\ created \in Nat /\ created' \in Nat /\ created <= created'
          /\ deployed \in Nat /\ deployed' \in Nat /\ deployed <= deployed'
        BY DEF TablesKept, TypeOK
    <2>2. CASE cmd'[d].op = "none"
        BY <2>2 DEF BridgeOps, ShardOps
    <2>3. CASE cmd'[d].op = cmd[d].op /\ cmd'[d].row = cmd[d].row
        <3>1. /\ cmd[d].op \in BridgeOps => cmd[d].row.id \in 1..created
                                            /\ cmd[d].row.name \in BridgeNames
              /\ cmd[d].op \in ShardOps => cmd[d].row.id \in 1..deployed
                                           /\ cmd[d].row.name \in ShardNames
            BY DEF RowsKeyed
        <3> QED BY <2>1, <2>3, <3>1
    <2> QED BY <2>2, <2>3
<1>3. \A p \in DOMAIN procs' :
         procs'[p].kind = "bridge" => procs'[p].row.name \in BridgeNames
    BY Indices DEF Aged, RowsKeyed
<1> QED BY <1>1, <1>2, <1>3 DEF RowsKeyed

\* A step that starts no process and no command, binds no port, and ends a
\* stop only when the process is gone, preserves the invariant.
LEMMA OrdinaryStep ==
    ASSUME IInv, NEW c, Aged, TablesKept, RestTyped,
           \/ Ends(c)
           \/ \E step \in StepsOf(cmd[c].op) :
                 /\ MovesTo(c, step)
                 /\ step \in {"confirm", "check", "signal"} =>
                        cmd[c].pc \in {"confirm", "check", "signal"}
                 /\ step = "stopped" => cmd[c].seen = 0 \/ ~Live(cmd[c].seen)
                 /\ step \in {"fork", "hung"} => cmd[c].pc \in {"fork", "hung"}
           \/ UNCHANGED cmd
    PROVE  IInv'
<1>1. cmd' \in [Cmds -> Commands]
    BY DEF Ends, MovesTo, Others, IInv, TypeOK
<1>0. Idle.op = "none" /\ Idle.pc = "idle" /\ Idle.seen = 0
    BY DEF Idle
<1>2. ASSUME NEW d \in Cmds
      PROVE  \/ cmd'[d] = Idle
             \/ cmd'[d] = cmd[d]
             \/ /\ cmd'[d].pc \in StepsOf(cmd[d].op)
                /\ cmd'[d].op = cmd[d].op /\ cmd'[d].row = cmd[d].row
                /\ cmd'[d].state = cmd[d].state /\ cmd'[d].seen = cmd[d].seen
                /\ cmd'[d].pc \in {"confirm", "check", "signal"} =>
                        cmd[d].pc \in {"confirm", "check", "signal"}
                /\ cmd'[d].pc = "stopped" => cmd[d].seen = 0 \/ ~Live(cmd[d].seen)
                /\ cmd'[d].pc \in {"fork", "hung"} => cmd[d].pc \in {"fork", "hung"}
    BY DEF Ends, MovesTo, Others
<1>3. TypeOK'
    BY <1>1 DEF TypeOK, Aged, TablesKept, RestTyped
<1>4. PidsUnique'
    BY PidsAged DEF IInv
<1>5. PortsExclusive'
    <2>1. \A d \in Cmds : HoldsPort(d)' => HoldsPort(d) /\ cmd'[d].row = cmd[d].row
        <3> SUFFICES ASSUME NEW d \in Cmds, HoldsPort(d)'
                     PROVE  HoldsPort(d) /\ cmd'[d].row = cmd[d].row
            OBVIOUS
        <3>1. cmd'[d].op = "shard run" /\ cmd'[d].pc \in {"fork", "hung"}
            BY DEF HoldsPort
        <3> QED BY ONLY <1>0, <1>2, <3>1 DEF HoldsPort
    <2> QED BY <2>1, PortsAged DEF IInv
<1>6. StopsWhatWasSeen'
    <2>1. \A d \in Cmds : cmd'[d].seen # 0 =>
               /\ cmd'[d].seen = cmd[d].seen /\ cmd'[d].state = cmd[d].state
               /\ cmd'[d].pc \in {"confirm", "check", "signal"} =>
                      cmd[d].pc \in {"confirm", "check", "signal"}
               /\ cmd'[d].pc = "stopped" => cmd[d].pc = "stopped" \/ ~Live(cmd[d].seen)
        BY <1>2 DEF Idle
    <2> QED BY <2>1, SeenAged DEF IInv
<1>7. KeepsToItsSteps'
    <2>1. StepsOf("none") = {"idle"}
        BY DEF StepsOf
    <2>2. \A d \in Cmds : cmd[d].pc \in StepsOf(cmd[d].op)
        BY DEF IInv, KeepsToItsSteps
    <2>3. \A d \in Cmds : cmd'[d].pc \in StepsOf(cmd'[d].op)
        BY ONLY <1>0, <1>2, <2>1, <2>2
    <2> QED BY ONLY <2>3 DEF KeepsToItsSteps
<1>8. RowsKeyed'
    <2>1. \A d \in Cmds : \/ cmd'[d].op = "none"
                          \/ cmd'[d].op = cmd[d].op /\ cmd'[d].row = cmd[d].row
        BY <1>2 DEF Idle
    <2> QED BY <2>1, RowsAged DEF IInv
<1> QED BY <1>3, <1>4, <1>5, <1>6, <1>7, <1>8 DEF IInv

-----------------------------------------------------------------------------
(* The operations on the tables. *)

\* A function on 1..n is a sequence of length n.
LEMMA IsSequence ==
    ASSUME NEW S, NEW n \in Nat, NEW f \in [1..n -> S]
    PROVE  f \in Seq(S) /\ Len(f) = n /\ DOMAIN f = 1..n
OBVIOUS

\* INSERT of a row with a new id.
LEMMA AppendKeyed ==
    ASSUME NEW t \in Seq(Rows), NEW names, NEW last \in Nat, Keyed(t, names, last),
           NEW row \in Rows, row.id = last + 1, row.name \in names
    PROVE  Append(t, row) \in Seq(Rows) /\ Keyed(Append(t, row), names, last + 1)
<1> DEFINE u == Append(t, row)
<1>1. /\ u \in Seq(Rows) /\ Len(u) = Len(t) + 1 /\ Len(t) \in Nat
      /\ u[Len(t) + 1] = row /\ \A i \in 1..Len(t) : u[i] = t[i]
      /\ DOMAIN u = 1..(Len(t) + 1) /\ DOMAIN t = 1..Len(t)
    OBVIOUS
<1> HIDE DEF u
<1>2. \A i \in 1..Len(t) : t[i].id \in 1..last /\ t[i].name \in names
    BY <1>1 DEF Keyed
<1>3. \A i \in DOMAIN u : u[i].id \in 1..(last + 1) /\ u[i].name \in names
    BY <1>1, <1>2
<1>4. ASSUME NEW i \in DOMAIN u, NEW j \in DOMAIN u, u[i].id = u[j].id
      PROVE  i = j
    <2>1. CASE i = Len(t) + 1 /\ j \in 1..Len(t)
        BY <1>1, <1>2, <1>4, <2>1
    <2>2. CASE j = Len(t) + 1 /\ i \in 1..Len(t)
        BY <1>1, <1>2, <1>4, <2>2
    <2>3. CASE i \in 1..Len(t) /\ j \in 1..Len(t)
        BY <1>1, <1>4, <2>3 DEF Keyed
    <2> QED BY <1>1, <1>4, <2>1, <2>2, <2>3
<1>5. Keyed(u, names, last + 1)
    BY <1>3, <1>4 DEF Keyed
<1> QED BY <1>1, <1>5 DEF u

\* What the table is after an UPSERT of a row that may or may not be there.
LEMMA UpsertShape ==
    ASSUME NEW t \in Seq(Rows), NEW row \in Rows
    PROVE  /\ Upsert(t, row) \in Seq(Rows)
           /\ (\E i \in DOMAIN t : t[i].id = row.id) =>
                 /\ DOMAIN Upsert(t, row) = DOMAIN t
                 /\ \A i \in DOMAIN t :
                      Upsert(t, row)[i] = IF t[i].id = row.id THEN row ELSE t[i]
           /\ ~(\E i \in DOMAIN t : t[i].id = row.id) => Upsert(t, row) = Append(t, row)
<1>1. DOMAIN t = 1..Len(t) /\ Len(t) \in Nat
    OBVIOUS
<1>2. CASE \E i \in DOMAIN t : t[i].id = row.id
    <2> DEFINE f == [i \in 1..Len(t) |-> IF t[i].id = row.id THEN row ELSE t[i]]
    <2>1. Upsert(t, row) = f
        BY <1>1, <1>2 DEF Upsert
    <2>2. f \in [1..Len(t) -> Rows]
        OBVIOUS
    <2>3. f \in Seq(Rows) /\ DOMAIN f = 1..Len(t)
        BY <1>1, <2>2, IsSequence
    <2> QED BY <1>1, <1>2, <2>1, <2>3
<1>3. CASE ~(\E i \in DOMAIN t : t[i].id = row.id)
    <2>1. Upsert(t, row) = Append(t, row)
        BY <1>3 DEF Upsert
    <2> QED BY <1>3, <2>1
<1> QED BY <1>2, <1>3

\* Saving a row that was loaded keeps the ids unique.
LEMMA UpsertKeyed ==
    ASSUME NEW t \in Seq(Rows), NEW names, NEW last \in Nat, Keyed(t, names, last),
           NEW row \in Rows, row.id \in 1..last, row.name \in names
    PROVE  Upsert(t, row) \in Seq(Rows) /\ Keyed(Upsert(t, row), names, last)
<1> DEFINE u == Upsert(t, row)
<1>1. u \in Seq(Rows)
    BY UpsertShape
<1>2. CASE \E i \in DOMAIN t : t[i].id = row.id
    <2>1. /\ DOMAIN u = DOMAIN t
          /\ \A i \in DOMAIN t : u[i] = IF t[i].id = row.id THEN row ELSE t[i]
        BY <1>2, UpsertShape
    <2> HIDE DEF u
    <2>2. \A i \in DOMAIN t : u[i].id = t[i].id /\ u[i].name \in names
        BY <2>1 DEF Keyed
    <2>3. Keyed(u, names, last)
        BY <2>1, <2>2 DEF Keyed
    <2> QED BY <1>1, <2>3 DEF u
<1>3. CASE ~\E i \in DOMAIN t : t[i].id = row.id
    <2>1. u = Append(t, row)
        BY <1>3, UpsertShape
    <2> HIDE DEF u
    <2>2. /\ Len(t) \in Nat /\ u[Len(t) + 1] = row /\ \A i \in 1..Len(t) : u[i] = t[i]
          /\ DOMAIN u = 1..(Len(t) + 1) /\ DOMAIN t = 1..Len(t)
        BY <2>1
    <2>3. \A i \in DOMAIN u : u[i].id \in 1..last /\ u[i].name \in names
        BY <2>2 DEF Keyed
    <2>4. ASSUME NEW i \in DOMAIN u, NEW j \in DOMAIN u, u[i].id = u[j].id
          PROVE  i = j
        <3>1. CASE i = Len(t) + 1 /\ j \in 1..Len(t)
            BY <1>3, <2>2, <2>4, <3>1
        <3>2. CASE j = Len(t) + 1 /\ i \in 1..Len(t)
            BY <1>3, <2>2, <2>4, <3>2
        <3>3. CASE i \in 1..Len(t) /\ j \in 1..Len(t)
            BY <2>2, <2>4, <3>3 DEF Keyed
        <3> QED BY <2>2, <2>4, <3>1, <3>2, <3>3
    <2>5. Keyed(u, names, last)
        BY <2>3, <2>4 DEF Keyed
    <2> QED BY <1>1, <2>5 DEF u
<1> QED BY <1>2, <1>3

\* What the table is after a DELETE: the rows behind the one that goes move up.
LEMMA WithoutShape ==
    ASSUME NEW t \in Seq(Rows), NEW id
    PROVE  /\ Without(t, id) \in Seq(Rows)
           /\ \/ Without(t, id) = t /\ \A i \in DOMAIN t : t[i].id # id
              \/ \E gone \in 1..Len(t) :
                   /\ t[gone].id = id
                   /\ DOMAIN Without(t, id) = 1..(Len(t) - 1)
                   /\ \A k \in 1..(Len(t) - 1) :
                        Without(t, id)[k] = t[IF k < gone THEN k ELSE k + 1]
<1>1. DOMAIN t = 1..Len(t) /\ Len(t) \in Nat
    OBVIOUS
<1>2. CASE \E i \in DOMAIN t : t[i].id = id
    <2> DEFINE gone == CHOOSE i \in DOMAIN t : t[i].id = id
               f == [k \in 1..(Len(t) - 1) |-> t[IF k < gone THEN k ELSE k + 1]]
    <2>1. Without(t, id) = f
        BY <1>2 DEF Without
    <2>2. gone \in 1..Len(t) /\ t[gone].id = id
        BY <1>1, <1>2
    <2> HIDE DEF gone
    <2>3. Len(t) - 1 \in Nat
        BY <1>1, <2>2
    <2>4. f \in [1..(Len(t) - 1) -> Rows]
        BY <1>1, <2>2
    <2>5. f \in Seq(Rows) /\ DOMAIN f = 1..(Len(t) - 1)
        BY <2>3, <2>4, IsSequence
    <2> QED BY <2>1, <2>2, <2>5
<1>3. CASE ~\E i \in DOMAIN t : t[i].id = id
    BY <1>3 DEF Without
<1> QED BY <1>2, <1>3

\* Deleting a row keeps the ids unique.
LEMMA WithoutKeyed ==
    ASSUME NEW t \in Seq(Rows), NEW names, NEW last \in Nat, Keyed(t, names, last), NEW id
    PROVE  Without(t, id) \in Seq(Rows) /\ Keyed(Without(t, id), names, last)
<1> DEFINE u == Without(t, id)
<1>1. /\ u \in Seq(Rows)
      /\ \/ u = t
         \/ \E gone \in 1..Len(t) :
              /\ DOMAIN u = 1..(Len(t) - 1)
              /\ \A k \in 1..(Len(t) - 1) : u[k] = t[IF k < gone THEN k ELSE k + 1]
    BY WithoutShape
<1> HIDE DEF u
<1>2. CASE \E gone \in 1..Len(t) :
              /\ DOMAIN u = 1..(Len(t) - 1)
              /\ \A k \in 1..(Len(t) - 1) : u[k] = t[IF k < gone THEN k ELSE k + 1]
    <2>1. PICK gone \in 1..Len(t) :
              /\ DOMAIN u = 1..(Len(t) - 1)
              /\ \A k \in 1..(Len(t) - 1) : u[k] = t[IF k < gone THEN k ELSE k + 1]
        BY <1>2
    <2>2. DOMAIN t = 1..Len(t) /\ Len(t) \in Nat
        OBVIOUS
    <2> DEFINE old(k) == IF k < gone THEN k ELSE k + 1
    <2>3. \A k \in 1..(Len(t) - 1) : old(k) \in 1..Len(t) /\ u[k] = t[old(k)]
        BY <2>1, <2>2
    <2>4. \A k, l \in 1..(Len(t) - 1) : old(k) = old(l) => k = l
        BY ONLY <2>2, gone \in 1..Len(t)
    <2> HIDE DEF old
    <2>5. Keyed(u, names, last)
        <3>1. \A k \in DOMAIN u : u[k].id \in 1..last /\ u[k].name \in names
            BY <2>1, <2>2, <2>3 DEF Keyed
        <3>2. ASSUME NEW k \in DOMAIN u, NEW l \in DOMAIN u, u[k].id = u[l].id
              PROVE  k = l
            <4>1. old(k) = old(l)
                BY <2>1, <2>2, <2>3, <3>2 DEF Keyed
            <4> QED BY <2>1, <2>4, <3>2, <4>1
        <3> QED BY <3>1, <3>2 DEF Keyed
    <2> QED BY <1>1, <2>5 DEF u
<1>3. CASE u = t
    BY <1>3 DEF u
<1> QED BY <1>1, <1>2, <1>3

-----------------------------------------------------------------------------
(* Steps that start a command or a process. *)

\* What a row's pid stands for when the row is loaded.
LEMMA StateFacts ==
    ASSUME TypeOK, NEW pid \in Pids \cup {NoPid}
    PROVE  /\ StateOf(pid) \in States /\ StateOf(pid).pid = pid
           /\ Holder(pid) # {} => StateOf(pid).st \in {"Running", "PermissionDenied"}
           /\ check(pid).st = "Dead" => Holder(pid) = {}
           /\ Holder(pid) \subseteq DOMAIN procs
<1>1. Holder(NoPid) = {} /\ NoPid \notin Pids
    BY Indices, ProcessAssumption DEF Holder, NoPid, Procs
<1>2. CASE pid = NoPid
    <2>1. StateOf(pid) = Stopped
        BY <1>2 DEF StateOf
    <2>2. check(pid).st = "Dead" => Holder(pid) = {}
        BY <1>1, <1>2
    <2> QED BY <1>1, <1>2, <2>1, <2>2 DEF Stopped, States, NoPid, Holder
<1>3. CASE pid \in Pids
    <2>1. StateOf(pid) = check(pid)
        BY <1>1, <1>3 DEF StateOf
    <2>2. \/ Holder(pid) = {} /\ check(pid) = [st |-> "Dead", pid |-> pid]
          \/ Holder(pid) # {} /\ check(pid) = [st |-> "PermissionDenied", pid |-> pid]
          \/ Holder(pid) # {} /\ check(pid) = [st |-> "Running", pid |-> pid]
        BY DEF check, Running
    <2>3. Holder(pid) \subseteq DOMAIN procs
        BY DEF Holder
    <2> QED BY <1>3, <2>1, <2>2, <2>3 DEF States
<1> QED BY <1>2, <1>3

\* Begin: the command remembers the row, its state and the process behind it.
LEMMA BeginFacts ==
    ASSUME TypeOK, NEW c \in Cmds, NEW op \in BridgeOps \cup ShardOps,
           NEW step \in Steps, NEW row \in Rows, Begin(c, op, step, row)
    PROVE  /\ Others(c)
           /\ cmd'[c].op = op /\ cmd'[c].pc = step /\ cmd'[c].row = row
           /\ cmd'[c].state = StateOf(row.pid)
           /\ cmd'[c].seen # 0 => cmd'[c].seen \in Holder(row.pid)
<1> DEFINE seen == IF Holder(row.pid) = {} THEN 0
                   ELSE CHOOSE p \in Holder(row.pid) : TRUE
           k == [op |-> op, pc |-> step, row |-> row, state |-> StateOf(row.pid),
                 i |-> 0, seen |-> seen]
<1>1. cmd' = [cmd EXCEPT ![c] = k]
    BY DEF Begin
<1>2. row.pid \in Pids \cup {NoPid}
    BY DEF Rows
<1>3. StateOf(row.pid) \in States /\ Holder(row.pid) \subseteq DOMAIN procs
    BY <1>2, StateFacts
<1>4. seen # 0 => seen \in Holder(row.pid)
    OBVIOUS
<1>5. seen \in Nat
    BY <1>3, <1>4, Indices
<1> HIDE DEF seen
<1>6. /\ k \in Commands /\ k.op = op /\ k.pc = step /\ k.row = row
      /\ k.state = StateOf(row.pid) /\ k.seen = seen
    BY <1>3, <1>5 DEF Commands
<1> HIDE DEF k
<1> QED BY <1>1, <1>4, <1>6 DEF TypeOK, Others

\* The steps of an operation.
LEMMA StepsTyped ==
    ASSUME NEW op \in BridgeOps \cup ShardOps
    PROVE  StepsOf(op) \subseteq Steps
<1>1. CASE op = "bridge start"
    BY <1>1 DEF StepsOf, Steps
<1>2. CASE op = "shard run"
    BY <1>2 DEF StepsOf, Steps
<1>3. CASE op \in {"bridge stop", "shard stop"}
    BY <1>3 DEF StepsOf, Steps
<1>4. CASE op = "bridge delete"
    BY <1>4 DEF StepsOf, Steps
<1>5. CASE op = "shard delete"
    BY <1>5 DEF StepsOf, Steps
<1>6. CASE op = "shard deploy"
    BY <1>6 DEF StepsOf, Steps
<1> QED BY <1>1, <1>2, <1>3, <1>4, <1>5, <1>6 DEF BridgeOps, ShardOps

\* A command that starts has its row and remembers the process behind it.
LEMMA BeginStep ==
    ASSUME IInv, NEW c \in Cmds, NEW op \in BridgeOps \cup ShardOps,
           NEW step \in StepsOf(op), NEW row \in Rows, Begin(c, op, step, row),
           step # "stopped", ~(op = "shard run" /\ step \in {"fork", "hung"}),
           op \in BridgeOps => row.id \in 1..created' /\ row.name \in BridgeNames,
           op \in ShardOps => row.id \in 1..deployed' /\ row.name \in ShardNames,
           UNCHANGED procs, TablesKept, sock' = sock
    PROVE  IInv'
<1>1. step \in Steps
    BY StepsTyped
<1>2. /\ Others(c)
      /\ cmd'[c].op = op /\ cmd'[c].pc = step /\ cmd'[c].row = row
      /\ cmd'[c].state = StateOf(row.pid)
      /\ cmd'[c].seen # 0 => cmd'[c].seen \in Holder(row.pid)
    BY <1>1, BeginFacts DEF IInv
<1>3. ran' \in Nat /\ mishaps' \subseteq {"overlap", "crash", "double"}
    <2>1. ran' = ran + 1 /\ ran \in Nat /\ mishaps \subseteq {"overlap", "crash", "double"}
        BY DEF Begin, IInv, TypeOK
    <2>2. mishaps' = mishaps \/ mishaps' = mishaps \cup {"overlap"}
        <3>1. mishaps' = mishaps \cup
                 (IF \E d \in Cmds \ {c} : Busy(d) THEN {"overlap"} ELSE {})
            BY DEF Begin
        <3>2. CASE \E d \in Cmds \ {c} : Busy(d)
            BY <3>1, <3>2
        <3>3. CASE ~\E d \in Cmds \ {c} : Busy(d)
            BY <3>1, <3>3
        <3> QED BY <3>2, <3>3
    <2>3. mishaps' \subseteq {"overlap", "crash", "double"}
        BY ONLY <2>1, <2>2, Zenon
    <2>4. ran' \in Nat
        BY ONLY <2>1
    <2> QED BY <2>3, <2>4
<1>4. TypeOK'
    BY <1>2, <1>3 DEF IInv, TypeOK, Others, TablesKept
<1>5. Aged
    BY DEF Aged, IInv, TypeOK
<1>6. PidsUnique'
    BY <1>5, PidsAged DEF IInv
<1>7. PortsExclusive'
    <2>1. \A d \in Cmds : HoldsPort(d)' => HoldsPort(d) /\ cmd'[d].row = cmd[d].row
        BY <1>2 DEF Others, HoldsPort
    <2> QED BY <1>5, <2>1, PortsAged DEF IInv
<1>8. StopsWhatWasSeen'
    <2>1. row.pid \in Pids \cup {NoPid}
        BY DEF Rows
    <2>2. /\ StateOf(row.pid).pid = row.pid
          /\ Holder(row.pid) # {} => StateOf(row.pid).st \in {"Running", "PermissionDenied"}
        BY <2>1, StateFacts DEF IInv
    <2>3. cmd'[c].seen # 0 =>
             /\ cmd'[c].seen \in DOMAIN procs
             /\ procs[cmd'[c].seen].pid = cmd'[c].state.pid
             /\ cmd'[c].state.st \in {"Running", "PermissionDenied"}
        BY <1>2, <2>2 DEF Holder
    <2>4. \A d \in Cmds \ {c} : cmd'[d].seen # 0 =>
             /\ cmd'[d].pc = "stopped" => procs[cmd'[d].seen].st = "dead"
             /\ cmd'[d].seen \in DOMAIN procs
             /\ cmd'[d].pc \in {"confirm", "check", "signal"} =>
                  /\ procs[cmd'[d].seen].pid = cmd'[d].state.pid
                  /\ cmd'[d].state.st \in {"Running", "PermissionDenied"}
        BY <1>2 DEF IInv, StopsWhatWasSeen, StopIsTruthful, Others, Live
    <2>5. StopIsTruthful'
        BY <1>2, <2>4 DEF StopIsTruthful, Live
    <2> QED BY <1>2, <2>3, <2>4, <2>5 DEF StopsWhatWasSeen
<1>9. KeepsToItsSteps'
    BY <1>2 DEF IInv, KeepsToItsSteps, Others
<1>10. RowsKeyed'
    <2>1. \A d \in Cmds \ {c} :
              /\ cmd[d].op \in BridgeOps => cmd[d].row.id \in 1..created
                                            /\ cmd[d].row.name \in BridgeNames
              /\ cmd[d].op \in ShardOps => cmd[d].row.id \in 1..deployed
                                           /\ cmd[d].row.name \in ShardNames
        BY DEF IInv, RowsKeyed
    <2>2. /\ created \in Nat /\ created' \in Nat /\ created <= created'
          /\ deployed \in Nat /\ deployed' \in Nat /\ deployed <= deployed'
        BY DEF IInv, TypeOK, TablesKept
    <2>3. \A d \in Cmds :
              /\ cmd'[d].op \in BridgeOps => cmd'[d].row.id \in 1..created'
                                             /\ cmd'[d].row.name \in BridgeNames
              /\ cmd'[d].op \in ShardOps => cmd'[d].row.id \in 1..deployed'
                                            /\ cmd'[d].row.name \in ShardNames
        <3> SUFFICES ASSUME NEW d \in Cmds
                     PROVE  /\ cmd'[d].op \in BridgeOps => cmd'[d].row.id \in 1..created'
                                                           /\ cmd'[d].row.name \in BridgeNames
                            /\ cmd'[d].op \in ShardOps => cmd'[d].row.id \in 1..deployed'
                                                          /\ cmd'[d].row.name \in ShardNames
            OBVIOUS
        <3>1. CASE d = c
            BY <1>2, <3>1
        <3>2. CASE d # c
            <4>1. cmd'[d] = cmd[d]
                BY <1>2, <3>2 DEF Others
            <4>2. /\ cmd[d].op \in BridgeOps => cmd[d].row.id \in 1..created
                                                /\ cmd[d].row.name \in BridgeNames
                  /\ cmd[d].op \in ShardOps => cmd[d].row.id \in 1..deployed
                                               /\ cmd[d].row.name \in ShardNames
                BY <2>1, <3>2
            <4> QED BY ONLY <2>2, <4>1, <4>2
        <3> QED BY <3>1, <3>2
    <2>4. \A p \in DOMAIN procs : procs[p].kind = "bridge" => procs[p].row.name \in BridgeNames
        BY DEF IInv, RowsKeyed
    <2> QED BY <2>3, <2>4 DEF RowsKeyed, TablesKept
<1> QED BY <1>4, <1>6, <1>7, <1>8, <1>9, <1>10 DEF IInv

\* The processes after a fork.
LEMMA SpawnFacts ==
    ASSUME TypeOK, NEW new, Spawned(new)
    PROVE  /\ procs' \in Seq(Procs) /\ DOMAIN procs' = 1..(Len(procs) + 1)
           /\ DOMAIN procs = 1..Len(procs) /\ Len(procs) \in Nat
           /\ procs'[Len(procs) + 1] = new
           /\ \A p \in 1..Len(procs) : procs'[p] = procs[p] /\ procs[p] \in Procs
           /\ \A p \in 1..Len(procs) : Live(p) => procs[p].pid # new.pid
<1>1. \A p \in DOMAIN procs : Live(p) => procs[p].pid # new.pid
    BY DEF Spawned, Holder
<1>2. procs \in Seq(Procs) /\ new \in Procs /\ procs' = Append(procs, new)
    BY DEF TypeOK, Spawned
<1> QED BY <1>1, <1>2

\* A process that starts has a pid of its own, and a hypervisor a port that
\* nobody else holds.
LEMMA SpawnStep ==
    ASSUME IInv, NEW new, Spawned(new), cmd' \in [Cmds -> Commands], KeepsToItsSteps',
           \A d \in Cmds : /\ cmd'[d].seen = cmd[d].seen /\ cmd'[d].op = cmd[d].op
                           /\ cmd'[d].row = cmd[d].row
                           /\ cmd'[d] = cmd[d] \/ cmd'[d].pc = "save",
           new.kind = "shard" =>
               /\ \A d \in Cmds : HoldsPort(d)' => cmd'[d].row.cid # new.row.cid
               /\ \A p \in 1..Len(procs) :
                    Live(p) /\ procs[p].kind = "shard" => procs[p].row.cid # new.row.cid,
           new.kind = "bridge" => new.row.name \in BridgeNames,
           UNCHANGED <<bridgeVars, shardVars>>,
           ran' \in Nat, mishaps' \subseteq {"overlap", "crash", "double"}
    PROVE  IInv'
<1> DEFINE n == Len(procs) + 1
<1>1. /\ procs' \in Seq(Procs) /\ DOMAIN procs' = 1..n
      /\ DOMAIN procs = 1..Len(procs) /\ Len(procs) \in Nat
      /\ procs'[n] = new
      /\ \A p \in 1..Len(procs) : procs'[p] = procs[p] /\ procs[p] \in Procs
      /\ \A p \in 1..Len(procs) : Live(p) => procs[p].pid # new.pid
    BY SpawnFacts DEF IInv
<1>2. \A p \in 1..n : p = n \/ p \in 1..Len(procs)
    BY <1>1
<1> HIDE DEF n
<1>3. \A p \in 1..n : \/ p = n /\ procs'[p] = new
                      \/ p \in DOMAIN procs /\ procs'[p] = procs[p]
    BY <1>1, <1>2
<1>4. TypeOK'
    BY <1>1 DEF IInv, TypeOK, bridgeVars, shardVars
<1>5. PidsUnique'
    <2> SUFFICES ASSUME NEW p \in 1..n, NEW q \in 1..n, procs'[p].st # "dead",
                        procs'[q].st # "dead", procs'[p].pid = procs'[q].pid
                 PROVE  p = q
        BY <1>1 DEF PidsUnique, Live
    <2> QED BY <1>1, <1>3 DEF IInv, PidsUnique, Live
<1>6. PortsExclusive'
    <2>1. ASSUME NEW p \in 1..n, NEW q \in 1..n, procs'[p].st # "dead",
                 procs'[q].st # "dead", procs'[p].kind = "shard", procs'[q].kind = "shard",
                 procs'[p].row.cid = procs'[q].row.cid
          PROVE  p = q
        BY <1>1, <1>3, <2>1 DEF IInv, PortsExclusive, ShardExclusive, Live
    <2>2. \A d \in Cmds : HoldsPort(d)' => HoldsPort(d)
        BY DEF HoldsPort
    <2>3. \A d, e \in Cmds :
             HoldsPort(d)' /\ HoldsPort(e)' /\ cmd'[d].row.cid = cmd'[e].row.cid => d = e
        BY <2>2 DEF IInv, PortsExclusive
    <2>4. ASSUME NEW d \in Cmds, NEW p \in 1..n, HoldsPort(d)', procs'[p].st # "dead",
                 procs'[p].kind = "shard"
          PROVE  procs'[p].row.cid # cmd'[d].row.cid
        BY <1>3, <2>2, <2>4 DEF IInv, PortsExclusive, Live
    <2>5. ShardExclusive'
        BY <1>1, <2>1 DEF ShardExclusive, Live
    <2> QED BY <1>1, <2>3, <2>4, <2>5 DEF PortsExclusive, Live
<1>7. StopsWhatWasSeen'
    <2>1. ASSUME NEW d \in Cmds, cmd'[d].seen # 0
          PROVE  /\ cmd'[d].seen \in DOMAIN procs'
                 /\ cmd'[d].pc = "stopped" => procs'[cmd'[d].seen].st = "dead"
                 /\ cmd'[d].pc \in {"confirm", "check", "signal"} =>
                      /\ procs'[cmd'[d].seen].pid = cmd'[d].state.pid
                      /\ cmd'[d].state.st \in {"Running", "PermissionDenied"}
        <3>1. cmd[d].seen \in DOMAIN procs
            BY <2>1 DEF IInv, StopsWhatWasSeen
        <3>2. cmd[d].seen \in DOMAIN procs' /\ procs'[cmd[d].seen] = procs[cmd[d].seen]
            BY <1>1, <3>1 DEF n
        <3>3. CASE cmd'[d] = cmd[d]
            BY <2>1, <3>2, <3>3 DEF IInv, StopsWhatWasSeen, StopIsTruthful, Live
        <3>4. CASE cmd'[d].pc = "save"
            BY <2>1, <3>2, <3>4
        <3> QED BY <3>3, <3>4
    <2>2. StopIsTruthful'
        BY <2>1 DEF StopIsTruthful, Live
    <2> QED BY <2>1, <2>2 DEF StopsWhatWasSeen
<1>8. RowsKeyed'
    <2>1. \A p \in DOMAIN procs' :
             procs'[p].kind = "bridge" => procs'[p].row.name \in BridgeNames
        BY <1>1, <1>3 DEF IInv, RowsKeyed
    <2> QED BY <2>1 DEF IInv, RowsKeyed, bridgeVars, shardVars
<1> QED BY <1>4, <1>5, <1>6, <1>7, <1>8 DEF IInv

-----------------------------------------------------------------------------
(* The parts of Calm. *)

\* From one table to the next, the rows outside `ids` stay where they are.
Carries(t, u, ids) ==
    \A row \in Rows : row.id \notin ids /\ Listed(t, row) =>
        /\ Listed(u, row)
        /\ \A pid : PidIs(t, row.id, pid) => PidIs(u, row.id, pid)

\* The live daemons that were forked for the row a command works on.
Mine(c, p) == /\ procs[p].kind = KindOf(cmd[c].op) /\ procs[p].row.id = cmd[c].row.id

OwnIds(c, kind) == IF KindOf(cmd[c].op) = kind THEN {cmd[c].row.id} ELSE {}

\* A command that is not busy has no operation.
LEMMA IdleHasNoOp ==
    ASSUME TypeOK, KeepsToItsSteps, NEW c \in Cmds
    PROVE  cmd[c].pc = "idle" <=> cmd[c].op = "none"
<1>1. cmd[c].pc \in StepsOf(cmd[c].op) /\ cmd[c].op \in BridgeOps \cup ShardOps \cup {"none"}
    BY DEF KeepsToItsSteps, TypeOK, Commands
<1>2. CASE cmd[c].op = "none"
    BY <1>1, <1>2 DEF StepsOf
<1>3. CASE cmd[c].op \in BridgeOps
    <2>1. CASE cmd[c].op = "bridge start"
        BY <1>1, <2>1 DEF StepsOf
    <2>2. CASE cmd[c].op = "bridge stop"
        BY <1>1, <2>2 DEF StepsOf
    <2>3. CASE cmd[c].op = "bridge delete"
        BY <1>1, <2>3 DEF StepsOf
    <2> QED BY <1>3, <2>1, <2>2, <2>3 DEF BridgeOps
<1>4. CASE cmd[c].op \in ShardOps
    <2>1. CASE cmd[c].op = "shard run"
        BY <1>1, <2>1 DEF StepsOf
    <2>2. CASE cmd[c].op = "shard stop"
        BY <1>1, <2>2 DEF StepsOf
    <2>3. CASE cmd[c].op = "shard delete"
        BY <1>1, <2>3 DEF StepsOf
    <2>4. CASE cmd[c].op = "shard deploy"
        BY <1>1, <2>4 DEF StepsOf
    <2> QED BY <1>4, <2>1, <2>2, <2>3, <2>4 DEF ShardOps
<1> QED BY <1>1, <1>2, <1>3, <1>4

\* A step of the one busy command that starts no process: only the daemon of
\* its own row needs an argument.
LEMMA BusyStep ==
    ASSUME IInv, Calm, IInv', NEW c \in Cmds, Busy(c), Others(c), Aged,
           Carries(devices, devices', OwnIds(c, "bridge")),
           Carries(shards, shards', OwnIds(c, "shard")),
           \A p \in DOMAIN procs : Live(p) /\ procs[p].kind \in Daemons /\ Mine(c, p) =>
               (Listed(Table(procs[p].kind), procs[p].row) /\ Saved(p))',
           ActsOnItsRow(c)', SocketsServed'
    PROVE  Calm'
<1>1. DOMAIN procs' = DOMAIN procs /\ DOMAIN procs = 1..Len(procs)
    BY Indices DEF Aged, IInv
<1>2. \A d \in Cmds \ {c} : cmd'[d] = cmd[d] /\ ~Busy(d)
    BY DEF Others, Calm, OneAtATime
<1>3. OneAtATime'
    BY <1>2 DEF OneAtATime, Busy
<1>4. ASSUME NEW d \in Cmds PROVE ActsOnItsRow(d)'
    <2>1. CASE d # c
        <3>1. cmd'[d].op = "none"
            BY <1>2, <2>1, IdleHasNoOp DEF Busy, IInv
        <3> QED BY <3>1 DEF ActsOnItsRow
    <2> QED BY <2>1
<1>5. DaemonOfRow'
    <2> SUFFICES ASSUME NEW p \in DOMAIN procs, Live(p)', procs'[p].kind \in Daemons
                 PROVE  (Listed(Table(procs[p].kind), procs[p].row) /\ Saved(p))'
        BY <1>1 DEF DaemonOfRow
    <2>1. /\ Live(p) /\ procs'[p].kind = procs[p].kind /\ procs'[p].row = procs[p].row
          /\ procs'[p].pid = procs[p].pid /\ procs[p].row \in Rows
        BY <1>1, Indices DEF Aged, Live, IInv, Procs
    <2>2. CASE Mine(c, p)
        BY <2>1, <2>2
    <2>3. CASE ~Mine(c, p)
        <3>1. Listed(Table(procs[p].kind), procs[p].row) /\ Saved(p)
            BY <2>1 DEF Calm, DaemonOfRow
        <3>2. PidIs(Table(procs[p].kind), procs[p].row.id, procs[p].pid)
            <4>1. SUFFICES ASSUME NEW d \in Cmds, cmd[d].pc = "save",
                                  KindOf(cmd[d].op) = procs[p].kind,
                                  cmd[d].row.id = procs[p].row.id
                           PROVE  FALSE
                BY <3>1 DEF Saved
            <4>2. d = c
                BY <1>2, <4>1 DEF Busy
            <4> QED BY <2>3, <4>1, <4>2 DEF Mine
        <3>3. CASE procs[p].kind = "bridge"
            <4>1. procs[p].row.id \notin OwnIds(c, "bridge")
                BY <2>3, <3>3 DEF Mine, OwnIds
            <4>2. Listed(devices, procs[p].row) /\ PidIs(devices, procs[p].row.id, procs[p].pid)
                BY <3>1, <3>2, <3>3 DEF Table
            <4>3. Listed(devices', procs[p].row) /\ PidIs(devices', procs[p].row.id, procs[p].pid)
                BY <2>1, <4>1, <4>2 DEF Carries
            <4> QED BY <2>1, <3>3, <4>3 DEF Table, Saved
        <3>4. CASE procs[p].kind = "shard"
            <4>1. procs[p].row.id \notin OwnIds(c, "shard")
                BY <2>3, <3>4 DEF Mine, OwnIds
            <4>2. Listed(shards, procs[p].row) /\ PidIs(shards, procs[p].row.id, procs[p].pid)
                BY <3>1, <3>2, <3>4 DEF Table
            <4>3. Listed(shards', procs[p].row) /\ PidIs(shards', procs[p].row.id, procs[p].pid)
                BY <2>1, <4>1, <4>2 DEF Carries
            <4> QED BY <2>1, <3>4, <4>3 DEF Table, Saved
        <3> QED BY <2>1, <3>3, <3>4 DEF Daemons
    <2> QED BY <2>2, <2>3
<1>6. OneDaemonPerRow'
    BY <1>1 DEF Calm, OneDaemonPerRow, Aged, Live
<1> QED BY <1>3, <1>4, <1>5, <1>6 DEF Calm

\* A table that stays as it is carries all its rows.
LEMMA CarriesSame == ASSUME NEW t, NEW ids PROVE Carries(t, t, ids)
BY DEF Carries

\* Processes advance or die, and nothing else happens.
LEMMA ProcessStep ==
    ASSUME IInv, Calm, Aged, UNCHANGED <<cmd, devices, shards>>, SocketsServed'
    PROVE  Calm'
<1>1. DOMAIN procs' = DOMAIN procs /\ DOMAIN procs = 1..Len(procs)
    BY Indices DEF Aged, IInv
<1>2. \A p \in DOMAIN procs :
         /\ procs'[p].kind = procs[p].kind /\ procs'[p].row = procs[p].row
         /\ procs'[p].pid = procs[p].pid
         /\ Live(p)' => Live(p)
    BY <1>1 DEF Aged, Live
<1>3. OneAtATime'
    BY DEF Calm, OneAtATime, Busy
<1>4. ASSUME NEW d \in Cmds PROVE ActsOnItsRow(d)'
    <2>1. \A kind, id : NoDaemon(kind, id) => NoDaemon(kind, id)'
        BY <1>1, <1>2 DEF NoDaemon
    <2>2. ActsOnItsRow(d)
        BY DEF Calm
    <2> QED BY <1>1, <1>2, <2>1, <2>2 DEF ActsOnItsRow, Table, KindOf
<1>5. DaemonOfRow'
    <2> SUFFICES ASSUME NEW p \in DOMAIN procs, Live(p)', procs'[p].kind \in Daemons
                 PROVE  (Listed(Table(procs[p].kind), procs[p].row) /\ Saved(p))'
        BY <1>1 DEF DaemonOfRow
    <2>1. Listed(Table(procs[p].kind), procs[p].row) /\ Saved(p)
        BY <1>2 DEF Calm, DaemonOfRow
    <2> QED BY <1>2, <2>1 DEF Table, Saved
<1>6. OneDaemonPerRow'
    BY <1>1, <1>2 DEF Calm, OneDaemonPerRow
<1> QED BY <1>3, <1>4, <1>5, <1>6 DEF Calm

\* A command moves on or ends without touching the tables.
LEMMA BusyMove ==
    ASSUME IInv, Calm, IInv', NEW c \in Cmds, Busy(c), Aged, cmd[c].pc # "save",
           UNCHANGED <<devices, shards, sock>>,
           \A p \in 1..Len(procs) : procs'[p].st = "serving" => procs[p].st = "serving",
           \/ Ends(c)
           \/ \E step \in Steps \ {"save"} :
                 /\ MovesTo(c, step)
                 /\ step \in {"confirm", "check", "signal"} =>
                        cmd[c].pc \in {"confirm", "check", "signal"}
                 /\ cmd[c].pc = "confirm delete" => step = "purge"
                 /\ cmd[c].pc # "purge"
                 /\ \/ step \in {"stopped", "confirm delete"}
                    \/ step \in {"fork", "bind", "confirm"} /\ cmd[c].state.st # "Running"
                    => NoDaemon(KindOf(cmd[c].op), cmd[c].row.id)
    PROVE  Calm'
<1>1. DOMAIN procs' = DOMAIN procs /\ DOMAIN procs = 1..Len(procs)
    BY ONLY IInv, Aged, AgedIndices DEF IInv
<1>2. \A p \in DOMAIN procs :
         /\ procs'[p].kind = procs[p].kind /\ procs'[p].row = procs[p].row
         /\ procs'[p].pid = procs[p].pid
         /\ procs'[p].st # "dead" => Live(p)
    BY <1>1 DEF Aged, Live
<1>3. SocketsServed'
    <2>1. SocketsServed /\ sock' = sock
        BY DEF Calm
    <2>2. \A p \in DOMAIN procs : procs'[p].st = "serving" => procs[p].st = "serving"
        BY <1>1
    <2> QED BY ONLY <1>1, <1>2, <2>1, <2>2 DEF SocketsServed
<1>4. Others(c)
    BY DEF Ends, MovesTo
<1>5. ActsOnItsRow(c)'
    <2>1. CASE Ends(c)
        BY <2>1 DEF Ends, Idle, ActsOnItsRow
    <2>2. CASE \E step \in Steps \ {"save"} :
                 /\ MovesTo(c, step)
                 /\ step \in {"confirm", "check", "signal"} =>
                        cmd[c].pc \in {"confirm", "check", "signal"}
                 /\ cmd[c].pc = "confirm delete" => step = "purge"
                 /\ cmd[c].pc # "purge"
                 /\ \/ step \in {"stopped", "confirm delete"}
                    \/ step \in {"fork", "bind", "confirm"} /\ cmd[c].state.st # "Running"
                    => NoDaemon(KindOf(cmd[c].op), cmd[c].row.id)
        <3>1. PICK step \in Steps \ {"save"} :
                 /\ MovesTo(c, step)
                 /\ step \in {"confirm", "check", "signal"} =>
                        cmd[c].pc \in {"confirm", "check", "signal"}
                 /\ cmd[c].pc = "confirm delete" => step = "purge"
                 /\ cmd[c].pc # "purge"
                 /\ \/ step \in {"stopped", "confirm delete"}
                    \/ step \in {"fork", "bind", "confirm"} /\ cmd[c].state.st # "Running"
                    => NoDaemon(KindOf(cmd[c].op), cmd[c].row.id)
            BY <2>2
        <3>2. /\ cmd'[c].pc = step /\ cmd'[c].op = cmd[c].op /\ cmd'[c].row = cmd[c].row
              /\ cmd'[c].state = cmd[c].state
            BY <3>1 DEF MovesTo
        <3>3. NoDaemon(KindOf(cmd[c].op), cmd[c].row.id)
                 => NoDaemon(KindOf(cmd[c].op), cmd[c].row.id)'
            BY <1>1, <1>2, <3>2 DEF NoDaemon, KindOf, Live
        <3>4. cmd[c].op \notin {"none", "shard deploy"} =>
                 /\ Listed(Table(KindOf(cmd[c].op)), cmd[c].row)
                 /\ cmd[c].pc # "confirm delete" =>
                      PidIs(Table(KindOf(cmd[c].op)), cmd[c].row.id, cmd[c].row.pid)
                 /\ cmd[c].pc \in {"confirm", "check", "signal"} =>
                      cmd[c].state.pid = cmd[c].row.pid
            BY <3>1 DEF Calm, ActsOnItsRow
        <3>5. Table(KindOf(cmd[c].op))' = Table(KindOf(cmd[c].op)) /\ step # "save"
            BY <3>2 DEF Table, KindOf
        <3> QED BY <3>1, <3>2, <3>3, <3>4, <3>5 DEF ActsOnItsRow
    <2> QED BY <2>1, <2>2
<1>6. Carries(devices, devices', OwnIds(c, "bridge")) /\ Carries(shards, shards', OwnIds(c, "shard"))
    BY CarriesSame
<1>7. ASSUME NEW p \in DOMAIN procs, Live(p), procs[p].kind \in Daemons, Mine(c, p)
      PROVE  (Listed(Table(procs[p].kind), procs[p].row) /\ Saved(p))'
    <2>1. Listed(Table(procs[p].kind), procs[p].row) /\ Saved(p)
        BY <1>7 DEF Calm, DaemonOfRow
    <2>2. \A d \in Cmds : cmd[d].pc = "save" => cmd'[d] = cmd[d]
        BY <1>4 DEF Others
    <2> QED BY <1>2, <2>1, <2>2 DEF Table, Saved
<1> QED BY <1>3, <1>4, <1>5, <1>6, <1>7, BusyStep

\* Both invariants, for the steps of a command that touch no table.
LEMMA MoveStep ==
    ASSUME IInv, Undisturbed, NEW c \in Cmds, Busy(c), Aged,
           UNCHANGED <<devices, created, shards, deployed, sock>>, RestTyped,
           mishaps' = {} => mishaps = {} /\ cmd[c].pc # "save",
           \A p \in 1..Len(procs) : procs'[p].st = "serving" => procs[p].st = "serving",
           \/ Ends(c)
           \/ \E step \in StepsOf(cmd[c].op) :
                 /\ MovesTo(c, step)
                 /\ step \in {"confirm", "check", "signal"} =>
                        cmd[c].pc \in {"confirm", "check", "signal"}
                 /\ step = "stopped" => cmd[c].seen = 0 \/ ~Live(cmd[c].seen)
                 /\ step \in {"fork", "hung"} => cmd[c].pc \in {"fork", "hung"}
                 /\ step \notin {"save", "bind", "fork"}
                 /\ cmd[c].pc = "confirm delete" => step = "purge"
                 /\ cmd[c].pc # "purge"
                 /\ Calm /\ (\/ step \in {"stopped", "confirm delete"}
                             \/ step = "confirm" /\ cmd[c].state.st # "Running")
                    => NoDaemon(KindOf(cmd[c].op), cmd[c].row.id)
    PROVE  IInv' /\ Undisturbed'
<1>1. TablesKept
    BY ONLY IInv, UNCHANGED <<devices, created, shards, deployed, sock>>, SameTables
<1>2. IInv'
    <2>1. \/ Ends(c)
          \/ \E step \in StepsOf(cmd[c].op) :
                 /\ MovesTo(c, step)
                 /\ step \in {"confirm", "check", "signal"} =>
                        cmd[c].pc \in {"confirm", "check", "signal"}
                 /\ step = "stopped" => cmd[c].seen = 0 \/ ~Live(cmd[c].seen)
                 /\ step \in {"fork", "hung"} => cmd[c].pc \in {"fork", "hung"}
          \/ UNCHANGED cmd
        OBVIOUS
    <2> QED BY ONLY <1>1, <2>1, IInv, Aged, RestTyped, OrdinaryStep
<1>3. Undisturbed'
    <2> SUFFICES ASSUME mishaps' = {} PROVE Calm'
        BY DEF Undisturbed
    <2>1. Calm /\ cmd[c].pc # "save"
        BY DEF Undisturbed
    <2>2. cmd[c].op \in BridgeOps \cup ShardOps
        BY IdleHasNoOp DEF IInv, TypeOK, Commands, Busy
    <2>3. StepsOf(cmd[c].op) \subseteq Steps
        BY <2>2, StepsTyped
    <2>4. \/ Ends(c)
          \/ \E step \in Steps \ {"save"} :
                 /\ MovesTo(c, step)
                 /\ step \in {"confirm", "check", "signal"} =>
                        cmd[c].pc \in {"confirm", "check", "signal"}
                 /\ cmd[c].pc = "confirm delete" => step = "purge"
                 /\ cmd[c].pc # "purge"
                 /\ \/ step \in {"stopped", "confirm delete"}
                    \/ step \in {"fork", "bind", "confirm"} /\ cmd[c].state.st # "Running"
                    => NoDaemon(KindOf(cmd[c].op), cmd[c].row.id)
        BY <2>1, <2>3
    <2> QED BY <1>2, <2>1, <2>4, BusyMove
<1> QED BY <1>2, <1>3

-----------------------------------------------------------------------------
(* Loading a row. *)

\* A row that is found by its name.
LEMMA LoadedRow ==
    ASSUME NEW t \in Seq(Rows), NEW names, NEW last \in Nat, Keyed(t, names, last),
           NEW name, NEW row \in FirstNamed(t, name)
    PROVE  /\ row \in Rows /\ row.id \in 1..last /\ row.name \in names
           /\ Listed(t, row) /\ PidIs(t, row.id, row.pid)
<1>1. PICK j \in DOMAIN t : /\ row = t[j] /\ t[j].name = name
                            /\ \A k \in 1..(j - 1) : t[k].name # name
    BY DEF FirstNamed
<1>2. row \in Rows
    BY <1>1
<1>3. row.id \in 1..last /\ row.name \in names
    BY <1>1 DEF Keyed
<1>4. Listed(t, row)
    BY <1>1 DEF Listed
<1>5. PidIs(t, row.id, row.pid)
    BY <1>1 DEF PidIs, Keyed
<1> QED BY <1>2, <1>3, <1>4, <1>5

\* The daemon of a row that nobody is saving is what the row's pid stands for.
LEMMA DaemonHoldsPid ==
    ASSUME IInv, DaemonOfRow, NEW kind \in Daemons, NEW row \in Rows,
           Listed(Table(kind), row), PidIs(Table(kind), row.id, row.pid),
           \A d \in Cmds : ~(cmd[d].pc = "save" /\ KindOf(cmd[d].op) = kind
                             /\ cmd[d].row.id = row.id),
           NEW p \in DOMAIN procs, Live(p), procs[p].kind = kind, procs[p].row.id = row.id
    PROVE  check(row.pid).st = "Running" /\ StateOf(row.pid).st = "Running"
<1>1. PidIs(Table(kind), row.id, procs[p].pid)
    BY DEF DaemonOfRow, Saved
<1>2. procs[p].pid = row.pid
    BY <1>1 DEF PidIs, Listed
<1>3. procs[p] \in Procs
    BY Indices DEF IInv
<1>4. row.pid # NoPid
    BY <1>2, <1>3, ProcessAssumption DEF Procs, NoPid
<1>5. Holder(row.pid) = {p}
    BY <1>2 DEF Holder, IInv, PidsUnique
<1>6. procs[p].kind # "root"
    BY DEF Daemons
<1>7. check(row.pid) = [st |-> "Running", pid |-> row.pid]
    BY <1>5, <1>6 DEF check, Running
<1> QED BY <1>4, <1>7 DEF StateOf

\* A command starts while no other is busy, unless that is remembered.
LEMMA BeginCalm ==
    ASSUME IInv, Undisturbed, IInv', NEW c \in Cmds, NEW op, NEW step, NEW row,
           Begin(c, op, step, row), Others(c), UNCHANGED <<procs, sock>>,
           Carries(devices, devices', {}), Carries(shards, shards', {}),
           Calm /\ (\A d \in Cmds : ~Busy(d)) => ActsOnItsRow(c)'
    PROVE  Undisturbed'
<1> SUFFICES ASSUME mishaps' = {} PROVE Calm'
    BY DEF Undisturbed
<1>1. mishaps' = mishaps \cup (IF \E d \in Cmds \ {c} : Busy(d) THEN {"overlap"} ELSE {})
      /\ ~Busy(c)
    BY DEF Begin
<1>2. mishaps = {} /\ ~\E d \in Cmds \ {c} : Busy(d)
    <2>1. mishaps = {}
        BY <1>1
    <2>2. ASSUME \E d \in Cmds \ {c} : Busy(d) PROVE FALSE
        BY <1>1, <2>2
    <2> QED BY <2>1, <2>2
<1>3. Calm /\ \A d \in Cmds : ~Busy(d)
    BY <1>1, <1>2 DEF Undisturbed
<1>4. OneAtATime'
    BY <1>3 DEF OneAtATime, Busy, Others
<1>5. ASSUME NEW d \in Cmds PROVE ActsOnItsRow(d)'
    <2>1. CASE d # c
        <3>1. cmd'[d].op = "none"
            BY <1>3, <2>1, IdleHasNoOp DEF Busy, IInv, Others
        <3> QED BY <3>1 DEF ActsOnItsRow
    <2> QED BY <1>3, <2>1
<1>6. DaemonOfRow'
    <2> SUFFICES ASSUME NEW p \in DOMAIN procs, Live(p), procs[p].kind \in Daemons
                 PROVE  (Listed(Table(procs[p].kind), procs[p].row) /\ Saved(p))'
        BY DEF DaemonOfRow, Live
    <2>1. Listed(Table(procs[p].kind), procs[p].row) /\ Saved(p) /\ procs[p].row \in Rows
        BY <1>3, Indices DEF Calm, DaemonOfRow, IInv, Procs
    <2>2. PidIs(Table(procs[p].kind), procs[p].row.id, procs[p].pid)
        BY <1>3, <2>1 DEF Saved, Busy
    <2>3. CASE procs[p].kind = "bridge"
        BY <2>1, <2>2, <2>3 DEF Carries, Table, Saved
    <2>4. CASE procs[p].kind = "shard"
        BY <2>1, <2>2, <2>4 DEF Carries, Table, Saved
    <2> QED BY <2>3, <2>4 DEF Daemons
<1>7. OneDaemonPerRow' /\ SocketsServed'
    BY <1>3 DEF Calm, OneDaemonPerRow, SocketsServed, Live
<1> QED BY <1>4, <1>5, <1>6, <1>7 DEF Calm

\* A command loads a row by its name and begins.
LEMMA BeginLoaded ==
    ASSUME IInv, Undisturbed, NEW c \in Cmds,
           NEW op \in (BridgeOps \cup ShardOps) \ {"shard deploy"}, NEW name,
           NEW row \in FirstNamed(Table(KindOf(op)), name),
           NEW step \in StepsOf(op), step \in {"fork", "bind", "confirm", "confirm delete"},
           op = "shard run" => step = "bind",
           step = "confirm delete" => StateOf(row.pid).st # "Running",
           Begin(c, op, step, row), UNCHANGED <<procs, bridgeVars, shardVars>>
    PROVE  IInv' /\ Undisturbed'
<1>1. /\ row \in Rows
      /\ Listed(Table(KindOf(op)), row) /\ PidIs(Table(KindOf(op)), row.id, row.pid)
      /\ op \in BridgeOps => row.id \in 1..created /\ row.name \in BridgeNames
      /\ op \in ShardOps => row.id \in 1..deployed /\ row.name \in ShardNames
    <2>0. op \in BridgeOps \/ op \in ShardOps
        OBVIOUS
    <2>1. CASE op \in BridgeOps
        <3>1. Table(KindOf(op)) = devices /\ op \notin ShardOps
            BY <2>1 DEF Table, KindOf, BridgeOps, ShardOps
        <3>2. devices \in Seq(Rows) /\ created \in Nat /\ Keyed(devices, BridgeNames, created)
            BY DEF IInv, TypeOK, RowsKeyed
        <3> QED BY <2>1, <3>1, <3>2, LoadedRow
    <2>2. CASE op \in ShardOps
        <3>1. Table(KindOf(op)) = shards /\ op \notin BridgeOps
            BY <2>2 DEF Table, KindOf, BridgeOps, ShardOps
        <3>2. shards \in Seq(Rows) /\ deployed \in Nat /\ Keyed(shards, ShardNames, deployed)
            BY DEF IInv, TypeOK, RowsKeyed
        <3> QED BY <2>2, <3>1, <3>2, LoadedRow
    <2> QED BY <2>0, <2>1, <2>2
<1>2. TablesKept
    BY SameTables DEF bridgeVars, shardVars
<1>3. IInv'
    BY <1>1, <1>2, BeginStep DEF bridgeVars, shardVars
<1>4. step \in Steps
    BY StepsTyped
<1>5. /\ Others(c) /\ cmd'[c].op = op /\ cmd'[c].pc = step /\ cmd'[c].row = row
      /\ cmd'[c].state = StateOf(row.pid)
    BY <1>1, <1>4, BeginFacts DEF IInv
<1>6. ASSUME Calm, \A d \in Cmds : ~Busy(d) PROVE ActsOnItsRow(c)'
    <2>1. KindOf(op) \in Daemons
        BY DEF KindOf, Daemons
    <2>2. \A d \in Cmds : cmd[d].pc # "save"
        BY <1>6 DEF Busy
    <2>3. StateOf(row.pid).st # "Running" => NoDaemon(KindOf(op), row.id)
        BY <1>1, <1>6, <2>1, <2>2, DaemonHoldsPid DEF Calm, NoDaemon
    <2>4. NoDaemon(KindOf(op), row.id) => NoDaemon(KindOf(op), row.id)'
        BY DEF NoDaemon, Live
    <2>5. StateOf(row.pid).pid = row.pid
        BY <1>1, StateFacts DEF IInv, Rows
    <2>6. Table(KindOf(op))' = Table(KindOf(op))
        BY DEF Table, bridgeVars, shardVars
    <2> QED BY <1>1, <1>5, <2>3, <2>4, <2>5, <2>6 DEF ActsOnItsRow
<1>7. Carries(devices, devices', {}) /\ Carries(shards, shards', {})
    BY CarriesSame DEF bridgeVars, shardVars
<1>8. UNCHANGED <<procs, sock>>
    BY DEF bridgeVars
<1>9. Undisturbed'
    BY <1>3, <1>5, <1>6, <1>7, <1>8, BeginCalm
<1> QED BY <1>3, <1>9

-----------------------------------------------------------------------------
(* What the operations on a table leave of the rows. *)

\* A new row at the end leaves the others where they are.
LEMMA AppendCarries ==
    ASSUME NEW t \in Seq(Rows), NEW names, NEW last \in Nat, Keyed(t, names, last),
           NEW row \in Rows, row.id = last + 1
    PROVE  Carries(t, Append(t, row), {})
<1> DEFINE u == Append(t, row)
<1>1. /\ Len(t) \in Nat /\ u[Len(t) + 1] = row /\ \A i \in 1..Len(t) : u[i] = t[i]
      /\ DOMAIN u = 1..(Len(t) + 1) /\ DOMAIN t = 1..Len(t)
    OBVIOUS
<1> HIDE DEF u
<1>2. ASSUME NEW r \in Rows, Listed(t, r)
      PROVE  Listed(u, r) /\ \A pid : PidIs(t, r.id, pid) => PidIs(u, r.id, pid)
    <2>1. PICK i \in DOMAIN t : /\ t[i].id = r.id /\ t[i].name = r.name
                                /\ \A k \in 1..(i - 1) : t[k].name # r.name
        BY <1>2 DEF Listed
    <2>2. i \in DOMAIN u /\ \A k \in 1..(i - 1) : u[k] = t[k]
        BY <1>1, <2>1
    <2>3. Listed(u, r)
        BY <1>1, <2>1, <2>2 DEF Listed
    <2>4. r.id \in 1..last
        BY <2>1 DEF Keyed
    <2>5. r.id # row.id
        BY <2>4
    <2>6. \A j \in DOMAIN u : u[j].id = r.id => j \in DOMAIN t /\ u[j] = t[j]
        BY <1>1, <2>5
    <2> QED BY <2>3, <2>6 DEF PidIs
<1> QED BY <1>2 DEF Carries, u

\* A save of a row that is there.
LEMMA UpsertCarries ==
    ASSUME NEW t \in Seq(Rows), NEW names, NEW last \in Nat, Keyed(t, names, last),
           NEW old, Listed(t, old), NEW row \in Rows, row.id = old.id, row.name = old.name
    PROVE  /\ Carries(t, Upsert(t, row), {row.id})
           /\ \A r \in Rows : Listed(t, r) => Listed(Upsert(t, row), r)
           /\ Listed(Upsert(t, row), old)
           /\ PidIs(Upsert(t, row), row.id, row.pid)
<1> DEFINE u == Upsert(t, row)
<1>1. PICK n \in DOMAIN t : t[n].id = row.id /\ t[n].name = row.name
    BY DEF Listed
<1>2. /\ DOMAIN u = DOMAIN t
      /\ \A i \in DOMAIN t : u[i] = IF t[i].id = row.id THEN row ELSE t[i]
    BY <1>1, UpsertShape
<1> HIDE DEF u
<1>3. \A i \in DOMAIN t : t[i].id = row.id => i = n
    BY <1>1 DEF Keyed
<1>4. \A i \in DOMAIN t : u[i].id = t[i].id /\ u[i].name = t[i].name
    BY <1>1, <1>2, <1>3
<1>5. \A r : Listed(t, r) => Listed(u, r)
    <2> SUFFICES ASSUME NEW r, Listed(t, r) PROVE Listed(u, r)
        OBVIOUS
    <2>1. PICK i \in DOMAIN t : /\ t[i].id = r.id /\ t[i].name = r.name
                                /\ \A k \in 1..(i - 1) : t[k].name # r.name
        BY DEF Listed
    <2>2. DOMAIN t = 1..Len(t) /\ Len(t) \in Nat
        OBVIOUS
    <2>3. \A k \in 1..(i - 1) : k \in DOMAIN t
        BY <2>1, <2>2
    <2> QED BY <1>2, <1>4, <2>1, <2>3 DEF Listed
<1>6. \A id, pid : id # row.id /\ PidIs(t, id, pid) => PidIs(u, id, pid)
    BY <1>2 DEF PidIs
<1>7. PidIs(u, row.id, row.pid)
    BY <1>2, <1>4 DEF PidIs
<1>8. Carries(t, u, {row.id})
    BY <1>5, <1>6 DEF Carries
<1> QED BY <1>5, <1>7, <1>8 DEF u

\* Deleting a row leaves the other rows, and the ones their names find.
LEMMA WithoutCarries ==
    ASSUME NEW t \in Seq(Rows), NEW id
    PROVE  Carries(t, Without(t, id), {id})
<1> DEFINE u == Without(t, id)
<1>1. \/ u = t
      \/ \E gone \in 1..Len(t) :
            /\ t[gone].id = id
            /\ DOMAIN u = 1..(Len(t) - 1)
            /\ \A k \in 1..(Len(t) - 1) : u[k] = t[IF k < gone THEN k ELSE k + 1]
    BY WithoutShape
<1> HIDE DEF u
<1>2. CASE \E gone \in 1..Len(t) :
            /\ t[gone].id = id
            /\ DOMAIN u = 1..(Len(t) - 1)
            /\ \A k \in 1..(Len(t) - 1) : u[k] = t[IF k < gone THEN k ELSE k + 1]
    <2>1. PICK gone \in 1..Len(t) :
            /\ t[gone].id = id
            /\ DOMAIN u = 1..(Len(t) - 1)
            /\ \A k \in 1..(Len(t) - 1) : u[k] = t[IF k < gone THEN k ELSE k + 1]
        BY <1>2
    <2>2. DOMAIN t = 1..Len(t) /\ Len(t) \in Nat
        OBVIOUS
    <2>3. ASSUME NEW r \in Rows, r.id # id, Listed(t, r)
          PROVE  Listed(u, r)
        <3>1. PICK i \in 1..Len(t) : /\ t[i].id = r.id /\ t[i].name = r.name
                                     /\ \A k \in 1..(i - 1) : t[k].name # r.name
            BY <2>2, <2>3 DEF Listed
        <3> DEFINE j == IF i < gone THEN i ELSE i - 1
        <3>2. i # gone
            BY <2>1, <2>3, <3>1
        <3>3. j \in 1..(Len(t) - 1) /\ i = (IF j < gone THEN j ELSE j + 1)
            BY <2>1, <2>2, <3>1, <3>2
        <3>4. u[j] = t[i]
            BY <2>1, <3>3
        <3>5. ASSUME NEW k \in 1..(j - 1) PROVE u[k].name # r.name
            <4>1. /\ k \in 1..(Len(t) - 1)
                  /\ (IF k < gone THEN k ELSE k + 1) \in 1..(i - 1)
                BY <2>2, <3>1, <3>2, <3>3, <3>5
            <4> QED BY <2>1, <3>1, <4>1
        <3> HIDE DEF j
        <3> QED BY <2>1, <3>1, <3>3, <3>4, <3>5 DEF Listed
    <2>4. ASSUME NEW r \in Rows, NEW pid, PidIs(t, r.id, pid)
          PROVE  PidIs(u, r.id, pid)
        <3>1. \A k \in DOMAIN u : \E i \in DOMAIN t : u[k] = t[i]
            <4>1. \A k \in 1..(Len(t) - 1) : (IF k < gone THEN k ELSE k + 1) \in 1..Len(t)
                BY <2>1, <2>2
            <4> QED BY <2>1, <2>2, <4>1
        <3> QED BY <2>4, <3>1 DEF PidIs
    <2> QED BY <2>3, <2>4 DEF Carries, u
<1>3. CASE u = t
    BY <1>3, CarriesSame DEF u
<1> QED BY <1>1, <1>2, <1>3

-----------------------------------------------------------------------------
(* The steps of processes and of process control. *)

\* Which operation a command at a step carries out, and where it can go.
LEMMA OpsOfSteps ==
    ASSUME IInv, NEW c \in Cmds
    PROVE  /\ cmd[c].pc \in {"confirm", "check", "signal", "stopped"} =>
                /\ cmd[c].op \in {"bridge stop", "bridge delete", "shard stop"}
                /\ {"check", "signal", "stopped"} \subseteq StepsOf(cmd[c].op)
           /\ cmd[c].pc \in {"fork", "hung", "save"} =>
                /\ cmd[c].op \in {"bridge start", "shard run"}
                /\ {"hung", "save"} \subseteq StepsOf(cmd[c].op)
           /\ cmd[c].pc = "confirm delete" => cmd[c].op \in {"bridge delete", "shard delete"}
<1>1. cmd[c].pc \in StepsOf(cmd[c].op) /\ cmd[c].op \in BridgeOps \cup ShardOps \cup {"none"}
    BY DEF IInv, KeepsToItsSteps, TypeOK, Commands
<1>2. CASE cmd[c].op = "none"
    BY <1>1, <1>2 DEF StepsOf
<1>3. CASE cmd[c].op = "bridge start"
    BY <1>1, <1>3 DEF StepsOf
<1>4. CASE cmd[c].op = "bridge stop"
    BY <1>1, <1>4 DEF StepsOf
<1>5. CASE cmd[c].op = "bridge delete"
    BY <1>1, <1>5 DEF StepsOf
<1>6. CASE cmd[c].op = "shard run"
    BY <1>1, <1>6 DEF StepsOf
<1>7. CASE cmd[c].op = "shard stop"
    BY <1>1, <1>7 DEF StepsOf
<1>8. CASE cmd[c].op = "shard delete"
    BY <1>1, <1>8 DEF StepsOf
<1>9. CASE cmd[c].op = "shard deploy"
    BY <1>1, <1>9 DEF StepsOf
<1> QED BY <1>1, <1>2, <1>3, <1>4, <1>5, <1>6, <1>7, <1>8, <1>9 DEF BridgeOps, ShardOps

\* No process changes.
LEMMA SameProcs == ASSUME TypeOK, UNCHANGED procs PROVE Aged
BY DEF TypeOK, Aged

\* A process advances.
LEMMA ProcMoves ==
    ASSUME TypeOK, NEW p \in DOMAIN procs, NEW new \in Procs, new.pid = procs[p].pid,
           new.kind = procs[p].kind, new.row = procs[p].row, new.st # "dead" => Live(p),
           procs' = [procs EXCEPT ![p] = new]
    PROVE  Aged /\ procs'[p] = new /\ \A q \in DOMAIN procs \ {p} : procs'[q] = procs[q]
<1>1. procs \in Seq(Procs) /\ DOMAIN procs = 1..Len(procs)
    BY Indices
<1>2. procs' \in Seq(Procs) /\ Len(procs') = Len(procs)
    BY <1>1
<1>3. procs'[p] = new /\ \A q \in DOMAIN procs \ {p} : procs'[q] = procs[q]
    BY <1>1
<1>4. \A q \in 1..Len(procs) :
         /\ procs'[q].pid = procs[q].pid /\ procs'[q].kind = procs[q].kind
         /\ procs'[q].row = procs[q].row
         /\ procs'[q].st # "dead" => procs[q].st # "dead"
    BY <1>1, <1>3 DEF Live
<1> QED BY <1>2, <1>3, <1>4 DEF Aged

\* One process changes its state.
LEMMA ProcState ==
    ASSUME TypeOK, NEW p \in DOMAIN procs, NEW st \in {"setup", "serving", "ending", "dead"},
           st # "dead" => Live(p), procs' = [procs EXCEPT ![p].st = st]
    PROVE  /\ Aged /\ procs'[p].st = st /\ \A q \in DOMAIN procs \ {p} : procs'[q] = procs[q]
           /\ procs'[p].kind = procs[p].kind /\ procs'[p].row = procs[p].row
<1> DEFINE new == [procs[p] EXCEPT !.st = st]
<1>1. procs[p] \in Procs
    BY Indices
<1>2. /\ new \in Procs /\ new.pid = procs[p].pid /\ new.kind = procs[p].kind
      /\ new.row = procs[p].row /\ new.st = st
    BY <1>1 DEF Procs
<1>3. procs' = [procs EXCEPT ![p] = new]
    OBVIOUS
<1> HIDE DEF new
<1> QED BY <1>2, <1>3, ProcMoves

\* What is neither a process, nor a command, nor a table stays.
LEMMA SameRest ==
    ASSUME IInv, UNCHANGED <<ran, sock>>,
           mishaps' \subseteq {"overlap", "crash", "double"}
    PROVE  RestTyped
BY DEF IInv, TypeOK, RestTyped

\* The operator answers no.
LEMMA CancelStep ==
    ASSUME IInv, Undisturbed, NEW c \in Cmds, Cancel(c), UNCHANGED <<bridgeVars, shardVars>>
    PROVE  IInv' /\ Undisturbed'
<1>1. Ends(c)
    BY FinishEnds DEF Cancel, IInv
<1>2. Aged
    BY SameProcs DEF Cancel, IInv
<1>3. RestTyped
    BY SameRest DEF Cancel, IInv, TypeOK, bridgeVars, shardVars
<1>4. Busy(c) /\ cmd[c].pc # "save" /\ procs' = procs /\ mishaps' = mishaps
    BY DEF Cancel, Busy
<1>5. UNCHANGED <<devices, created, shards, deployed, sock>>
    BY DEF bridgeVars, shardVars
<1> QED BY <1>1, <1>2, <1>3, <1>4, <1>5, MoveStep

\* The command is killed, which is remembered.
LEMMA CrashStep ==
    ASSUME IInv, Undisturbed, NEW c \in Cmds, Crash(c), UNCHANGED <<bridgeVars, shardVars>>
    PROVE  IInv' /\ Undisturbed'
<1>1. Ends(c)
    BY FinishEnds DEF Crash, IInv
<1>2. Aged
    BY SameProcs DEF Crash, IInv
<1>3. mishaps' \subseteq {"overlap", "crash", "double"} /\ mishaps' # {}
    BY DEF Crash, IInv, TypeOK
<1>4. RestTyped
    BY <1>3, SameRest DEF Crash, bridgeVars, shardVars
<1>5. Busy(c) /\ procs' = procs
    BY DEF Crash
<1>6. UNCHANGED <<devices, created, shards, deployed, sock>>
    BY DEF bridgeVars, shardVars
<1> QED BY <1>1, <1>2, <1>3, <1>4, <1>5, <1>6, MoveStep

\* process::stop looks for the process: gone means that the process its row
\* stood for, and the daemon of the row, are gone.
LEMMA CheckStep ==
    ASSUME IInv, Undisturbed, NEW c \in Cmds, Check(c), UNCHANGED <<bridgeVars, shardVars>>
    PROVE  IInv' /\ Undisturbed'
<1>1. /\ cmd[c].pc = "check" /\ UNCHANGED <<procs, ran, mishaps>> /\ Busy(c)
      /\ \/ check(cmd[c].state.pid).st = "Dead" /\ Goto(c, "stopped")
         \/ Finish(c)
         \/ Goto(c, "signal")
    BY DEF Check, Busy
<1>2. Aged
    BY <1>1, SameProcs DEF IInv
<1>3. RestTyped
    BY <1>1, SameRest DEF IInv, TypeOK, bridgeVars, shardVars
<1>4. UNCHANGED <<devices, created, shards, deployed, sock>>
    BY DEF bridgeVars, shardVars
<1>5. {"signal", "stopped"} \subseteq StepsOf(cmd[c].op)
      /\ cmd[c].op \in {"bridge stop", "bridge delete", "shard stop"}
    BY <1>1, OpsOfSteps
<1>6. CASE Finish(c)
    BY <1>1, <1>2, <1>3, <1>4, <1>6, FinishEnds, MoveStep DEF IInv
<1>7. CASE Goto(c, "signal")
    <2>1. MovesTo(c, "signal")
        BY <1>7, GotoMoves DEF IInv, Steps
    <2> QED BY <1>1, <1>2, <1>3, <1>4, <1>5, <2>1, MoveStep
<1>8. CASE check(cmd[c].state.pid).st = "Dead" /\ Goto(c, "stopped")
    <2>1. MovesTo(c, "stopped")
        BY <1>8, GotoMoves DEF IInv, Steps
    <2>2. cmd[c].state.pid \in Pids \cup {NoPid}
        BY DEF IInv, TypeOK, Commands, States
    <2>3. Holder(cmd[c].state.pid) = {}
        BY <1>8, <2>2, StateFacts DEF IInv
    <2>4. cmd[c].seen = 0 \/ ~Live(cmd[c].seen)
        BY <1>1, <2>3 DEF IInv, StopsWhatWasSeen, Holder
    <2>5. ASSUME Calm PROVE NoDaemon(KindOf(cmd[c].op), cmd[c].row.id)
        <3>1. /\ Listed(Table(KindOf(cmd[c].op)), cmd[c].row)
              /\ PidIs(Table(KindOf(cmd[c].op)), cmd[c].row.id, cmd[c].row.pid)
              /\ cmd[c].state.pid = cmd[c].row.pid
            BY <1>1, <1>5, <2>5 DEF Calm, ActsOnItsRow
        <3>2. \A d \in Cmds : cmd[d].pc # "save"
            BY <1>1, <2>5 DEF Calm, OneAtATime, Busy
        <3>3. cmd[c].row \in Rows /\ KindOf(cmd[c].op) \in Daemons
            BY DEF IInv, TypeOK, Commands, KindOf, Daemons
        <3>4. check(cmd[c].row.pid).st # "Running"
            BY <1>8, <3>1
        <3> QED BY <2>5, <3>1, <3>2, <3>3, <3>4, DaemonHoldsPid DEF Calm, NoDaemon
    <2> QED BY <1>1, <1>2, <1>3, <1>4, <1>5, <2>1, <2>4, <2>5, MoveStep
<1> QED BY <1>1, <1>6, <1>7, <1>8

\* A signal ends a process or marks a daemon; it changes nothing else of it.
LEMMA DeliverFacts ==
    ASSUME NEW proc \in Procs, NEW signal, NEW new, new = Deliver(proc, signal)
    PROVE  /\ new \in Procs /\ new.pid = proc.pid /\ new.kind = proc.kind
           /\ new.row = proc.row /\ new.st \in {proc.st, "dead"}
<1>1. CASE new = [proc EXCEPT !.term = TRUE]
    <2>1. new.pid = proc.pid /\ new.kind = proc.kind /\ new.row = proc.row /\ new.st = proc.st
        BY <1>1 DEF Procs
    <2>2. TRUE \in BOOLEAN
        OBVIOUS
    <2>3. \A b \in BOOLEAN : [proc EXCEPT !.term = b] \in Procs
        BY DEF Procs
    <2>4. new \in Procs
        BY <1>1, <2>2, <2>3, Zenon
    <2> QED BY <2>1, <2>4
<1>2. CASE new = [proc EXCEPT !.st = "dead"]
    BY <1>2 DEF Procs
<1> QED BY <1>1, <1>2 DEF Deliver

\* The next round of process::stop: nothing but the process changes.
LEMMA SignalStep ==
    ASSUME IInv, Undisturbed, NEW c \in Cmds, Signal(c), UNCHANGED <<bridgeVars, shardVars>>
    PROVE  IInv' /\ Undisturbed'
<1> DEFINE signal == IF cmd[c].i = 3 THEN "SIGKILL" ELSE "SIGTERM"
<1>1. /\ cmd[c].pc = "signal" /\ UNCHANGED <<ran, mishaps>> /\ Busy(c)
      /\ \/ Finish(c) /\ UNCHANGED procs
         \/ \E p \in DOMAIN procs :
              /\ Live(p) /\ procs' = [procs EXCEPT ![p] = Deliver(procs[p], signal)]
              /\ cmd' = [cmd EXCEPT ![c].pc = "check", ![c].i = @ + 1]
    BY DEF Signal, Busy, Holder
<1>2. RestTyped
    BY <1>1, SameRest DEF IInv, TypeOK, bridgeVars, shardVars
<1>3. UNCHANGED <<devices, created, shards, deployed, sock>>
    BY DEF bridgeVars, shardVars
<1>4. CASE Finish(c) /\ UNCHANGED procs
    <2>1. Aged
        BY <1>4, SameProcs DEF IInv
    <2> QED BY <1>1, <1>2, <1>3, <1>4, <2>1, FinishEnds, MoveStep DEF IInv
<1>5. CASE \E p \in DOMAIN procs :
              /\ Live(p) /\ procs' = [procs EXCEPT ![p] = Deliver(procs[p], signal)]
              /\ cmd' = [cmd EXCEPT ![c].pc = "check", ![c].i = @ + 1]
    <2>1. PICK p \in DOMAIN procs :
              /\ Live(p) /\ procs' = [procs EXCEPT ![p] = Deliver(procs[p], signal)]
              /\ cmd' = [cmd EXCEPT ![c].pc = "check", ![c].i = @ + 1]
        BY <1>5
    <2> HIDE DEF signal
    <2> DEFINE new == Deliver(procs[p], signal)
    <2>2. procs[p] \in Procs
        BY Indices DEF IInv
    <2>3. /\ new \in Procs /\ new.pid = procs[p].pid /\ new.kind = procs[p].kind
          /\ new.row = procs[p].row /\ new.st \in {procs[p].st, "dead"}
        BY <2>2, DeliverFacts
    <2>4. procs' = [procs EXCEPT ![p] = new]
        BY <2>1
    <2> HIDE DEF new
    <2>5. Aged /\ procs'[p] = new /\ \A q \in DOMAIN procs \ {p} : procs'[q] = procs[q]
        BY <2>1, <2>3, <2>4, ProcMoves DEF IInv
    <2>6. \A q \in 1..Len(procs) : procs'[q].st = "serving" => procs[q].st = "serving"
        BY <2>3, <2>5, Indices DEF IInv
    <2> DEFINE k == [cmd[c] EXCEPT !.pc = "check", !.i = cmd[c].i + 1]
    <2>7. cmd' = [cmd EXCEPT ![c] = k]
        BY <2>1
    <2>8. cmd[c] \in Commands
        BY DEF IInv, TypeOK
    <2>9. /\ k \in Commands /\ k.pc = "check" /\ k.op = cmd[c].op /\ k.row = cmd[c].row
          /\ k.state = cmd[c].state /\ k.seen = cmd[c].seen
        <3>1. "check" \in Steps
            BY DEF Steps
        <3>2. cmd[c].i \in Nat
            BY ONLY <2>8 DEF Commands
        <3>3. cmd[c].i + 1 \in Nat
            BY ONLY <3>2
        <3> DEFINE n == cmd[c].i + 1
        <3>4. k = [cmd[c] EXCEPT !.pc = "check", !.i = n] /\ n \in Nat
            BY <3>3
        <3> HIDE DEF k, n
        <3> QED BY ONLY <2>8, <3>1, <3>4 DEF Commands
    <2> HIDE DEF k
    <2>10. MovesTo(c, "check")
        BY <2>7, <2>9 DEF IInv, TypeOK, MovesTo, Others
    <2>11. "check" \in StepsOf(cmd[c].op)
        BY <1>1, OpsOfSteps
    <2> QED BY <1>1, <1>2, <1>3, <2>5, <2>6, <2>10, <2>11, MoveStep
<1> QED BY <1>1, <1>4, <1>5

\* The fork fails and the command waits.
LEMMA HungStep ==
    ASSUME IInv, Undisturbed, NEW c \in Cmds, run_child_fails(c),
           UNCHANGED <<bridgeVars, shardVars>>
    PROVE  IInv' /\ Undisturbed'
<1>1. /\ cmd[c].pc = "fork" /\ UNCHANGED <<procs, ran, mishaps>> /\ Busy(c)
      /\ Goto(c, "hung")
    BY DEF run_child_fails, Busy
<1>2. Aged
    BY <1>1, SameProcs DEF IInv
<1>3. RestTyped
    BY <1>1, SameRest DEF IInv, TypeOK, bridgeVars, shardVars
<1>4. UNCHANGED <<devices, created, shards, deployed, sock>>
    BY DEF bridgeVars, shardVars
<1>5. "hung" \in StepsOf(cmd[c].op)
    BY <1>1, OpsOfSteps
<1>6. MovesTo(c, "hung")
    BY <1>1, GotoMoves DEF IInv, Steps
<1> QED BY <1>1, <1>2, <1>3, <1>4, <1>5, <1>6, MoveStep

\* Device::stop and Shard::stop: a row that stood for no process when it was
\* loaded has no daemon.
LEMMA StopStep ==
    ASSUME IInv, Undisturbed, NEW c \in Cmds, Stop(c), UNCHANGED <<bridgeVars, shardVars>>
    PROVE  IInv' /\ Undisturbed'
<1>1. /\ cmd[c].pc = "confirm" /\ UNCHANGED <<procs, ran, mishaps>> /\ Busy(c)
      /\ \/ Goto(c, "check")
         \/ cmd[c].state.st \in {"Dead", "Stopped"} /\ Goto(c, "stopped")
         \/ Finish(c)
    BY DEF Stop, Busy
<1>2. Aged
    BY <1>1, SameProcs DEF IInv
<1>3. RestTyped
    BY <1>1, SameRest DEF IInv, TypeOK, bridgeVars, shardVars
<1>4. UNCHANGED <<devices, created, shards, deployed, sock>>
    BY DEF bridgeVars, shardVars
<1>5. {"check", "stopped"} \subseteq StepsOf(cmd[c].op)
      /\ cmd[c].op \in {"bridge stop", "bridge delete", "shard stop"}
    BY <1>1, OpsOfSteps
<1>6. CASE Finish(c)
    BY <1>1, <1>2, <1>3, <1>4, <1>6, FinishEnds, MoveStep DEF IInv
<1>7. CASE Goto(c, "check")
    <2>1. MovesTo(c, "check")
        BY <1>7, GotoMoves DEF IInv, Steps
    <2> QED BY <1>1, <1>2, <1>3, <1>4, <1>5, <2>1, MoveStep
<1>8. CASE cmd[c].state.st \in {"Dead", "Stopped"} /\ Goto(c, "stopped")
    <2>1. MovesTo(c, "stopped")
        BY <1>8, GotoMoves DEF IInv, Steps
    <2>2. cmd[c].seen = 0
        BY <1>1, <1>8 DEF IInv, StopsWhatWasSeen
    <2>3. Calm => NoDaemon(KindOf(cmd[c].op), cmd[c].row.id)
        BY <1>1, <1>5, <1>8 DEF Calm, ActsOnItsRow
    <2> QED BY <1>1, <1>2, <1>3, <1>4, <1>5, <2>1, <2>2, <2>3, MoveStep
<1> QED BY <1>1, <1>6, <1>7, <1>8

\* A process advances or dies by itself, and its command does not notice.
LEMMA ProcessAlone ==
    ASSUME IInv, Undisturbed, Aged, UNCHANGED <<cmd, ran, mishaps, devices, created, shardVars>>,
           sock' \in [BridgeNames -> Nat], Calm => SocketsServed'
    PROVE  IInv' /\ Undisturbed'
<1>1. TablesKept
    BY SameTables DEF shardVars
<1>2. RestTyped
    BY DEF IInv, TypeOK, RestTyped, shardVars
<1>3. IInv'
    BY <1>1, <1>2, OrdinaryStep
<1>4. Undisturbed'
    BY ProcessStep DEF Undisturbed, shardVars
<1> QED BY <1>3, <1>4

\* A daemon exits, or any process ends by itself.
LEMMA DeathStep ==
    ASSUME IInv, Undisturbed, NEW p \in DOMAIN procs, Exit(p) \/ Die(p),
           UNCHANGED <<bridgeVars, shardVars>>
    PROVE  IInv' /\ Undisturbed'
<1>1. procs' = [procs EXCEPT ![p].st = "dead"] /\ UNCHANGED <<cmd, ran, mishaps>>
    BY DEF Exit, Die
<1>2. Aged /\ procs'[p].st = "dead" /\ \A q \in DOMAIN procs \ {p} : procs'[q] = procs[q]
    BY <1>1, ProcState DEF IInv
<1>3. Calm => SocketsServed'
    BY <1>2, AgedIndices DEF Calm, SocketsServed, IInv, bridgeVars
<1>4. sock' \in [BridgeNames -> Nat]
    BY DEF bridgeVars, IInv, TypeOK
<1> QED BY <1>1, <1>2, <1>3, <1>4, ProcessAlone DEF bridgeVars

\* The machine of a shard starts or is told to end.
LEMMA MachineStep ==
    ASSUME IInv, Undisturbed, NEW p \in DOMAIN procs, MachineUp(p) \/ MachineDown(p),
           UNCHANGED bridgeVars
    PROVE  IInv' /\ Undisturbed'
<1>1. PICK st \in {"serving", "ending"} : procs' = [procs EXCEPT ![p].st = st]
    BY DEF MachineUp, MachineDown
<1>2. /\ UNCHANGED <<cmd, ran, mishaps, shardVars>> /\ procs[p].kind = "shard" /\ Live(p)
    BY DEF MachineUp, MachineDown, Live
<1>3. /\ Aged /\ procs'[p].kind = procs[p].kind
      /\ \A q \in DOMAIN procs \ {p} : procs'[q] = procs[q]
    BY <1>1, <1>2, ProcState DEF IInv
<1>4. Calm => SocketsServed'
    BY <1>2, <1>3, AgedIndices DEF Calm, SocketsServed, IInv, bridgeVars
<1>5. sock' \in [BridgeNames -> Nat]
    BY DEF bridgeVars, IInv, TypeOK
<1> QED BY <1>2, <1>3, <1>4, <1>5, ProcessAlone DEF bridgeVars

\* A stranger gets a pid that is free.
LEMMA ReuseStep ==
    ASSUME IInv, Undisturbed, NEW pid \in Pids, ReusePid(pid),
           UNCHANGED <<bridgeVars, shardVars>>
    PROVE  IInv' /\ Undisturbed'
<1>1. PICK kind \in Strangers :
          procs' = Append(procs, [run_grandchild(pid, kind, NoRow) EXCEPT !.st = "serving"])
    BY DEF ReusePid
<1> DEFINE new == [run_grandchild(pid, kind, NoRow) EXCEPT !.st = "serving"]
<1>2. /\ new \in Procs /\ new.kind = kind /\ new.pid = pid
    <2> DEFINE first == run_grandchild(pid, kind, NoRow)
    <2>1. first = [pid |-> pid, kind |-> kind, row |-> NoRow, st |-> "setup", term |-> FALSE]
        BY DEF run_grandchild
    <2>2. new = [first EXCEPT !.st = "serving"]
        OBVIOUS
    <2> HIDE DEF first, new
    <2>3. first \in Procs /\ first.kind = kind /\ first.pid = pid
        BY <2>1, IdleTyped DEF Procs
    <2> QED BY <2>2, <2>3 DEF Procs
<1>3. procs' = Append(procs, new)
    BY <1>1
<1> HIDE DEF new
<1>4. /\ new \in Procs /\ new.kind = kind /\ kind \notin Daemons
      /\ new.kind # "shard" /\ new.kind # "bridge" /\ new.pid = pid
    BY <1>2 DEF Strangers, Daemons
<1>5. UNCHANGED <<cmd, ran, mishaps>> /\ Holder(pid) = {}
    BY DEF ReusePid, FreePids
<1>6. Spawned(new)
    BY <1>3, <1>4, <1>5 DEF Spawned
<1>7. KeepsToItsSteps'
    BY <1>5 DEF IInv, KeepsToItsSteps
<1>8. cmd' \in [Cmds -> Commands] /\ ran' \in Nat
      /\ mishaps' \subseteq {"overlap", "crash", "double"}
    BY <1>5 DEF IInv, TypeOK
<1>9. \A d \in Cmds : /\ cmd'[d].seen = cmd[d].seen /\ cmd'[d].op = cmd[d].op
                      /\ cmd'[d].row = cmd[d].row
                      /\ cmd'[d] = cmd[d] \/ cmd'[d].pc = "save"
    BY <1>5
<1>10. IInv'
    BY <1>4, <1>6, <1>7, <1>8, <1>9, SpawnStep
<1>11. ASSUME Calm PROVE Calm'
    <2> DEFINE n == Len(procs) + 1
    <2>1. /\ DOMAIN procs' = 1..n /\ DOMAIN procs = 1..Len(procs) /\ Len(procs) \in Nat
          /\ procs'[n] = new
          /\ \A p \in 1..Len(procs) : procs'[p] = procs[p]
        BY <1>6, SpawnFacts DEF IInv
    <2>2. \A p \in DOMAIN procs' : \/ p \in DOMAIN procs /\ procs'[p] = procs[p]
                                   \/ procs'[p] = new
        BY <2>1
    <2>3. \A p \in DOMAIN procs : p \in DOMAIN procs' /\ procs'[p] = procs[p]
        BY <2>1
    <2> HIDE DEF n
    <2>4. OneAtATime'
        BY <1>5, <1>11 DEF Calm, OneAtATime, Busy
    <2>5. ASSUME NEW d \in Cmds PROVE ActsOnItsRow(d)'
        <3>1. \A k \in Daemons : \A id : NoDaemon(k, id) => NoDaemon(k, id)'
            BY <1>4, <2>2 DEF NoDaemon, Live
        <3>2. ActsOnItsRow(d) /\ KindOf(cmd[d].op) \in Daemons
            BY <1>11 DEF Calm, KindOf, Daemons
        <3>3. \A k \in Daemons : Table(k)' = Table(k)
            BY DEF Table, bridgeVars, shardVars
        <3>4. \A p \in DOMAIN procs' : procs'[p].kind \in Daemons =>
                  p \in DOMAIN procs /\ procs'[p] = procs[p]
            BY <1>4, <2>2
        <3> QED BY <1>5, <3>1, <3>2, <3>3, <3>4 DEF ActsOnItsRow, KindOf, Live
    <2>6. DaemonOfRow'
        <3> SUFFICES ASSUME NEW p \in DOMAIN procs', Live(p)', procs'[p].kind \in Daemons
                     PROVE  (Listed(Table(procs[p].kind), procs[p].row) /\ Saved(p))'
            BY DEF DaemonOfRow
        <3>1. p \in DOMAIN procs /\ procs'[p] = procs[p]
            BY <1>4, <2>2
        <3>2. Listed(Table(procs[p].kind), procs[p].row) /\ Saved(p)
            BY <1>11, <3>1 DEF Calm, DaemonOfRow, Live
        <3> QED BY <1>5, <3>1, <3>2 DEF Table, Saved, bridgeVars, shardVars
    <2>7. OneDaemonPerRow'
        BY <1>4, <1>11, <2>2 DEF Calm, OneDaemonPerRow, Live
    <2>8. SocketsServed'
        BY <1>4, <1>11, <2>2 DEF Calm, SocketsServed, bridgeVars
    <2> QED BY <2>4, <2>5, <2>6, <2>7, <2>8 DEF Calm
<1>12. Undisturbed'
    BY <1>5, <1>11 DEF Undisturbed
<1> QED BY <1>10, <1>12

\* A daemon is forked: its pid was free, its port is handed over by the
\* command, and its row had no daemon unless that was seen when it was loaded.
LEMMA ForkStep ==
    ASSUME IInv, Undisturbed, NEW c \in Cmds, NEW kind \in Daemons, fork(c, kind),
           cmd[c].op = (IF kind = "bridge" THEN "bridge start" ELSE "shard run"),
           UNCHANGED <<bridgeVars, shardVars>>
    PROVE  IInv' /\ Undisturbed'
<1>1. PICK pid \in FreePids :
          /\ procs' = Append(procs, run_grandchild(pid, kind, cmd[c].row))
          /\ cmd' = [cmd EXCEPT ![c].pc = "save", ![c].state = Running(pid)]
    BY DEF fork
<1> DEFINE new == run_grandchild(pid, kind, cmd[c].row)
           k == [cmd[c] EXCEPT !.pc = "save", !.state = Running(pid)]
<1>2. cmd[c].pc = "fork" /\ ran' = ran /\ Holder(pid) = {} /\ pid \in Pids
    BY DEF fork, FreePids
<1>3. cmd[c] \in Commands /\ cmd[c].row \in Rows /\ KindOf(cmd[c].op) = kind
    BY DEF IInv, TypeOK, Commands, KindOf, BridgeOps, Daemons
<1>4. mishaps' = mishaps \cup (IF cmd[c].state.st = "Running" THEN {"double"} ELSE {})
    BY DEF fork
<1>5. mishaps' \subseteq {"overlap", "crash", "double"}
    <2>1. mishaps \subseteq {"overlap", "crash", "double"}
        BY DEF IInv, TypeOK
    <2>2. CASE cmd[c].state.st = "Running"
        BY ONLY <1>4, <2>1, <2>2
    <2>3. CASE cmd[c].state.st # "Running"
        BY ONLY <1>4, <2>1, <2>3
    <2> QED BY <2>2, <2>3
<1>6. /\ new \in Procs /\ new.kind = kind /\ new.row = cmd[c].row /\ new.pid = pid
      /\ new.st = "setup"
    <2>1. new = [pid |-> pid, kind |-> kind, row |-> cmd[c].row, st |-> "setup", term |-> FALSE]
        BY DEF run_grandchild
    <2> HIDE DEF new
    <2> QED BY <1>2, <1>3, <2>1 DEF Procs
<1>7. /\ k \in Commands /\ k.pc = "save" /\ k.op = cmd[c].op /\ k.row = cmd[c].row
      /\ k.seen = cmd[c].seen /\ k.state.st = "Running" /\ k.state.pid = pid
    <2> DEFINE s == Running(pid)
    <2>1. s \in States /\ s.st = "Running" /\ s.pid = pid
        BY <1>2 DEF Running, States
    <2>2. k = [cmd[c] EXCEPT !.pc = "save", !.state = s] /\ "save" \in Steps
        BY DEF Steps
    <2> HIDE DEF k, s
    <2> QED BY ONLY <1>3, <2>1, <2>2 DEF Commands
<1>8. procs' = Append(procs, new) /\ cmd' = [cmd EXCEPT ![c] = k]
    BY <1>1
<1> HIDE DEF new, k
<1>9. Spawned(new)
    BY <1>2, <1>6, <1>8 DEF Spawned
<1>10. Others(c) /\ cmd'[c] = k
    BY <1>7, <1>8 DEF Others, IInv, TypeOK
<1>11. KeepsToItsSteps'
    <2>1. "save" \in StepsOf(cmd[c].op)
        BY <1>2, OpsOfSteps
    <2> QED BY <1>7, <1>10, <2>1 DEF IInv, KeepsToItsSteps, Others
<1>12. \A d \in Cmds : /\ cmd'[d].seen = cmd[d].seen /\ cmd'[d].op = cmd[d].op
                       /\ cmd'[d].row = cmd[d].row
                       /\ cmd'[d] = cmd[d] \/ cmd'[d].pc = "save"
    BY <1>7, <1>10 DEF Others
<1>13. new.kind = "shard" =>
           /\ \A d \in Cmds : HoldsPort(d)' => cmd'[d].row.cid # new.row.cid
           /\ \A p \in 1..Len(procs) :
                Live(p) /\ procs[p].kind = "shard" => procs[p].row.cid # new.row.cid
    <2> SUFFICES ASSUME kind = "shard"
                 PROVE  /\ \A d \in Cmds : HoldsPort(d)' => cmd'[d].row.cid # new.row.cid
                        /\ \A p \in 1..Len(procs) :
                             Live(p) /\ procs[p].kind = "shard" => procs[p].row.cid # new.row.cid
        BY <1>6
    <2>1. HoldsPort(c)
        BY <1>2 DEF HoldsPort
    <2>2. \A d \in Cmds : HoldsPort(d)' => d # c /\ HoldsPort(d) /\ cmd'[d].row = cmd[d].row
        BY <1>7, <1>10 DEF HoldsPort, Others
    <2> QED BY <1>6, <2>1, <2>2, Indices DEF IInv, PortsExclusive
<1>14. new.kind = "bridge" => new.row.name \in BridgeNames
    BY <1>6 DEF IInv, RowsKeyed, BridgeOps
<1>15. IInv'
    <2>1. cmd' \in [Cmds -> Commands] /\ ran' \in Nat
        BY <1>2, <1>10 DEF Others, IInv, TypeOK
    <2> QED BY <1>5, <1>9, <1>11, <1>12, <1>13, <1>14, <2>1, SpawnStep
<1>16. ASSUME mishaps' = {} PROVE Calm'
    <2> DEFINE n == Len(procs) + 1
    <2>1. /\ DOMAIN procs' = 1..n /\ DOMAIN procs = 1..Len(procs) /\ Len(procs) \in Nat
          /\ procs'[n] = new
          /\ \A p \in 1..Len(procs) : procs'[p] = procs[p]
        BY <1>9, SpawnFacts DEF IInv
    <2>2. \A p \in DOMAIN procs' : \/ p \in DOMAIN procs /\ procs'[p] = procs[p]
                                   \/ p = n /\ procs'[p] = new
        BY ONLY <2>1 DEF n
    <2> HIDE DEF n
    <2>3. mishaps = {} /\ cmd[c].state.st # "Running"
        <3>1. mishaps = {}
            BY <1>4, <1>16
        <3>2. ASSUME cmd[c].state.st = "Running" PROVE FALSE
            BY <1>4, <1>16, <3>2
        <3> QED BY <3>1, <3>2
    <2>4. Calm
        BY <2>3 DEF Undisturbed
    <2>5. \A d \in Cmds \ {c} : cmd'[d] = cmd[d] /\ ~Busy(d)
        BY <1>2, <1>10, <2>4 DEF Others, Calm, OneAtATime, Busy
    <2>6. NoDaemon(kind, cmd[c].row.id) /\ Listed(Table(kind), cmd[c].row)
          /\ PidIs(Table(kind), cmd[c].row.id, cmd[c].row.pid)
        BY <1>2, <1>3, <2>3, <2>4 DEF Calm, ActsOnItsRow
    <2>7. UNCHANGED <<devices, shards, sock>>
        BY DEF bridgeVars, shardVars
    <2>8. OneAtATime'
        <3> SUFFICES ASSUME NEW e \in Cmds, NEW d \in Cmds,
                            cmd'[e].pc # "idle", cmd'[d].pc # "idle"
                     PROVE  e = d
            BY DEF OneAtATime, Busy
        <3>1. \A x \in Cmds \ {c} : cmd'[x].pc = "idle"
            BY <2>5 DEF Busy
        <3> QED BY ONLY <3>1, e \in Cmds, d \in Cmds,
                        cmd'[e].pc # "idle", cmd'[d].pc # "idle"
    <2>9. ASSUME NEW d \in Cmds PROVE ActsOnItsRow(d)'
        <3>1. CASE d # c
            <4>1. cmd'[d].op = "none"
                BY <2>5, <3>1, IdleHasNoOp DEF Busy, IInv
            <4> QED BY <4>1 DEF ActsOnItsRow
        <3>2. CASE d = c
            <4>1. \A p \in DOMAIN procs' :
                     procs'[p].st # "dead" /\ procs'[p].kind = kind /\ procs'[p].row.id = cmd[c].row.id
                         => procs'[p].pid = pid
                BY <1>6, <2>2, <2>6 DEF NoDaemon, Live
            <4>2. Table(kind)' = Table(kind)
                BY <2>7 DEF Table
            <4>3. KindOf(cmd'[c].op) = kind
                BY <1>3, <1>7, <1>10
            <4>4. /\ cmd'[c].pc = "save" /\ cmd'[c].row = cmd[c].row
                  /\ cmd'[c].state.st = "Running" /\ cmd'[c].state.pid = pid
                BY <1>7, <1>10
            <4> QED BY <2>6, <3>2, <4>1, <4>2, <4>3, <4>4 DEF ActsOnItsRow, Live
        <3> QED BY <3>1, <3>2
    <2>10. DaemonOfRow'
        <3> SUFFICES ASSUME NEW p \in DOMAIN procs', Live(p)', procs'[p].kind \in Daemons
                     PROVE  (Listed(Table(procs[p].kind), procs[p].row) /\ Saved(p))'
            BY DEF DaemonOfRow
        <3>1. CASE procs'[p] = new
            <4>1. Listed(Table(procs[p].kind), procs[p].row)'
                BY <1>6, <2>6, <2>7, <3>1 DEF Table
            <4>2. /\ cmd'[c].pc = "save" /\ KindOf(cmd'[c].op) = procs'[p].kind
                  /\ cmd'[c].row.id = procs'[p].row.id
                BY <1>3, <1>6, <1>7, <1>10, <3>1
            <4> QED BY <4>1, <4>2 DEF Saved
        <3>2. CASE p \in DOMAIN procs /\ procs'[p] = procs[p]
            <4>1. Listed(Table(procs[p].kind), procs[p].row) /\ Saved(p)
                BY <2>4, <3>2 DEF Calm, DaemonOfRow, Live
            <4>2. PidIs(Table(procs[p].kind), procs[p].row.id, procs[p].pid)
                BY <1>2, <2>5, <4>1 DEF Saved, Busy
            <4> QED BY <2>7, <3>2, <4>1, <4>2 DEF Table, Saved
        <3> QED BY <2>2, <3>1, <3>2
    <2>11. OneDaemonPerRow'
        <3>1. \A p \in DOMAIN procs :
                 procs[p].st # "dead" /\ procs[p].kind = kind => procs[p].row.id # new.row.id
            BY <1>6, <2>6 DEF NoDaemon, Live
        <3>2. OneDaemonPerRow /\ new.kind = kind
            BY <1>6, <2>4 DEF Calm
        <3> QED BY ONLY <2>2, <3>1, <3>2 DEF OneDaemonPerRow, Live
    <2>12. SocketsServed'
        BY <1>6, <2>2, <2>4, <2>7 DEF Calm, SocketsServed
    <2> QED BY <2>8, <2>9, <2>10, <2>11, <2>12 DEF Calm
<1>17. Undisturbed'
    BY <1>16 DEF Undisturbed
<1> QED BY <1>15, <1>17

-----------------------------------------------------------------------------
(* The commands on bridges and shards. *)

\* The steps a command begins with.
LEMMA FirstSteps ==
    /\ {"bridge start", "bridge stop", "bridge delete", "shard run", "shard stop",
        "shard delete"} \subseteq (BridgeOps \cup ShardOps) \ {"shard deploy"}
    /\ KindOf("bridge start") = "bridge" /\ KindOf("bridge stop") = "bridge"
    /\ KindOf("bridge delete") = "bridge" /\ KindOf("shard run") = "shard"
    /\ KindOf("shard stop") = "shard" /\ KindOf("shard delete") = "shard"
    /\ "fork" \in StepsOf("bridge start") /\ "confirm" \in StepsOf("bridge stop")
    /\ "confirm" \in StepsOf("bridge delete") /\ "confirm delete" \in StepsOf("bridge delete")
    /\ "bind" \in StepsOf("shard run") /\ "confirm" \in StepsOf("shard stop")
    /\ "confirm delete" \in StepsOf("shard delete") /\ "files" \in StepsOf("shard deploy")
BY DEF BridgeOps, ShardOps, KindOf, StepsOf

\* A command on a bridge loads the row its name finds.
LEMMA BridgeLoads ==
    ASSUME IInv, Undisturbed, NEW c \in Cmds, NEW name,
           start_bridge(c, name) \/ stop_bridge(c, name) \/ delete_bridge(c, name),
           UNCHANGED shardVars
    PROVE  IInv' /\ Undisturbed'
<1> DEFINE Found == FirstNamed(Table("bridge"), name)
<1>0. UNCHANGED <<procs, bridgeVars, shardVars>>
    BY DEF start_bridge, stop_bridge, delete_bridge
<1>1. \E row \in Found :
         \/ Begin(c, "bridge start", "fork", row)
         \/ Begin(c, "bridge stop", "confirm", row)
         \/ Begin(c, "bridge delete", "confirm", row)
         \/ Begin(c, "bridge delete", "confirm delete", row) /\ StateOf(row.pid).st # "Running"
    BY DEF start_bridge, stop_bridge, delete_bridge, get_bridge, Table
<1>2. PICK row \in Found :
         \/ Begin(c, "bridge start", "fork", row)
         \/ Begin(c, "bridge stop", "confirm", row)
         \/ Begin(c, "bridge delete", "confirm", row)
         \/ Begin(c, "bridge delete", "confirm delete", row) /\ StateOf(row.pid).st # "Running"
    BY <1>1
<1> HIDE DEF Found
<1>3. CASE Begin(c, "bridge start", "fork", row)
    BY <1>0, <1>3, FirstSteps, BeginLoaded DEF Found
<1>4. CASE Begin(c, "bridge stop", "confirm", row)
    BY <1>0, <1>4, FirstSteps, BeginLoaded DEF Found
<1>5. CASE Begin(c, "bridge delete", "confirm", row)
    BY <1>0, <1>5, FirstSteps, BeginLoaded DEF Found
<1>6. CASE Begin(c, "bridge delete", "confirm delete", row) /\ StateOf(row.pid).st # "Running"
    BY <1>0, <1>6, FirstSteps, BeginLoaded DEF Found
<1> QED BY <1>2, <1>3, <1>4, <1>5, <1>6

\* A command on a shard loads the row its name finds.
LEMMA ShardLoads ==
    ASSUME IInv, Undisturbed, NEW c \in Cmds, NEW name,
           shard_run(c, name) \/ stop_shard(c, name) \/ shard_delete(c, name),
           UNCHANGED bridgeVars
    PROVE  IInv' /\ Undisturbed'
<1> DEFINE Found == FirstNamed(Table("shard"), name)
<1>0. UNCHANGED <<procs, bridgeVars, shardVars>>
    BY DEF shard_run, stop_shard, shard_delete
<1>1. \E row \in Found :
         \/ Begin(c, "shard run", "bind", row)
         \/ Begin(c, "shard stop", "confirm", row)
         \/ Begin(c, "shard delete", "confirm delete", row) /\ StateOf(row.pid).st # "Running"
    BY DEF shard_run, stop_shard, shard_delete, get_shard, Table
<1>2. PICK row \in Found :
         \/ Begin(c, "shard run", "bind", row)
         \/ Begin(c, "shard stop", "confirm", row)
         \/ Begin(c, "shard delete", "confirm delete", row) /\ StateOf(row.pid).st # "Running"
    BY <1>1
<1> HIDE DEF Found
<1>3. CASE Begin(c, "shard run", "bind", row)
    BY <1>0, <1>3, FirstSteps, BeginLoaded DEF Found
<1>4. CASE Begin(c, "shard stop", "confirm", row)
    BY <1>0, <1>4, FirstSteps, BeginLoaded DEF Found
<1>5. CASE Begin(c, "shard delete", "confirm delete", row) /\ StateOf(row.pid).st # "Running"
    BY <1>0, <1>5, FirstSteps, BeginLoaded DEF Found
<1> QED BY <1>2, <1>3, <1>4, <1>5

\* A daemon is forked for a bridge or a shard, or a command stops one.
LEMMA ForkOrStop ==
    ASSUME IInv, Undisturbed, NEW c \in Cmds,
           \/ (StartFork(c) \/ device_stop(c)) /\ UNCHANGED shardVars
           \/ (RunFork(c) \/ shard_stop(c)) /\ UNCHANGED bridgeVars
    PROVE  IInv' /\ Undisturbed'
<1>1. UNCHANGED <<bridgeVars, shardVars>>
    BY DEF StartFork, device_stop, RunFork, shard_stop
<1>2. \/ fork(c, "bridge") /\ cmd[c].op = "bridge start"
      \/ fork(c, "shard") /\ cmd[c].op = "shard run"
      \/ Stop(c)
    BY DEF StartFork, device_stop, RunFork, shard_stop
<1>3. CASE fork(c, "bridge") /\ cmd[c].op = "bridge start"
    BY <1>1, <1>3, ForkStep DEF Daemons
<1>4. CASE fork(c, "shard") /\ cmd[c].op = "shard run"
    BY <1>1, <1>4, ForkStep DEF Daemons
<1>5. CASE Stop(c)
    BY <1>1, <1>5, StopStep
<1> QED BY <1>2, <1>3, <1>4, <1>5

\* A command that has ended acts on no row.
LEMMA EndedActs == ASSUME NEW c, Ends(c) PROVE ActsOnItsRow(c)'
<1>1. cmd'[c].op = "none"
    BY DEF Ends, Idle
<1> QED BY ONLY <1>1 DEF ActsOnItsRow

\* A command saves its row with a pid, and ends or goes on to ask again.  When
\* nothing unusual has happened, that pid is the one of the daemon of the row.
LEMMA SaveStep ==
    ASSUME IInv, Undisturbed, NEW c \in Cmds, NEW kind \in Daemons, NEW row,
           kind = KindOf(cmd[c].op), cmd[c].op \notin {"none", "shard deploy"},
           Busy(c), cmd[c].pc # "purge",
           row \in Rows, row.id = cmd[c].row.id, row.name = cmd[c].row.name,
           \/ kind = "bridge" /\ devices' = Upsert(devices, row) /\ shards' = shards
           \/ kind = "shard" /\ shards' = Upsert(shards, row) /\ devices' = devices,
           UNCHANGED <<procs, ran, mishaps, created, deployed, sock>>,
           \/ Ends(c)
           \/ MovesTo(c, "confirm delete") /\ "confirm delete" \in StepsOf(cmd[c].op)
              /\ (Calm => NoDaemon(kind, cmd[c].row.id)),
           Calm => \A p \in DOMAIN procs : Live(p) /\ Mine(c, p) => procs[p].pid = row.pid
    PROVE  IInv' /\ Undisturbed'
<1>1. /\ kind = "bridge" => row.id \in 1..created /\ row.name \in BridgeNames
      /\ kind = "shard" => row.id \in 1..deployed /\ row.name \in ShardNames
    <2>1. cmd[c].op \in BridgeOps \/ cmd[c].op \in ShardOps
        BY DEF IInv, TypeOK, Commands
    <2>2. kind = "bridge" => cmd[c].op \in BridgeOps
        BY DEF KindOf
    <2>3. kind = "shard" => cmd[c].op \in ShardOps
        BY <2>1 DEF KindOf
    <2> QED BY <2>2, <2>3 DEF IInv, RowsKeyed
<1>2. /\ devices \in Seq(Rows) /\ created \in Nat /\ Keyed(devices, BridgeNames, created)
      /\ shards \in Seq(Rows) /\ deployed \in Nat /\ Keyed(shards, ShardNames, deployed)
    BY DEF IInv, TypeOK, RowsKeyed
<1>3. TablesKept
    <2>1. CASE kind = "bridge"
        <3>1. Upsert(devices, row) \in Seq(Rows)
              /\ Keyed(Upsert(devices, row), BridgeNames, created)
            BY <1>1, <1>2, <2>1, UpsertKeyed
        <3>2. /\ devices' = Upsert(devices, row) /\ shards' = shards
              /\ created' = created /\ deployed' = deployed
            BY <2>1
        <3> QED BY ONLY <1>2, <3>1, <3>2 DEF TablesKept
    <2>2. CASE kind = "shard"
        <3>1. Upsert(shards, row) \in Seq(Rows)
              /\ Keyed(Upsert(shards, row), ShardNames, deployed)
            BY <1>1, <1>2, <2>2, UpsertKeyed
        <3>2. /\ shards' = Upsert(shards, row) /\ devices' = devices
              /\ created' = created /\ deployed' = deployed
            BY <2>2
        <3> QED BY ONLY <1>2, <3>1, <3>2 DEF TablesKept
    <2> QED BY <2>1, <2>2
<1>4. RestTyped
    BY SameRest DEF IInv, TypeOK
<1>5. Aged
    BY SameProcs DEF IInv
<1>6. IInv'
    <2>1. \/ Ends(c)
          \/ \E step \in StepsOf(cmd[c].op) :
                 /\ MovesTo(c, step)
                 /\ step \in {"confirm", "check", "signal"} =>
                        cmd[c].pc \in {"confirm", "check", "signal"}
                 /\ step = "stopped" => cmd[c].seen = 0 \/ ~Live(cmd[c].seen)
                 /\ step \in {"fork", "hung"} => cmd[c].pc \in {"fork", "hung"}
          \/ UNCHANGED cmd
        OBVIOUS
    <2> QED BY ONLY <1>3, <1>4, <1>5, <2>1, IInv, OrdinaryStep
<1>7. ASSUME Calm PROVE Calm'
    <2>1. Listed(Table(kind), cmd[c].row)
        BY <1>7 DEF Calm, ActsOnItsRow
    <2> DEFINE u == Upsert(Table(kind), row)
    <2>2. /\ Carries(Table(kind), u, {row.id}) /\ Listed(u, cmd[c].row)
          /\ \A r \in Rows : Listed(Table(kind), r) => Listed(u, r)
          /\ PidIs(u, row.id, row.pid)
        <3>1. CASE kind = "bridge"
            BY <1>2, <2>1, <3>1, UpsertCarries DEF Table
        <3>2. CASE kind = "shard"
            BY <1>2, <2>1, <3>2, UpsertCarries DEF Table
        <3> QED BY <3>1, <3>2
    <2>3. Table(kind)' = u
        BY DEF Table
    <2> HIDE DEF u
    <2>4. Carries(devices, devices', OwnIds(c, "bridge"))
        <3>1. CASE kind = "bridge"
            BY <2>2, <2>3, <3>1 DEF Table, OwnIds
        <3>2. CASE kind = "shard"
            BY <3>2, CarriesSame
        <3> QED BY <3>1, <3>2
    <2>5. Carries(shards, shards', OwnIds(c, "shard"))
        <3>1. CASE kind = "shard"
            BY <2>2, <2>3, <3>1 DEF Table, OwnIds
        <3>2. CASE kind = "bridge"
            BY <3>2, CarriesSame
        <3> QED BY <3>1, <3>2
    <2>6. ASSUME NEW p \in DOMAIN procs, Live(p), procs[p].kind \in Daemons, Mine(c, p)
          PROVE  (Listed(Table(procs[p].kind), procs[p].row) /\ Saved(p))'
        <3>1. procs[p].kind = kind /\ procs[p].row.id = row.id /\ procs[p].pid = row.pid
            BY <1>7, <2>6 DEF Mine
        <3>2. procs[p].row \in Rows
            BY Indices DEF IInv, Procs
        <3>3. Listed(Table(kind), procs[p].row)
            BY <1>7, <2>6, <3>1 DEF Calm, DaemonOfRow
        <3>4. Listed(u, procs[p].row) /\ PidIs(u, procs[p].row.id, procs[p].pid)
            BY <2>2, <3>1, <3>2, <3>3
        <3>5. Table(procs[p].kind)' = u /\ procs' = procs
            BY <2>3, <3>1
        <3> QED BY <3>4, <3>5 DEF Saved
    <2>7. ActsOnItsRow(c)'
        <3>1. CASE Ends(c)
            BY <3>1, EndedActs
        <3>2. CASE MovesTo(c, "confirm delete") /\ NoDaemon(kind, cmd[c].row.id)
            <4>1. /\ cmd'[c].pc = "confirm delete" /\ cmd'[c].op = cmd[c].op
                  /\ cmd'[c].row = cmd[c].row
                BY <3>2 DEF MovesTo
            <4>2. Table(KindOf(cmd[c].op))' = u
                BY <2>3, <4>1
            <4>3. NoDaemon(KindOf(cmd[c].op), cmd[c].row.id)'
                BY <3>2, <4>1 DEF NoDaemon, Live
            <4> QED BY <2>2, <4>1, <4>2, <4>3 DEF ActsOnItsRow
        <3> QED BY <1>7, <3>1, <3>2
    <2>8. SocketsServed'
        BY <1>7 DEF Calm, SocketsServed
    <2>9. Others(c)
        BY DEF Ends, MovesTo
    <2> QED BY ONLY IInv, <1>7, <1>6, c \in Cmds, Busy(c), <1>5, <2>4, <2>5, <2>6, <2>7, <2>8, <2>9, BusyStep
<1>8. Undisturbed'
    BY <1>7 DEF Undisturbed
<1> QED BY <1>6, <1>8

\* The row that is saved is the loaded one with another pid.
LEMMA RowWithPid ==
    ASSUME NEW r \in Rows, NEW pid \in Pids \cup {NoPid}, NEW row, row = [r EXCEPT !.pid = pid]
    PROVE  row \in Rows /\ row.id = r.id /\ row.name = r.name /\ row.pid = pid
BY DEF Rows

\* The pid that is saved for a state.
LEMMA OptionalPid ==
    /\ \A state \in States : /\ optional(state) \in Pids \cup {NoPid}
                             /\ state.st = "Running" => optional(state) = state.pid
    /\ optional(Stopped) = NoPid
<1>1. \A state \in States : /\ optional(state) \in Pids \cup {NoPid}
                            /\ state.st = "Running" => optional(state) = state.pid
    BY DEF States, optional
<1>2. optional(Stopped) = NoPid
    BY DEF optional, Stopped
<1> QED BY <1>1, <1>2

\* start and run save the pid of the daemon they have forked.
LEMMA PidSaved ==
    ASSUME IInv, Undisturbed, NEW c \in Cmds,
           \/ StartSave(c) /\ UNCHANGED shardVars
           \/ RunSave(c) /\ UNCHANGED bridgeVars
    PROVE  IInv' /\ Undisturbed'
<1> DEFINE kind == KindOf(cmd[c].op)
           pid == optional(cmd[c].state)
           row == [cmd[c].row EXCEPT !.pid = pid]
<1>1. /\ cmd[c].row \in Rows /\ cmd[c].state \in States
      /\ pid \in Pids \cup {NoPid}
      /\ cmd[c].state.st = "Running" => pid = cmd[c].state.pid
    BY OptionalPid DEF IInv, TypeOK, Commands
<1>2. /\ \/ kind = "bridge" /\ devices' = Upsert(devices, row) /\ shards' = shards
         \/ kind = "shard" /\ shards' = Upsert(shards, row) /\ devices' = devices
      /\ UNCHANGED <<procs, ran, mishaps, created, deployed, sock>>
      /\ cmd[c].pc = "save" /\ cmd[c].op \in {"bridge start", "shard run"}
      /\ Finish(c)
    BY DEF StartSave, RunSave, device_save, shard_save, At, bridgeVars, shardVars,
           KindOf, BridgeOps
<1> HIDE DEF kind, pid, row
<1>3. row \in Rows /\ row.id = cmd[c].row.id /\ row.name = cmd[c].row.name /\ row.pid = pid
    BY <1>1, RowWithPid DEF row
<1>4. kind \in Daemons /\ kind = KindOf(cmd[c].op) /\ Busy(c)
    BY <1>2 DEF kind, KindOf, Daemons, Busy
<1>5. Ends(c)
    BY <1>2, FinishEnds DEF IInv
<1>6. ASSUME Calm PROVE \A p \in DOMAIN procs : Live(p) /\ Mine(c, p) => procs[p].pid = row.pid
    BY <1>1, <1>2, <1>3, <1>6 DEF Calm, ActsOnItsRow, Mine
<1> QED BY <1>2, <1>3, <1>4, <1>5, <1>6, SaveStep

\* stop and delete save that the daemon is gone.
LEMMA StopSaved ==
    ASSUME IInv, Undisturbed, NEW c \in Cmds,
           \/ StopSave(c) /\ UNCHANGED shardVars
           \/ ShardStopSave(c) /\ UNCHANGED bridgeVars
    PROVE  IInv' /\ Undisturbed'
<1> DEFINE kind == KindOf(cmd[c].op)
           pid == optional(Stopped)
           row == [cmd[c].row EXCEPT !.pid = pid]
<1>1. cmd[c].row \in Rows /\ pid \in Pids \cup {NoPid}
    BY OptionalPid DEF IInv, TypeOK, Commands
<1>2. /\ \/ kind = "bridge" /\ devices' = Upsert(devices, row) /\ shards' = shards
         \/ kind = "shard" /\ shards' = Upsert(shards, row) /\ devices' = devices
      /\ UNCHANGED <<procs, ran, mishaps, created, deployed, sock>>
      /\ cmd[c].pc = "stopped" /\ cmd[c].op \in {"bridge stop", "bridge delete", "shard stop"}
      /\ Finish(c) \/ (Goto(c, "confirm delete") /\ cmd[c].op = "bridge delete")
    BY DEF StopSave, ShardStopSave, At, bridgeVars, shardVars, KindOf, BridgeOps
<1> HIDE DEF kind, pid, row
<1>3. row \in Rows /\ row.id = cmd[c].row.id /\ row.name = cmd[c].row.name
    BY <1>1, RowWithPid DEF row
<1>4. kind \in Daemons /\ kind = KindOf(cmd[c].op) /\ Busy(c)
    BY <1>2 DEF kind, KindOf, Daemons, Busy
<1>5. ASSUME Calm PROVE NoDaemon(kind, cmd[c].row.id)
    BY <1>2, <1>4, <1>5 DEF Calm, ActsOnItsRow
<1>6. ASSUME Calm PROVE \A p \in DOMAIN procs : Live(p) /\ Mine(c, p) => procs[p].pid = row.pid
    BY <1>4, <1>5, <1>6 DEF NoDaemon, Mine
<1>7. \/ Ends(c)
      \/ MovesTo(c, "confirm delete") /\ "confirm delete" \in StepsOf(cmd[c].op)
         /\ (Calm => NoDaemon(kind, cmd[c].row.id))
    <2>1. CASE Finish(c)
        BY <2>1, FinishEnds DEF IInv
    <2>2. CASE Goto(c, "confirm delete") /\ cmd[c].op = "bridge delete"
        <3>1. "confirm delete" \in Steps
            BY DEF Steps
        <3>2. MovesTo(c, "confirm delete")
            BY <2>2, <3>1, GotoMoves DEF IInv
        <3> QED BY <1>5, <2>2, <3>2, FirstSteps
    <2> QED BY <1>2, <2>1, <2>2
<1> QED BY <1>2, <1>3, <1>4, <1>6, <1>7, SaveStep

\* delete removes the row only when its daemon is gone.
LEMMA RowRemoved ==
    ASSUME IInv, Undisturbed, NEW c \in Cmds,
           \/ device_delete(c) /\ UNCHANGED shardVars
           \/ PurgeRow(c) /\ UNCHANGED bridgeVars
    PROVE  IInv' /\ Undisturbed'
<1> DEFINE kind == KindOf(cmd[c].op)
           id == cmd[c].row.id
<1>1. /\ \/ kind = "bridge" /\ devices' = Without(devices, id) /\ shards' = shards
         \/ kind = "shard" /\ shards' = Without(shards, id) /\ devices' = devices
      /\ UNCHANGED <<procs, ran, mishaps, created, deployed, sock>>
      /\ cmd[c].pc = "confirm delete" /\ cmd[c].op \in {"bridge delete", "shard delete"}
      /\ Finish(c) \/ (Goto(c, "purge") /\ cmd[c].op = "shard delete")
    BY DEF device_delete, PurgeRow, At, bridgeVars, shardVars, KindOf, BridgeOps
<1>2. kind \in Daemons /\ Busy(c)
    BY <1>1 DEF KindOf, Daemons, Busy
<1> HIDE DEF id
<1>3. /\ devices \in Seq(Rows) /\ created \in Nat /\ Keyed(devices, BridgeNames, created)
      /\ shards \in Seq(Rows) /\ deployed \in Nat /\ Keyed(shards, ShardNames, deployed)
    BY DEF IInv, TypeOK, RowsKeyed
<1>4. /\ Without(devices, id) \in Seq(Rows) /\ Keyed(Without(devices, id), BridgeNames, created)
      /\ Without(shards, id) \in Seq(Rows) /\ Keyed(Without(shards, id), ShardNames, deployed)
    BY <1>3, WithoutKeyed
<1>5. TablesKept
    <2>1. /\ devices' \in {devices, Without(devices, id)}
          /\ shards' \in {shards, Without(shards, id)}
          /\ created' = created /\ deployed' = deployed
        BY <1>1
    <2> QED BY ONLY <1>3, <1>4, <2>1 DEF TablesKept
<1>6. RestTyped
    BY <1>1, SameRest DEF IInv, TypeOK
<1>7. Aged
    BY <1>1, SameProcs DEF IInv
<1>8. Ends(c) \/ (MovesTo(c, "purge") /\ "purge" \in StepsOf(cmd[c].op))
    <2>1. CASE Finish(c)
        BY <2>1, FinishEnds DEF IInv
    <2>2. CASE Goto(c, "purge") /\ cmd[c].op = "shard delete"
        <3>1. "purge" \in Steps /\ "purge" \in StepsOf(cmd[c].op)
            BY <2>2 DEF Steps, StepsOf
        <3>2. MovesTo(c, "purge")
            BY <2>2, <3>1, GotoMoves DEF IInv
        <3> QED BY <3>1, <3>2
    <2> QED BY <1>1, <2>1, <2>2
<1>9. IInv'
    <2>1. \/ Ends(c)
          \/ \E step \in StepsOf(cmd[c].op) :
                 /\ MovesTo(c, step)
                 /\ step \in {"confirm", "check", "signal"} =>
                        cmd[c].pc \in {"confirm", "check", "signal"}
                 /\ step = "stopped" => cmd[c].seen = 0 \/ ~Live(cmd[c].seen)
                 /\ step \in {"fork", "hung"} => cmd[c].pc \in {"fork", "hung"}
          \/ UNCHANGED cmd
        BY <1>8
    <2> QED BY ONLY <1>5, <1>6, <1>7, <2>1, IInv, OrdinaryStep
<1>10. ASSUME Calm PROVE Calm'
    <2>1. NoDaemon(kind, id)
        BY <1>1, <1>10 DEF Calm, ActsOnItsRow, id
    <2>2. \A p \in DOMAIN procs : ~(Live(p) /\ Mine(c, p))
        BY <2>1 DEF NoDaemon, Mine, id
    <2>3. ActsOnItsRow(c)'
        <3>1. CASE Ends(c)
            BY <3>1, EndedActs
        <3>2. CASE MovesTo(c, "purge")
            BY ONLY <3>2 DEF MovesTo, ActsOnItsRow
        <3> QED BY <1>8, <3>1, <3>2
    <2>4. SocketsServed'
        BY <1>1, <1>10 DEF Calm, SocketsServed
    <2>5. Others(c)
        BY <1>8 DEF Ends, MovesTo
    <2>6. Carries(devices, devices', OwnIds(c, "bridge"))
        <3>1. CASE kind = "bridge"
            BY <1>1, <1>3, <3>1, WithoutCarries DEF OwnIds, id
        <3>2. CASE kind = "shard"
            BY <1>1, <3>2, CarriesSame
        <3> QED BY <1>1, <3>1, <3>2
    <2>7. Carries(shards, shards', OwnIds(c, "shard"))
        <3>1. CASE kind = "shard"
            BY <1>1, <1>3, <3>1, WithoutCarries DEF OwnIds, id
        <3>2. CASE kind = "bridge"
            BY <1>1, <3>2, CarriesSame
        <3> QED BY <1>1, <3>1, <3>2
    <2> QED BY ONLY IInv, <1>10, <1>9, c \in Cmds, <1>2, <1>7, <2>2, <2>3, <2>4, <2>5, <2>6,
                    <2>7, BusyStep
<1>11. Undisturbed'
    BY <1>1, <1>10 DEF Undisturbed
<1> QED BY <1>9, <1>11

\* A new row.
LEMMA NewRow ==
    ASSUME NEW id \in Nat, NEW name \in BridgeNames \cup ShardNames, NEW cid \in Cids \cup {0},
           NEW row, row = [id |-> id, name |-> name, pid |-> NoPid, cid |-> cid]
    PROVE  row \in Rows /\ row.id = id /\ row.name = name
BY DEF Rows

\* create adds a row that no daemon and no command is about.
LEMMA CreateStep ==
    ASSUME IInv, Undisturbed, NEW name \in BridgeNames, create_bridge(name),
           UNCHANGED shardVars
    PROVE  IInv' /\ Undisturbed'
<1> DEFINE row == [id |-> created + 1, name |-> name, pid |-> NoPid, cid |-> 0]
<1>1. /\ devices' = Append(devices, row) /\ created' = created + 1
      /\ UNCHANGED <<procs, cmd, ran, mishaps, sock, shards, deployed>>
    BY DEF create_bridge, processVars, shardVars
<1>2. /\ devices \in Seq(Rows) /\ created \in Nat /\ Keyed(devices, BridgeNames, created)
      /\ shards \in Seq(Rows) /\ deployed \in Nat /\ Keyed(shards, ShardNames, deployed)
    BY DEF IInv, TypeOK, RowsKeyed
<1>3. row \in Rows /\ row.id = created + 1 /\ row.name \in BridgeNames
    <2>1. created + 1 \in Nat /\ name \in BridgeNames \cup ShardNames /\ 0 \in Cids \cup {0}
        BY <1>2
    <2>2. row = [id |-> created + 1, name |-> name, pid |-> NoPid, cid |-> 0]
        OBVIOUS
    <2> HIDE DEF row
    <2> QED BY <2>1, <2>2, NewRow
<1> HIDE DEF row
<1>4. /\ Append(devices, row) \in Seq(Rows)
      /\ Keyed(Append(devices, row), BridgeNames, created + 1)
      /\ Carries(devices, Append(devices, row), {})
    BY <1>2, <1>3, AppendKeyed, AppendCarries
<1>5. TablesKept
    BY ONLY <1>1, <1>2, <1>4 DEF TablesKept
<1>6. RestTyped
    BY <1>1, SameRest DEF IInv, TypeOK
<1>7. Aged
    BY <1>1, SameProcs DEF IInv
<1>8. IInv'
    BY <1>1, <1>5, <1>6, <1>7, OrdinaryStep
<1>9. ASSUME Calm PROVE Calm'
    <2>1. \A kind \in Daemons : Carries(Table(kind), Table(kind)', {})
        BY <1>1, <1>4, CarriesSame DEF Table, Daemons
    <2>2. OneAtATime'
        BY <1>1, <1>9 DEF Calm, OneAtATime, Busy
    <2>3. ASSUME NEW d \in Cmds PROVE ActsOnItsRow(d)'
        <3>1. ActsOnItsRow(d) /\ cmd' = cmd /\ procs' = procs
            BY <1>1, <1>9 DEF Calm
        <3>2. KindOf(cmd[d].op) \in Daemons /\ cmd[d].row \in Rows
            BY DEF IInv, TypeOK, Commands, KindOf, Daemons
        <3>3. Listed(Table(KindOf(cmd[d].op)), cmd[d].row) =>
                 /\ Listed(Table(KindOf(cmd[d].op)), cmd[d].row)'
                 /\ PidIs(Table(KindOf(cmd[d].op)), cmd[d].row.id, cmd[d].row.pid)
                     => PidIs(Table(KindOf(cmd[d].op)), cmd[d].row.id, cmd[d].row.pid)'
            BY <2>1, <3>1, <3>2 DEF Carries
        <3>4. \A kind, id : NoDaemon(kind, id) => NoDaemon(kind, id)'
            BY <3>1 DEF NoDaemon, Live
        <3> QED BY ONLY <3>1, <3>3, <3>4 DEF ActsOnItsRow, Live
    <2>4. DaemonOfRow'
        <3> SUFFICES ASSUME NEW p \in DOMAIN procs, Live(p), procs[p].kind \in Daemons
                     PROVE  (Listed(Table(procs[p].kind), procs[p].row) /\ Saved(p))'
            BY <1>1 DEF DaemonOfRow, Live
        <3>1. Listed(Table(procs[p].kind), procs[p].row) /\ Saved(p) /\ procs[p].row \in Rows
            BY <1>9, Indices DEF Calm, DaemonOfRow, IInv, Procs
        <3>2. /\ Listed(Table(procs[p].kind), procs[p].row)'
              /\ PidIs(Table(procs[p].kind), procs[p].row.id, procs[p].pid)
                  => PidIs(Table(procs[p].kind), procs[p].row.id, procs[p].pid)'
            BY <1>1, <2>1, <3>1 DEF Carries
        <3> QED BY <1>1, <3>1, <3>2 DEF Saved
    <2>5. OneDaemonPerRow' /\ SocketsServed'
        BY <1>1, <1>9 DEF Calm, OneDaemonPerRow, SocketsServed, Live
    <2> QED BY <2>2, <2>3, <2>4, <2>5 DEF Calm
<1>10. Undisturbed'
    BY <1>1, <1>9 DEF Undisturbed
<1> QED BY <1>8, <1>10

\* deploy adds the row its command goes on with.
LEMMA DeployBegins ==
    ASSUME IInv, Undisturbed, NEW c \in Cmds, NEW name \in ShardNames, shard_deploy(c, name),
           UNCHANGED bridgeVars
    PROVE  IInv' /\ Undisturbed'
<1>1. PICK cid \in Cids : /\ Begin(c, "shard deploy", "files", build(name, cid))
                          /\ shards' = Append(shards, build(name, cid))
    BY DEF shard_deploy
<1> DEFINE row == build(name, cid)
<1>2. deployed' = deployed + 1 /\ UNCHANGED <<procs, sock, devices, created>>
    BY DEF shard_deploy, bridgeVars
<1>3. /\ devices \in Seq(Rows) /\ created \in Nat /\ Keyed(devices, BridgeNames, created)
      /\ shards \in Seq(Rows) /\ deployed \in Nat /\ Keyed(shards, ShardNames, deployed)
    BY DEF IInv, TypeOK, RowsKeyed
<1>4. row \in Rows /\ row.id = deployed + 1 /\ row.name \in ShardNames
    <2>1. row = [id |-> deployed + 1, name |-> name, pid |-> NoPid, cid |-> cid]
        BY DEF build
    <2>2. deployed + 1 \in Nat /\ name \in BridgeNames \cup ShardNames /\ cid \in Cids \cup {0}
        BY <1>3
    <2> HIDE DEF row
    <2> QED BY <2>1, <2>2, NewRow
<1>5. Begin(c, "shard deploy", "files", row) /\ shards' = Append(shards, row)
    BY <1>1
<1> HIDE DEF row
<1>6. /\ Append(shards, row) \in Seq(Rows)
      /\ Keyed(Append(shards, row), ShardNames, deployed + 1)
      /\ Carries(shards, Append(shards, row), {})
    BY <1>3, <1>4, AppendKeyed, AppendCarries
<1>7. TablesKept
    <2>1. deployed' \in Nat /\ deployed <= deployed' /\ created' \in Nat /\ created <= created'
        BY <1>2, <1>3
    <2>2. /\ devices' \in Seq(Rows) /\ Keyed(devices', BridgeNames, created')
          /\ shards' \in Seq(Rows) /\ Keyed(shards', ShardNames, deployed')
        BY ONLY <1>2, <1>3, <1>5, <1>6
    <2> QED BY ONLY <2>1, <2>2 DEF TablesKept
<1>8. /\ "shard deploy" \in BridgeOps \cup ShardOps /\ "shard deploy" \notin BridgeOps
      /\ "files" \in StepsOf("shard deploy") /\ "files" \in Steps
    BY DEF BridgeOps, ShardOps, StepsOf, Steps
<1>9. IInv'
    <2>1. row.id \in 1..deployed'
        BY <1>2, <1>3, <1>4
    <2> QED BY <1>2, <1>4, <1>5, <1>7, <1>8, <2>1, BeginStep
<1>10. Others(c) /\ cmd'[c].op = "shard deploy"
    BY <1>4, <1>5, <1>8, BeginFacts DEF IInv
<1>11. ActsOnItsRow(c)'
    BY ONLY <1>10 DEF ActsOnItsRow
<1>12. Carries(devices, devices', {}) /\ Carries(shards, shards', {})
    BY <1>2, <1>5, <1>6, CarriesSame
<1>13. Undisturbed'
    BY <1>2, <1>5, <1>9, <1>10, <1>11, <1>12, BeginCalm
<1> QED BY <1>9, <1>13

\* The files of a shard were put in place or removed; the command ends.
LEMMA FilesStep ==
    ASSUME IInv, Undisturbed, NEW c \in Cmds, Deploy(c) \/ PurgeFiles(c), UNCHANGED bridgeVars
    PROVE  IInv' /\ Undisturbed'
<1>1. /\ cmd[c].pc \in {"files", "purge"} /\ Finish(c)
      /\ UNCHANGED <<procs, ran, mishaps, shards, deployed, devices, created, sock>>
    BY DEF Deploy, PurgeFiles, At, bridgeVars, shardVars
<1>3. RestTyped
    BY <1>1, SameRest DEF IInv, TypeOK
<1>4. Aged /\ Ends(c)
    BY <1>1, SameProcs, FinishEnds DEF IInv
<1>5. Busy(c) /\ cmd[c].pc # "save"
    BY <1>1 DEF Busy
<1> QED BY <1>1, <1>3, <1>4, <1>5, MoveStep

\* Hypervisor::new binds a port only when nobody has it.
LEMMA HypervisorStep ==
    ASSUME IInv, Undisturbed, NEW c \in Cmds, HypervisorNew(c), UNCHANGED bridgeVars
    PROVE  IInv' /\ Undisturbed'
<1>1. /\ cmd[c].op = "shard run" /\ cmd[c].pc = "bind" /\ Busy(c)
      /\ UNCHANGED <<procs, ran, mishaps, shards, deployed, devices, created, sock>>
      /\ Finish(c) \/ (Goto(c, "fork") /\ ~PortBound(cmd[c].row.cid))
    BY DEF HypervisorNew, At, Busy, bridgeVars, shardVars
<1>2. Aged
    BY <1>1, SameProcs DEF IInv
<1>3. RestTyped
    BY <1>1, SameRest DEF IInv, TypeOK
<1>4. TablesKept
    BY <1>1, SameTables
<1>5. CASE Finish(c)
    BY <1>1, <1>2, <1>3, <1>5, FinishEnds, MoveStep DEF IInv
<1>6. CASE Goto(c, "fork") /\ ~PortBound(cmd[c].row.cid)
    <2>1. MovesTo(c, "fork") /\ "fork" \in StepsOf(cmd[c].op) /\ "fork" \in Steps
        <3>1. "fork" \in Steps
            BY DEF Steps
        <3>2. "fork" \in StepsOf(cmd[c].op)
            BY <1>1 DEF StepsOf
        <3> QED BY <1>6, <3>1, <3>2, GotoMoves DEF IInv
    <2>2. /\ Others(c) /\ cmd'[c].pc = "fork" /\ cmd'[c].op = cmd[c].op
          /\ cmd'[c].row = cmd[c].row /\ cmd'[c].state = cmd[c].state
          /\ cmd'[c].seen = cmd[c].seen
        BY <2>1 DEF MovesTo
    <2>3. TypeOK'
        BY <1>2, <1>3, <1>4, <2>2 DEF TypeOK, Aged, TablesKept, RestTyped, Others
    <2>4. PidsUnique'
        BY <1>2, PidsAged DEF IInv
    <2>5. PortsExclusive'
        <3>1. /\ \A d \in Cmds : HoldsPort(d)' => d = c \/ HoldsPort(d)
              /\ \A d \in Cmds : cmd'[d].row = cmd[d].row
            BY <2>2 DEF HoldsPort, Others
        <3>2. \A d \in Cmds : HoldsPort(d) => cmd[d].row.cid # cmd[c].row.cid
            BY <1>6 DEF PortBound, HoldsPort
        <3>3. \A p \in DOMAIN procs : Live(p) /\ procs[p].kind = "shard" =>
                 procs[p].row.cid # cmd[c].row.cid
            BY <1>6 DEF PortBound
        <3>4. PortsExclusive /\ procs' = procs
            BY <1>1 DEF IInv
        <3>5. ShardExclusive'
            BY ONLY <3>4 DEF PortsExclusive, ShardExclusive, Live
        <3>6. \A d, e \in Cmds :
                 HoldsPort(d)' /\ HoldsPort(e)' /\ cmd'[d].row.cid = cmd'[e].row.cid => d = e
            BY ONLY <3>1, <3>2, <3>4 DEF PortsExclusive
        <3>7. \A d \in Cmds, p \in DOMAIN procs :
                 HoldsPort(d)' /\ Live(p) /\ procs[p].kind = "shard"
                     => procs[p].row.cid # cmd'[d].row.cid
            BY ONLY <3>1, <3>3, <3>4 DEF PortsExclusive
        <3> QED BY ONLY <3>4, <3>5, <3>6, <3>7 DEF PortsExclusive, Live
    <2>6. StopsWhatWasSeen'
        <3>1. \A d \in Cmds : cmd'[d].seen # 0 =>
                 /\ cmd'[d].seen = cmd[d].seen /\ cmd'[d].state = cmd[d].state
                 /\ cmd'[d].pc \in {"confirm", "check", "signal"} =>
                        cmd[d].pc \in {"confirm", "check", "signal"}
                 /\ cmd'[d].pc = "stopped" => cmd[d].pc = "stopped" \/ ~Live(cmd[d].seen)
            BY <2>2 DEF Others
        <3> QED BY <1>2, <3>1, SeenAged DEF IInv
    <2>7. KeepsToItsSteps'
        BY <2>1, <2>2 DEF IInv, KeepsToItsSteps, Others
    <2>8. RowsKeyed'
        <3>1. \A d \in Cmds : cmd'[d].op = cmd[d].op /\ cmd'[d].row = cmd[d].row
            BY <2>2 DEF Others
        <3> QED BY <1>2, <1>4, <3>1, RowsAged DEF IInv
    <2>9. IInv'
        BY ONLY <2>3, <2>4, <2>5, <2>6, <2>7, <2>8 DEF IInv
    <2>10. ASSUME Calm PROVE Calm'
        <3>1. cmd[c].state.st # "Running" => NoDaemon(KindOf(cmd[c].op), cmd[c].row.id)
            BY <1>1, <2>10 DEF Calm, ActsOnItsRow
        <3>2. \E step \in Steps \ {"save"} :
                 /\ MovesTo(c, step)
                 /\ step \in {"confirm", "check", "signal"} =>
                        cmd[c].pc \in {"confirm", "check", "signal"}
                 /\ cmd[c].pc = "confirm delete" => step = "purge"
                 /\ cmd[c].pc # "purge"
                 /\ \/ step \in {"stopped", "confirm delete"}
                    \/ step \in {"fork", "bind", "confirm"} /\ cmd[c].state.st # "Running"
                    => NoDaemon(KindOf(cmd[c].op), cmd[c].row.id)
            <4>1. "fork" \in Steps \ {"save"}
                BY <2>1
            <4> WITNESS "fork" \in Steps \ {"save"}
            <4>2. cmd[c].pc = "bind" /\ MovesTo(c, "fork")
                BY <1>1, <2>1
            <4> QED BY ONLY <3>1, <4>2
        <3>3. \A p \in 1..Len(procs) : procs'[p].st = "serving" => procs[p].st = "serving"
            BY <1>1
        <3> QED BY <1>1, <1>2, <2>9, <2>10, <3>2, <3>3, BusyMove
    <2>11. Undisturbed'
        BY <1>1, <2>10 DEF Undisturbed
    <2> QED BY <2>9, <2>11
<1> QED BY <1>1, <1>5, <1>6

\* Two bridges that run have different names: each is the one its name finds.
LEMMA OneBridgePerName ==
    ASSUME IInv, Calm, NEW p \in DOMAIN procs, NEW q \in DOMAIN procs, Live(p), Live(q),
           procs[p].kind = "bridge", procs[q].kind = "bridge",
           procs[p].row.name = procs[q].row.name
    PROVE  p = q
<1>1. Listed(devices, procs[p].row) /\ Listed(devices, procs[q].row)
    BY DEF Calm, DaemonOfRow, Daemons, Table
<1>2. PICK i \in DOMAIN devices :
          /\ devices[i].id = procs[p].row.id /\ devices[i].name = procs[p].row.name
          /\ \A k \in 1..(i - 1) : devices[k].name # procs[p].row.name
    BY <1>1 DEF Listed
<1>3. PICK j \in DOMAIN devices :
          /\ devices[j].id = procs[q].row.id /\ devices[j].name = procs[q].row.name
          /\ \A k \in 1..(j - 1) : devices[k].name # procs[q].row.name
    BY <1>1 DEF Listed
<1>4. DOMAIN devices = 1..Len(devices) /\ Len(devices) \in Nat
    BY DEF IInv, TypeOK
<1>5. i = j
    <2>1. ~(i < j) /\ ~(j < i)
        BY <1>2, <1>3, <1>4
    <2> QED BY <1>4, <2>1
<1>6. procs[p].row.id = procs[q].row.id
    BY <1>2, <1>3, <1>5
<1> QED BY <1>6 DEF Calm, OneDaemonPerRow, Daemons

\* A bridge opens its socket, or removes it because it was told to end.
LEMMA SocketStep ==
    ASSUME IInv, Undisturbed, NEW p \in DOMAIN procs, Bind(p) \/ Terminate(p),
           UNCHANGED shardVars
    PROVE  IInv' /\ Undisturbed'
<1>1. PICK st \in {"serving", "ending"}, s \in {0, p} :
          /\ procs' = [procs EXCEPT ![p].st = st]
          /\ sock' = [sock EXCEPT ![procs[p].row.name] = s]
          /\ st = "serving" => s = p
    BY DEF Bind, Terminate
<1>2. /\ UNCHANGED <<cmd, ran, mishaps, devices, created>>
      /\ procs[p].kind = "bridge" /\ Live(p)
    BY DEF Bind, Terminate, Live
<1>3. /\ Aged /\ procs'[p].st = st
      /\ \A q \in DOMAIN procs \ {p} : procs'[q] = procs[q]
      /\ procs'[p].kind = procs[p].kind /\ procs'[p].row = procs[p].row
    BY <1>1, <1>2, ProcState DEF IInv
<1>4. procs[p].row.name \in BridgeNames /\ p \in Nat
    BY <1>2, Indices DEF IInv, RowsKeyed
<1>5. sock' \in [BridgeNames -> Nat]
    BY <1>1, <1>4 DEF IInv, TypeOK
<1>6. ASSUME Calm PROVE SocketsServed'
    <2> SUFFICES ASSUME NEW q \in DOMAIN procs, procs'[q].kind = "bridge",
                        procs'[q].st = "serving"
                 PROVE  sock'[procs'[q].row.name] = q
        BY <1>3, AgedIndices DEF SocketsServed, IInv
    <2>1. CASE q = p
        BY <1>1, <1>3, <1>4, <2>1 DEF IInv, TypeOK
    <2>2. CASE q # p
        <3>1. procs'[q] = procs[q]
            BY <1>3, <2>2
        <3>2. Live(q) /\ sock[procs[q].row.name] = q
            BY <1>6, <3>1 DEF Live, Calm, SocketsServed
        <3>3. procs[q].row.name # procs[p].row.name
            BY <1>2, <1>6, <2>2, <3>1, <3>2, OneBridgePerName
        <3>4. procs[q].row.name \in BridgeNames
            BY <3>1 DEF IInv, RowsKeyed
        <3> QED BY <1>1, <3>1, <3>2, <3>3, <3>4 DEF IInv, TypeOK
    <2> QED BY <2>1, <2>2
<1> QED BY <1>2, <1>3, <1>5, <1>6, ProcessAlone

-----------------------------------------------------------------------------
(* The invariant, and the theorems about the host. *)

\* At first nothing runs and nothing is stored.
LEMMA InitHolds == Init => IInv /\ Undisturbed
<1> SUFFICES ASSUME Init PROVE IInv /\ Undisturbed
    OBVIOUS
<1>1. /\ procs = <<>> /\ cmd = [c \in Cmds |-> Idle] /\ ran = 0 /\ mishaps = {}
      /\ devices = <<>> /\ created = 0 /\ sock = [n \in BridgeNames |-> 0]
      /\ shards = <<>> /\ deployed = 0
    BY DEF Init, ProcessInit, BridgesInit, ShardsInit
<1>2. /\ Idle.op = "none" /\ Idle.pc = "idle" /\ Idle.seen = 0 /\ Idle \in Commands
    BY IdleTyped DEF Idle
<1>3. \A c \in Cmds : cmd[c].op = "none" /\ cmd[c].pc = "idle" /\ cmd[c].seen = 0
    BY <1>1, <1>2
<1>4. DOMAIN procs = {} /\ DOMAIN devices = {} /\ DOMAIN shards = {}
    BY <1>1
<1>5. TypeOK
    BY <1>1, <1>2 DEF TypeOK
<1>6. PidsUnique /\ PortsExclusive /\ StopsWhatWasSeen
    BY <1>3, <1>4 DEF PidsUnique, PortsExclusive, ShardExclusive, StopsWhatWasSeen,
                      StopIsTruthful, HoldsPort
<1>7. KeepsToItsSteps
    BY <1>3 DEF KeepsToItsSteps, StepsOf
<1>8. RowsKeyed
    BY <1>3, <1>4 DEF RowsKeyed, Keyed, BridgeOps, ShardOps
<1>9. Calm
    BY <1>3, <1>4 DEF Calm, OneAtATime, Busy, ActsOnItsRow, DaemonOfRow, OneDaemonPerRow,
                      SocketsServed
<1> QED BY <1>5, <1>6, <1>7, <1>8, <1>9 DEF IInv, Undisturbed

\* Every step of the host keeps the invariant.
LEMMA StepHolds ==
    ASSUME IInv, Undisturbed, [Next]_vars
    PROVE  IInv' /\ Undisturbed'
<1>1. CASE UNCHANGED vars
    <2>1. UNCHANGED <<procs, cmd, ran, mishaps, devices, created, sock, shards, deployed>>
        BY <1>1 DEF vars, processVars, bridgeVars, shardVars
    <2>2. Aged
        BY <2>1, SameProcs DEF IInv
    <2>3. sock' \in [BridgeNames -> Nat] /\ (Calm => SocketsServed')
        BY <2>1 DEF IInv, TypeOK, Calm, SocketsServed
    <2> QED BY <2>1, <2>2, <2>3, ProcessAlone DEF shardVars
<1>2. CASE ProcessNext /\ UNCHANGED <<bridgeVars, shardVars>>
    <2>1. ASSUME NEW c \in Cmds, Cancel(c) \/ Crash(c) \/ Check(c) \/ Signal(c)
                                 \/ run_child_fails(c)
          PROVE  IInv' /\ Undisturbed'
        BY <1>2, <2>1, CancelStep, CrashStep, CheckStep, SignalStep, HungStep
    <2>2. ASSUME NEW p \in DOMAIN procs, Exit(p) \/ Die(p)
          PROVE  IInv' /\ Undisturbed'
        BY <1>2, <2>2, DeathStep
    <2>3. ASSUME NEW pid \in Pids, ReusePid(pid)
          PROVE  IInv' /\ Undisturbed'
        BY <1>2, <2>3, ReuseStep
    <2> QED BY <1>2, <2>1, <2>2, <2>3 DEF ProcessNext
<1>3. CASE BridgesNext /\ UNCHANGED shardVars
    <2>1. ASSUME NEW n \in BridgeNames, create_bridge(n)
          PROVE  IInv' /\ Undisturbed'
        BY <1>3, <2>1, CreateStep
    <2>2. ASSUME NEW c \in Cmds, NEW n \in BridgeNames,
                 start_bridge(c, n) \/ stop_bridge(c, n) \/ delete_bridge(c, n)
          PROVE  IInv' /\ Undisturbed'
        BY <1>3, <2>2, BridgeLoads
    <2>3. ASSUME NEW c \in Cmds, StartFork(c) \/ device_stop(c)
          PROVE  IInv' /\ Undisturbed'
        BY <1>3, <2>3, ForkOrStop
    <2>4. ASSUME NEW c \in Cmds, StartSave(c)
          PROVE  IInv' /\ Undisturbed'
        BY <1>3, <2>4, PidSaved
    <2>5. ASSUME NEW c \in Cmds, StopSave(c)
          PROVE  IInv' /\ Undisturbed'
        BY <1>3, <2>5, StopSaved
    <2>6. ASSUME NEW c \in Cmds, device_delete(c)
          PROVE  IInv' /\ Undisturbed'
        BY <1>3, <2>6, RowRemoved
    <2>7. ASSUME NEW p \in DOMAIN procs, Bind(p) \/ Terminate(p)
          PROVE  IInv' /\ Undisturbed'
        BY <1>3, <2>7, SocketStep
    <2> QED BY <1>3, <2>1, <2>2, <2>3, <2>4, <2>5, <2>6, <2>7 DEF BridgesNext
<1>4. CASE ShardsNext /\ UNCHANGED bridgeVars
    <2>1. ASSUME NEW c \in Cmds, NEW n \in ShardNames, shard_deploy(c, n)
          PROVE  IInv' /\ Undisturbed'
        BY <1>4, <2>1, DeployBegins
    <2>2. ASSUME NEW c \in Cmds, NEW n \in ShardNames,
                 shard_run(c, n) \/ stop_shard(c, n) \/ shard_delete(c, n)
          PROVE  IInv' /\ Undisturbed'
        BY <1>4, <2>2, ShardLoads
    <2>3. ASSUME NEW c \in Cmds, RunFork(c) \/ shard_stop(c)
          PROVE  IInv' /\ Undisturbed'
        BY <1>4, <2>3, ForkOrStop
    <2>4. ASSUME NEW c \in Cmds, RunSave(c)
          PROVE  IInv' /\ Undisturbed'
        BY <1>4, <2>4, PidSaved
    <2>5. ASSUME NEW c \in Cmds, ShardStopSave(c)
          PROVE  IInv' /\ Undisturbed'
        BY <1>4, <2>5, StopSaved
    <2>6. ASSUME NEW c \in Cmds, PurgeRow(c)
          PROVE  IInv' /\ Undisturbed'
        BY <1>4, <2>6, RowRemoved
    <2>7. ASSUME NEW c \in Cmds, Deploy(c) \/ PurgeFiles(c)
          PROVE  IInv' /\ Undisturbed'
        BY <1>4, <2>7, FilesStep
    <2>8. ASSUME NEW c \in Cmds, HypervisorNew(c)
          PROVE  IInv' /\ Undisturbed'
        BY <1>4, <2>8, HypervisorStep
    <2>9. ASSUME NEW p \in DOMAIN procs, MachineUp(p) \/ MachineDown(p)
          PROVE  IInv' /\ Undisturbed'
        BY <1>4, <2>9, MachineStep
    <2> QED BY <1>4, <2>1, <2>2, <2>3, <2>4, <2>5, <2>6, <2>7, <2>8, <2>9 DEF ShardsNext
<1> QED BY <1>1, <1>2, <1>3, <1>4 DEF Next

\* Both invariants hold in every state of the host.
THEOREM InvariantsHold == Spec => [](IInv /\ Undisturbed)
<1>1. IInv /\ Undisturbed /\ [Next]_vars => (IInv /\ Undisturbed)'
    BY StepHolds
<1> QED BY <1>1, InitHolds, PTL DEF Spec

\* Every variable keeps its type.
THEOREM HostTypes == Spec => []TypeOK
<1>1. IInv /\ Undisturbed => TypeOK
    BY DEF IInv
<1> QED BY <1>1, InvariantsHold, PTL

\* Two hypervisors never serve the same context id, because Hypervisor::new
\* binds the port in the command and fork hands it over.
THEOREM ShardsAreExclusive == Spec => []ShardExclusive
<1>1. IInv /\ Undisturbed => ShardExclusive
    BY DEF IInv, PortsExclusive
<1> QED BY <1>1, InvariantsHold, PTL

\* process::stop never reports the end of a process that still runs, whoever
\* holds its pid when it asks.
THEOREM StopsAreTruthful == Spec => []StopIsTruthful
<1>1. IInv /\ Undisturbed => StopIsTruthful
    BY DEF IInv, StopsWhatWasSeen
<1> QED BY <1>1, InvariantsHold, PTL

\* Without crash, overlap and double start, list shows every daemon that runs
\* with its pid, but for the moment in which its command saves it.
THEOREM RunningDaemonsAreListed == Spec => []DaemonsListed
<1>1. IInv /\ Undisturbed => DaemonsListed
    <2> SUFFICES ASSUME IInv, Undisturbed, mishaps = {}, NEW p \in DOMAIN procs, Live(p),
                        procs[p].kind \in Daemons
                 PROVE  \/ [id |-> procs[p].row.id, state |-> Running(procs[p].pid)] \in
                             IF procs[p].kind = "bridge" THEN list_bridges ELSE list_shards
                        \/ \E c \in Cmds : /\ cmd[c].pc = "save"
                                           /\ cmd[c].state.pid = procs[p].pid
        BY DEF DaemonsListed
    <2>1. Calm
        BY DEF Undisturbed
    <2>2. Listed(Table(procs[p].kind), procs[p].row) /\ Saved(p)
        BY <2>1 DEF Calm, DaemonOfRow
    <2>3. CASE \E c \in Cmds : /\ cmd[c].pc = "save" /\ KindOf(cmd[c].op) = procs[p].kind
                               /\ cmd[c].row.id = procs[p].row.id
        <3>1. PICK c \in Cmds : /\ cmd[c].pc = "save" /\ KindOf(cmd[c].op) = procs[p].kind
                                /\ cmd[c].row.id = procs[p].row.id
            BY <2>3
        <3>2. cmd[c].op \notin {"none", "shard deploy"}
            BY <3>1, OpsOfSteps
        <3>3. cmd[c].state.pid = procs[p].pid
            BY <2>1, <3>1, <3>2 DEF Calm, ActsOnItsRow
        <3> QED BY <3>1, <3>3
    <2>4. CASE PidIs(Table(procs[p].kind), procs[p].row.id, procs[p].pid)
        <3>1. PICK i \in DOMAIN Table(procs[p].kind) :
                  Table(procs[p].kind)[i].id = procs[p].row.id
            BY <2>2 DEF Listed
        <3>2. Table(procs[p].kind)[i].pid = procs[p].pid
            BY <2>4, <3>1 DEF PidIs
        <3>3. StateOf(procs[p].pid) = Running(procs[p].pid)
            <4>1. procs[p].pid \in Pids
                BY Indices DEF IInv, Procs
            <4>2. procs[p].pid # NoPid
                BY <4>1, ProcessAssumption DEF NoPid
            <4>3. p \in Holder(procs[p].pid) /\ \A q \in Holder(procs[p].pid) : q = p
                BY DEF Holder, IInv, PidsUnique
            <4>4. procs[p].kind # "root"
                BY DEF Daemons
            <4> QED BY <4>2, <4>3, <4>4 DEF StateOf, check
        <3>4. CASE procs[p].kind = "bridge"
            BY <3>1, <3>2, <3>3, <3>4 DEF Table, list_bridges
        <3>5. CASE procs[p].kind = "shard"
            BY <3>1, <3>2, <3>3, <3>5 DEF Table, list_shards
        <3> QED BY <3>4, <3>5 DEF Daemons
    <2> QED BY <2>2, <2>3, <2>4 DEF Saved
<1> QED BY <1>1, InvariantsHold, PTL

\* Under the same conditions the path of a serving bridge leads to it: no
\* other daemon of that name is left to bind or remove it.
THEOREM ServingBridgesAreReachable == Spec => []ServingReachable
<1>1. IInv /\ Undisturbed => ServingReachable
    BY DEF Undisturbed, Calm, SocketsServed, ServingReachable
<1> QED BY <1>1, InvariantsHold, PTL
=============================================================================
