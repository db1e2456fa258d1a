---------------------------- MODULE StoreProofs ----------------------------
(* The default kernel is the one chosen last and installed files stay        *)
(* intact, for any number of commands, files, names and crashes.             *)
EXTENDS Store, SequenceTheorems, TLAPS

-----------------------------------------------------------------------------
(* Files, rows and tables *)

\* Every file has a hash, its first part.
LEMMA FileFacts ==
    ASSUME NEW x \in Contents
    PROVE  /\ x \in Seq(Parts) /\ Len(x) \in Nat /\ Len(x) >= 1
           /\ hash_file(x) \in Hashes
           /\ \A i \in 1..Len(x) : x[i] \in Parts
<1>1. x \in Seq(Parts) /\ x # <<>>
  BY StoreAssumption
<1>2. Len(x) \in Nat /\ Len(x) >= 1
  BY <1>1
<1>3. hash_file(x) \in Hashes
  BY DEF Hashes
<1> QED BY <1>1, <1>2, <1>3

\* What a row of a table is.
LEMMA RowFacts ==
    ASSUME NEW r \in Rows
    PROVE  /\ r.id \in Nat \ {0} /\ r.src \in Contents /\ r.hash = hash_file(r.src)
           /\ r.hash \in Hashes /\ r.name \in Names /\ r.default \in BOOLEAN
BY DEF Rows

\* A row changes its default mark only.
LEMMA MarkedRow ==
    ASSUME NEW r \in Rows, NEW b \in BOOLEAN
    PROVE  /\ [r EXCEPT !.default = b] \in Rows
           /\ [r EXCEPT !.default = b].default = b
           /\ [r EXCEPT !.default = b].id = r.id
           /\ [r EXCEPT !.default = b].src = r.src
           /\ [r EXCEPT !.default = b].hash = r.hash
BY DEF Rows

\* The triggers unmark every row when a new default comes.
LEMMA Cleared ==
    ASSUME NEW t \in Seq(Rows), NEW r \in Rows
    PROVE  LET u == ClearDefault(t, r) IN
           /\ u \in Seq(Rows) /\ Len(u) = Len(t)
           /\ \A i \in 1..Len(t) : /\ u[i].id = t[i].id /\ u[i].src = t[i].src
                                   /\ u[i].hash = t[i].hash
                                   /\ r.default = TRUE => u[i].default = FALSE
                                   /\ r.default = FALSE => u[i] = t[i]
<1>0. Len(t) \in Nat /\ DOMAIN t = 1..Len(t) /\ \A i \in 1..Len(t) : t[i] \in Rows
  OBVIOUS
<1>1. CASE r.default = TRUE
  <2> DEFINE u == [i \in 1..Len(t) |-> [t[i] EXCEPT !.default = FALSE]]
  <2>1. ClearDefault(t, r) = u
    BY <1>0, <1>1 DEF ClearDefault
  <2>2. \A i \in 1..Len(t) : /\ u[i] \in Rows /\ u[i].id = t[i].id /\ u[i].src = t[i].src
                             /\ u[i].hash = t[i].hash /\ u[i].default = FALSE
    BY <1>0, MarkedRow
  <2>3. u \in Seq(Rows) /\ Len(u) = Len(t)
    BY <1>0, <2>2
  <2> QED BY <1>1, <2>1, <2>2, <2>3
<1>2. CASE r.default = FALSE
  BY <1>0, <1>2 DEF ClearDefault
<1> QED BY <1>1, <1>2, RowFacts

\* u[i] is the row t[i], unmarked when r becomes the default.
Kept(t, r, u, i) ==
    /\ u[i].id = t[i].id /\ u[i].src = t[i].src
    /\ r.default = TRUE => u[i].default = FALSE
    /\ r.default = FALSE => u[i] = t[i]

\* Saving a row whose id is there replaces that row.
LEMMA SaveReplaces ==
    ASSUME NEW t \in Seq(Rows), NEW r \in Rows, HasId(t, r.id)
    PROVE  LET u == Save(t, r) IN
           /\ u \in Seq(Rows) /\ Len(u) = Len(t)
           /\ \A i \in 1..Len(t) : IF t[i].id = r.id THEN u[i] = r ELSE Kept(t, r, u, i)
<1> DEFINE v == ClearDefault(t, r)
<1> DEFINE u == [i \in 1..Len(t) |-> IF v[i].id = r.id THEN r ELSE v[i]]
<1>1. /\ v \in Seq(Rows) /\ Len(v) = Len(t)
      /\ \A i \in 1..Len(t) : /\ v[i].id = t[i].id /\ v[i].src = t[i].src
                              /\ r.default = TRUE => v[i].default = FALSE
                              /\ r.default = FALSE => v[i] = t[i]
  BY Cleared
<1>2. Len(t) \in Nat
  OBVIOUS
<1> HIDE DEF v
<1>3. Save(t, r) = u
  <2>1. Save(t, r) = Replace(v, r)
    BY DEF Save, v
  <2>2. DOMAIN v = 1..Len(t)
    BY <1>1
  <2> QED BY <2>1, <2>2 DEF Replace
<1>4. \A i \in 1..Len(t) : u[i] \in Rows
  BY <1>1
<1>5. u \in Seq(Rows) /\ Len(u) = Len(t)
  BY <1>2, <1>4
<1>6. \A i \in 1..Len(t) : IF t[i].id = r.id THEN u[i] = r ELSE Kept(t, r, u, i)
  BY <1>1 DEF Kept
<1> QED BY <1>3, <1>5, <1>6

\* A hash that is there under another id is an error: the table stays.
LEMMA SaveFails ==
    ASSUME NEW t, NEW r, ~HasId(t, r.id), HasHash(t, r.hash)
    PROVE  Save(t, r) = t
BY DEF Save

\* Otherwise the row comes to the end of the table.
LEMMA SaveAppends ==
    ASSUME NEW t \in Seq(Rows), NEW r \in Rows, ~HasId(t, r.id), ~HasHash(t, r.hash)
    PROVE  LET u == Save(t, r) IN
           /\ u \in Seq(Rows) /\ Len(u) = Len(t) + 1 /\ u[Len(t) + 1] = r
           /\ \A i \in 1..Len(t) : Kept(t, r, u, i)
<1> DEFINE v == ClearDefault(t, r)
<1>1. /\ v \in Seq(Rows) /\ Len(v) = Len(t)
      /\ \A i \in 1..Len(t) : /\ v[i].id = t[i].id /\ v[i].src = t[i].src
                              /\ r.default = TRUE => v[i].default = FALSE
                              /\ r.default = FALSE => v[i] = t[i]
  BY Cleared
<1>2. Save(t, r) = Append(v, r)
  BY DEF Save
<1> HIDE DEF v
<1>3. /\ Append(v, r) \in Seq(Rows) /\ Len(Append(v, r)) = Len(t) + 1
      /\ Append(v, r)[Len(t) + 1] = r /\ \A i \in 1..Len(t) : Append(v, r)[i] = v[i]
  BY <1>1
<1>4. \A i \in 1..Len(t) : Kept(t, r, Append(v, r), i)
  BY <1>1, <1>3 DEF Kept
<1> QED BY <1>2, <1>3, <1>4

\* Whatever happens, a table stays a table, and its files are those it had
\* or that of the row.
LEMMA SaveRows ==
    ASSUME NEW t \in Seq(Rows), NEW r \in Rows
    PROVE  LET u == Save(t, r) IN
           /\ u \in Seq(Rows)
           /\ \A i \in 1..Len(u) : \/ u[i].src = r.src
                                   \/ i \in 1..Len(t) /\ u[i].src = t[i].src
<1>0. Len(t) \in Nat
  OBVIOUS
<1> DEFINE u == Save(t, r)
<1>1. CASE HasId(t, r.id)
  <2>1. /\ u \in Seq(Rows) /\ Len(u) = Len(t)
        /\ \A i \in 1..Len(t) : IF t[i].id = r.id THEN u[i] = r ELSE Kept(t, r, u, i)
    BY <1>1, SaveReplaces
  <2> HIDE DEF u
  <2>2. \A i \in 1..Len(t) : u[i].src = r.src \/ u[i].src = t[i].src
    BY <2>1 DEF Kept
  <2> QED BY <2>1, <2>2 DEF u
<1>2. CASE ~HasId(t, r.id) /\ HasHash(t, r.hash)
  BY <1>2, SaveFails
<1>3. CASE ~HasId(t, r.id) /\ ~HasHash(t, r.hash)
  <2>1. /\ u \in Seq(Rows) /\ Len(u) = Len(t) + 1 /\ u[Len(t) + 1] = r
        /\ \A i \in 1..Len(t) : Kept(t, r, u, i)
    BY <1>3, SaveAppends
  <2> HIDE DEF u
  <2>2. \A i \in 1..Len(t) : u[i].src = t[i].src
    BY <2>1 DEF Kept
  <2> QED BY <1>0, <2>1, <2>2 DEF u
<1> QED BY <1>1, <1>2, <1>3

-----------------------------------------------------------------------------
(* Types *)

Commands == [pc : {"idle", "open", "copy", "save", "deploy", "disk"}, kind : Kinds,
             row : Rows \cup {NoRow}, part : Nat]

CommandsOK ==
    /\ cmd \in [Cmds -> Commands]
    /\ \A c \in Cmds : cmd[c].pc # "idle" => cmd[c].row \in Rows

\* One command is replaced by another proper one.
LEMMA CommandReplaced ==
    ASSUME CommandsOK, NEW c \in Cmds, NEW new \in Commands,
           new.pc # "idle" => new.row \in Rows,
           cmd' = [cmd EXCEPT ![c] = new]
    PROVE  /\ CommandsOK' /\ cmd'[c] = new
           /\ \A d \in Cmds \ {c} : cmd'[d] = cmd[d]
BY DEF CommandsOK

\* A command ends or is killed.
LEMMA CommandEnds ==
    ASSUME CommandsOK, NEW c \in Cmds, Finish(c)
    PROVE  /\ CommandsOK' /\ cmd'[c].pc = "idle"
           /\ \A d \in Cmds \ {c} : cmd'[d] = cmd[d]
<1>1. Idle \in Commands /\ Idle.pc = "idle"
  BY DEF Idle, Commands, Kinds
<1>2. cmd' = [cmd EXCEPT ![c] = Idle]
  BY DEF Finish
<1> QED BY <1>1, <1>2, CommandReplaced

\* A command goes on with the row it has.
LEMMA CommandMoves ==
    ASSUME CommandsOK, NEW c \in Cmds, NEW n \in Nat,
           NEW pc \in {"open", "copy", "save", "deploy", "disk"}, cmd[c].pc # "idle",
           cmd' = [cmd EXCEPT ![c].part = n, ![c].pc = pc]
    PROVE  /\ CommandsOK' /\ cmd'[c].pc = pc /\ cmd'[c].part = n
           /\ cmd'[c].row = cmd[c].row /\ cmd'[c].kind = cmd[c].kind
           /\ \A d \in Cmds \ {c} : cmd'[d] = cmd[d]
BY DEF CommandsOK, Commands

\* TypeOK is about the commands and about everything else.
LEMMA TypeSplit ==
    TypeOK <=> /\ CommandsOK
               /\ kernels \in Seq(Rows) /\ images \in Seq(Rows)
               /\ files \in [Kinds -> [Hashes -> Seq(Parts)]]
               /\ shard \in [Cmds -> Nat] /\ disks \subseteq Disks
               /\ installs \in [Kinds -> Nat] /\ others \in Nat /\ chosen \in Nat
               /\ sources \in [Kinds -> [Hashes -> SUBSET Contents]]
BY DEF TypeOK, CommandsOK, Commands

\* What an install begins with.
LEMMA InstallFacts ==
    ASSUME TypeOK, NEW c \in Cmds, NEW kind \in Kinds, NEW x \in Contents,
           NEW name \in Names, NEW default \in BOOLEAN,
           Install(c, kind, x, name, default)
    PROVE  /\ TypeOK' /\ cmd'[c].pc = "open" /\ cmd'[c].kind = kind
           /\ cmd'[c].part = 1 /\ cmd'[c].row.id = installs[kind] + 1
           /\ installs'[kind] = installs[kind] + 1
           /\ \A k \in Kinds \ {kind} : installs'[k] = installs[k]
           /\ \A d \in Cmds \ {c} : cmd'[d] = cmd[d]
<1> DEFINE row == [id |-> installs[kind] + 1, hash |-> hash_file(x),
                   name |-> name, default |-> default, src |-> x]
           new == [pc |-> "open", kind |-> kind, part |-> 1, row |-> row]
<1>1. installs \in [Kinds -> Nat] /\ CommandsOK
  BY TypeSplit
<1>2. row \in Rows
  BY <1>1, FileFacts DEF Rows
<1>3. new \in Commands
  BY <1>2 DEF Commands
<1>4. cmd' = [cmd EXCEPT ![c] = new]
  BY DEF Install
<1>5. /\ CommandsOK' /\ cmd'[c] = new
      /\ \A d \in Cmds \ {c} : cmd'[d] = cmd[d]
  BY <1>1, <1>2, <1>3, <1>4, CommandReplaced
<1>6. installs' = [installs EXCEPT ![kind] = @ + 1]
  BY DEF Install
<1>7. /\ installs' \in [Kinds -> Nat] /\ installs'[kind] = installs[kind] + 1
      /\ \A k \in Kinds \ {kind} : installs'[k] = installs[k]
  BY <1>1, <1>6
<1>8. TypeOK'
  BY <1>5, <1>7, TypeSplit DEF Install, TypeOK, CommandsOK, Commands
<1> QED BY <1>5, <1>7, <1>8

\* One path of the store is updated.
LEMMA PathUpdated ==
    ASSUME NEW S, NEW g \in [Kinds -> [Hashes -> S]], NEW k \in Kinds, NEW h \in Hashes,
           NEW v \in S, NEW g2, g2 = [g EXCEPT ![k][h] = v]
    PROVE  /\ g2 \in [Kinds -> [Hashes -> S]] /\ g2[k][h] = v
           /\ \A k2 \in Kinds, h2 \in Hashes :
                k2 # k \/ h2 # h => g2[k2][h2] = g[k2][h2]
OBVIOUS

\* What opening a file changes.
LEMMA OpenFacts ==
    ASSUME TypeOK, NEW c \in Cmds, Open(c)
    PROVE  LET k == cmd[c].kind  h == cmd[c].row.hash IN
           /\ TypeOK' /\ k \in Kinds /\ h \in Hashes /\ cmd[c].row \in Rows
           /\ cmd'[c].pc = "copy" /\ cmd'[c].kind = k
           /\ cmd'[c].row = cmd[c].row /\ cmd'[c].part = cmd[c].part
           /\ \A d \in Cmds \ {c} : cmd'[d] = cmd[d]
           /\ sources'[k][h] = sources[k][h] \cup {cmd[c].row.src}
           /\ \A k2 \in Kinds, h2 \in Hashes :
                k2 # k \/ h2 # h => sources'[k2][h2] = sources[k2][h2]
           /\ UNCHANGED <<kernels, images, files, shard, disks, installs, others, chosen>>
<1> DEFINE k == cmd[c].kind
           h == cmd[c].row.hash
           row == cmd[c].row
<1>1. /\ CommandsOK /\ cmd[c].pc = "open"
      /\ sources \in [Kinds -> [Hashes -> SUBSET Contents]]
  BY TypeSplit DEF Open
<1>2. cmd[c] \in Commands /\ row \in Rows /\ k \in Kinds
  BY <1>1 DEF CommandsOK, Commands
<1>3. h \in Hashes /\ row.src \in Contents
  BY <1>2, RowFacts
<1>4. cmd' = [cmd EXCEPT ![c].pc = "copy"]
  BY DEF Open
<1>5. /\ CommandsOK' /\ cmd'[c].pc = "copy" /\ cmd'[c].kind = k
      /\ cmd'[c].row = row /\ cmd'[c].part = cmd[c].part
      /\ \A d \in Cmds \ {c} : cmd'[d] = cmd[d]
  BY <1>1, <1>2, <1>4 DEF CommandsOK, Commands
<1> DEFINE new == sources[k][h] \cup {row.src}
<1>6. new \in SUBSET Contents
  BY <1>1, <1>2, <1>3
<1>7. sources' = [sources EXCEPT ![k][h] = new]
  BY DEF Open
<1> HIDE DEF new, k, h
<1>8. /\ sources' \in [Kinds -> [Hashes -> SUBSET Contents]] /\ sources'[k][h] = new
      /\ \A k2 \in Kinds, h2 \in Hashes :
           k2 # k \/ h2 # h => sources'[k2][h2] = sources[k2][h2]
  BY <1>1, <1>2, <1>3, <1>6, <1>7, PathUpdated
<1>9. UNCHANGED <<kernels, images, files, shard, disks, installs, others, chosen>>
  BY DEF Open
<1>10. TypeOK'
  BY <1>5, <1>8, <1>9, TypeSplit DEF TypeOK, CommandsOK, Commands
<1> QED BY <1>2, <1>3, <1>5, <1>8, <1>9, <1>10 DEF new, k, h

\* Writing a part within a file or at its end.
LEMMA OverwriteType ==
    ASSUME NEW f \in Seq(Parts), NEW i \in Nat, i >= 1, NEW part \in Parts
    PROVE  Overwrite(f, i, part) \in Seq(Parts)
<1>0. Len(f) \in Nat
  OBVIOUS
<1>1. CASE i <= Len(f)
  <2>1. Overwrite(f, i, part) = [f EXCEPT ![i] = part] /\ i \in 1..Len(f)
    BY <1>0, <1>1 DEF Overwrite
  <2> QED BY <2>1, ExceptSeq
<1>2. CASE i > Len(f)
  BY <1>0, <1>2 DEF Overwrite
<1> QED BY <1>0, <1>1, <1>2

\* What copying a part changes.
LEMMA CopyFacts ==
    ASSUME TypeOK, CopiesProgress, NEW c \in Cmds, Copy(c)
    PROVE  LET k == cmd[c].kind  h == cmd[c].row.hash
               x == cmd[c].row.src  i == cmd[c].part IN
           /\ TypeOK' /\ k \in Kinds /\ h \in Hashes /\ cmd[c].row \in Rows
           /\ x \in Contents /\ i \in 1..Len(x) /\ cmd[c].pc = "copy"
           /\ cmd'[c].pc = (IF i = Len(x) THEN "save" ELSE "copy")
           /\ cmd'[c].kind = k /\ cmd'[c].row = cmd[c].row /\ cmd'[c].part = i + 1
           /\ \A d \in Cmds \ {c} : cmd'[d] = cmd[d]
           /\ files'[k][h] = Overwrite(files[k][h], i, x[i])
           /\ \A k2 \in Kinds, h2 \in Hashes :
                k2 # k \/ h2 # h => files'[k2][h2] = files[k2][h2]
           /\ UNCHANGED <<kernels, images, shard, disks, installs, others, chosen, sources>>
<1> DEFINE k == cmd[c].kind
           h == cmd[c].row.hash
           x == cmd[c].row.src
           i == cmd[c].part
           new == Overwrite(files[k][h], i, x[i])
           pc == IF i = Len(x) THEN "save" ELSE "copy"
<1>1. /\ CommandsOK /\ cmd[c].pc = "copy"
      /\ files \in [Kinds -> [Hashes -> Seq(Parts)]]
  BY TypeSplit DEF Copy
<1>2. cmd[c] \in Commands /\ cmd[c].row \in Rows /\ k \in Kinds
  BY <1>1 DEF CommandsOK, Commands
<1>3. h \in Hashes /\ x \in Contents
  BY <1>2, RowFacts
<1>4. i \in 1..Len(x)
  BY <1>1 DEF CopiesProgress, CopyUnderWay
<1>5. Len(x) \in Nat /\ x[i] \in Parts
  BY <1>3, <1>4, FileFacts
<1>6. i \in Nat /\ i >= 1 /\ i + 1 \in Nat
  BY <1>4, <1>5
<1>7. files[k][h] \in Seq(Parts)
  BY <1>1, <1>2, <1>3
<1>8. new \in Seq(Parts)
  BY <1>5, <1>6, <1>7, OverwriteType
<1>9. cmd' = [cmd EXCEPT ![c].part = i + 1, ![c].pc = pc]
  BY DEF Copy
<1>10. files' = [files EXCEPT ![k][h] = new]
  BY DEF Copy
<1>11. UNCHANGED <<kernels, images, shard, disks, installs, others, chosen, sources>>
  BY DEF Copy
<1>12. pc \in {"open", "copy", "save", "deploy", "disk"}
  OBVIOUS
<1> HIDE DEF new, k, h, x, i, pc
<1>13. /\ files' \in [Kinds -> [Hashes -> Seq(Parts)]] /\ files'[k][h] = new
       /\ \A k2 \in Kinds, h2 \in Hashes :
            k2 # k \/ h2 # h => files'[k2][h2] = files[k2][h2]
  BY <1>1, <1>2, <1>3, <1>8, <1>10, PathUpdated
<1>14. /\ CommandsOK' /\ cmd'[c].pc = pc /\ cmd'[c].part = i + 1
       /\ cmd'[c].row = cmd[c].row /\ cmd'[c].kind = cmd[c].kind
       /\ \A d \in Cmds \ {c} : cmd'[d] = cmd[d]
  BY <1>1, <1>6, <1>9, <1>12, CommandMoves
<1>15. TypeOK'
  BY <1>11, <1>13, <1>14, TypeSplit DEF TypeOK, CommandsOK, Commands
<1> QED
  BY <1>1, <1>2, <1>3, <1>4, <1>11, <1>13, <1>14, <1>15 DEF new, k, h, x, i, pc

-----------------------------------------------------------------------------
(* The default kernel *)

TableInv == IdsAreFresh /\ LoadedIsDefault /\ DefaultById

Loaded(c) == cmd[c].pc = "save" /\ cmd[c].kind = "kernel" /\ cmd[c].part = 0

\* A step that leaves the table alone and starts no command on it.
LEMMA TableFrame ==
    ASSUME TypeOK, TableInv, kernels' = kernels, chosen' = chosen,
           installs'["kernel"] = installs["kernel"],
           \A d \in Cmds : Installing(d, "kernel")' =>
               Installing(d, "kernel") /\ cmd'[d].row = cmd[d].row,
           \A d \in Cmds : Loaded(d)' => Loaded(d) /\ cmd'[d].row = cmd[d].row
    PROVE  TableInv'
<1>1. IdsAreFresh'
  <2>1. ASSUME NEW c \in Cmds, Installing(c, "kernel")'
        PROVE  /\ cmd'[c].row.id <= installs'["kernel"]
               /\ ~HasId(kernels', cmd'[c].row.id)
               /\ \A d \in Cmds \ {c} : Installing(d, "kernel")' =>
                      cmd'[d].row.id # cmd'[c].row.id
    BY <2>1 DEF TableInv, IdsAreFresh
  <2> QED BY <2>1 DEF TableInv, IdsAreFresh
<1>2. LoadedIsDefault'
  BY DEF TableInv, LoadedIsDefault, Loaded
<1>3. DefaultById'
  BY DEF TableInv, DefaultById
<1> QED BY <1>1, <1>2, <1>3 DEF TableInv

\* An install draws an id nobody has.
LEMMA KernelInstallTable ==
    ASSUME TypeOK, TableInv, NEW c \in Cmds, NEW x \in Contents, NEW name \in Names,
           NEW default \in BOOLEAN, Install(c, "kernel", x, name, default)
    PROVE  TableInv'
<1>1. /\ cmd'[c].pc = "open" /\ cmd'[c].kind = "kernel" /\ cmd'[c].part = 1
      /\ cmd'[c].row.id = installs["kernel"] + 1
      /\ installs'["kernel"] = installs["kernel"] + 1
      /\ \A d \in Cmds \ {c} : cmd'[d] = cmd[d]
  BY InstallFacts DEF Kinds
<1>2. kernels' = kernels /\ chosen' = chosen
  BY DEF Install
<1>3. installs["kernel"] \in Nat /\ kernels \in Seq(Rows)
  BY DEF TypeOK, Kinds
<1>4. \A i \in 1..Len(kernels) : kernels[i].id \in Nat /\ kernels[i].id <= installs["kernel"]
  BY <1>3, RowFacts DEF TableInv, IdsAreFresh
<1>5. \A d \in Cmds : Installing(d, "kernel") =>
         cmd[d].row.id \in Nat /\ cmd[d].row.id <= installs["kernel"]
  BY RowFacts DEF TableInv, IdsAreFresh, TypeOK, Installing
<1>6. ~HasId(kernels, cmd'[c].row.id)
  BY <1>1, <1>3, <1>4 DEF HasId
<1>7. \A d \in Cmds \ {c} : Installing(d, "kernel")' <=> Installing(d, "kernel")
  BY <1>1 DEF Installing
<1>8. IdsAreFresh'
  <2>1. ASSUME NEW d \in Cmds, Installing(d, "kernel")'
        PROVE  /\ cmd'[d].row.id <= installs'["kernel"]
               /\ ~HasId(kernels', cmd'[d].row.id)
               /\ \A e \in Cmds \ {d} : Installing(e, "kernel")' =>
                      cmd'[e].row.id # cmd'[d].row.id
    <3>1. CASE d = c
      BY <1>1, <1>2, <1>3, <1>5, <1>6, <1>7, <3>1
    <3>2. CASE d # c
      <4>1. Installing(d, "kernel") /\ cmd'[d] = cmd[d]
        BY <1>1, <1>7, <2>1, <3>2
      <4>2. cmd'[d].row.id <= installs'["kernel"] /\ cmd'[d].row.id # cmd'[c].row.id
        BY <1>1, <1>3, <1>5, <4>1
      <4>3. ~HasId(kernels', cmd'[d].row.id)
        BY <1>2, <4>1 DEF TableInv, IdsAreFresh
      <4>4. \A e \in Cmds \ {c, d} : Installing(e, "kernel")' =>
               cmd'[e].row.id # cmd'[d].row.id
        BY <1>1, <1>7, <4>1 DEF TableInv, IdsAreFresh
      <4> QED BY <4>2, <4>3, <4>4
    <3> QED BY <3>1, <3>2
  <2>2. \A i \in 1..Len(kernels') : kernels'[i].id <= installs'["kernel"]
    BY <1>1, <1>2, <1>3, <1>4
  <2>3. \A i, j \in 1..Len(kernels') : kernels'[i].id = kernels'[j].id => i = j
    BY <1>2 DEF TableInv, IdsAreFresh
  <2> QED BY <2>1, <2>2, <2>3 DEF IdsAreFresh
<1>9. LoadedIsDefault'
  BY <1>1, <1>2 DEF TableInv, LoadedIsDefault
<1>10. DefaultById'
  BY <1>2 DEF TableInv, DefaultById
<1> QED BY <1>8, <1>9, <1>10 DEF TableInv

\* What set-default begins with: a row of the table, marked.
LEMMA SetDefaultFacts ==
    ASSUME TypeOK, NEW c \in Cmds, NEW name \in Names, kernel_set_default(c, name)
    PROVE  /\ TypeOK' /\ cmd'[c].pc = "save" /\ cmd'[c].kind = "kernel"
           /\ cmd'[c].part = 0 /\ cmd'[c].row \in Rows /\ cmd'[c].row.default = TRUE
           /\ \E i \in 1..Len(kernels) : /\ cmd'[c].row.id = kernels[i].id
                                         /\ cmd'[c].row.src = kernels[i].src
           /\ \A d \in Cmds \ {c} : cmd'[d] = cmd[d]
           /\ UNCHANGED <<kernels, images, files, shard, disks, installs, chosen, sources>>
<1>1. PICK row \in Named(kernels, name) :
         cmd' = [cmd EXCEPT ![c] = [pc |-> "save", kind |-> "kernel", part |-> 0,
                                    row |-> [row EXCEPT !.default = TRUE]]]
  BY DEF kernel_set_default
<1>2. CommandsOK /\ kernels \in Seq(Rows) /\ DOMAIN kernels = 1..Len(kernels)
      /\ others \in Nat
  BY TypeSplit
<1>3. PICK i \in 1..Len(kernels) : row = kernels[i]
  BY <1>2 DEF Named
<1> DEFINE r == [row EXCEPT !.default = TRUE]
           new == [pc |-> "save", kind |-> "kernel", part |-> 0, row |-> r]
<1>4. row \in Rows
  BY <1>2, <1>3
<1>5. r \in Rows /\ r.default = TRUE /\ r.id = kernels[i].id /\ r.src = kernels[i].src
  BY <1>3, <1>4, MarkedRow
<1> HIDE DEF r
<1>6. new \in Commands /\ new.pc = "save" /\ new.row \in Rows
  BY <1>5 DEF Commands, Kinds
<1>7. cmd' = [cmd EXCEPT ![c] = new]
  BY <1>1 DEF r
<1>8. /\ CommandsOK' /\ cmd'[c] = new /\ \A d \in Cmds \ {c} : cmd'[d] = cmd[d]
  BY <1>2, <1>6, <1>7, CommandReplaced
<1>9. UNCHANGED <<kernels, images, files, shard, disks, installs, chosen, sources>>
  BY DEF kernel_set_default
<1>10. others' \in Nat
  BY <1>2 DEF kernel_set_default
<1>11. TypeOK'
  BY <1>8, <1>9, <1>10, TypeSplit DEF TypeOK, CommandsOK, Commands
<1> QED BY <1>5, <1>8, <1>9, <1>11

\* set-default holds a row of the table, which it is to mark.
LEMMA SetDefaultTable ==
    ASSUME TypeOK, TableInv, NEW c \in Cmds, NEW name \in Names,
           kernel_set_default(c, name)
    PROVE  TableInv'
<1>1. /\ cmd'[c].pc = "save" /\ cmd'[c].kind = "kernel" /\ cmd'[c].part = 0
      /\ cmd'[c].row.default = TRUE
      /\ \E i \in 1..Len(kernels) : cmd'[c].row.id = kernels[i].id
      /\ \A d \in Cmds \ {c} : cmd'[d] = cmd[d]
      /\ kernels' = kernels /\ installs' = installs /\ chosen' = chosen
  BY SetDefaultFacts
<1>2. kernels \in Seq(Rows)
  BY DEF TypeOK
<1>3. HasId(kernels, cmd'[c].row.id)
  BY <1>1, <1>2 DEF HasId
<1>4. \A d \in Cmds : Installing(d, "kernel")' => d # c /\ Installing(d, "kernel")
  BY <1>1 DEF Installing
<1>5. IdsAreFresh'
  <2>1. ASSUME NEW d \in Cmds, Installing(d, "kernel")'
        PROVE  /\ cmd'[d].row.id <= installs'["kernel"]
               /\ ~HasId(kernels', cmd'[d].row.id)
               /\ \A e \in Cmds \ {d} : Installing(e, "kernel")' =>
                      cmd'[e].row.id # cmd'[d].row.id
    BY <1>1, <1>4, <2>1 DEF TableInv, IdsAreFresh
  <2> QED BY <1>1, <2>1 DEF TableInv, IdsAreFresh
<1>6. LoadedIsDefault'
  BY <1>1, <1>3 DEF TableInv, LoadedIsDefault
<1>7. DefaultById'
  BY <1>1 DEF TableInv, DefaultById
<1> QED BY <1>5, <1>6, <1>7 DEF TableInv

\* What a save of a kernel finds.
LEMMA KernelSaveFacts ==
    ASSUME TypeOK, TableInv, NEW c \in Cmds, kernel_save(c)
    PROVE  LET r == cmd[c].row IN
           /\ TypeOK' /\ r \in Rows /\ cmd[c].pc = "save" /\ cmd[c].kind = "kernel"
           /\ kernels' = Save(kernels, r)
           /\ chosen' = IF r.default /\ (HasId(kernels, r.id) \/ ~HasHash(kernels, r.hash))
                        THEN r.id ELSE chosen
           /\ HasId(kernels, r.id) => r.default = TRUE
           /\ ~HasId(kernels, r.id) => Installing(c, "kernel")
           /\ cmd'[c].pc = "idle" /\ \A d \in Cmds \ {c} : cmd'[d] = cmd[d]
           /\ UNCHANGED <<images, files, shard, disks, installs, others, sources>>
<1> DEFINE r == cmd[c].row
<1>1. /\ CommandsOK /\ kernels \in Seq(Rows) /\ cmd[c].pc = "save"
      /\ cmd[c].kind = "kernel" /\ chosen \in Nat
  BY TypeSplit DEF kernel_save
<1>2. r \in Rows /\ cmd[c].part \in Nat
  BY <1>1 DEF CommandsOK, Commands
<1>3. r.id \in Nat /\ r.default \in BOOLEAN
  BY <1>2, RowFacts
<1>4. /\ kernels' = Save(kernels, r)
      /\ chosen' = IF r.default /\ (HasId(kernels, r.id) \/ ~HasHash(kernels, r.hash))
                   THEN r.id ELSE chosen
      /\ UNCHANGED <<images, files, shard, disks, installs, others, sources>> /\ Finish(c)
  BY DEF kernel_save
<1>5. /\ CommandsOK' /\ cmd'[c].pc = "idle"
      /\ \A d \in Cmds \ {c} : cmd'[d] = cmd[d]
  BY <1>1, <1>4, CommandEnds
<1>6. kernels' \in Seq(Rows) /\ chosen' \in Nat
  BY <1>1, <1>2, <1>3, <1>4, SaveRows
<1>7. TypeOK'
  BY <1>4, <1>5, <1>6, TypeSplit DEF TypeOK, CommandsOK, Commands
<1>8. CASE cmd[c].part = 0
  <2>1. r.default /\ HasId(kernels, r.id)
    BY <1>1, <1>8 DEF TableInv, LoadedIsDefault
  <2>2. r.default = TRUE
    BY <1>3, <2>1
  <2> QED BY <1>1, <1>2, <1>4, <1>5, <1>7, <2>1, <2>2
<1>9. CASE cmd[c].part > 0
  <2>1. Installing(c, "kernel")
    BY <1>1, <1>9 DEF Installing
  <2>2. ~HasId(kernels, r.id)
    BY <2>1 DEF TableInv, IdsAreFresh
  <2> QED BY <1>1, <1>2, <1>4, <1>5, <1>7, <2>1, <2>2
<1>10. cmd[c].part = 0 \/ cmd[c].part > 0
  BY <1>2
<1> HIDE DEF r
<1> QED BY <1>8, <1>9, <1>10

\* A save of a kernel replaces a row, fails, or appends one with a fresh id; in
\* each case the marked row is the one chosen last.
LEMMA KernelSaveTable ==
    ASSUME TypeOK, TableInv, NEW c \in Cmds, kernel_save(c)
    PROVE  TableInv'
<1> DEFINE r == cmd[c].row
<1>1. /\ r \in Rows /\ kernels' = Save(kernels, r)
      /\ HasId(kernels, r.id) => r.default = TRUE
      /\ ~HasId(kernels, r.id) => Installing(c, "kernel")
      /\ cmd'[c].pc = "idle" /\ \A d \in Cmds \ {c} : cmd'[d] = cmd[d]
      /\ installs' = installs
  BY KernelSaveFacts
<1>2. chosen' = IF r.default /\ (HasId(kernels, r.id) \/ ~HasHash(kernels, r.hash))
                THEN r.id ELSE chosen
  BY KernelSaveFacts
<1>3. /\ kernels \in Seq(Rows) /\ installs["kernel"] \in Nat /\ chosen \in Nat
      /\ Len(kernels) \in Nat
  BY DEF TypeOK, Kinds
<1>4. r.id \in Nat /\ r.id # 0 /\ r.default \in BOOLEAN
  BY <1>1, RowFacts
<1>5. \A i \in 1..Len(kernels) : /\ kernels[i].id \in Nat \ {0}
                                 /\ kernels[i].default \in BOOLEAN
                                 /\ kernels[i].id <= installs["kernel"]
  BY <1>3, RowFacts DEF TableInv, IdsAreFresh
<1>6. \A d \in Cmds : Installing(d, "kernel")' =>
         d # c /\ Installing(d, "kernel") /\ cmd'[d].row = cmd[d].row
  BY <1>1 DEF Installing
<1>7. \A d \in Cmds : Loaded(d)' => d # c /\ Loaded(d) /\ cmd'[d].row = cmd[d].row
  BY <1>1 DEF Loaded
<1>8. \A i, j \in 1..Len(kernels) : kernels[i].id = kernels[j].id => i = j
  BY DEF TableInv, IdsAreFresh
<1>9. \A i \in 1..Len(kernels) : kernels[i].default <=> kernels[i].id = chosen
  BY DEF TableInv, DefaultById
<1>10. chosen # 0 => HasId(kernels, chosen)
  BY DEF TableInv, DefaultById
<1>11. \A d \in Cmds : Installing(d, "kernel") =>
          /\ cmd[d].row.id <= installs["kernel"] /\ ~HasId(kernels, cmd[d].row.id)
          /\ \A e \in Cmds \ {d} : Installing(e, "kernel") => cmd[e].row.id # cmd[d].row.id
  BY DEF TableInv, IdsAreFresh
<1>12. \A d \in Cmds : Loaded(d) => cmd[d].row.default /\ HasId(kernels, cmd[d].row.id)
  BY DEF TableInv, LoadedIsDefault, Loaded
<1> DEFINE u == kernels'
<1> HIDE DEF r, u
\* What the three cases of a save have to show.
<1> DEFINE Unique == \A i, j \in 1..Len(u) : u[i].id = u[j].id => i = j
           Drawn == \A i \in 1..Len(u) : u[i].id <= installs["kernel"]
           Marked == \A i \in 1..Len(u) : u[i].default <=> u[i].id = chosen'
           Chosen == chosen' # 0 => HasId(u, chosen')
           Grows == \A n : HasId(kernels, n) => HasId(u, n)
           Only == \A n : HasId(u, n) =>
                      HasId(kernels, n) \/ (Installing(c, "kernel") /\ n = r.id)
<1>13. ASSUME Unique, Drawn, Marked, Chosen, Grows, Only
       PROVE  TableInv'
  <2>1. \A d \in Cmds : Installing(d, "kernel")' =>
           /\ cmd'[d].row.id <= installs'["kernel"] /\ ~HasId(u, cmd'[d].row.id)
           /\ \A e \in Cmds \ {d} : Installing(e, "kernel")' =>
                 cmd'[e].row.id # cmd'[d].row.id
    BY <1>1, <1>6, <1>11, <1>13 DEF r
  <2>2. IdsAreFresh'
    BY <1>1, <1>13, <2>1 DEF IdsAreFresh, u
  <2>3. LoadedIsDefault'
    BY <1>7, <1>12, <1>13 DEF LoadedIsDefault, Loaded, u
  <2>4. DefaultById'
    BY <1>13 DEF DefaultById, u
  <2> QED BY <2>2, <2>3, <2>4 DEF TableInv
<1> HIDE DEF Unique, Drawn, Marked, Chosen, Grows, Only
<1>14. CASE HasId(kernels, r.id)
  <2>1. /\ u \in Seq(Rows) /\ Len(u) = Len(kernels)
        /\ \A i \in 1..Len(kernels) :
             IF kernels[i].id = r.id THEN u[i] = r ELSE Kept(kernels, r, u, i)
    BY <1>1, <1>3, <1>14, SaveReplaces DEF u
  <2>2. r.default = TRUE /\ chosen' = r.id
    BY <1>1, <1>2, <1>14 DEF r
  <2>3. \A i \in 1..Len(u) : u[i].id = kernels[i].id
    BY <2>1 DEF Kept
  <2>4. \A i \in 1..Len(u) : u[i].default <=> u[i].id = r.id
    BY <2>1, <2>2 DEF Kept
  <2>5. \A n : HasId(u, n) <=> HasId(kernels, n)
    BY <1>3, <2>1, <2>3 DEF HasId
  <2>6. Unique /\ Drawn
    BY <1>5, <1>8, <2>1, <2>3 DEF Unique, Drawn
  <2>7. Marked /\ Chosen
    BY <1>14, <2>2, <2>4, <2>5 DEF Marked, Chosen
  <2>8. Grows /\ Only
    BY <2>5 DEF Grows, Only
  <2> QED BY <1>13, <2>6, <2>7, <2>8
<1>15. CASE ~HasId(kernels, r.id) /\ HasHash(kernels, r.hash)
  <2>1. u = kernels /\ chosen' = chosen
    BY <1>1, <1>2, <1>15, SaveFails DEF u, r
  <2>2. Unique /\ Drawn
    BY <1>5, <1>8, <2>1 DEF Unique, Drawn
  <2>3. Marked /\ Chosen
    BY <1>9, <1>10, <2>1 DEF Marked, Chosen
  <2>4. Grows /\ Only
    BY <2>1 DEF Grows, Only
  <2> QED BY <1>13, <2>2, <2>3, <2>4
<1>16. CASE ~HasId(kernels, r.id) /\ ~HasHash(kernels, r.hash)
  <2>1. /\ u \in Seq(Rows) /\ Len(u) = Len(kernels) + 1 /\ u[Len(kernels) + 1] = r
        /\ \A i \in 1..Len(kernels) : Kept(kernels, r, u, i)
    BY <1>1, <1>3, <1>16, SaveAppends DEF u
  <2>2. Installing(c, "kernel") /\ r.id <= installs["kernel"]
    BY <1>1, <1>11, <1>16 DEF r
  <2>3. \A i \in 1..Len(kernels) : u[i].id = kernels[i].id /\ u[i].id # r.id
    BY <1>3, <1>16, <2>1 DEF Kept, HasId
  <2>4. \A i \in 1..Len(u) : i \in 1..Len(kernels) \/ i = Len(kernels) + 1
    BY <1>3, <2>1
  <2>5. Unique
    BY <1>8, <2>1, <2>3, <2>4 DEF Unique
  <2>6. Drawn
    BY <1>5, <2>1, <2>2, <2>3, <2>4 DEF Drawn
  <2>7. Grows
    BY <1>3, <2>1, <2>3 DEF HasId, Grows
  <2>8. Only
    BY <1>3, <2>1, <2>2, <2>3, <2>4 DEF HasId, Only
  <2>9. HasId(u, r.id)
    BY <1>3, <2>1 DEF HasId
  <2>10. CASE r.default = TRUE
    <3>1. chosen' = r.id
      BY <1>2, <1>16, <2>10 DEF r
    <3>2. Marked
      BY <2>1, <2>3, <2>4, <2>10, <3>1 DEF Kept, Marked
    <3>3. Chosen
      BY <2>9, <3>1 DEF Chosen
    <3> QED BY <1>13, <2>5, <2>6, <2>7, <2>8, <3>2, <3>3
  <2>11. CASE r.default = FALSE
    <3>1. chosen' = chosen
      BY <1>2, <2>11 DEF r
    <3>2. \A i \in 1..Len(kernels) : u[i] = kernels[i]
      BY <2>1, <2>11 DEF Kept
    <3>3. r.id # chosen
      BY <1>4, <1>10, <1>16
    <3>4. Marked
      BY <1>9, <2>1, <2>4, <2>11, <3>1, <3>2, <3>3 DEF Marked
    <3>5. Chosen
      BY <1>10, <2>7, <3>1 DEF Chosen, Grows
    <3> QED BY <1>13, <2>5, <2>6, <2>7, <2>8, <3>4, <3>5
  <2> QED BY <1>4, <2>10, <2>11
<1> QED BY <1>14, <1>15, <1>16

-----------------------------------------------------------------------------
(* Files *)

FilesInv == PathsHoldPrefixes /\ CopiesProgress /\ AllIntact

\* A beginning of x that is as long as x is x.
LEMMA WholePrefix ==
    ASSUME NEW x \in Contents, NEW g \in Seq(Parts), IsPrefixOf(g, x), Len(g) >= Len(x)
    PROVE  g = x
<1>1. x \in Seq(Parts) /\ Len(x) \in Nat /\ Len(g) \in Nat
  BY FileFacts
<1>2. Len(g) = Len(x) /\ \A i \in 1..Len(g) : g[i] = x[i]
  BY <1>1 DEF IsPrefixOf
<1> QED BY <1>1, <1>2, SeqEqual

\* Copying a part over a beginning of the same file leaves a beginning of it,
\* no shorter than before.
LEMMA CopyPrefix ==
    ASSUME NEW x \in Contents, NEW f \in Seq(Parts), IsPrefixOf(f, x),
           NEW i \in 1..Len(x), Len(f) >= i - 1,
           NEW g, g = Overwrite(f, i, x[i])
    PROVE  /\ g \in Seq(Parts) /\ IsPrefixOf(g, x) /\ Len(g) >= i /\ Len(g) >= Len(f)
           /\ i = Len(x) => g = x
           /\ f = x => g = x
<1>0. /\ x \in Seq(Parts) /\ Len(x) \in Nat /\ Len(f) \in Nat /\ x[i] \in Parts
  BY FileFacts
<1>1. i \in Nat /\ i >= 1 /\ i <= Len(x)
  BY <1>0
<1>2. Len(f) <= Len(x) /\ \A j \in 1..Len(f) : f[j] = x[j]
  BY DEF IsPrefixOf
<1>3. CASE i <= Len(f)
  <2>1. f[i] = x[i] /\ i \in DOMAIN f
    BY <1>0, <1>1, <1>2, <1>3
  <2>2. g = f
    BY <1>3, <2>1 DEF Overwrite
  <2>3. i = Len(x) => g = x
    BY <1>0, <1>3, <2>2, WholePrefix
  <2> QED BY <1>0, <1>3, <2>2, <2>3
<1>4. CASE i > Len(f)
  <2>1. i = Len(f) + 1
    BY <1>0, <1>1, <1>4
  <2>2. g = Append(f, x[i])
    BY <1>0, <1>1, <1>4 DEF Overwrite
  <2>3. /\ g \in Seq(Parts) /\ Len(g) = i /\ g[i] = x[i]
        /\ \A j \in 1..Len(f) : g[j] = f[j]
    BY <1>0, <2>1, <2>2
  <2>4. \A j \in 1..i : j \in 1..Len(f) \/ j = i
    BY <1>0, <2>1
  <2>5. \A j \in 1..Len(g) : g[j] = x[j]
    BY <1>2, <2>3, <2>4
  <2>6. IsPrefixOf(g, x) /\ Len(g) >= i /\ Len(g) >= Len(f)
    BY <1>0, <1>1, <2>1, <2>3, <2>5 DEF IsPrefixOf
  <2>7. i = Len(x) => g = x
    BY <1>0, <2>3, <2>6, WholePrefix
  <2>8. f # x
    BY <1>0, <1>1, <1>4
  <2> QED BY <2>3, <2>6, <2>7, <2>8
<1> QED BY <1>0, <1>1, <1>3, <1>4

\* A step that touches no file: the rows, commands and disks it leaves have
\* their files in place.
LEMMA FilesFrame ==
    ASSUME FilesInv, files' = files, sources' = sources,
           \A i \in 1..Len(kernels') : Intact("kernel", kernels'[i].src),
           \A i \in 1..Len(images') : Intact("image", images'[i].src),
           \A d \in Cmds : \/ cmd'[d] = cmd[d] \/ cmd'[d].pc \in {"idle", "disk"}
                           \/ cmd'[d].pc = "open" /\ cmd'[d].part = 1
                           \/ /\ \/ cmd'[d].pc = "save"
                                 \/ cmd'[d].pc = "deploy" /\ cmd'[d].kind = "image"
                              /\ Intact(cmd'[d].kind, cmd'[d].row.src),
           \A d \in disks' : DiskOK(d)
    PROVE  FilesInv'
<1>1. PathsHoldPrefixes'
  BY DEF FilesInv, PathsHoldPrefixes
<1>2. \A k, x : Unshared(k, x)' <=> sources[k][hash_file(x)] = {x}
  BY DEF Unshared
<1>3. CopiesProgress'
  BY <1>2 DEF FilesInv, CopiesProgress, CopyUnderWay, Unshared
<1>4. AllIntact'
  <2>1. \A i \in 1..Len(kernels') : Intact("kernel", kernels[i].src)'
    BY DEF Intact, Unshared
  <2>2. \A i \in 1..Len(images') : Intact("image", images[i].src)'
    BY DEF Intact, Unshared
  <2>3. \A d \in Cmds : cmd'[d].pc \in {"save", "deploy"} =>
           Intact(cmd[d].kind, cmd[d].row.src)'
    BY DEF FilesInv, AllIntact, Intact, Unshared
  <2>4. \A d \in disks' : DiskOK(d)'
    BY DEF DiskOK, Intact, Unshared
  <2> QED BY <2>1, <2>2, <2>3, <2>4 DEF AllIntact
<1> QED BY <1>1, <1>3, <1>4 DEF FilesInv

\* Opening adds one file to those copied to a path, and changes none.
LEMMA OpenFiles ==
    ASSUME TypeOK, FilesInv, NEW c \in Cmds, Open(c)
    PROVE  FilesInv'
<1> DEFINE k == cmd[c].kind
           h == cmd[c].row.hash
           x == cmd[c].row.src
<1>1. /\ k \in Kinds /\ h \in Hashes /\ cmd[c].row \in Rows
      /\ cmd'[c].pc = "copy" /\ cmd'[c].kind = k
      /\ cmd'[c].row = cmd[c].row /\ cmd'[c].part = cmd[c].part
      /\ \A d \in Cmds \ {c} : cmd'[d] = cmd[d]
      /\ sources'[k][h] = sources[k][h] \cup {x}
      /\ \A k2 \in Kinds, h2 \in Hashes :
           k2 # k \/ h2 # h => sources'[k2][h2] = sources[k2][h2]
      /\ kernels' = kernels /\ images' = images /\ files' = files /\ disks' = disks
  BY OpenFacts
<1>2. x \in Contents /\ h = hash_file(x)
  BY <1>1, RowFacts
<1>3. files \in [Kinds -> [Hashes -> Seq(Parts)]]
  BY DEF TypeOK
<1>4. cmd[c].part = 1
  BY DEF Open, FilesInv, CopiesProgress
<1> HIDE DEF k, h, x
\* What was copied to a path stays so, and no path comes to be unshared.
<1>5. \A k2 \in Kinds, h2 \in Hashes : sources[k2][h2] \subseteq sources'[k2][h2]
  BY <1>1
<1>6. ASSUME NEW k2 \in Kinds, NEW h2 \in Hashes, NEW y \in sources[k2][h2],
             sources'[k2][h2] = {y}
      PROVE  sources[k2][h2] = {y}
  BY <1>5, <1>6
<1>7. PathsHoldPrefixes'
  <2> SUFFICES ASSUME NEW k2 \in Kinds, NEW h2 \in Hashes
               PROVE  /\ sources'[k2][h2] = {} => files[k2][h2] = <<>>
                      /\ \A y \in Contents : sources'[k2][h2] = {y} =>
                            IsPrefixOf(files[k2][h2], y)
    BY <1>1 DEF PathsHoldPrefixes
  <2>1. /\ sources[k2][h2] = {} => files[k2][h2] = <<>>
        /\ \A y \in Contents : sources[k2][h2] = {y} => IsPrefixOf(files[k2][h2], y)
    BY DEF FilesInv, PathsHoldPrefixes
  <2>2. CASE sources[k2][h2] = {}
    <3>1. files[k2][h2] = <<>>
      BY <2>1, <2>2
    <3>2. \A y \in Contents : IsPrefixOf(files[k2][h2], y)
      <4> SUFFICES ASSUME NEW y \in Contents PROVE IsPrefixOf(<<>>, y)
        BY <3>1
      <4>1. Len(y) \in Nat /\ Len(<<>>) = 0
        BY FileFacts
      <4> QED BY <4>1 DEF IsPrefixOf
    <3> QED BY <3>1, <3>2
  <2>3. CASE sources[k2][h2] # {}
    <3>1. \A y : sources'[k2][h2] = {y} => sources[k2][h2] = {y}
      BY <1>5, <2>3
    <3>2. sources'[k2][h2] # {}
      BY <1>5, <2>3
    <3> QED BY <2>1, <3>1, <3>2
  <2> QED BY <2>2, <2>3
\* A file that is in place stays in place.
<1>8. ASSUME NEW k2 \in Kinds, NEW y \in Contents, y \in sources[k2][hash_file(y)]
      PROVE  /\ y \in sources'[k2][hash_file(y)]
             /\ sources'[k2][hash_file(y)] = {y} => sources[k2][hash_file(y)] = {y}
  <2>1. hash_file(y) \in Hashes
    BY FileFacts
  <2> QED BY <1>5, <1>6, <1>8, <2>1
<1>9. ASSUME NEW k2 \in Kinds, NEW y \in Contents, Intact(k2, y)
      PROVE  /\ y \in sources'[k2][hash_file(y)]
             /\ sources'[k2][hash_file(y)] = {y} => files'[k2][hash_file(y)] = y
  BY <1>1, <1>8, <1>9 DEF Intact, Unshared
<1>10. CopiesProgress'
  <2>1. /\ cmd'[c].pc = "copy" /\ x \in sources'[k][h]
        /\ cmd'[c].part \in 1..Len(x) /\ Len(files[k][h]) >= cmd'[c].part - 1
    <3>1. Len(x) \in Nat /\ Len(x) >= 1
      BY <1>2, FileFacts
    <3>2. Len(files[k][h]) \in Nat
      BY <1>1, <1>3
    <3> QED BY <1>1, <1>4, <3>1, <3>2
  <2>2. ASSUME NEW d \in Cmds, d # c, cmd[d].pc = "copy"
        PROVE  /\ cmd[d].row.src \in sources'[cmd[d].kind][cmd[d].row.hash]
               /\ cmd[d].part \in 1..Len(cmd[d].row.src)
               /\ sources'[cmd[d].kind][hash_file(cmd[d].row.src)] = {cmd[d].row.src} =>
                      Len(files[cmd[d].kind][cmd[d].row.hash]) >= cmd[d].part - 1
    <3>1. cmd[d].kind \in Kinds /\ cmd[d].row \in Rows
      BY <2>2 DEF TypeOK
    <3>2. cmd[d].row.src \in Contents /\ cmd[d].row.hash = hash_file(cmd[d].row.src)
      BY <3>1, RowFacts
    <3>3. /\ cmd[d].row.src \in sources[cmd[d].kind][cmd[d].row.hash]
          /\ cmd[d].part \in 1..Len(cmd[d].row.src)
          /\ sources[cmd[d].kind][hash_file(cmd[d].row.src)] = {cmd[d].row.src} =>
                      Len(files[cmd[d].kind][cmd[d].row.hash]) >= cmd[d].part - 1
      BY <2>2 DEF FilesInv, CopiesProgress, CopyUnderWay, Unshared
    <3> QED BY <1>8, <3>1, <3>2, <3>3
  <2>3. \A d \in Cmds : /\ cmd'[d].pc = "open" => cmd'[d].part = 1
                        /\ cmd'[d].pc = "deploy" => cmd'[d].kind = "image"
    BY <1>1 DEF FilesInv, CopiesProgress
  <2>4. \A d \in Cmds : cmd'[d].pc = "copy" =>
           /\ cmd'[d].row.src \in sources'[cmd'[d].kind][cmd'[d].row.hash]
           /\ cmd'[d].part \in 1..Len(cmd'[d].row.src)
           /\ sources'[cmd'[d].kind][hash_file(cmd'[d].row.src)] = {cmd'[d].row.src} =>
                      Len(files'[cmd'[d].kind][cmd'[d].row.hash]) >= cmd'[d].part - 1
    <3> SUFFICES ASSUME NEW d \in Cmds, cmd'[d].pc = "copy"
                 PROVE  /\ cmd'[d].row.src \in sources'[cmd'[d].kind][cmd'[d].row.hash]
                        /\ cmd'[d].part \in 1..Len(cmd'[d].row.src)
                        /\ sources'[cmd'[d].kind][hash_file(cmd'[d].row.src)] =
                                {cmd'[d].row.src} =>
                             Len(files'[cmd'[d].kind][cmd'[d].row.hash]) >= cmd'[d].part - 1
      OBVIOUS
    <3>1. CASE d = c
      BY <1>1, <2>1, <3>1 DEF k, h, x
    <3>2. CASE d # c
      <4>1. cmd'[d] = cmd[d] /\ cmd[d].pc = "copy"
        BY <1>1, <3>2
      <4> QED BY <1>1, <2>2, <3>2, <4>1
    <3> QED BY <3>1, <3>2
  <2>5. \A d \in Cmds : cmd'[d].pc = "copy" => CopyUnderWay(d)'
    BY <2>4 DEF CopyUnderWay, Unshared
  <2> QED BY <2>3, <2>5 DEF CopiesProgress
<1>11. AllIntact'
  <2>1. \A i \in 1..Len(kernels) : kernels[i].src \in Contents
    BY RowFacts DEF TypeOK
  <2>2. \A i \in 1..Len(images) : images[i].src \in Contents
    BY RowFacts DEF TypeOK
  <2>3. \A i \in 1..Len(kernels') : Intact("kernel", kernels[i].src)'
    BY <1>1, <1>9, <2>1 DEF FilesInv, AllIntact, Intact, Unshared, Kinds
  <2>4. \A i \in 1..Len(images') : Intact("image", images[i].src)'
    BY <1>1, <1>9, <2>2 DEF FilesInv, AllIntact, Intact, Unshared, Kinds
  <2>5. ASSUME NEW d \in Cmds, cmd'[d].pc \in {"save", "deploy"}
        PROVE  Intact(cmd[d].kind, cmd[d].row.src)'
    <3>1. d # c /\ cmd'[d] = cmd[d]
      BY <1>1, <2>5
    <3>2. cmd[d].kind \in Kinds /\ cmd[d].row \in Rows
      BY <2>5, <3>1 DEF TypeOK
    <3>3. Intact(cmd[d].kind, cmd[d].row.src)
      BY <2>5, <3>1 DEF FilesInv, AllIntact
    <3> QED BY <1>9, <3>1, <3>2, <3>3, RowFacts DEF Intact, Unshared
  <2>6. ASSUME NEW d \in disks
        PROVE  /\ d.src \in sources'["image"][hash_file(d.src)]
               /\ sources'["image"][hash_file(d.src)] = {d.src} =>
                     files'["image"][hash_file(d.src)] = d.src /\ Holds(d)
    <3>1. d.src \in Contents /\ DiskOK(d) /\ "image" \in Kinds
      BY DEF TypeOK, Disks, FilesInv, AllIntact, Kinds
    <3>2. /\ Intact("image", d.src) /\ d.src \in sources["image"][hash_file(d.src)]
          /\ sources["image"][hash_file(d.src)] = {d.src} => Holds(d)
      BY <3>1 DEF DiskOK, Intact, Unshared
    <3> QED BY <1>8, <1>9, <3>1, <3>2
  <2>7. \A d \in disks' : DiskOK(d)'
    BY <1>1, <2>6 DEF DiskOK, Intact, Unshared
  <2> QED BY <2>3, <2>4, <2>5, <2>7 DEF AllIntact
<1> QED BY <1>7, <1>10, <1>11 DEF FilesInv

\* Copying the same file again over an unshared path leaves it in place at
\* every step; the last part of the first copy completes it.
LEMMA CopyFiles ==
    ASSUME TypeOK, FilesInv, NEW c \in Cmds, Copy(c)
    PROVE  FilesInv'
<1> DEFINE k == cmd[c].kind
           h == cmd[c].row.hash
           x == cmd[c].row.src
           i == cmd[c].part
           f == files[k][h]
           g == files'[k][h]
<1>1. /\ k \in Kinds /\ h \in Hashes /\ cmd[c].row \in Rows
      /\ x \in Contents /\ i \in 1..Len(x) /\ cmd[c].pc = "copy"
      /\ cmd'[c].pc = (IF i = Len(x) THEN "save" ELSE "copy")
      /\ cmd'[c].kind = k /\ cmd'[c].row = cmd[c].row /\ cmd'[c].part = i + 1
      /\ \A d \in Cmds \ {c} : cmd'[d] = cmd[d]
      /\ g = Overwrite(f, i, x[i])
      /\ \A k2 \in Kinds, h2 \in Hashes :
           k2 # k \/ h2 # h => files'[k2][h2] = files[k2][h2]
      /\ kernels' = kernels /\ images' = images /\ disks' = disks /\ sources' = sources
  BY CopyFacts DEF FilesInv
<1>2. h = hash_file(x) /\ Len(x) \in Nat /\ i \in Nat /\ i >= 1
  BY <1>1, RowFacts, FileFacts
<1>3. f \in Seq(Parts)
  BY <1>1 DEF TypeOK
<1>4. /\ x \in sources[k][h]
      /\ sources[k][h] = {x} => Len(f) >= i - 1
  BY <1>1, <1>2 DEF FilesInv, CopiesProgress, CopyUnderWay, Unshared
<1>5. \A y \in Contents : sources[k][h] = {y} => y = x /\ IsPrefixOf(f, x)
  BY <1>1, <1>4 DEF FilesInv, PathsHoldPrefixes
<1> HIDE DEF k, h, x, i, f, g
<1>6. ASSUME sources[k][h] = {x}
      PROVE  /\ g \in Seq(Parts) /\ IsPrefixOf(g, x) /\ Len(g) >= i /\ Len(g) >= Len(f)
             /\ i = Len(x) => g = x
             /\ f = x => g = x
  BY <1>1, <1>3, <1>4, <1>5, <1>6, CopyPrefix
<1>7. PathsHoldPrefixes'
  <2> SUFFICES ASSUME NEW k2 \in Kinds, NEW h2 \in Hashes
               PROVE  /\ sources[k2][h2] = {} => files'[k2][h2] = <<>>
                      /\ \A y \in Contents : sources[k2][h2] = {y} =>
                            IsPrefixOf(files'[k2][h2], y)
    BY <1>1 DEF PathsHoldPrefixes
  <2>1. CASE k2 # k \/ h2 # h
    BY <1>1, <2>1 DEF FilesInv, PathsHoldPrefixes
  <2>2. CASE k2 = k /\ h2 = h
    BY <1>4, <1>5, <1>6, <2>2 DEF g
  <2> QED BY <2>1, <2>2
\* A file that is in place stays in place.
<1>8. ASSUME NEW k2 \in Kinds, NEW y \in Contents, Intact(k2, y)
      PROVE  /\ y \in sources[k2][hash_file(y)]
             /\ sources[k2][hash_file(y)] = {y} => files'[k2][hash_file(y)] = y
  <2>1. /\ hash_file(y) \in Hashes /\ y \in sources[k2][hash_file(y)]
        /\ sources[k2][hash_file(y)] = {y} => files[k2][hash_file(y)] = y
    BY <1>8, FileFacts DEF Intact, Unshared
  <2>2. CASE k2 # k \/ hash_file(y) # h
    BY <1>1, <2>1, <2>2
  <2>3. CASE k2 = k /\ hash_file(y) = h
    <3> SUFFICES ASSUME sources[k][h] = {y} PROVE g = y
      BY <2>1, <2>3 DEF g
    <3>1. y = x /\ f = y
      BY <1>5, <2>1, <2>3 DEF f
    <3> QED BY <1>6, <3>1
  <2> QED BY <2>2, <2>3
<1>9. CopiesProgress'
  <2>1. \A d \in Cmds : /\ cmd'[d].pc = "open" => cmd'[d].part = 1
                        /\ cmd'[d].pc = "deploy" => cmd'[d].kind = "image"
    BY <1>1 DEF FilesInv, CopiesProgress
  <2> SUFFICES ASSUME NEW d \in Cmds, cmd'[d].pc = "copy"
               PROVE  /\ cmd'[d].row.src \in sources[cmd'[d].kind][cmd'[d].row.hash]
                      /\ cmd'[d].part \in 1..Len(cmd'[d].row.src)
                      /\ sources[cmd'[d].kind][hash_file(cmd'[d].row.src)] =
                              {cmd'[d].row.src} =>
                           Len(files'[cmd'[d].kind][cmd'[d].row.hash]) >= cmd'[d].part - 1
    <3>1. SUFFICES \A d \in Cmds : cmd'[d].pc = "copy" => CopyUnderWay(d)'
      BY <2>1 DEF CopiesProgress
    <3> QED BY <1>1 DEF CopyUnderWay, Unshared
  <2>2. CASE d = c
    <3>1. i # Len(x)
      BY <1>1, <2>2
    <3>2. i + 1 \in 1..Len(x) /\ i + 1 - 1 = i
      BY <1>1, <1>2, <3>1
    <3>3. /\ cmd'[d].row.src = x /\ cmd'[d].kind = k /\ cmd'[d].row.hash = h
          /\ cmd'[d].part = i + 1
      BY <1>1, <2>2 DEF x, h, k
    <3> QED BY <1>2, <1>4, <1>6, <3>2, <3>3 DEF g
  <2>3. CASE d # c
    <3> DEFINE kd == cmd[d].kind
               hd == cmd[d].row.hash
               y == cmd[d].row.src
    <3>1. cmd'[d] = cmd[d] /\ cmd[d].pc = "copy"
      BY <1>1, <2>3
    <3>2. kd \in Kinds /\ cmd[d].row \in Rows
      BY <3>1 DEF TypeOK
    <3>3. hd \in Hashes /\ y \in Contents /\ hd = hash_file(y)
      BY <3>2, RowFacts
    <3>4. /\ y \in sources[kd][hd] /\ cmd[d].part \in 1..Len(y)
          /\ sources[kd][hash_file(y)] = {y} => Len(files[kd][hd]) >= cmd[d].part - 1
      BY <3>1 DEF FilesInv, CopiesProgress, CopyUnderWay, Unshared
    <3> HIDE DEF kd, hd, y
    <3>5. ASSUME sources[kd][hd] = {y} PROVE Len(files'[kd][hd]) >= cmd[d].part - 1
      <4>1. CASE kd # k \/ hd # h
        BY <1>1, <3>2, <3>3, <3>4, <3>5, <4>1
      <4>2. CASE kd = k /\ hd = h
        <5>1. y = x
          BY <1>5, <3>3, <3>5, <4>2
        <5>2. Len(g) >= Len(f) /\ Len(f) >= cmd[d].part - 1 /\ g \in Seq(Parts)
          BY <1>6, <3>3, <3>4, <3>5, <4>2, <5>1 DEF f
        <5>3. Len(g) \in Nat /\ Len(f) \in Nat /\ cmd[d].part \in Nat
          BY <1>3, <5>2, <3>4
        <5>4. Len(g) >= cmd[d].part - 1
          BY <5>2, <5>3
        <5> QED BY <4>2, <5>4 DEF g
      <4> QED BY <4>1, <4>2
    <3> QED BY <3>1, <3>3, <3>4, <3>5 DEF kd, hd, y
  <2> QED BY <2>2, <2>3
<1>10. AllIntact'
  <2>1. \A j \in 1..Len(kernels) : kernels[j].src \in Contents
    BY RowFacts DEF TypeOK
  <2>2. \A j \in 1..Len(images) : images[j].src \in Contents
    BY RowFacts DEF TypeOK
  <2>3. \A j \in 1..Len(kernels') : Intact("kernel", kernels[j].src)'
    BY <1>1, <1>8, <2>1 DEF FilesInv, AllIntact, Intact, Unshared, Kinds
  <2>4. \A j \in 1..Len(images') : Intact("image", images[j].src)'
    BY <1>1, <1>8, <2>2 DEF FilesInv, AllIntact, Intact, Unshared, Kinds
  <2>5. ASSUME NEW d \in Cmds, cmd'[d].pc \in {"save", "deploy"}
        PROVE  Intact(cmd[d].kind, cmd[d].row.src)'
    <3>1. CASE d # c
      <4>1. cmd'[d] = cmd[d]
        BY <1>1, <3>1
      <4>2. cmd[d].kind \in Kinds /\ cmd[d].row \in Rows
        BY <2>5, <4>1 DEF TypeOK
      <4>3. Intact(cmd[d].kind, cmd[d].row.src)
        BY <2>5, <4>1 DEF FilesInv, AllIntact
      <4>4. cmd[d].row.src \in Contents
        BY <4>2, RowFacts
      <4> QED BY <1>1, <1>8, <4>1, <4>2, <4>3, <4>4 DEF Intact, Unshared
    <3>2. CASE d = c
      <4>1. i = Len(x)
        BY <1>1, <2>5, <3>2
      <4>2. x \in sources[k][hash_file(x)]
        BY <1>2, <1>4
      <4>3. sources[k][hash_file(x)] = {x} => files'[k][hash_file(x)] = x
        BY <1>2, <1>6, <4>1 DEF g
      <4>4. cmd'[d].kind = k /\ cmd'[d].row.src = x
        BY <1>1, <3>2 DEF x
      <4> QED BY <1>1, <4>2, <4>3, <4>4 DEF Intact, Unshared
    <3> QED BY <3>1, <3>2
  <2>7. ASSUME NEW d \in disks
        PROVE  /\ d.src \in sources["image"][hash_file(d.src)]
               /\ sources["image"][hash_file(d.src)] = {d.src} =>
                     files'["image"][hash_file(d.src)] = d.src /\ Holds(d)
    <3>1. d.src \in Contents /\ DiskOK(d) /\ "image" \in Kinds
      BY DEF TypeOK, Disks, FilesInv, AllIntact, Kinds
    <3>2. Intact("image", d.src) /\ (sources["image"][hash_file(d.src)] = {d.src} => Holds(d))
      BY <3>1 DEF DiskOK, Unshared
    <3> QED BY <1>8, <3>1, <3>2
  <2>6. \A d \in disks' : DiskOK(d)'
    BY <1>1, <2>7 DEF DiskOK, Intact, Unshared
  <2> QED BY <2>3, <2>4, <2>5, <2>6 DEF AllIntact
<1> QED BY <1>7, <1>9, <1>10 DEF FilesInv

-----------------------------------------------------------------------------
(* The inductive invariant *)

\* IInv is about types, the table of kernels and files.
LEMMA Split == IInv <=> TypeOK /\ TableInv /\ FilesInv
BY DEF IInv, TableInv, FilesInv

\* The store is empty at first.
LEMMA InitInv == Init => IInv
<1> SUFFICES ASSUME Init PROVE IInv
  OBVIOUS
<1>1. /\ kernels = <<>> /\ images = <<>> /\ disks = {} /\ chosen = 0 /\ others = 0
      /\ shard = [c \in Cmds |-> 0]
      /\ installs = [k \in Kinds |-> 0]
      /\ files = [k \in Kinds |-> [h \in Hashes |-> <<>>]]
      /\ sources = [k \in Kinds |-> [h \in Hashes |-> {}]]
  BY DEF Init
<1>2. Len(kernels) = 0 /\ Len(images) = 0
  BY <1>1
<1>3. \A c \in Cmds : cmd[c].pc = "idle"
  BY DEF Init, Idle
<1>4. TypeOK
  <2>1. Idle \in Commands /\ Idle.pc = "idle"
    BY DEF Idle, Commands, Kinds
  <2>2. CommandsOK
    BY <2>1 DEF Init, CommandsOK
  <2>3. /\ kernels \in Seq(Rows) /\ images \in Seq(Rows)
        /\ files \in [Kinds -> [Hashes -> Seq(Parts)]]
    BY <1>1
  <2>4. /\ installs \in [Kinds -> Nat] /\ others \in Nat /\ chosen \in Nat
        /\ sources \in [Kinds -> [Hashes -> SUBSET Contents]]
        /\ shard \in [Cmds -> Nat] /\ disks \subseteq Disks
    BY <1>1
  <2> QED BY <2>2, <2>3, <2>4, TypeSplit
<1>5. TableInv
  BY <1>1, <1>2, <1>3 DEF TableInv, IdsAreFresh, LoadedIsDefault, DefaultById, Installing
<1>6. PathsHoldPrefixes
  <2>1. \A k \in Kinds, h \in Hashes : sources[k][h] = {} /\ files[k][h] = <<>>
    BY <1>1
  <2> QED BY <2>1 DEF PathsHoldPrefixes
<1>7. CopiesProgress /\ AllIntact
  BY <1>1, <1>2, <1>3 DEF CopiesProgress, AllIntact
<1> QED BY <1>4, <1>5, <1>6, <1>7, Split DEF FilesInv

\* An install draws an id and touches nothing else.
LEMMA InstallInv ==
    ASSUME IInv, NEW c \in Cmds, kernel_install(c) \/ image_install(c)
    PROVE  IInv'
<1>1. PICK kind \in Kinds, x \in Contents, n \in Names, default \in BOOLEAN :
         Install(c, kind, x, n, default)
  BY DEF kernel_install, image_install, Kinds
<1>2. TypeOK /\ TableInv /\ FilesInv
  BY Split
<1>3. /\ TypeOK' /\ cmd'[c].pc = "open" /\ cmd'[c].kind = kind /\ cmd'[c].part = 1
      /\ \A k \in Kinds \ {kind} : installs'[k] = installs[k]
      /\ \A d \in Cmds \ {c} : cmd'[d] = cmd[d]
  BY <1>1, <1>2, InstallFacts
<1>4. /\ kernels' = kernels /\ images' = images /\ files' = files /\ disks' = disks
      /\ chosen' = chosen /\ sources' = sources
  BY <1>1 DEF Install
<1>5. FilesInv'
  <2>1. \A d \in Cmds : cmd'[d] = cmd[d] \/ (cmd'[d].pc = "open" /\ cmd'[d].part = 1)
    BY <1>3
  <2>2. /\ \A i \in 1..Len(kernels') : Intact("kernel", kernels'[i].src)
        /\ \A i \in 1..Len(images') : Intact("image", images'[i].src)
        /\ \A d \in disks' : DiskOK(d)
    BY <1>2, <1>4 DEF FilesInv, AllIntact
  <2> QED BY <1>2, <1>4, <2>1, <2>2, FilesFrame
<1>6. CASE kind = "kernel"
  <2>1. TableInv'
    BY <1>1, <1>2, <1>6, KernelInstallTable
  <2> QED BY <1>3, <1>5, <2>1, Split DEF IInv, TableInv, FilesInv
<1>7. CASE kind = "image"
  <2>1. installs'["kernel"] = installs["kernel"]
    BY <1>3, <1>7 DEF Kinds
  <2>2. \A d \in Cmds : Installing(d, "kernel")' =>
           Installing(d, "kernel") /\ cmd'[d].row = cmd[d].row
    BY <1>3, <1>7 DEF Installing
  <2>3. \A d \in Cmds : Loaded(d)' => Loaded(d) /\ cmd'[d].row = cmd[d].row
    BY <1>3, <1>7 DEF Loaded
  <2>4. TableInv'
    BY <1>2, <1>4, <2>1, <2>2, <2>3, TableFrame
  <2> QED BY <1>3, <1>5, <2>4 DEF IInv, TableInv, FilesInv
<1> QED BY <1>6, <1>7 DEF Kinds

\* Opening and copying go on with an install.
LEMMA CopyingInv ==
    ASSUME IInv, NEW c \in Cmds, Open(c) \/ Copy(c)
    PROVE  IInv'
<1>1. TypeOK /\ TableInv /\ FilesInv /\ CopiesProgress
  BY Split DEF FilesInv
<1>2. /\ TypeOK' /\ FilesInv'
      /\ kernels' = kernels /\ chosen' = chosen /\ installs' = installs
      /\ cmd'[c].row = cmd[c].row /\ cmd'[c].kind = cmd[c].kind
      /\ \A d \in Cmds \ {c} : cmd'[d] = cmd[d]
  BY <1>1, OpenFacts, OpenFiles, CopyFacts, CopyFiles
<1>3. cmd[c].pc \in {"open", "copy"} /\ cmd[c].part > 0 /\ cmd'[c].part > 0
  <2>1. CASE Open(c)
    <3>1. cmd[c].pc = "open" /\ cmd'[c].part = cmd[c].part
      BY <1>1, <2>1, OpenFacts DEF Open
    <3> QED BY <1>1, <3>1 DEF CopiesProgress
  <2>2. CASE Copy(c)
    <3>1. /\ cmd[c].pc = "copy" /\ cmd[c].row.src \in Contents
          /\ cmd[c].part \in 1..Len(cmd[c].row.src) /\ cmd'[c].part = cmd[c].part + 1
      BY <1>1, <2>2, CopyFacts
    <3>2. Len(cmd[c].row.src) \in Nat
      BY <3>1, FileFacts
    <3> QED BY <3>1, <3>2
  <2> QED BY <2>1, <2>2
<1>4. \A d \in Cmds : Installing(d, "kernel")' =>
         Installing(d, "kernel") /\ cmd'[d].row = cmd[d].row
  BY <1>2, <1>3 DEF Installing
<1>5. \A d \in Cmds : Loaded(d)' => Loaded(d) /\ cmd'[d].row = cmd[d].row
  BY <1>2, <1>3 DEF Loaded
<1>6. TableInv'
  BY <1>1, <1>2, <1>4, <1>5, TableFrame
<1> QED BY <1>2, <1>6 DEF IInv, TableInv, FilesInv

\* A save puts a row whose file is in place into a table.
LEMMA KernelSaveInv ==
    ASSUME IInv, NEW c \in Cmds, kernel_save(c)
    PROVE  IInv'
<1>1. TypeOK /\ TableInv /\ FilesInv
  BY Split
<1>2. /\ TypeOK' /\ cmd[c].row \in Rows /\ cmd[c].pc = "save" /\ cmd[c].kind = "kernel"
      /\ kernels' = Save(kernels, cmd[c].row)
      /\ cmd'[c].pc = "idle" /\ \A d \in Cmds \ {c} : cmd'[d] = cmd[d]
      /\ images' = images /\ files' = files /\ disks' = disks /\ sources' = sources
  BY <1>1, KernelSaveFacts
<1>3. TableInv'
  BY <1>1, KernelSaveTable
<1>4. kernels \in Seq(Rows)
  BY <1>1 DEF TypeOK
<1>5. /\ \A i \in 1..Len(kernels) : Intact("kernel", kernels[i].src)
      /\ \A i \in 1..Len(images') : Intact("image", images'[i].src)
      /\ Intact("kernel", cmd[c].row.src)
      /\ \A d \in disks' : DiskOK(d)
  BY <1>1, <1>2 DEF FilesInv, AllIntact
<1>6. \A i \in 1..Len(kernels') : \/ kernels'[i].src = cmd[c].row.src
                                  \/ i \in 1..Len(kernels) /\ kernels'[i].src = kernels[i].src
  BY <1>2, <1>4, SaveRows
<1>7. \A i \in 1..Len(kernels') : Intact("kernel", kernels'[i].src)
  BY <1>5, <1>6
<1>8. \A d \in Cmds : cmd'[d] = cmd[d] \/ cmd'[d].pc = "idle"
  BY <1>2
<1>9. FilesInv'
  BY <1>1, <1>2, <1>5, <1>7, <1>8, FilesFrame
<1> QED BY <1>2, <1>3, <1>9 DEF IInv, TableInv, FilesInv

\* The same for an image; the kernels are not touched.
LEMMA ImageSaveInv ==
    ASSUME IInv, NEW c \in Cmds, image_save(c)
    PROVE  IInv'
<1>1. TypeOK /\ TableInv /\ FilesInv
  BY Split
<1>2. /\ cmd[c].pc = "save" /\ cmd[c].kind = "image" /\ Finish(c)
      /\ images' = Save(images, cmd[c].row)
      /\ UNCHANGED <<kernels, files, shard, disks, installs, others, chosen, sources>>
  BY DEF image_save
<1>3. CommandsOK /\ images \in Seq(Rows) /\ cmd[c].row \in Rows
  BY <1>1, <1>2, TypeSplit DEF CommandsOK
<1>4. CommandsOK' /\ cmd'[c].pc = "idle" /\ \A d \in Cmds \ {c} : cmd'[d] = cmd[d]
  BY <1>2, <1>3, CommandEnds
<1>5. /\ images' \in Seq(Rows)
      /\ \A i \in 1..Len(images') : \/ images'[i].src = cmd[c].row.src
                                    \/ i \in 1..Len(images) /\ images'[i].src = images[i].src
  BY <1>2, <1>3, SaveRows
<1>6. TypeOK'
  BY <1>1, <1>2, <1>4, <1>5, TypeSplit DEF TypeOK, CommandsOK, Commands
<1>7. /\ \A i \in 1..Len(images) : Intact("image", images[i].src)
      /\ \A i \in 1..Len(kernels') : Intact("kernel", kernels'[i].src)
      /\ Intact("image", cmd[c].row.src)
      /\ \A d \in disks' : DiskOK(d)
  BY <1>1, <1>2 DEF FilesInv, AllIntact
<1>8. \A i \in 1..Len(images') : Intact("image", images'[i].src)
  BY <1>5, <1>7
<1>9. \A d \in Cmds : cmd'[d] = cmd[d] \/ cmd'[d].pc = "idle"
  BY <1>4
<1>10. FilesInv'
  BY <1>1, <1>2, <1>7, <1>8, <1>9, FilesFrame
<1>11. \A d \in Cmds : Installing(d, "kernel")' =>
         Installing(d, "kernel") /\ cmd'[d].row = cmd[d].row
  BY <1>4 DEF Installing
<1>12. \A d \in Cmds : Loaded(d)' => Loaded(d) /\ cmd'[d].row = cmd[d].row
  BY <1>4 DEF Loaded
<1>13. TableInv'
  BY <1>1, <1>2, <1>11, <1>12, TableFrame
<1> QED BY <1>6, <1>10, <1>13 DEF IInv, TableInv, FilesInv

\* Choosing a default loads a row whose file is in place.
LEMMA SetDefaultInv ==
    ASSUME IInv, NEW c \in Cmds, NEW name \in Names, kernel_set_default(c, name)
    PROVE  IInv'
<1>1. TypeOK /\ TableInv /\ FilesInv
  BY Split
<1>2. /\ TypeOK' /\ cmd'[c].pc = "save" /\ cmd'[c].kind = "kernel"
      /\ \E i \in 1..Len(kernels) : cmd'[c].row.src = kernels[i].src
      /\ \A d \in Cmds \ {c} : cmd'[d] = cmd[d]
      /\ kernels' = kernels /\ images' = images /\ files' = files /\ disks' = disks
      /\ sources' = sources
  BY <1>1, SetDefaultFacts
<1>3. TableInv'
  BY <1>1, SetDefaultTable
<1>4. /\ \A i \in 1..Len(kernels') : Intact("kernel", kernels'[i].src)
      /\ \A i \in 1..Len(images') : Intact("image", images'[i].src)
      /\ \A d \in disks' : DiskOK(d)
  BY <1>1, <1>2 DEF FilesInv, AllIntact
<1>5. Intact(cmd'[c].kind, cmd'[c].row.src)
  BY <1>2, <1>4
<1>6. \A d \in Cmds : \/ cmd'[d] = cmd[d]
                      \/ cmd'[d].pc = "save" /\ Intact(cmd'[d].kind, cmd'[d].row.src)
  BY <1>2, <1>5
<1>7. FilesInv'
  BY <1>1, <1>2, <1>4, <1>6, FilesFrame
<1> QED BY <1>2, <1>3, <1>7 DEF IInv, TableInv, FilesInv

\* Deploying loads a row of an image, then copies its file.
LEMMA DeployInv ==
    ASSUME IInv, NEW c \in Cmds, NEW name \in Names, shard_deploy(c, name)
    PROVE  IInv'
<1>1. TypeOK /\ TableInv /\ FilesInv
  BY Split
<1>2. PICK row \in Named(images, name) :
         cmd' = [cmd EXCEPT ![c] = [pc |-> "deploy", kind |-> "image", part |-> 0,
                                    row |-> row]]
  BY DEF shard_deploy
<1>3. CommandsOK /\ images \in Seq(Rows) /\ DOMAIN images = 1..Len(images)
      /\ others \in Nat
  BY <1>1, TypeSplit
<1>4. PICK i \in 1..Len(images) : row = images[i]
  BY <1>3 DEF Named
<1> DEFINE new == [pc |-> "deploy", kind |-> "image", part |-> 0, row |-> row]
<1>5. new \in Commands /\ row \in Rows
  BY <1>3, <1>4 DEF Commands, Kinds
<1>6. CommandsOK' /\ cmd'[c] = new /\ \A d \in Cmds \ {c} : cmd'[d] = cmd[d]
  BY <1>2, <1>3, <1>5, CommandReplaced
<1>7. UNCHANGED <<kernels, images, files, disks, installs, chosen, sources>>
  BY DEF shard_deploy
<1>8. others' \in Nat /\ shard' \in [Cmds -> Nat]
  <2>1. shard \in [Cmds -> Nat] /\ others + 1 \in Nat
    BY <1>1, <1>3, TypeSplit
  <2> QED BY <2>1 DEF shard_deploy
<1>9. TypeOK'
  BY <1>1, <1>6, <1>7, <1>8, TypeSplit DEF TypeOK, CommandsOK, Commands
<1>10. cmd'[c].pc = "deploy" /\ cmd'[c].kind = "image" /\ cmd'[c].row = images[i]
  BY <1>4, <1>6
<1> HIDE DEF new
<1>11. /\ \A j \in 1..Len(kernels') : Intact("kernel", kernels'[j].src)
       /\ \A j \in 1..Len(images') : Intact("image", images'[j].src)
       /\ \A d \in disks' : DiskOK(d)
  BY <1>1, <1>7 DEF FilesInv, AllIntact
<1>12. Intact(cmd'[c].kind, cmd'[c].row.src)
  BY <1>4, <1>7, <1>10, <1>11
<1>13. \A d \in Cmds : \/ cmd'[d] = cmd[d]
                       \/ /\ cmd'[d].pc = "deploy" /\ cmd'[d].kind = "image"
                          /\ Intact(cmd'[d].kind, cmd'[d].row.src)
  BY <1>6, <1>10, <1>12
<1>14. FilesInv'
  BY <1>1, <1>7, <1>11, <1>13, FilesFrame
<1>15. \A d \in Cmds : Installing(d, "kernel")' =>
         Installing(d, "kernel") /\ cmd'[d].row = cmd[d].row
  BY <1>6, <1>10 DEF Installing
<1>16. \A d \in Cmds : Loaded(d)' => Loaded(d) /\ cmd'[d].row = cmd[d].row
  BY <1>6, <1>10 DEF Loaded
<1>17. TableInv'
  BY <1>1, <1>7, <1>15, <1>16, TableFrame
<1> QED BY <1>9, <1>14, <1>17 DEF IInv, TableInv, FilesInv

\* A step of a deployment, or the end of a command, leaves the tables and files
\* alone: the disks are all there is to look at.
LEMMA DisksFrame ==
    ASSUME IInv, NEW c \in Cmds,
           UNCHANGED <<kernels, images, files, installs, chosen, sources>>,
           CommandsOK', cmd'[c].pc \in {"idle", "disk"},
           \A d \in Cmds \ {c} : cmd'[d] = cmd[d],
           others' \in Nat, shard' \in [Cmds -> Nat],
           \A d \in disks' : d \in Disks /\ DiskOK(d)
    PROVE  IInv'
<1>1. TypeOK /\ TableInv /\ FilesInv
  BY Split
<1>2. /\ \A j \in 1..Len(kernels') : Intact("kernel", kernels'[j].src)
      /\ \A j \in 1..Len(images') : Intact("image", images'[j].src)
  BY <1>1 DEF FilesInv, AllIntact
<1>3. TypeOK'
  <2>1. /\ kernels' \in Seq(Rows) /\ images' \in Seq(Rows)
        /\ files' \in [Kinds -> [Hashes -> Seq(Parts)]]
        /\ installs' \in [Kinds -> Nat] /\ chosen' \in Nat
        /\ sources' \in [Kinds -> [Hashes -> SUBSET Contents]]
    BY <1>1 DEF TypeOK
  <2>2. disks' \subseteq Disks
    OBVIOUS
  <2> QED BY <2>1, <2>2 DEF TypeOK, CommandsOK, Commands
<1>4. \A d \in Cmds : cmd'[d] = cmd[d] \/ cmd'[d].pc \in {"idle", "disk"}
  OBVIOUS
<1>5. \A d \in disks' : DiskOK(d)
  OBVIOUS
<1>6. FilesInv'
  BY <1>1, <1>2, <1>4, <1>5, FilesFrame
<1>7. \A d \in Cmds : Installing(d, "kernel")' =>
         Installing(d, "kernel") /\ cmd'[d].row = cmd[d].row
  BY DEF Installing
<1>8. \A d \in Cmds : Loaded(d)' => Loaded(d) /\ cmd'[d].row = cmd[d].row
  BY DEF Loaded
<1>9. TableInv'
  BY <1>1, <1>7, <1>8, TableFrame
<1> QED BY <1>3, <1>6, <1>9 DEF IInv, TableInv, FilesInv

\* What the disks and the commands are.
LEMMA DiskTypes ==
    ASSUME IInv
    PROVE  /\ CommandsOK /\ others \in Nat /\ shard \in [Cmds -> Nat]
           /\ files \in [Kinds -> [Hashes -> Seq(Parts)]]
           /\ \A d \in disks : d \in Disks /\ DiskOK(d)
<1>1. TypeOK /\ FilesInv
  BY Split
<1> QED BY <1>1, TypeSplit DEF FilesInv, AllIntact

\* A crash ends a command anywhere.
LEMMA CrashInv ==
    ASSUME IInv, NEW c \in Cmds, Crash(c)
    PROVE  IInv'
<1>1. /\ Finish(c) /\ others' = others + 1 /\ disks' = disks
      /\ shard' = [shard EXCEPT ![c] = 0]
      /\ UNCHANGED <<kernels, images, files, installs, chosen, sources>>
  BY DEF Crash
<1>2. CommandsOK' /\ cmd'[c].pc = "idle" /\ \A d \in Cmds \ {c} : cmd'[d] = cmd[d]
  BY <1>1, DiskTypes, CommandEnds
<1>3. others' \in Nat /\ shard' \in [Cmds -> Nat]
  BY <1>1, DiskTypes
<1>4. \A d \in disks' : d \in Disks /\ DiskOK(d)
  BY <1>1, DiskTypes
<1> QED BY <1>1, <1>2, <1>3, <1>4, DisksFrame

\* The empty disk of a new shard is a beginning of its image.
LEMMA ShardSaveInv ==
    ASSUME IInv, NEW c \in Cmds, shard_save(c)
    PROVE  IInv'
<1> DEFINE new == [shard |-> shard[c], src |-> cmd[c].row.src, copy |-> <<>>,
                   state |-> "copying"]
<1>1. /\ cmd[c].pc = "deploy" /\ disks' = disks \cup {new}
      /\ cmd' = [cmd EXCEPT ![c].pc = "disk"]
      /\ UNCHANGED <<kernels, images, files, shard, installs, others, chosen, sources>>
  BY DEF shard_save
<1>2. CommandsOK /\ cmd[c].row \in Rows
  BY <1>1, DiskTypes DEF CommandsOK
<1>3. CommandsOK' /\ cmd'[c].pc = "disk" /\ \A d \in Cmds \ {c} : cmd'[d] = cmd[d]
  BY <1>1, <1>2 DEF CommandsOK, Commands
<1>4. Intact("image", cmd[c].row.src)
  BY <1>1 DEF IInv, AllIntact, CopiesProgress
<1>5. cmd[c].row.src \in Contents /\ Len(cmd[c].row.src) \in Nat
  BY <1>2, RowFacts, FileFacts
<1>6. new \in Disks
  BY <1>5, DiskTypes DEF Disks
<1>7. DiskOK(new)
  <2>1. new.src = cmd[c].row.src /\ new.copy = <<>> /\ new.state = "copying"
    OBVIOUS
  <2>2. Len(<<>>) = 0 /\ \A i : i \notin 1..0
    OBVIOUS
  <2>3. IsPrefixOf(<<>>, cmd[c].row.src)
    BY <1>5, <2>2 DEF IsPrefixOf
  <2> HIDE DEF new
  <2> QED BY <1>4, <2>1, <2>3 DEF DiskOK, Holds
<1> HIDE DEF new
<1>8. \A d \in disks' : d \in Disks /\ DiskOK(d)
  BY <1>1, <1>6, <1>7, DiskTypes
<1>9. others' \in Nat /\ shard' \in [Cmds -> Nat]
  BY <1>1, DiskTypes
<1> QED BY <1>1, <1>3, <1>8, <1>9, DisksFrame

\* The next part of an image behind a beginning of it gives a beginning of it.
LEMMA NextPart ==
    ASSUME NEW x \in Seq(Parts), NEW f \in Seq(Parts), IsPrefixOf(f, x), Len(f) < Len(x)
    PROVE  IsPrefixOf(Append(f, x[Len(f) + 1]), x)
<1>1. PICK n \in Nat : n = Len(f)
  OBVIOUS
<1>2. n + 1 <= Len(x) /\ x[n + 1] \in Parts
  BY <1>1
<1>3. PICK g : g = Append(f, x[n + 1])
  OBVIOUS
<1>4. Len(g) = n + 1 /\ g[n + 1] = x[n + 1] /\ \A i \in 1..n : g[i] = f[i]
  BY <1>1, <1>2, <1>3
<1>5. \A i \in 1..(n + 1) : i \in 1..n \/ i = n + 1
  OBVIOUS
<1>6. \A i \in 1..n : f[i] = x[i]
  BY <1>1 DEF IsPrefixOf
<1>7. \A i \in 1..Len(g) : g[i] = x[i]
  BY <1>4, <1>5, <1>6
<1> QED BY <1>1, <1>2, <1>3, <1>4, <1>7 DEF IsPrefixOf

\* A disk grows by the next part of its image's file.
LEMMA CopyDiskInv ==
    ASSUME IInv, NEW c \in Cmds, CopyDisk(c)
    PROVE  IInv'
<1>1. PICK d \in disks :
         /\ d.shard = shard[c] /\ Len(d.copy) < Len(boot_disk(d))
         /\ disks' = (disks \ {d}) \cup
                {[d EXCEPT !.copy = Append(@, boot_disk(d)[Len(@) + 1])]}
  BY DEF CopyDisk
<1>2. /\ cmd[c].pc = "disk" /\ cmd' = cmd
      /\ UNCHANGED <<kernels, images, files, shard, installs, others, chosen, sources>>
  BY DEF CopyDisk
<1>3. /\ d \in Disks /\ d.src \in Contents /\ d.copy \in Seq(Parts) /\ DiskOK(d)
      /\ d.shard \in Nat /\ d.state \in {"copying", "done"}
  BY DiskTypes DEF Disks
<1>4. PICK f : f = boot_disk(d)
  OBVIOUS
<1>5. f \in Seq(Parts)
  <2>1. hash_file(d.src) \in Hashes /\ "image" \in Kinds
    BY <1>3, FileFacts DEF Kinds
  <2> QED BY <1>4, <2>1, DiskTypes DEF boot_disk
<1>6. PICK n \in Nat : n = Len(d.copy)
  BY <1>3
<1>7. PICK e : e = [d EXCEPT !.copy = Append(d.copy, f[n + 1])]
  OBVIOUS
<1>8. disks' = (disks \ {d}) \cup {e} /\ n < Len(f)
  BY <1>1, <1>4, <1>6, <1>7
<1>9. f[n + 1] \in Parts
  <2>1. Len(f) \in Nat /\ n + 1 \in 1..Len(f)
    BY <1>5, <1>8
  <2> QED BY <1>5, <2>1
<1>10. Append(d.copy, f[n + 1]) \in Seq(Parts)
  BY <1>3, <1>9
<1>11. /\ e \in Disks /\ e.src = d.src /\ e.state = d.state
       /\ e.copy = Append(d.copy, f[n + 1])
  BY <1>3, <1>7, <1>10 DEF Disks
<1>12. DiskOK(e)
  <2>1. Intact("image", e.src)
    BY <1>3, <1>11 DEF DiskOK
  <2>2. ASSUME Unshared("image", e.src) PROVE Holds(e)
    <3>1. f = d.src /\ Holds(d)
      BY <1>3, <1>4, <1>11, <2>2 DEF DiskOK, Intact, boot_disk
    <3>2. d.state # "done"
      BY <1>6, <1>8, <3>1 DEF Holds
    <3>3. IsPrefixOf(d.copy, f)
      BY <3>1, <3>2 DEF Holds
    <3>4. IsPrefixOf(Append(d.copy, f[n + 1]), f)
      BY <1>3, <1>5, <1>6, <1>8, <3>3, NextPart
    <3> QED BY <1>11, <3>1, <3>2, <3>4 DEF Holds
  <2> QED BY <2>1, <2>2 DEF DiskOK
<1>13. \A b \in disks' : b \in Disks /\ DiskOK(b)
  BY <1>8, <1>11, <1>12, DiskTypes
<1>14. CommandsOK' /\ others' \in Nat /\ shard' \in [Cmds -> Nat]
  BY <1>2, DiskTypes DEF CommandsOK
<1> QED BY <1>2, <1>13, <1>14, DisksFrame

\* At the end of the file the disk is the image.
LEMMA DeployDoneInv ==
    ASSUME IInv, NEW c \in Cmds, DeployDone(c)
    PROVE  IInv'
<1>1. PICK d \in disks :
         /\ d.shard = shard[c] /\ Len(d.copy) >= Len(boot_disk(d))
         /\ disks' = (disks \ {d}) \cup {[d EXCEPT !.state = "done"]}
  BY DEF DeployDone
<1>2. /\ Finish(c) /\ shard' = [shard EXCEPT ![c] = 0]
      /\ UNCHANGED <<kernels, images, files, installs, others, chosen, sources>>
  BY DEF DeployDone
<1>3. CommandsOK' /\ cmd'[c].pc = "idle" /\ \A b \in Cmds \ {c} : cmd'[b] = cmd[b]
  BY <1>2, DiskTypes, CommandEnds
<1>4. /\ d \in Disks /\ d.src \in Contents /\ d.copy \in Seq(Parts) /\ DiskOK(d)
  BY DiskTypes DEF Disks
<1>5. PICK e : e = [d EXCEPT !.state = "done"]
  OBVIOUS
<1>6. e \in Disks /\ e.src = d.src /\ e.copy = d.copy /\ e.state = "done"
  BY <1>4, <1>5 DEF Disks
<1>7. DiskOK(e)
  <2>1. Intact("image", e.src)
    BY <1>4, <1>6 DEF DiskOK
  <2>2. ASSUME Unshared("image", e.src) PROVE Holds(e)
    <3>1. boot_disk(d) = d.src /\ Holds(d)
      BY <1>4, <1>6, <2>2 DEF DiskOK, Intact, boot_disk
    <3>2. Len(d.copy) >= Len(d.src) /\ d.src \in Seq(Parts)
      BY <1>1, <1>4, <3>1, FileFacts
    <3>3. d.copy = d.src
      <4>1. CASE d.state = "done"
        BY <3>1, <4>1 DEF Holds
      <4>2. CASE d.state # "done"
        <5>1. IsPrefixOf(d.copy, d.src)
          BY <3>1, <4>2 DEF Holds
        <5> QED BY <1>4, <3>2, <5>1, WholePrefix
      <4> QED BY <4>1, <4>2
    <3> QED BY <1>6, <3>3 DEF Holds
  <2> QED BY <2>1, <2>2 DEF DiskOK
<1>8. \A b \in disks' : b \in Disks /\ DiskOK(b)
  BY <1>1, <1>5, <1>6, <1>7, DiskTypes
<1>9. others' \in Nat /\ shard' \in [Cmds -> Nat]
  BY <1>2, DiskTypes
<1> QED BY <1>2, <1>3, <1>8, <1>9, DisksFrame

\* Every step keeps the invariant.
LEMMA NextInv == IInv /\ [Next]_vars => IInv'
<1> SUFFICES ASSUME IInv, [Next]_vars PROVE IInv'
  OBVIOUS
<1>1. ASSUME NEW c \in Cmds, kernel_install(c) \/ image_install(c) PROVE IInv'
  BY <1>1, InstallInv
<1>2. ASSUME NEW c \in Cmds, Open(c) \/ Copy(c) PROVE IInv'
  BY <1>2, CopyingInv
<1>3. ASSUME NEW c \in Cmds, kernel_save(c) PROVE IInv'
  BY <1>3, KernelSaveInv
<1>4. ASSUME NEW c \in Cmds, image_save(c) PROVE IInv'
  BY <1>4, ImageSaveInv
<1>5. ASSUME NEW c \in Cmds, shard_save(c) \/ CopyDisk(c) \/ DeployDone(c) \/ Crash(c)
      PROVE  IInv'
  BY <1>5, ShardSaveInv, CopyDiskInv, DeployDoneInv, CrashInv
<1>6. ASSUME NEW c \in Cmds, NEW n \in Names, kernel_set_default(c, n) PROVE IInv'
  BY <1>6, SetDefaultInv
<1>7. ASSUME NEW c \in Cmds, NEW n \in Names, shard_deploy(c, n) PROVE IInv'
  BY <1>7, DeployInv
<1>8. CASE UNCHANGED vars
  <2>1. /\ kernels' = kernels /\ images' = images /\ files' = files /\ cmd' = cmd
        /\ shard' = shard /\ disks' = disks /\ installs' = installs /\ others' = others
        /\ chosen' = chosen /\ sources' = sources
    BY <1>8 DEF vars
  <2>2. TypeOK /\ TableInv /\ FilesInv
    BY Split
  <2>3. TypeOK'
    BY <2>1, <2>2 DEF TypeOK
  <2>4. TableInv'
    BY <2>1, <2>2 DEF TableInv, IdsAreFresh, LoadedIsDefault, DefaultById, Installing
  <2>5. /\ \A i \in 1..Len(kernels') : Intact("kernel", kernels'[i].src)
        /\ \A i \in 1..Len(images') : Intact("image", images'[i].src)
        /\ \A d \in disks' : DiskOK(d)
    BY <2>1, <2>2 DEF FilesInv, AllIntact
  <2>6. FilesInv'
    BY <2>1, <2>2, <2>5, FilesFrame
  <2> QED BY <2>3, <2>4, <2>6 DEF IInv, TableInv, FilesInv
<1> QED BY <1>1, <1>2, <1>3, <1>4, <1>5, <1>6, <1>7, <1>8 DEF Next

-----------------------------------------------------------------------------
(* Theorems *)

\* The inductive invariant of the store: every row has an id of its own, at
\* most one is marked, and a path only one file was copied to holds a
\* beginning of that file.
THEOREM IInvHolds == Spec => []IInv
BY InitInv, NextInv, PTL DEF Spec

\* Tables, files and commands keep their types.
THEOREM StoreTypes == Spec => []TypeOK
<1>1. IInv => TypeOK
  BY DEF IInv
<1> QED BY <1>1, IInvHolds, PTL

\* However installs, saves that fail on a duplicate hash, set-default commands
\* that loaded an older table and crashes interleave, the rows the code takes
\* for the default are exactly the kernel saved as the default last.
THEOREM DefaultKernelIsLastChosen == Spec => []DefaultIsLastChosen
<1>1. IInv => DefaultIsLastChosen
  <2> SUFFICES ASSUME IInv PROVE DefaultIsLastChosen
    OBVIOUS
  <2>1. /\ kernels \in Seq(Rows) /\ DOMAIN kernels = 1..Len(kernels)
        /\ DefaultById
    BY DEF IInv, TypeOK
  <2>2. \A i \in 1..Len(kernels) : kernels[i].id # 0
    BY <2>1, RowFacts
  <2>3. CASE chosen = 0
    <3>1. get_default = {}
      BY <2>1, <2>2, <2>3 DEF get_default, DefaultById
    <3> QED BY <2>3, <3>1 DEF DefaultIsLastChosen
  <2>4. CASE chosen # 0
    <3>1. \A row \in get_default : row.id = chosen
      BY <2>1 DEF get_default, DefaultById
    <3>2. \E row \in get_default : row.id = chosen
      BY <2>1, <2>4 DEF get_default, DefaultById, HasId
    <3> QED BY <2>4, <3>1, <3>2 DEF DefaultIsLastChosen
  <2> QED BY <2>3, <2>4
<1> QED BY <1>1, IInvHolds, PTL

\* The file of a kernel or image, and the disk of a shard once it is deployed, is
\* what was installed, and a disk that is being copied or was left by a killed
\* command is a beginning of it, whatever crashes and repeated installs happened,
\* as long as no other file with the same hashed beginning was copied to its path.
THEOREM InstalledStaysIntact == Spec => []InstalledIntact
<1>1. IInv => InstalledIntact
  <2> SUFFICES ASSUME IInv PROVE InstalledIntact
    OBVIOUS
  <2>1. kernels \in Seq(Rows) /\ images \in Seq(Rows) /\ AllIntact
    BY DEF IInv, TypeOK
  <2>2. ASSUME NEW i \in DOMAIN kernels, Unshared("kernel", kernels[i].src)
        PROVE  files["kernel"][kernels[i].hash] = kernels[i].src
    BY <2>1, <2>2, RowFacts DEF AllIntact, Intact
  <2>3. ASSUME NEW i \in DOMAIN images, Unshared("image", images[i].src)
        PROVE  files["image"][images[i].hash] = images[i].src
    BY <2>1, <2>3, RowFacts DEF AllIntact, Intact
  <2>4. \A d \in disks : Unshared("image", d.src) => Holds(d)
    BY <2>1 DEF AllIntact, DiskOK
  <2> QED BY <2>2, <2>3, <2>4 DEF InstalledIntact, Table, Kinds
<1> QED BY <1>1, IInvHolds, PTL
=============================================================================
