-------------------------------- MODULE Store --------------------------------
(* Installing kernels and disk images (cmd/kernel.rs, cmd/image.rs and their *)
(* tables), choosing the default kernel and copying an image for a shard.    *)
(*                                                                            *)
(* A file is a sequence of parts.  Its hash covers the first part only: the   *)
(* code hashes the first 8 MiB.  The hash names the file in the store.        *)
EXTENDS Integers, Sequences, FiniteSets

CONSTANTS Cmds,          \* commands that may be in progress together
          Parts,         \* what files consist of
          Contents,      \* files an operator may install: sequences of parts
          Names,         \* names given to kernels and images
          MaxInstalls,   \* bound on installs of each kind
          MaxOther       \* bound on other commands, and on crashes

ASSUME StoreAssumption ==
    /\ Contents \subseteq Seq(Parts) /\ <<>> \notin Contents
    /\ MaxInstalls \in Nat /\ MaxOther \in Nat

VARIABLES kernels,   \* the table, in row order
          images,    \* the table, in row order
          files,     \* files[kind][hash]: contents of the store, <<>> if absent
          cmd,       \* commands in progress
          shard,     \* shard[c]: the shard command c deploys
          disks,     \* boot disks of the shards in the table
          installs,  \* installs started, of each kind
          others,    \* other commands and crashes so far
          chosen,    \* history: the kernel last saved as the default, 0 if none
          sources    \* history: files that were copied to each path

vars == <<kernels, images, files, cmd, shard, disks, installs, others, chosen,
          sources>>

Kinds == {"kernel", "image"}

hash_file(x) == x[1]
Hashes == {hash_file(x) : x \in Contents}

NoRow == [id |-> 0, hash |-> "", name |-> "", default |-> FALSE, src |-> <<>>]
Idle == [pc |-> "idle", kind |-> "kernel", row |-> NoRow, part |-> 0]

Init ==
    /\ kernels = <<>> /\ images = <<>>
    /\ files = [k \in Kinds |-> [h \in Hashes |-> <<>>]]
    /\ cmd = [c \in Cmds |-> Idle]
    /\ shard = [c \in Cmds |-> 0] /\ disks = {}
    /\ installs = [k \in Kinds |-> 0] /\ others = 0
    /\ chosen = 0
    /\ sources = [k \in Kinds |-> [h \in Hashes |-> {}]]

Finish(c) == cmd' = [cmd EXCEPT ![c] = Idle]

-----------------------------------------------------------------------------
Install(c, kind, x, name, default) ==
    /\ cmd[c].pc = "idle"
    /\ installs[kind] < MaxInstalls
    /\ installs' = [installs EXCEPT ![kind] = @ + 1]
    /\ cmd' = [cmd EXCEPT ![c] =
         [pc |-> "open", kind |-> kind, part |-> 1,
          row |-> [id |-> installs[kind] + 1, hash |-> hash_file(x),
                   name |-> name, default |-> default, src |-> x]]]
    /\ UNCHANGED <<kernels, images, files, shard, disks, others, chosen, sources>>

\* kernel_install and image_install: hash the file and make the record.
kernel_install(c) ==
    \E x \in Contents, n \in Names, default \in BOOLEAN :
        Install(c, "kernel", x, n, default)

image_install(c) ==
    \E x \in Contents, n \in Names : Install(c, "image", x, n, FALSE)

\* Fault: the file is truncated when it is opened.
OpenTruncates(c) ==
    /\ cmd[c].pc = "open"
    /\ LET k == cmd[c].kind  h == cmd[c].row.hash IN
       /\ files' = [files EXCEPT ![k][h] = <<>>]
       /\ sources' = [sources EXCEPT ![k][h] = @ \cup {cmd[c].row.src}]
    /\ cmd' = [cmd EXCEPT ![c].pc = "copy"]
    /\ UNCHANGED <<kernels, images, shard, disks, installs, others, chosen>>

\* The file is created if it is missing; what it holds stays.
Open(c) ==
    /\ cmd[c].pc = "open"
    /\ sources' = [sources EXCEPT ![cmd[c].kind][cmd[c].row.hash] = @ \cup {cmd[c].row.src}]
    /\ cmd' = [cmd EXCEPT ![c].pc = "copy"]
    /\ UNCHANGED <<kernels, images, files, shard, disks, installs, others, chosen>>

Overwrite(f, i, part) ==
    IF i <= Len(f) THEN [f EXCEPT ![i] = part] ELSE Append(f, part)

Copy(c) ==
    /\ cmd[c].pc = "copy"
    /\ LET src == cmd[c].row.src  i == cmd[c].part IN
       /\ files' = [files EXCEPT ![cmd[c].kind][cmd[c].row.hash] = Overwrite(@, i, src[i])]
       /\ cmd' = [cmd EXCEPT ![c].part = i + 1,
                             ![c].pc = IF i = Len(src) THEN "save" ELSE "copy"]
    /\ UNCHANGED <<kernels, images, shard, disks, installs, others, chosen, sources>>

-----------------------------------------------------------------------------
HasId(table, id) == \E i \in DOMAIN table : table[i].id = id
HasHash(table, hash) == \E i \in DOMAIN table : table[i].hash = hash

Replace(table, row) ==
    [i \in DOMAIN table |-> IF table[i].id = row.id THEN row ELSE table[i]]

\* The triggers: before a row becomes the default, no row is.
ClearDefault(table, row) ==
    IF row.default
    THEN [i \in DOMAIN table |-> [table[i] EXCEPT !.default = FALSE]]
    ELSE table

\* Fault: a save that fails leaves what the triggers did.
SaveNoRollback(table, row) ==
    LET cleared == ClearDefault(table, row) IN
    IF HasId(table, row.id) THEN Replace(cleared, row)
    ELSE IF HasHash(table, row.hash) THEN cleared
    ELSE Append(cleared, row)

\* INSERT ... ON CONFLICT(id) DO UPDATE in a transaction: a hash that another
\* row has is an error, which rolls the triggers back too.
Save(table, row) ==
    LET cleared == ClearDefault(table, row) IN
    IF HasId(table, row.id) THEN Replace(cleared, row)
    ELSE IF HasHash(table, row.hash) THEN table
    ELSE Append(cleared, row)

kernel_save(c) ==
    /\ cmd[c].pc = "save" /\ cmd[c].kind = "kernel"
    /\ kernels' = Save(kernels, cmd[c].row)
    /\ chosen' = IF cmd[c].row.default
                    /\ (HasId(kernels, cmd[c].row.id) \/ ~HasHash(kernels, cmd[c].row.hash))
                 THEN cmd[c].row.id ELSE chosen
    /\ Finish(c)
    /\ UNCHANGED <<images, files, shard, disks, installs, others, sources>>

image_save(c) ==
    /\ cmd[c].pc = "save" /\ cmd[c].kind = "image"
    /\ images' = Save(images, cmd[c].row)
    /\ Finish(c)
    /\ UNCHANGED <<kernels, files, shard, disks, installs, others, chosen, sources>>

-----------------------------------------------------------------------------
Named(table, name) ==
    {table[i] : i \in {j \in DOMAIN table :
        table[j].name = name /\ \A k \in 1..(j - 1) : table[k].name # name}}

get_default == {kernels[i] : i \in {j \in DOMAIN kernels : kernels[j].default}}

\* kernel_set_default loads a row and saves it again as the default.
kernel_set_default(c, name) ==
    /\ cmd[c].pc = "idle"
    /\ others < MaxOther
    /\ others' = others + 1
    /\ \E row \in Named(kernels, name) :
         cmd' = [cmd EXCEPT ![c] = [pc |-> "save", kind |-> "kernel", part |-> 0,
                                    row |-> [row EXCEPT !.default = TRUE]]]
    /\ UNCHANGED <<kernels, images, files, shard, disks, installs, chosen, sources>>

\* shard_deploy takes a named image and the default kernel or a named one.
shard_deploy(c, name) ==
    /\ cmd[c].pc = "idle"
    /\ others < MaxOther
    /\ others' = others + 1
    /\ get_default # {} \/ \E kernel \in Names : Named(kernels, kernel) # {}
    /\ \E row \in Named(images, name) :
         cmd' = [cmd EXCEPT ![c] = [pc |-> "deploy", kind |-> "image", part |-> 0,
                                    row |-> row]]
    /\ shard' = [shard EXCEPT ![c] = others + 1]
    /\ UNCHANGED <<kernels, images, files, disks, installs, chosen, sources>>

\* The shard is in the table before anything is copied.
shard_save(c) ==
    /\ cmd[c].pc = "deploy"
    /\ disks' = disks \cup {[shard |-> shard[c], src |-> cmd[c].row.src, copy |-> <<>>,
                             state |-> "copying"]}
    /\ cmd' = [cmd EXCEPT ![c].pc = "disk"]
    /\ UNCHANGED <<kernels, images, files, shard, installs, others, chosen, sources>>

boot_disk(d) == files["image"][hash_file(d.src)]

\* deploy links the kernel's file and copies the image's part by part: every
\* shard boots its own copy.
CopyDisk(c) ==
    /\ cmd[c].pc = "disk"
    /\ \E d \in disks :
         /\ d.shard = shard[c] /\ Len(d.copy) < Len(boot_disk(d))
         /\ disks' = (disks \ {d}) \cup
                {[d EXCEPT !.copy = Append(@, boot_disk(d)[Len(@) + 1])]}
    /\ UNCHANGED <<kernels, images, files, cmd, shard, installs, others, chosen, sources>>

\* The end of the file is reached.
DeployDone(c) ==
    /\ cmd[c].pc = "disk"
    /\ \E d \in disks :
         /\ d.shard = shard[c] /\ Len(d.copy) >= Len(boot_disk(d))
         /\ disks' = (disks \ {d}) \cup {[d EXCEPT !.state = "done"]}
    /\ Finish(c)
    /\ shard' = [shard EXCEPT ![c] = 0]
    /\ UNCHANGED <<kernels, images, files, installs, others, chosen, sources>>

\* A command is killed between two of its steps.
Crash(c) ==
    /\ cmd[c].pc # "idle"
    /\ others < MaxOther
    /\ others' = others + 1
    /\ Finish(c)
    /\ shard' = [shard EXCEPT ![c] = 0]
    /\ UNCHANGED <<kernels, images, files, disks, installs, chosen, sources>>

Next ==
    \/ \E c \in Cmds : \/ kernel_install(c) \/ image_install(c)
                       \/ Open(c) \/ Copy(c) \/ kernel_save(c) \/ image_save(c)
                       \/ shard_save(c) \/ CopyDisk(c) \/ DeployDone(c) \/ Crash(c)
    \/ \E c \in Cmds, n \in Names : kernel_set_default(c, n) \/ shard_deploy(c, n)

Spec == Init /\ [][Next]_vars

-----------------------------------------------------------------------------
Table(kind) == IF kind = "kernel" THEN kernels ELSE images

Disks == [shard : Nat, src : Contents, copy : Seq(Parts), state : {"copying", "done"}]

Rows == {r \in [id : Nat \ {0}, hash : Hashes, name : Names, default : BOOLEAN,
                src : Contents] : r.hash = hash_file(r.src)}

\* Every variable keeps its type; a command in progress holds a proper row.
TypeOK ==
    /\ kernels \in Seq(Rows) /\ images \in Seq(Rows)
    /\ files \in [Kinds -> [Hashes -> Seq(Parts)]]
    /\ cmd \in [Cmds -> [pc : {"idle", "open", "copy", "save", "deploy", "disk"},
                         kind : Kinds, row : Rows \cup {NoRow}, part : Nat]]
    /\ \A c \in Cmds : cmd[c].pc # "idle" => cmd[c].row \in Rows
    /\ shard \in [Cmds -> Nat] /\ disks \subseteq Disks
    /\ installs \in [Kinds -> Nat] /\ others \in Nat /\ chosen \in Nat
    /\ sources \in [Kinds -> [Hashes -> SUBSET Contents]]

\* Exactly one kernel is the default from the first choice on, the one chosen
\* last: neither a failed install nor a command that read an older table
\* leaves two or none.
DefaultIsLastChosen ==
    {row.id : row \in get_default} = IF chosen = 0 THEN {} ELSE {chosen}

\* No other file than x was ever copied to the path of its hash.
Unshared(kind, x) == sources[kind][hash_file(x)] = {x}

IsPrefixOf(f, x) == Len(f) <= Len(x) /\ \A i \in 1..Len(f) : f[i] = x[i]

\* A disk holds its image, or a beginning of it while it is being copied or when
\* the command that copied it was killed: its shard stays in the table.
Holds(d) == IF d.state = "done" THEN d.copy = d.src ELSE IsPrefixOf(d.copy, d.src)

\* The file of a row is what was installed, and a shard's disk what its image
\* was installed from, through crashes and while the same file is being
\* installed again; a disk whose copying was cut short is a beginning of it.  All
\* of it unless files that agree in the hashed first part have been copied to
\* the same path.
InstalledIntact ==
    /\ \A k \in Kinds : \A i \in DOMAIN Table(k) :
         LET row == Table(k)[i] IN Unshared(k, row.src) => files[k][row.hash] = row.src
    /\ \A d \in disks : Unshared("image", d.src) => Holds(d)

-----------------------------------------------------------------------------
(* The inductive invariant *)

\* A command that saves a row of its own, as opposed to one it has loaded.
Installing(c, kind) ==
    /\ cmd[c].pc \in {"open", "copy", "save"}
    /\ cmd[c].kind = kind /\ cmd[c].part > 0

\* Ids are given once: those in the table differ, and those of installs in
\* progress are neither in the table nor used twice.
IdsAreFresh ==
    /\ \A i, j \in 1..Len(kernels) : kernels[i].id = kernels[j].id => i = j
    /\ \A i \in 1..Len(kernels) : kernels[i].id <= installs["kernel"]
    /\ \A c \in Cmds : Installing(c, "kernel") =>
         /\ cmd[c].row.id <= installs["kernel"]
         /\ ~HasId(kernels, cmd[c].row.id)
         /\ \A d \in Cmds \ {c} : Installing(d, "kernel") => cmd[d].row.id # cmd[c].row.id

\* set-default saves a row that is in the table, as the default.
LoadedIsDefault ==
    \A c \in Cmds : cmd[c].pc = "save" /\ cmd[c].kind = "kernel" /\ cmd[c].part = 0 =>
        cmd[c].row.default /\ HasId(kernels, cmd[c].row.id)

\* DefaultIsLastChosen, row by row.
DefaultById ==
    /\ \A i \in 1..Len(kernels) : kernels[i].default <=> kernels[i].id = chosen
    /\ chosen # 0 => HasId(kernels, chosen)

\* A path only x was copied to holds a beginning of x.
PathsHoldPrefixes ==
    \A k \in Kinds, h \in Hashes :
        /\ sources[k][h] = {} => files[k][h] = <<>>
        /\ \A x \in Contents : sources[k][h] = {x} => IsPrefixOf(files[k][h], x)

\* A command that copies has written what comes before its position.
CopyUnderWay(c) ==
    LET k == cmd[c].kind  h == cmd[c].row.hash  x == cmd[c].row.src IN
    /\ x \in sources[k][h]
    /\ cmd[c].part \in 1..Len(x)
    /\ Unshared(k, x) => Len(files[k][h]) >= cmd[c].part - 1

\* Commands go through their steps in order; only images are deployed.
CopiesProgress ==
    /\ \A c \in Cmds : cmd[c].pc = "open" => cmd[c].part = 1
    /\ \A c \in Cmds : cmd[c].pc = "deploy" => cmd[c].kind = "image"
    /\ \A c \in Cmds : cmd[c].pc = "copy" => CopyUnderWay(c)

\* The file x was copied to its path, and is there if no other was.
Intact(kind, x) ==
    /\ x \in sources[kind][hash_file(x)]
    /\ Unshared(kind, x) => files[kind][hash_file(x)] = x

\* A disk holds what its state says, and its image is in place.
DiskOK(d) == Intact("image", d.src) /\ (Unshared("image", d.src) => Holds(d))

AllIntact ==
    /\ \A i \in 1..Len(kernels) : Intact("kernel", kernels[i].src)
    /\ \A i \in 1..Len(images) : Intact("image", images[i].src)
    /\ \A c \in Cmds : cmd[c].pc \in {"save", "deploy"} =>
         Intact(cmd[c].kind, cmd[c].row.src)
    /\ \A d \in disks : DiskOK(d)

IInv == /\ TypeOK /\ IdsAreFresh /\ LoadedIsDefault /\ DefaultById
        /\ PathsHoldPrefixes /\ CopiesProgress /\ AllIntact
=============================================================================
