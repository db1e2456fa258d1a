----------------------------- MODULE GuestMemory -----------------------------
(***************************************************************************)
(* Address translation of a vhost device: SET_MEM_TABLE tells the device   *)
(* where the hypervisor (host) mapped the guest's memory, SET_VRING_ADDR   *)
(* gives ring addresses in the hypervisor's address space, which the       *)
(* device translates to guest addresses (oathgate-vhost device.rs and      *)
(* types.rs).  A hypervisor replaces its table when memory is plugged or   *)
(* moved, so a device may see several in its life.                         *)
(***************************************************************************)
EXTENDS Integers, Sequences

CONSTANTS Tables,     \* memory tables the hypervisor may send
          HostAddrs,  \* host addresses of rings
          Rings,      \* the rings of a virtqueue: desc, avail, used
          MaxTables   \* bound: tables sent to one device

\* A table is a sequence of regions that overlap neither in the hypervisor's
\* address space nor in the guest's (from_regions refuses the latter).
Region == [host : Nat, guest : Nat, size : Nat \ {0}]
Apart(x, y, m, n) == x + m <= y \/ y + n <= x

ASSUME TablesAssumption ==
    \A t \in Tables :
        /\ t \in Seq(Region) /\ t # <<>>
        /\ \A i, j \in 1..Len(t) : i # j =>
              /\ Apart(t[i].host, t[j].host, t[i].size, t[j].size)
              /\ Apart(t[i].guest, t[j].guest, t[i].size, t[j].size)

ASSUME AddrsAssumption == HostAddrs \subseteq Nat

VARIABLES mappings,   \* Vec<GuestMapping> of the device
          memory,     \* the table behind the queues' guest memory
          ring,       \* ring[r]: guest address the device uses, or NoAddr
          asked,      \* asked[r]: host address it was translated from, or NoAddr
          tables,     \* number of tables received
          refused     \* the host address SET_VRING_ADDR failed on, or NoAddr

memVars == <<mappings, memory, ring, asked, tables, refused>>

NoAddr == -1

MemInit ==
    /\ mappings = <<>> /\ memory = <<>>
    /\ ring = [r \in Rings |-> NoAddr]
    /\ asked = [r \in Rings |-> NoAddr]
    /\ tables = 0 /\ refused = NoAddr

\* GuestMapping::new and guest_addr: the address one past the end is accepted.
host_end(m) == m.host + m.size

Covers(m, vmm) == vmm >= m.host /\ vmm <= host_end(m)

\* Fault: the offset is taken from the end of the mapping.
GuestAddrFromEnd(m, vmm) == IF Covers(m, vmm) THEN host_end(m) - vmm + m.guest ELSE NoAddr

guest_addr(m, vmm) == IF Covers(m, vmm) THEN vmm - m.host + m.guest ELSE NoAddr

\* find_map: the first mapping that covers the address decides.
compute_guest_address(ms, vmm) ==
    LET hits == {i \in 1..Len(ms) : guest_addr(ms[i], vmm) # NoAddr}
    IN  IF hits = {} THEN NoAddr
        ELSE guest_addr(ms[CHOOSE i \in hits : \A j \in hits : i <= j], vmm)

\* Fault: the translation table is not filled.
MemTableUnmapped(t) ==
    /\ refused = NoAddr /\ tables < MaxTables
    /\ mappings' = IF tables = 0 THEN SubSeq(t, 1, 1) ELSE mappings
    /\ memory' = t
    /\ tables' = tables + 1
    /\ UNCHANGED <<ring, asked, refused>>

\* SET_MEM_TABLE: the mappings are added to those of earlier tables, the
\* queues' memory is replaced.
MemTable(t) ==
    /\ refused = NoAddr /\ tables < MaxTables
    /\ mappings' = mappings \o t
    /\ memory' = t
    /\ tables' = tables + 1
    /\ UNCHANGED <<ring, asked, refused>>

\* SET_VRING_ADDR: all the rings of a queue are translated before any is set;
\* without a table, or without a translation for one of them, it is an error,
\* which ends the device.
VringAddr(vmm) ==
    LET guest == [r \in Rings |-> compute_guest_address(mappings, vmm[r])]
        failed == {r \in Rings : mappings = <<>> \/ guest[r] = NoAddr}
    IN  /\ refused = NoAddr
        /\ \/ /\ failed = {}
              /\ ring' = guest /\ asked' = vmm
              /\ UNCHANGED refused
           \/ /\ \E r \in failed : refused' = vmm[r]
              /\ UNCHANGED <<ring, asked>>
        /\ UNCHANGED <<mappings, memory, tables>>

MemNext ==
    \/ \E t \in Tables : MemTable(t)
    \/ \E vmm \in [Rings -> HostAddrs] : VringAddr(vmm)

MemSpec == MemInit /\ [][MemNext]_memVars

-----------------------------------------------------------------------------
(* Properties *)

Inside(m, vmm) == vmm >= m.host /\ vmm < m.host + m.size

\* The guest addresses that the current table gives a host address.
Translations(vmm) ==
    {memory[i].guest + vmm - memory[i].host :
        i \in {k \in 1..Len(memory) : Inside(memory[k], vmm)}}

AdjacentHost(vmm) == \E i \in 1..Len(memory) : vmm = host_end(memory[i])

\* As long as a single table is in use, a ring that lies inside a region and
\* not where another region ends is used at the guest address the table
\* gives it.
RingTranslated ==
    \A r \in Rings :
        tables = 1 /\ ring[r] # NoAddr /\ ~AdjacentHost(asked[r]) =>
            ring[r] \in Translations(asked[r])

\* The device refuses a ring, and ends, only when the newest table does not
\* cover it: the search through the mappings of all tables hides none.
RefusedOnlyOutside ==
    \A i \in 1..Len(memory) : refused # NoAddr => ~Inside(memory[i], refused)

\* Every variable keeps its type.
MemTypeOK ==
    /\ mappings \in Seq(Region) /\ memory \in Seq(Region)
    /\ ring \in [Rings -> Int] /\ asked \in [Rings -> Int]
    /\ tables \in Nat /\ refused \in Int

\* Strengthening: no ring is set before the first table, and as long as it is
\* the only one the mappings are its regions and decided every ring.
FirstTable ==
    /\ tables = 0 => \A r \in Rings : ring[r] = NoAddr
    /\ tables = 0 => mappings = <<>>
    /\ tables = 1 => mappings = memory
    /\ tables = 1 => \A r \in Rings : ring[r] # NoAddr =>
           ring[r] = compute_guest_address(memory, asked[r])

\* Strengthening: the regions of the newest table are among the mappings, and
\* none of the mappings covers the address the device gave up on.
NewestMapped ==
    /\ \A i \in 1..Len(memory) : \E j \in 1..Len(mappings) : mappings[j] = memory[i]
    /\ refused # NoAddr => \A j \in 1..Len(mappings) : ~Covers(mappings[j], refused)

MemIInv == MemTypeOK /\ FirstTable /\ NewestMapped
=============================================================================
