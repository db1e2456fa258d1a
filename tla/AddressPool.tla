----------------------------- MODULE AddressPool -----------------------------
(***************************************************************************)
(* How DhcpServer::new (oathgate-bridge/src/net/dhcp.rs) turns the         *)
(* configured range into the pool that module Dhcp starts from, with the   *)
(* address arithmetic of Ipv4Network (oathgate-net types/netaddress.rs) on *)
(* Width-bit addresses.  Every prefix, every start and every end is a      *)
(* configuration: the constructor checks none of them.                     *)
(***************************************************************************)
EXTENDS Naturals, Sequences

CONSTANT Width      \* bits of an address, 32 in the code

ASSUME WidthAssumption == Width \in Nat \ {0}

\* Powers of two, spelt out for the provers, who do not know them: a subnet with
\* a prefix shorter than an address has two addresses at least, one as long as an
\* address has one, and subnets of one size fill the address space.
ASSUME PowersAssumption ==
    /\ 2^Width \in Nat
    /\ \A b \in 0..Width :
          /\ 2^(Width - b) \in Nat \ {0} /\ (2^(Width - b) = 1 <=> b = Width)
          /\ \E k \in 1..2^Width : 2^Width = k * 2^(Width - b)

VARIABLES bits,         \* prefix length of the router's network
          start, end,   \* DhcpConfig
          next_avail,   \* loop variable: address of the next push
          pool,         \* the pool so far (`available` in the code)
          done          \* the loop has ended

poolVars == <<bits, start, end, next_avail, pool, done>>

Addresses == 0..(2^Width - 1)

\* Number of addresses in a subnet: the mask clears Width - bits low bits.
SubnetSize == 2^(Width - bits)

network(ip)   == ip - (ip % SubnetSize)
broadcast(ip) == network(ip) + SubnetSize - 1
contains(net, ip) == network(ip) = network(net)

WrappingSucc(ip) == (ip + 1) % 2^Width

\* Ipv4Network::next returns an address.
HasNext(ip) == WrappingSucc(ip) \notin {network(ip), broadcast(ip)}

\* Bound: pushes of a loop that does not end, enough for an address to return.
MaxPool == 2^Width + 1

PoolInit ==
    /\ bits \in 0..Width
    /\ start \in Addresses /\ end \in Addresses
    /\ next_avail = start
    /\ pool = <<>>
    /\ done = FALSE

\* Fault: the end of the range is exclusive.
StepExclusive ==
    /\ ~done /\ Len(pool) < MaxPool
    /\ pool' = Append(pool, next_avail)
    /\ IF HasNext(next_avail) /\ WrappingSucc(next_avail) < end
       THEN next_avail' = WrappingSucc(next_avail) /\ UNCHANGED done
       ELSE done' = TRUE /\ UNCHANGED next_avail
    /\ UNCHANGED <<bits, start, end>>

\* Fault: the loop variable does not advance past a network address.
StepStuck ==
    /\ ~done /\ Len(pool) < MaxPool
    /\ pool' = IF pool = <<>> THEN <<next_avail>> ELSE pool
    /\ IF HasNext(next_avail) /\ WrappingSucc(next_avail) <= end
       THEN /\ next_avail' = IF next_avail = network(next_avail) THEN next_avail
                             ELSE WrappingSucc(next_avail)
            /\ UNCHANGED done
       ELSE done' = TRUE /\ UNCHANGED next_avail
    /\ UNCHANGED <<bits, start, end>>

\* One round of the loop: push the address, then look for the next one.
Step ==
    /\ ~done /\ Len(pool) < MaxPool
    /\ pool' = Append(pool, next_avail)
    /\ IF HasNext(next_avail) /\ WrappingSucc(next_avail) <= end
       THEN next_avail' = WrappingSucc(next_avail) /\ UNCHANGED done
       ELSE done' = TRUE /\ UNCHANGED next_avail
    /\ UNCHANGED <<bits, start, end>>

\* The constructor has returned, or the bound is reached.
Finished == (done \/ Len(pool) = MaxPool) /\ UNCHANGED poolVars

PoolNext == Step \/ Finished

PoolSpec == PoolInit /\ [][PoolNext]_poolVars /\ WF_poolVars(Step)

-----------------------------------------------------------------------------
(* Properties *)

Sensible == start <= end /\ contains(start, end) /\ start # broadcast(start)

\* A prefix as long as an address, the one Ipv4Network::from_str takes when none is
\* given, makes next() leave the subnet, and no address is beyond the last one.
Endless == bits = Width /\ end = 2^Width - 1

\* Whatever the start and the end, wrap-around at the last address included, no
\* address enters the pool twice (lease_ip relies on it: PoolAssumption of
\* module Dhcp), unless the loop is endless; and a range inside one subnet gives
\* exactly the addresses from start to end, in order and without the broadcast
\* address.
PoolIsTheRange ==
    /\ ~Endless => \A i, j \in 1..Len(pool) : pool[i] = pool[j] => i = j
    /\ done /\ Sensible =>
        /\ {pool[i] : i \in 1..Len(pool)} =
               {a \in Addresses : start <= a /\ a <= end /\ a # broadcast(start)}
        /\ \A i \in 1..Len(pool) : pool[i] = start + i - 1

\* The constructor returns for every configuration but those of one kind, for
\* which it never does.
PoolGetsBuilt == (~Endless => <>done) /\ (Endless => []~done)
=============================================================================
