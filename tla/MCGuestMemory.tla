---------------------------- MODULE MCGuestMemory ----------------------------
(* RAM split around a hole, as one contiguous host mapping or as two; and the *)
(* same guest memory moved within the hypervisor.                             *)
EXTENDS GuestMemory
R(h, g, s) == [host |-> h, guest |-> g, size |-> s]
SplitTable == <<R(0, 0, 3), R(5, 8, 2)>>
ContiguousTable == <<R(1, 4, 2), R(3, 8, 3)>>
MovedTable == <<R(4, 0, 3)>>
MCTables == {SplitTable, ContiguousTable, MovedTable}
MCHostAddrs == 0..8
=============================================================================
