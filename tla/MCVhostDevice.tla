---------------------------- MODULE MCVhostDevice ----------------------------
(* Small front ends for VhostDevice: the messages each run lets them send.   *)
EXTENDS VhostDevice
StartKinds == {"SET_MEM_TABLE", "SET_VRING_BASE", "SET_VRING_ADDR",
               "SET_VRING_KICK", "SET_VRING_ENABLE"}
ControlKinds == KindsWithoutQueue \cup VringKinds
ChainKinds == StartKinds \cup {"GET_VRING_BASE"}
\* Exploration stops when the device thread has ended.
Alive == death = ""
=============================================================================
