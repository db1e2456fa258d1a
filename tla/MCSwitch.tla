------------------------------ MODULE MCSwitch ------------------------------
(* The router at port 0 sends one frame, and others without end to a host     *)
(* that is not there; a device at port 1 sends two, while a third connects.   *)
EXTENDS Switch
CONSTANT m1
MCChatty == {<<0, m1>>}
MCMaxSent == [p \in 0..(NumPorts - 1) |-> IF p < 2 THEN p + 1 ELSE 0]
=============================================================================
