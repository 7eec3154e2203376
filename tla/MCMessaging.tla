---------------------------- MODULE MCMessaging ----------------------------
(* Instances of message passing for TLC. *)
EXTENDS Messaging

TwoProcs == 0 .. 2
ThreeProcs == 0 .. 3
\* Idle, init and other user processes, and the system task.
Types12 == [p \in TwoProcs |-> IF p = 2 THEN 1 ELSE 3]
Types123 == [p \in ThreeProcs |-> IF p = 2 THEN 1 ELSE 3]
=============================================================================
