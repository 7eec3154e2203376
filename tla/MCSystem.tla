------------------------------ MODULE MCSystem ------------------------------
(* Instance of the booted system for TLC. *)
EXTENDS System

\* Idle, init, the system task and a second user process.
BootedProcs == 0 .. 3
BootedTypes == [p \in BootedProcs |-> IF p = SystemTask THEN 1 ELSE 3]
=============================================================================
