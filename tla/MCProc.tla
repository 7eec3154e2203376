------------------------------- MODULE MCProc -------------------------------
(* Instance of the scheduler for TLC. *)
EXTENDS Proc

\* Idle and three user processes, two servers and a task: three of a class
\* make the queue operations differ, two let a class share the processor.
MixedProcs == 0 .. 6
MixedTypes == [p \in MixedProcs |-> CASE p = 2 -> 1 [] p \in {3, 4} -> 2 [] OTHER -> 3]

\* The processes of proc_init(): idle, init and the system task.
BootProcs == 0 .. 2
=============================================================================
