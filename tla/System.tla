------------------------------- MODULE System -------------------------------
(***************************************************************************)
(* The kernel with the processes it boots: system_task runs its own        *)
(* program (system_task/system.c), a loop around big_msg_receive(MSG_ANY)  *)
(* that ignores the result.  The other processes, init among them, make    *)
(* any call they like; no interrupt handler sends messages.                *)
(***************************************************************************)
EXTENDS Messaging

SystemTask == 2 \* PROC_SYSTEM_NR

\* One turn of the loop: the source is MSG_ANY again before each call.
Serve == BigReceive(SystemTask, MSG_ANY)

SystemNext ==
    \/ Serve
    \/ \E p \in Procs \ {SystemTask} : Call(p)
    \/ Clock

\* The task, once it has the processor, goes on to its next call.
SystemSpec ==
    /\ Init /\ [][SystemNext]_vars
    /\ WF_vars(Tick /\ UNCHANGED msgVars)
    /\ WF_vars(Serve)

\* Whoever sends a big message to the system task is released again: neither
\* the clients' other calls, nor their priority, nor messages the clients
\* exchange keep the task from reaching it.
ClientsServed ==
    \A p \in Procs : SendsTo(bigSend, p, SystemTask) ~> state[p] = "RUNNING"

\* The loop ignores the result of its call, which is sound as long as the
\* call is never refused, whoever waits for the task.
TaskNeverRefused == eax[SystemTask] # -1
=============================================================================
