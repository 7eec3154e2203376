-------------------------------- MODULE Proc --------------------------------
(***************************************************************************)
(* The process scheduler of the kernel: kernel/proc.c (proc_init,          *)
(* add_running_proc, schedule) and the part of the clock interrupt handler *)
(* that charges the time slice (kernel/time.c, do_intr_clock).             *)
(*                                                                         *)
(* The kernel is not preemptible: a clock interrupt that arrives in kernel *)
(* mode never calls schedule() (time.c:131), so everything between the     *)
(* entry of an interrupt handler and its call of schedule() is one step.   *)
(*                                                                         *)
(* Left out because no code reads them: jiffies, utime, stime.  The        *)
(* counter of a process that is not running is dead as well (schedule()    *)
(* overwrites it before the process runs again, proc.c:214), so `counter'  *)
(* is the counter of proc_current.                                         *)
(***************************************************************************)
EXTENDS Integers, Sequences, FiniteSets, SequencesExt, Functions

CONSTANTS Procs,    \* the pids i with proc[i] # NULL; 0 is the idle process
          ProcType, \* proc_type of each process: 1 task, 2 server, 3 user
          COUNTER   \* ticks of a time slice

Idle == 0           \* PROC_IDLE_NR
Types == 1 .. 3

ASSUME ProcAssumption ==
    /\ Procs \subseteq Nat
    /\ IsFiniteSet(Procs)
    /\ Idle \in Procs
    /\ ProcType \in [Procs -> Types]
    /\ ProcType[Idle] = 3
    /\ COUNTER \in Nat \ {0}

VARIABLES
    state,        \* state[p] : RUNNING or SLEEPING (ZOMBIE is never assigned)
    proc_current, \* the process that has the processor
    ready,        \* ready[t] : queue of type t (task_head, server_head, user_head)
    counter       \* ticks left to proc_current

procVars == <<state, proc_current, ready, counter>>

-----------------------------------------------------------------------------
(* add_running_proc *)

\* Faulty variant: the scan for a process already queued (lines 126-134) is
\* left out.
NewcomersUnscanned(st, t) ==
    {p \in Procs \ {Idle, proc_current} : st[p] = "RUNNING" /\ ProcType[p] = t}

\* Processes of type t that are RUNNING in st and not queued yet.
Newcomers(st, t) ==
    {p \in Procs \ {Idle, proc_current} :
        st[p] = "RUNNING" /\ ProcType[p] = t /\ p \notin ToSet(ready[t])}

\* The enumeration of S by increasing pid, as the only element of a set.
PidOrder(S) ==
    {s \in [1 .. Cardinality(S) -> S] :
        /\ ToSet(s) = S
        /\ \A i, j \in DOMAIN s : i < j => s[i] < s[j]}

\* Queue t after add_running_proc() has appended the newcomers in pid order.
AddRunningProc(st, t) == {ready[t] \o s : s \in PidOrder(Newcomers(st, t))}

-----------------------------------------------------------------------------
(* schedule *)

\* Faulty variants: only tasks preempt; a process that went to sleep keeps its
\* type as the limit.
FlagTasksOnly(st) == IF st[proc_current] = "RUNNING" THEN 1 ELSE 3
FlagUnconditional(st) == ProcType[proc_current]

\* flag: the least urgent type that may take the processor.
Flag(st) == IF st[proc_current] = "RUNNING" THEN ProcType[proc_current] ELSE 3

\* Faulty variant: a process does not give way to its own class.
EligibleStrict(st, q) ==
    {t \in Types : q[t] # <<>> /\ (t < Flag(st) \/ st[proc_current] # "RUNNING")}

\* The types whose head may be chosen, q being the three queues.
Eligible(st, q) == {t \in Types : t <= Flag(st) /\ q[t] # <<>>}

\* Faulty variant: head and tail are set even if the queue is not empty.
RequeueAlone(q, p) == <<p>>

\* The queue in which the preempted process p is put back.  Unless it is
\* empty, its head is removed as well (proc.c:192, 200, 208).
Requeue(q, p) == IF q = <<>> THEN <<p>> ELSE Append(Tail(q), p)

\* No candidate, and the current process can go on with a new time slice.
KeepCurrent(st, q) ==
    /\ Eligible(st, q) = {}
    /\ st[proc_current] = "RUNNING"
    /\ ready' = q
    /\ counter' = IF proc_current = Idle THEN 0 ELSE COUNTER
    /\ UNCHANGED proc_current

\* No candidate, and the current process cannot go on: the idle process runs.
RunIdle(st, q) ==
    /\ Eligible(st, q) = {}
    /\ st[proc_current] # "RUNNING"
    /\ ready' = q
    /\ counter' = 0
    /\ proc_current' = Idle

\* The head of the most urgent eligible queue runs.
SwitchTo(st, q) ==
    \E t \in Eligible(st, q) :
        /\ \A u \in Eligible(st, q) : t <= u
        /\ proc_current' = Head(q[t])
        /\ counter' = COUNTER
        /\ LET popped == [q EXCEPT ![t] = Tail(@)] IN
           ready' = IF st[proc_current] = "RUNNING" /\ proc_current # Idle
                      THEN [popped EXCEPT ![ProcType[proc_current]] =
                                Requeue(@, proc_current)]
                      ELSE popped

\* schedule(), called when the process states have become st.
Schedule(st) ==
    /\ state' = st
    /\ \E q1 \in AddRunningProc(st, 1), q2 \in AddRunningProc(st, 2),
          q3 \in AddRunningProc(st, 3) :
         LET q == <<q1, q2, q3>> IN
           \/ KeepCurrent(st, q)
           \/ RunIdle(st, q)
           \/ SwitchTo(st, q)

-----------------------------------------------------------------------------
(* The handlers that lead to schedule().  Who blocks and who is woken is   *)
(* decided by the message calls; here it is left open.                     *)

ProcInit ==
    /\ state = [p \in Procs |-> "RUNNING"]
    /\ proc_current = Idle
    /\ ready = [t \in Types |-> <<>>]
    /\ counter = 0

\* do_intr_clock with cpl # 0.
Tick ==
    IF counter > 1
      THEN counter' = counter - 1 /\ UNCHANGED <<state, proc_current, ready>>
      ELSE Schedule(state)

\* do_intr_clock with cpl = 0: the tick hits a handler of the current process.
KernelTick ==
    /\ counter > 0
    /\ counter' = counter - 1
    /\ UNCHANGED <<state, proc_current, ready>>

\* A message call puts the current process to sleep.
Block ==
    /\ proc_current # Idle
    /\ Schedule([state EXCEPT ![proc_current] = "SLEEPING"])

\* A message call, or a hardware message, wakes process p.
Wake(p) ==
    /\ state[p] = "SLEEPING"
    /\ Schedule([state EXCEPT ![p] = "RUNNING"])

\* A hardware message is queued, or taken: schedule() with no change of state.
Yield == Schedule(state)

ProcNext ==
    \/ Tick
    \/ KernelTick
    \/ Block
    \/ \E p \in Procs \ {Idle} : Wake(p)
    \/ Yield

\* The clock keeps ticking and processes do not live in kernel mode for ever.
ProcSpec == ProcInit /\ [][ProcNext]_procVars /\ WF_procVars(Tick)

-----------------------------------------------------------------------------
(* Properties *)

States == {"RUNNING", "SLEEPING"}

\* Type of the scheduler's variables; a time slice never exceeds COUNTER.
ProcTypeOK ==
    /\ state \in [Procs -> States]
    /\ proc_current \in Procs
    /\ ready \in [Types -> Seq(Procs)]
    /\ counter \in 0 .. COUNTER

\* Processes that could use the processor and do not have it.
Waiting == {p \in Procs \ {Idle, proc_current} : state[p] = "RUNNING"}

\* p is in the ready queue of its class.
Queued(p) == p \in ToSet(ready[ProcType[p]])

\* The ready queues hold, once each and in the queue of their class, only
\* processes that can run and do not have the processor; the process that has
\* it can run, and so can the idle process, to which schedule() falls back.
\* A process never goes to sleep while it is queued.
QueueSound ==
    /\ \A t \in Types :
          /\ ToSet(ready[t]) \subseteq {p \in Waiting : ProcType[p] = t}
          /\ IsInjective(ready[t])
    /\ state[proc_current] = "RUNNING"
    /\ state[Idle] = "RUNNING"

\* The running process is of the most urgent class that has a process to run:
\* no sequence of blocking, waking and requeueing leaves a task or a server
\* waiting behind a user process.  (The idle process stands below all.)
TopPriority ==
    proc_current # Idle =>
        \A p \in Waiting : ProcType[proc_current] <= ProcType[p]

\* Putting a preempted process back drops the head of a queue that is not
\* empty (proc.c:192, 200, 208), but the next schedule() finds it again
\* before it can drop another: at most one process is missing from the queues.
AtMostOneDropped ==
    proc_current # Idle =>
        \A p, r \in Waiting : ~Queued(p) /\ ~Queued(r) => p = r

\* The idle process holds the processor although another process could run.
IdleWithWork == proc_current = Idle /\ Waiting # {}

\* Only at boot, until the first schedule(): no step makes the processor idle,
\* or a process able to run while it is idle, without dispatching it.
WorkConserving == [][IdleWithWork' => IdleWithWork]_procVars

\* p can run, no more urgent process can, and at most one process of its own
\* class competes with it.
Deserves(p) ==
    /\ state[p] = "RUNNING"
    /\ \A r \in Procs \ {Idle} :
          state[r] = "RUNNING" => ProcType[r] >= ProcType[p]
    /\ \A r, u \in Procs \ {Idle, p} :
          /\ state[r] = "RUNNING" /\ ProcType[r] = ProcType[p]
          /\ state[u] = "RUNNING" /\ ProcType[u] = ProcType[p]
          => r = u

\* Two processes of a class share the processor: whichever deserves it for
\* ever gets it again and again, however the other blocks, wakes and yields.
\* (With a third process of the class this fails: Requeue drops the queue's head.)
SharesProcessor ==
    \A p \in Procs \ {Idle} :
        <>[]Deserves(p) => []<>(proc_current = p)
=============================================================================
