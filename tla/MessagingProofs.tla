-------------------------- MODULE MessagingProofs ---------------------------
(***************************************************************************)
(* Message passing, for any number of processes, of messages and of places *)
(* for messages of interrupt handlers: its steps are steps of the          *)
(* scheduler, a process sleeps where it can be found and in one place      *)
(* only, the pool is exact, and no message misses its receiver; callers    *)
(* get what Rendezvous promises.  The system task is never refused.        *)
(***************************************************************************)
EXTENDS System, ProcProofs

-----------------------------------------------------------------------------
(* The scheduler below *)

\* Waking whatever process is a step of the scheduler.
LEMMA AwakeIsProcStep ==
    ASSUME SchedInv, NEW r, Schedule(Awake(r))
    PROVE  ProcNext
<1>1. state \in [Procs -> States] /\ state[Idle] = "RUNNING"
    BY DEF SchedInv, ProcTypeOK, QueueSound
<1>2. CASE r \in Procs /\ state[r] = "SLEEPING"
    <2>1. r \in Procs \ {Idle} /\ Wake(r)
        BY <1>1, <1>2 DEF Wake, Awake
    <2> QED
        BY <2>1 DEF ProcNext
<1>3. CASE ~(r \in Procs /\ state[r] = "SLEEPING")
    <2>1. Awake(r) = state
        BY <1>1, <1>3 DEF Awake, States
    <2> QED
        BY <2>1 DEF ProcNext, Yield
<1> QED
    BY <1>2, <1>3

\* Every call, every hardware message and every tick is a step of the scheduler.
LEMMA StepIsProcStep ==
    ASSUME SchedInv, [Next]_vars
    PROVE  [ProcNext]_procVars
<1>1. ASSUME NEW p \in Procs, NEW x \in Operands, SmallReceive(p, x)
      PROVE  [ProcNext]_procVars
    <2>1. CASE SmallReceiveFails(p, x)
        BY <2>1 DEF SmallReceiveFails, Fails
    <2>2. CASE SmallReceiveMeets(p, x)
        <3>1. \E r : Schedule(Awake(r))
            BY <2>2 DEF SmallReceiveMeets, Meet
        <3> QED
            BY <3>1, AwakeIsProcStep
    <2>3. CASE SmallReceiveDrains(p, x)
        BY <2>3 DEF SmallReceiveDrains, ProcNext, Yield
    <2>4. CASE SmallReceiveWaits(p, x)
        BY <2>4 DEF SmallReceiveWaits, Sleeps, Calls, Asleep, ProcNext, Block
    <2> QED
        BY <1>1, <2>1, <2>2, <2>3, <2>4 DEF SmallReceive
<1>2. ASSUME NEW p \in Procs, NEW x \in Operands, BigReceive(p, x)
      PROVE  [ProcNext]_procVars
    <2>1. CASE BigReceiveFails(p, x)
        BY <2>1 DEF BigReceiveFails, Fails
    <2>2. CASE BigReceiveMeets(p, x)
        <3>1. \E r : Schedule(Awake(r))
            BY <2>2 DEF BigReceiveMeets, Meet
        <3> QED
            BY <3>1, AwakeIsProcStep
    <2>3. CASE BigReceiveWaits(p, x)
        BY <2>3 DEF BigReceiveWaits, Sleeps, Calls, Asleep, ProcNext, Block
    <2> QED
        BY <1>2, <2>1, <2>2, <2>3 DEF BigReceive
<1>3. ASSUME NEW p \in Procs, NEW x \in Operands, NEW m \in Msgs, SmallSend(p, x, m)
      PROVE  [ProcNext]_procVars
    <2>1. CASE SmallSendFails(p, x)
        BY <2>1 DEF SmallSendFails, Fails
    <2>2. CASE SmallSendMeets(p, x, m)
        BY <2>2, AwakeIsProcStep DEF SmallSendMeets, Meet
    <2>3. CASE SmallSendWaits(p, x, m)
        BY <2>3 DEF SmallSendWaits, Sleeps, Calls, Asleep, ProcNext, Block
    <2> QED
        BY <1>3, <2>1, <2>2, <2>3 DEF SmallSend
<1>4. ASSUME NEW p \in Procs, NEW x \in Operands, NEW m \in Msgs, BigSend(p, x, m)
      PROVE  [ProcNext]_procVars
    <2>1. CASE BigSendFails(p, x)
        BY <2>1 DEF BigSendFails, Fails
    <2>2. CASE BigSendMeets(p, x, m)
        BY <2>2, AwakeIsProcStep DEF BigSendMeets, Meet
    <2>3. CASE BigSendWaits(p, x, m)
        BY <2>3 DEF BigSendWaits, Sleeps, Calls, Asleep, ProcNext, Block
    <2> QED
        BY <1>4, <2>1, <2>2, <2>3 DEF BigSend
<1>5. ASSUME NEW d \in Pids, NEW m \in Msgs, HardwareSend(d, m)
      PROVE  [ProcNext]_procVars
    <2>1. CASE HardwareSendMeets(d, m)
        BY <2>1, AwakeIsProcStep DEF HardwareSendMeets
    <2>2. CASE HardwareSendQueues(d, m)
        BY <2>2 DEF HardwareSendQueues, ProcNext, Yield
    <2> QED
        BY <1>5, <2>1, <2>2 DEF HardwareSend
<1>6. CASE Clock
    BY <1>6 DEF Clock, ProcNext
<1>7. CASE UNCHANGED vars
    BY <1>7 DEF vars
<1> QED
    BY <1>1, <1>2, <1>3, <1>4, <1>5, <1>6, <1>7 DEF Next, Call

LEMMA MessagingInit == Init => SchedInv
    BY SchedInit DEF Init

LEMMA MessagingSchedNext == SchedInv /\ [Next]_vars => SchedInv'
    BY StepIsProcStep, SchedNext

\* The calls of messaging.c change states, queues and the processor only in ways
\* that Proc allows, so all that is proved of the scheduler holds with them.
THEOREM StepsOfProc == Spec => ProcInit /\ [][ProcNext]_procVars
<1>1. Init => ProcInit
    BY DEF Init
<1>2. SchedInv /\ [Next]_vars => [ProcNext]_procVars
    BY StepIsProcStep
<1> QED
    BY MessagingInit, MessagingSchedNext, <1>1, <1>2, PTL DEF Spec
-----------------------------------------------------------------------------
(* The waiting calls as sets: E1 and E2 are the entries of the send lists   *)
(* (small, big), R1 and R2 the processes in the receive lists.              *)

\* The processes among the senders of the entries E.
Sources(E) == {e.src : e \in E} \ {MSG_HARDWARE}

\* A process sleeps exactly in one of four places, its result still open.
Placed(a, b, c, d, st, ea) ==
    /\ a \cup b \cup c \cup d \subseteq Procs
    /\ a \cap b = {} /\ c \cap d = {} /\ (a \cup b) \cap (c \cup d) = {}
    /\ \A p \in Procs : st[p] = "SLEEPING" <=> p \in a \cup b \cup c \cup d
    /\ \A p \in Procs : st[p] = "SLEEPING" <=> ea[p] = 0

\* No receiver in R would accept an entry of E; eb holds their saved ebx.
NoMiss(E, R, eb) ==
    \A e \in E : ~(e.dest \in R /\ eb[e.dest] \in {e.src, MSG_ANY})

\* The entry e, or some entry of E, is from p for q.
IsFrom(e, p, q) == e.src = p /\ e.dest = q
From(E, p, q) == \E e \in E : IsFrom(e, p, q)

\* p waits for q.
Waits(E1, E2, R1, R2, eb, p, q) ==
    \/ From(E1, p, q) \/ From(E2, p, q)
    \/ p \in R1 /\ eb[p] = q
    \/ p \in R2 /\ eb[p] = q

Circle(E1, E2, R1, R2, eb, p, q) ==
    Waits(E1, E2, R1, R2, eb, p, q) /\ Waits(E1, E2, R1, R2, eb, q, p)

\* From the first lists and cells to the second, a circle of two is closed only
\* by an entry that is new among the big messages.
ClosedByBig(E1, E2, R1, R2, eb, F1, F2, Q1, Q2, fb) ==
    \A p, q \in Procs :
        ~Circle(E1, E2, R1, R2, eb, p, q) /\ Circle(F1, F2, Q1, Q2, fb, p, q) =>
            \/ ~From(E2, p, q) /\ From(F2, p, q)
            \/ ~From(E2, q, p) /\ From(F2, q, p)

\* What the calls keep of the four lists together.
ListsSound(E1, E2, R1, R2, st, ea, eb) ==
    /\ Placed(Sources(E1), Sources(E2), R1, R2, st, ea)
    /\ NoMiss(E1, R1, eb) /\ NoMiss(E2, R2, eb)

LEMMA Names == MSG_ANY \notin Nat /\ MSG_HARDWARE \notin Nat /\ MSG_ANY # MSG_HARDWARE
               /\ \A p \in Procs : p # MSG_ANY /\ p # MSG_HARDWARE
<1>1. \A p \in Procs : p \in Nat
    BY ProcAssumption
<1> QED
    BY <1>1 DEF MSG_ANY, MSG_HARDWARE

\* From the first lists and cells to the second, r has stopped waiting, and the
\* cells of those that go on waiting stay.  (If r did not wait, nothing changes.)
Ends(E1, E2, R1, R2, ea, eb, F1, F2, Q1, Q2, fa, fb, r) ==
    /\ \A p \in Procs : fa[p] = 0 <=> ea[p] = 0 /\ p # r
    /\ F1 \subseteq E1 /\ F2 \subseteq E2
    /\ \A e \in E2 : e.src \in Procs \ {r} => e \in F2
    /\ Sources(F1) = Sources(E1) \ {r} /\ Sources(F2) = Sources(E2) \ {r}
    /\ Q1 = R1 \ {r} /\ Q2 = R2 \ {r}
    /\ \A p \in Q1 \cup Q2 : fb[p] = eb[p]

LEMMA StopWaiting ==
    ASSUME NEW E1, NEW E2, NEW R1, NEW R2, NEW st, NEW ea, NEW eb,
           NEW F1, NEW F2, NEW Q1, NEW Q2, NEW su, NEW fa, NEW fb,
           NEW r \in Procs,
           ListsSound(E1, E2, R1, R2, st, ea, eb),
           st \in [Procs -> States],
           su = [st EXCEPT ![r] = "RUNNING"],
           Ends(E1, E2, R1, R2, ea, eb, F1, F2, Q1, Q2, fa, fb, r)
    PROVE  /\ ListsSound(F1, F2, Q1, Q2, su, fa, fb)
           /\ ClosedByBig(E1, E2, R1, R2, eb, F1, F2, Q1, Q2, fb)
<1>1. Placed(Sources(F1), Sources(F2), Q1, Q2, su, fa)
    <2> DEFINE a == Sources(E1)
               b == Sources(E2)
    <2>1. Placed(a, b, R1, R2, st, ea)
        BY DEF ListsSound
    <2>2. \A p \in Procs : su[p] = "SLEEPING" <=> st[p] = "SLEEPING" /\ p # r
        BY DEF States
    <2>4. \A p \in Procs : fa[p] = 0 <=> ea[p] = 0 /\ p # r
        BY DEF Ends
    <2> HIDE DEF a, b
    <2>3. Placed(a \ {r}, b \ {r}, R1 \ {r}, R2 \ {r}, su, fa)
        BY <2>1, <2>2, <2>4 DEF Placed
    <2> QED
        BY <2>3 DEF a, b, Ends
<1>2. NoMiss(F1, Q1, fb)
    BY DEF ListsSound, NoMiss, Ends
<1>3. NoMiss(F2, Q2, fb)
    BY DEF ListsSound, NoMiss, Ends
<1>4. ASSUME NEW x \in Procs, NEW y, Waits(F1, F2, Q1, Q2, fb, x, y)
      PROVE  Waits(E1, E2, R1, R2, eb, x, y)
    <2>1. From(F1, x, y) => From(E1, x, y)
        BY DEF From, Ends
    <2>2. From(F2, x, y) => From(E2, x, y)
        BY DEF From, Ends
    <2> QED
        BY <1>4, <2>1, <2>2 DEF Waits, Ends
<1>5. ClosedByBig(E1, E2, R1, R2, eb, F1, F2, Q1, Q2, fb)
    BY <1>4 DEF ClosedByBig, Circle
<1> QED
    BY <1>1, <1>2, <1>3, <1>5 DEF ListsSound

\* A process that did not wait now waits in one of the four places.
LEMMA PlaceOne ==
    ASSUME NEW a, NEW b, NEW c, NEW d, NEW st, NEW ea, NEW su, NEW fa,
           NEW p \in Procs, st[p] = "RUNNING",
           Placed(a, b, c, d, st, ea),
           st \in [Procs -> States],
           su = [st EXCEPT ![p] = "SLEEPING"],
           \A x \in Procs : fa[x] = 0 <=> ea[x] = 0 \/ x = p
    PROVE  /\ Placed(a \cup {p}, b, c, d, su, fa)
           /\ Placed(a, b \cup {p}, c, d, su, fa)
           /\ Placed(a, b, c \cup {p}, d, su, fa)
           /\ Placed(a, b, c, d \cup {p}, su, fa)
<1>1. p \notin a \cup b \cup c \cup d
    BY DEF Placed, States
<1>2. \A x \in Procs : su[x] = "SLEEPING" <=> st[x] = "SLEEPING" \/ x = p
    BY DEF States
<1>3. Placed(a \cup {p}, b, c, d, su, fa)
    BY <1>1, <1>2 DEF Placed
<1>4. Placed(a, b \cup {p}, c, d, su, fa)
    BY <1>1, <1>2 DEF Placed
<1>5. Placed(a, b, c \cup {p}, d, su, fa)
    BY <1>1, <1>2 DEF Placed
<1>6. Placed(a, b, c, d \cup {p}, su, fa)
    BY <1>1, <1>2 DEF Placed
<1> QED
    BY <1>3, <1>4, <1>5, <1>6

\* From the first lists and cells to the second, p has begun to wait for q: p
\* waited for nobody, and q does not wait for p unless p's is a big message.
Begins(E1, E2, R1, R2, eb, F1, F2, Q1, Q2, fb, p, q) ==
    /\ \A x \in Procs, y \in Procs : Waits(F1, F2, Q1, Q2, fb, x, y) =>
           Waits(E1, E2, R1, R2, eb, x, y) \/ (x = p /\ y = q)
    /\ \A y \in Procs : ~Waits(E1, E2, R1, R2, eb, p, y)
    /\ \/ ~Waits(E1, E2, R1, R2, eb, q, p) /\ q # p
       \/ ~From(E2, p, q) /\ From(F2, p, q)

\* The only new circle is that of p and q.
LEMMA WaitForOne ==
    ASSUME NEW E1, NEW E2, NEW R1, NEW R2, NEW eb,
           NEW F1, NEW F2, NEW Q1, NEW Q2, NEW fb,
           NEW p \in Procs, NEW q,
           Begins(E1, E2, R1, R2, eb, F1, F2, Q1, Q2, fb, p, q)
    PROVE  ClosedByBig(E1, E2, R1, R2, eb, F1, F2, Q1, Q2, fb)
<1> SUFFICES ASSUME NEW x \in Procs, NEW y \in Procs,
                    ~Circle(E1, E2, R1, R2, eb, x, y),
                    Circle(F1, F2, Q1, Q2, fb, x, y)
             PROVE  \/ ~From(E2, x, y) /\ From(F2, x, y)
                    \/ ~From(E2, y, x) /\ From(F2, y, x)
    BY DEF ClosedByBig
<1>1. CASE x = p /\ y = q
    BY <1>1 DEF Begins, Circle
<1>2. CASE y = p /\ x = q
    BY <1>2 DEF Begins, Circle
<1>3. CASE ~(x = p /\ y = q) /\ ~(y = p /\ x = q)
    BY <1>3 DEF Begins, Circle
<1> QED
    BY <1>1, <1>2, <1>3

\* A running process waits for nobody.
LEMMA RunningWaitsForNobody ==
    ASSUME NEW E1, NEW E2, NEW R1, NEW R2, NEW st, NEW ea, NEW eb,
           NEW p \in Procs, st[p] = "RUNNING",
           ListsSound(E1, E2, R1, R2, st, ea, eb)
    PROVE  /\ p \notin Sources(E1) /\ p \notin Sources(E2) /\ p \notin R1 /\ p \notin R2
           /\ \A y \in Procs : ~Waits(E1, E2, R1, R2, eb, p, y)
<1>1. p \notin Sources(E1) /\ p \notin Sources(E2) /\ p \notin R1 /\ p \notin R2
    BY DEF ListsSound, Placed
<1>2. \A y : ~From(E1, p, y) /\ ~From(E2, p, y)
    BY <1>1, Names DEF From, IsFrom, Sources
<1> QED
    BY <1>1, <1>2 DEF Waits

\* Process p goes to sleep: its result is open, and no cell but its own changes.
FallsAsleep(p, st, ea, eb, su, fa, fb) ==
    /\ st \in [Procs -> States] /\ st[p] = "RUNNING"
    /\ su = [st EXCEPT ![p] = "SLEEPING"]
    /\ \A x \in Procs : fa[x] = 0 <=> ea[x] = 0 \/ x = p
    /\ \A x \in Procs \ {p} : fb[x] = eb[x]

\* No entry of E is from s, which may be MSG_ANY, for d; d, if it is in R, does
\* not receive from s.
NoneSent(E, s, d) == \A e \in E : ~(e.dest = d /\ s \in {e.src, MSG_ANY})
NoneReceives(R, eb, s, d) == ~(d \in R /\ eb[d] \in {s, MSG_ANY})

\* A small message, the entry e, begins to wait.
LEMMA StartSmallSend ==
    ASSUME NEW E1, NEW E2, NEW R1, NEW R2, NEW st, NEW ea, NEW eb,
           NEW e, NEW su, NEW fa, NEW fb, NEW p \in Procs, NEW q,
           ListsSound(E1, E2, R1, R2, st, ea, eb),
           FallsAsleep(p, st, ea, eb, su, fa, fb),
           IsFrom(e, p, q), q # p,
           NoneReceives(R1, eb, p, q),
           ~Waits(E1, E2, R1, R2, eb, q, p)
    PROVE  /\ ListsSound(E1 \cup {e}, E2, R1, R2, su, fa, fb)
           /\ ClosedByBig(E1, E2, R1, R2, eb, E1 \cup {e}, E2, R1, R2, fb)
<1>0. /\ st \in [Procs -> States] /\ st[p] = "RUNNING"
      /\ su = [st EXCEPT ![p] = "SLEEPING"]
      /\ \A x \in Procs : fa[x] = 0 <=> ea[x] = 0 \/ x = p
      /\ \A x \in Procs \ {p} : fb[x] = eb[x]
    BY DEF FallsAsleep
<1> USE <1>0
<1>1. /\ p \notin R1 /\ p \notin R2
      /\ \A y \in Procs : ~Waits(E1, E2, R1, R2, eb, p, y)
    BY RunningWaitsForNobody
<1>2. R1 \subseteq Procs \ {p} /\ R2 \subseteq Procs \ {p}
    BY <1>1 DEF ListsSound, Placed
<1>3. Sources(E1 \cup {e}) = Sources(E1) \cup {p}
    BY Names DEF Sources, IsFrom
<1>4. Placed(Sources(E1 \cup {e}), Sources(E2), R1, R2, su, fa)
    <2> DEFINE a == Sources(E1)
               b == Sources(E2)
    <2>1. Placed(a, b, R1, R2, st, ea)
        BY DEF ListsSound
    <2> HIDE DEF a, b
    <2>2. Placed(a \cup {p}, b, R1, R2, su, fa)
        BY <2>1, PlaceOne
    <2> QED
        BY <1>3, <2>2 DEF a, b
<1>5. NoMiss(E1 \cup {e}, R1, fb)
    BY <1>2 DEF ListsSound, NoMiss, IsFrom, NoneSent, NoneReceives
<1>6. NoMiss(E2, R2, fb)
    BY <1>2 DEF ListsSound, NoMiss, IsFrom, NoneSent, NoneReceives
<1>7. \A x \in Procs, y \in Procs : Waits(E1 \cup {e}, E2, R1, R2, fb, x, y) =>
          Waits(E1, E2, R1, R2, eb, x, y) \/ (x = p /\ y = q)
    BY <1>2 DEF Waits, From, IsFrom
<1>8. ClosedByBig(E1, E2, R1, R2, eb, E1 \cup {e}, E2, R1, R2, fb)
    <2>1. Begins(E1, E2, R1, R2, eb, E1 \cup {e}, E2, R1, R2, fb, p, q)
        BY <1>1, <1>7 DEF Begins
    <2> QED
        BY <2>1, WaitForOne
<1> QED
    BY <1>4, <1>5, <1>6, <1>8 DEF ListsSound

\* A big message begins to wait.  Nothing was asked about q.
LEMMA StartBigSend ==
    ASSUME NEW E1, NEW E2, NEW R1, NEW R2, NEW st, NEW ea, NEW eb,
           NEW e, NEW su, NEW fa, NEW fb, NEW p \in Procs, NEW q,
           ListsSound(E1, E2, R1, R2, st, ea, eb),
           FallsAsleep(p, st, ea, eb, su, fa, fb),
           IsFrom(e, p, q),
           NoneReceives(R2, eb, p, q)
    PROVE  /\ ListsSound(E1, E2 \cup {e}, R1, R2, su, fa, fb)
           /\ ClosedByBig(E1, E2, R1, R2, eb, E1, E2 \cup {e}, R1, R2, fb)
<1>0. /\ st \in [Procs -> States] /\ st[p] = "RUNNING"
      /\ su = [st EXCEPT ![p] = "SLEEPING"]
      /\ \A x \in Procs : fa[x] = 0 <=> ea[x] = 0 \/ x = p
      /\ \A x \in Procs \ {p} : fb[x] = eb[x]
    BY DEF FallsAsleep
<1> USE <1>0
<1>1. /\ p \notin R1 /\ p \notin R2
      /\ \A y \in Procs : ~Waits(E1, E2, R1, R2, eb, p, y)
    BY RunningWaitsForNobody
<1>2. R1 \subseteq Procs \ {p} /\ R2 \subseteq Procs \ {p}
    BY <1>1 DEF ListsSound, Placed
<1>3. Sources(E2 \cup {e}) = Sources(E2) \cup {p}
    BY Names DEF Sources, IsFrom
<1>4. Placed(Sources(E1), Sources(E2 \cup {e}), R1, R2, su, fa)
    <2> DEFINE a == Sources(E1)
               b == Sources(E2)
    <2>1. Placed(a, b, R1, R2, st, ea)
        BY DEF ListsSound
    <2> HIDE DEF a, b
    <2>2. Placed(a, b \cup {p}, R1, R2, su, fa)
        BY <2>1, PlaceOne
    <2> QED
        BY <1>3, <2>2 DEF a, b
<1>5. NoMiss(E1, R1, fb)
    BY <1>2 DEF ListsSound, NoMiss, IsFrom, NoneSent, NoneReceives
<1>6. NoMiss(E2 \cup {e}, R2, fb)
    BY <1>2 DEF ListsSound, NoMiss, IsFrom, NoneSent, NoneReceives
<1>7. \A x \in Procs, y \in Procs : Waits(E1, E2 \cup {e}, R1, R2, fb, x, y) =>
          Waits(E1, E2, R1, R2, eb, x, y) \/ (x = p /\ y = q)
    BY <1>2 DEF Waits, From, IsFrom
<1>8. ~From(E2, p, q) /\ From(E2 \cup {e}, p, q)
    <2>1. p \notin Sources(E2)
        BY RunningWaitsForNobody
    <2> QED
        BY <2>1, Names DEF From, IsFrom, Sources
<1>9. ClosedByBig(E1, E2, R1, R2, eb, E1, E2 \cup {e}, R1, R2, fb)
    <2>1. Begins(E1, E2, R1, R2, eb, E1, E2 \cup {e}, R1, R2, fb, p, q)
        BY <1>1, <1>7, <1>8 DEF Begins
    <2> QED
        BY <2>1, WaitForOne
<1> QED
    BY <1>4, <1>5, <1>6, <1>9 DEF ListsSound

\* A receive of a small message begins to wait, for q or for anyone.
LEMMA StartSmallReceive ==
    ASSUME NEW E1, NEW E2, NEW R1, NEW R2, NEW st, NEW ea, NEW eb,
           NEW su, NEW fa, NEW fb, NEW p \in Procs, NEW q,
           ListsSound(E1, E2, R1, R2, st, ea, eb),
           FallsAsleep(p, st, ea, eb, su, fa, fb),
           fb[p] = q, q # p,
           NoneSent(E1, q, p),
           ~Waits(E1, E2, R1, R2, eb, q, p)
    PROVE  /\ ListsSound(E1, E2, R1 \cup {p}, R2, su, fa, fb)
           /\ ClosedByBig(E1, E2, R1, R2, eb, E1, E2, R1 \cup {p}, R2, fb)
<1>0. /\ st \in [Procs -> States] /\ st[p] = "RUNNING"
      /\ su = [st EXCEPT ![p] = "SLEEPING"]
      /\ \A x \in Procs : fa[x] = 0 <=> ea[x] = 0 \/ x = p
      /\ \A x \in Procs \ {p} : fb[x] = eb[x]
    BY DEF FallsAsleep
<1> USE <1>0
<1>1. /\ p \notin R1 /\ p \notin R2
      /\ \A y \in Procs : ~Waits(E1, E2, R1, R2, eb, p, y)
    BY RunningWaitsForNobody
<1>2. R1 \subseteq Procs \ {p} /\ R2 \subseteq Procs \ {p}
    BY <1>1 DEF ListsSound, Placed
<1>4. Placed(Sources(E1), Sources(E2), R1 \cup {p}, R2, su, fa)
    BY PlaceOne DEF ListsSound
<1>5. NoMiss(E1, R1 \cup {p}, fb)
    BY <1>2 DEF ListsSound, NoMiss, IsFrom, NoneSent, NoneReceives
<1>6. NoMiss(E2, R2, fb)
    BY <1>2 DEF ListsSound, NoMiss, IsFrom, NoneSent, NoneReceives
<1>7. \A x \in Procs, y \in Procs : Waits(E1, E2, R1 \cup {p}, R2, fb, x, y) =>
          Waits(E1, E2, R1, R2, eb, x, y) \/ (x = p /\ y = q)
    BY <1>2 DEF Waits, From, IsFrom
<1>8. ClosedByBig(E1, E2, R1, R2, eb, E1, E2, R1 \cup {p}, R2, fb)
    <2>1. Begins(E1, E2, R1, R2, eb, E1, E2, R1 \cup {p}, R2, fb, p, q)
        BY <1>1, <1>7 DEF Begins
    <2> QED
        BY <2>1, WaitForOne
<1> QED
    BY <1>4, <1>5, <1>6, <1>8 DEF ListsSound

\* A receive of a big message begins to wait.
LEMMA StartBigReceive ==
    ASSUME NEW E1, NEW E2, NEW R1, NEW R2, NEW st, NEW ea, NEW eb,
           NEW su, NEW fa, NEW fb, NEW p \in Procs, NEW q,
           ListsSound(E1, E2, R1, R2, st, ea, eb),
           FallsAsleep(p, st, ea, eb, su, fa, fb),
           fb[p] = q, q # p,
           NoneSent(E2, q, p),
           ~Waits(E1, E2, R1, R2, eb, q, p)
    PROVE  /\ ListsSound(E1, E2, R1, R2 \cup {p}, su, fa, fb)
           /\ ClosedByBig(E1, E2, R1, R2, eb, E1, E2, R1, R2 \cup {p}, fb)
<1>0. /\ st \in [Procs -> States] /\ st[p] = "RUNNING"
      /\ su = [st EXCEPT ![p] = "SLEEPING"]
      /\ \A x \in Procs : fa[x] = 0 <=> ea[x] = 0 \/ x = p
      /\ \A x \in Procs \ {p} : fb[x] = eb[x]
    BY DEF FallsAsleep
<1> USE <1>0
<1>1. /\ p \notin R1 /\ p \notin R2
      /\ \A y \in Procs : ~Waits(E1, E2, R1, R2, eb, p, y)
    BY RunningWaitsForNobody
<1>2. R1 \subseteq Procs \ {p} /\ R2 \subseteq Procs \ {p}
    BY <1>1 DEF ListsSound, Placed
<1>4. Placed(Sources(E1), Sources(E2), R1, R2 \cup {p}, su, fa)
    BY PlaceOne DEF ListsSound
<1>5. NoMiss(E1, R1, fb)
    BY <1>2 DEF ListsSound, NoMiss, IsFrom, NoneSent, NoneReceives
<1>6. NoMiss(E2, R2 \cup {p}, fb)
    BY <1>2 DEF ListsSound, NoMiss, IsFrom, NoneSent, NoneReceives
<1>7. \A x \in Procs, y \in Procs : Waits(E1, E2, R1, R2 \cup {p}, fb, x, y) =>
          Waits(E1, E2, R1, R2, eb, x, y) \/ (x = p /\ y = q)
    BY <1>2 DEF Waits, From, IsFrom
<1>8. ClosedByBig(E1, E2, R1, R2, eb, E1, E2, R1, R2 \cup {p}, fb)
    <2>1. Begins(E1, E2, R1, R2, eb, E1, E2, R1, R2 \cup {p}, fb, p, q)
        BY <1>1, <1>7 DEF Begins
    <2> QED
        BY <2>1, WaitForOne
<1> QED
    BY <1>4, <1>5, <1>6, <1>8 DEF ListsSound

\* A message of an interrupt handler begins to wait; no process does.
LEMMA StartHardware ==
    ASSUME NEW E1, NEW E2, NEW R1, NEW R2, NEW st, NEW ea, NEW eb, NEW e,
           ListsSound(E1, E2, R1, R2, st, ea, eb),
           e.src = MSG_HARDWARE,
           NoneReceives(R1, eb, MSG_HARDWARE, e.dest)
    PROVE  /\ ListsSound(E1 \cup {e}, E2, R1, R2, st, ea, eb)
           /\ ClosedByBig(E1, E2, R1, R2, eb, E1 \cup {e}, E2, R1, R2, eb)
<1>1. Sources(E1 \cup {e}) = Sources(E1)
    BY DEF Sources, IsFrom
<1>2. NoMiss(E1 \cup {e}, R1, eb)
    BY DEF ListsSound, NoMiss, NoneReceives
<1>3. \A x \in Procs, y \in Procs : Waits(E1 \cup {e}, E2, R1, R2, eb, x, y) =>
          Waits(E1, E2, R1, R2, eb, x, y)
    BY Names DEF Waits, From, IsFrom
<1>4. ClosedByBig(E1, E2, R1, R2, eb, E1 \cup {e}, E2, R1, R2, eb)
    BY <1>3 DEF ClosedByBig, Circle
<1> QED
    BY <1>1, <1>2, <1>4 DEF ListsSound

-----------------------------------------------------------------------------
(* The lists                                                                *)

\* No process has two entries in the send list ls.
SendOnce(ls) ==
    \A i, j \in DOMAIN ls : ls[i].src = ls[j].src /\ ls[i].src # MSG_HARDWARE => i = j

\* Taking one entry out leaves those of the other senders.
LEMMA SendTaken ==
    ASSUME NEW E, NEW ls \in Seq(E), SendOnce(ls), NEW i \in DOMAIN ls
    PROVE  LET r == RemoveAt(ls, i) IN
           /\ r \in Seq(E) /\ SendOnce(r)
           /\ ToSet(r) \subseteq ToSet(ls)
           /\ \A e \in ToSet(ls) : e.src # ls[i].src => e \in ToSet(r)
           /\ Sources(ToSet(r)) = Sources(ToSet(ls)) \ {ls[i].src}
<1> DEFINE r == RemoveAt(ls, i)
<1>1. /\ r \in Seq(E)
      /\ \A j \in DOMAIN r : \E k \in DOMAIN ls \ {i} : r[j] = ls[k]
      /\ \A k \in DOMAIN ls \ {i} : \E j \in DOMAIN r : r[j] = ls[k]
      /\ \A j, k \in DOMAIN r : j # k =>
            \E a, b \in DOMAIN ls \ {i} : a # b /\ r[j] = ls[a] /\ r[k] = ls[b]
    BY RemoveAtPlaces
<1> HIDE DEF r
<1>2. SendOnce(r)
    <2> SUFFICES ASSUME NEW j \in DOMAIN r, NEW k \in DOMAIN r, j # k
                 PROVE  ~(r[j].src = r[k].src /\ r[j].src # MSG_HARDWARE)
        BY DEF SendOnce
    <2>1. PICK a \in DOMAIN ls, b \in DOMAIN ls : a # b /\ r[j] = ls[a] /\ r[k] = ls[b]
        BY <1>1
    <2> QED
        BY <2>1 DEF SendOnce
<1>3. ToSet(r) \subseteq ToSet(ls)
    BY <1>1 DEF ToSet
<1>4. \A e \in ToSet(ls) : e.src # ls[i].src => e \in ToSet(r)
    <2> SUFFICES ASSUME NEW k \in DOMAIN ls, ls[k].src # ls[i].src
                 PROVE  ls[k] \in ToSet(r)
        BY DEF ToSet
    <2>1. PICK j \in DOMAIN r : r[j] = ls[k]
        BY <1>1
    <2> QED
        BY <2>1 DEF ToSet
<1>5. \A e \in ToSet(r) : e.src # MSG_HARDWARE => e.src # ls[i].src
    BY <1>1 DEF ToSet, SendOnce
<1>6. Sources(ToSet(r)) = Sources(ToSet(ls)) \ {ls[i].src}
    BY <1>3, <1>4, <1>5 DEF Sources
<1> QED
    BY <1>1, <1>2, <1>3, <1>4, <1>6 DEF r

\* A sender without an entry gets one.
LEMMA SendAdded ==
    ASSUME NEW E, NEW ls \in Seq(E), SendOnce(ls), NEW e \in E,
           e.src \notin Sources(ToSet(ls))
    PROVE  LET r == Append(ls, e) IN
           /\ r \in Seq(E) /\ SendOnce(r)
           /\ ToSet(r) = ToSet(ls) \cup {e}
<1> DEFINE r == Append(ls, e)
<1>1. /\ r \in Seq(E) /\ DOMAIN r = 1 .. Len(ls) + 1 /\ Len(ls) \in Nat
      /\ \A i \in 1 .. Len(ls) : r[i] = ls[i]
      /\ r[Len(ls) + 1] = e
    OBVIOUS
<1>2. ToSet(r) = ToSet(ls) \cup {e}
    BY AppendElements
<1> HIDE DEF r
<1>3. \A i \in 1 .. Len(ls) : ls[i].src # MSG_HARDWARE => ls[i].src # e.src
    BY DEF Sources, ToSet
<1>4. SendOnce(r)
    <2> SUFFICES ASSUME NEW i \in 1 .. Len(ls) + 1, NEW j \in 1 .. Len(ls) + 1,
                        r[i].src = r[j].src, r[i].src # MSG_HARDWARE
                 PROVE  i = j
        BY <1>1 DEF SendOnce
    <2>1. CASE i \in 1 .. Len(ls) /\ j \in 1 .. Len(ls)
        BY <1>1, <2>1 DEF SendOnce
    <2>2. CASE i = Len(ls) + 1 \/ j = Len(ls) + 1
        BY <1>1, <1>3, <2>2
    <2> QED
        BY <1>1, <2>1, <2>2
<1> QED
    BY <1>1, <1>2, <1>4 DEF r

\* The entries in use of msg_hardware and those in the list ls agree.
PoolExact(ls, used) ==
    /\ \A i \in DOMAIN ls : ls[i].src = MSG_HARDWARE <=> ls[i].slot \in used
    /\ \A k \in used : \E i \in DOMAIN ls : ls[i].slot = k
    /\ \A i, j \in DOMAIN ls : ls[i].slot = ls[j].slot /\ ls[i].slot # 0 => i = j

\* Taking an entry out and marking its place in the pool, if it has one, free.
LEMMA PoolTaken ==
    ASSUME NEW used \in SUBSET HwSlots, NEW ls \in Seq(SmallEntry \cup HwEntry),
           PoolExact(ls, used), NEW i \in DOMAIN ls
    PROVE  PoolExact(RemoveAt(ls, i), used \ {ls[i].slot})
<1> DEFINE r == RemoveAt(ls, i)
<1>1. /\ \A j \in DOMAIN r : \E k \in DOMAIN ls \ {i} : r[j] = ls[k]
      /\ \A k \in DOMAIN ls \ {i} : \E j \in DOMAIN r : r[j] = ls[k]
      /\ \A j, k \in DOMAIN r : j # k =>
            \E a, b \in DOMAIN ls \ {i} : a # b /\ r[j] = ls[a] /\ r[k] = ls[b]
    BY RemoveAtPlaces
<1> HIDE DEF r
<1>2. 0 \notin used
    BY DEF HwSlots
<1>3. \A k \in DOMAIN ls \ {i} : ls[k].src = MSG_HARDWARE => ls[k].slot # ls[i].slot
    BY <1>2 DEF PoolExact
<1>4. \A j \in DOMAIN r : r[j].src = MSG_HARDWARE <=> r[j].slot \in used \ {ls[i].slot}
    BY <1>1, <1>3 DEF PoolExact
<1>5. \A k \in used \ {ls[i].slot} : \E j \in DOMAIN r : r[j].slot = k
    <2> SUFFICES ASSUME NEW k \in used \ {ls[i].slot}
                 PROVE  \E j \in DOMAIN r : r[j].slot = k
        OBVIOUS
    <2>1. PICK a \in DOMAIN ls : ls[a].slot = k
        BY DEF PoolExact
    <2>2. a \in DOMAIN ls \ {i}
        BY <2>1
    <2> QED
        BY <1>1, <2>1, <2>2
<1>6. \A j, k \in DOMAIN r : r[j].slot = r[k].slot /\ r[j].slot # 0 => j = k
    <2> SUFFICES ASSUME NEW j \in DOMAIN r, NEW k \in DOMAIN r, j # k
                 PROVE  ~(r[j].slot = r[k].slot /\ r[j].slot # 0)
        OBVIOUS
    <2>1. PICK a \in DOMAIN ls, b \in DOMAIN ls : a # b /\ r[j] = ls[a] /\ r[k] = ls[b]
        BY <1>1
    <2> QED
        BY <2>1 DEF PoolExact
<1> QED
    BY <1>4, <1>5, <1>6 DEF r, PoolExact

\* Appending an entry of a process, and one of the pool that was free.
LEMMA PoolAdded ==
    ASSUME NEW used \in SUBSET HwSlots, NEW ls \in Seq(SmallEntry \cup HwEntry),
           PoolExact(ls, used), NEW e
    PROVE  /\ e \in SmallEntry => PoolExact(Append(ls, e), used)
           /\ e \in HwEntry /\ e.slot \notin used =>
                 PoolExact(Append(ls, e), used \cup {e.slot})
<1> DEFINE r == Append(ls, e)
           n == Len(ls) + 1
<1>1. /\ DOMAIN ls = 1 .. Len(ls) /\ Len(ls) \in Nat
      /\ DOMAIN r = 1 .. n
      /\ \A i \in 1 .. Len(ls) : r[i] = ls[i]
      /\ r[n] = e
    OBVIOUS
<1>2. DOMAIN r = DOMAIN ls \cup {n} /\ n \notin DOMAIN ls
    BY <1>1
<1>3. 0 \notin used /\ 0 \notin HwSlots
    BY DEF HwSlots
<1>4. \A i \in DOMAIN ls : ls[i] \in SmallEntry \cup HwEntry
    OBVIOUS
<1> HIDE DEF r, n
<1>5. ASSUME e \in SmallEntry PROVE PoolExact(r, used)
    <2>1. e.src # MSG_HARDWARE /\ e.slot = 0
        BY <1>5, MessagingAssumption DEF SmallEntry, Pids, MSG_HARDWARE
    <2>2. \A i \in DOMAIN r : r[i].src = MSG_HARDWARE <=> r[i].slot \in used
        BY <1>1, <1>2, <1>3, <2>1 DEF PoolExact
    <2>3. \A k \in used : \E i \in DOMAIN r : r[i].slot = k
        <3> SUFFICES ASSUME NEW k \in used
                     PROVE  \E i \in DOMAIN r : r[i].slot = k
            OBVIOUS
        <3>1. PICK a \in DOMAIN ls : ls[a].slot = k
            BY DEF PoolExact
        <3> QED
            BY <1>1, <1>2, <3>1
    <2>4. \A i, j \in DOMAIN r : r[i].slot = r[j].slot /\ r[i].slot # 0 => i = j
        <3>1. \A i \in DOMAIN r : r[i].slot # 0 => i \in DOMAIN ls /\ r[i].slot = ls[i].slot
            BY <1>1, <1>2, <2>1
        <3>2. \A i, j \in DOMAIN ls : ls[i].slot = ls[j].slot /\ ls[i].slot # 0 => i = j
            BY DEF PoolExact
        <3> QED
            BY <3>1, <3>2
    <2> QED
        BY <2>2, <2>3, <2>4 DEF PoolExact
<1>6. ASSUME e \in HwEntry, e.slot \notin used PROVE PoolExact(r, used \cup {e.slot})
    <2>1. e.src = MSG_HARDWARE /\ e.slot \in HwSlots
        BY <1>6 DEF HwEntry
    <2>2. \A i \in DOMAIN ls : ls[i].slot # e.slot
        BY <1>3, <1>4, <1>6, <2>1 DEF PoolExact, SmallEntry, HwEntry
    <2>3. \A i \in DOMAIN r : r[i].src = MSG_HARDWARE <=> r[i].slot \in used \cup {e.slot}
        BY <1>1, <1>2, <2>1, <2>2 DEF PoolExact
    <2>4. \A k \in used \cup {e.slot} : \E i \in DOMAIN r : r[i].slot = k
        <3> SUFFICES ASSUME NEW k \in used
                     PROVE  \E i \in DOMAIN r : r[i].slot = k
            BY <1>1, <1>2
        <3>1. PICK a \in DOMAIN ls : ls[a].slot = k
            BY DEF PoolExact
        <3> QED
            BY <1>1, <1>2, <3>1
    <2>5. \A i, j \in DOMAIN r : r[i].slot = r[j].slot /\ r[i].slot # 0 => i = j
        BY <1>1, <1>2, <2>2 DEF PoolExact
    <2> QED
        BY <2>3, <2>4, <2>5 DEF PoolExact
<1> QED
    BY <1>5, <1>6 DEF r

-----------------------------------------------------------------------------
(* The invariant                                                            *)

\* What the message calls keep: each process has at most one entry, the pool is
\* exact, and the four lists agree with each other and with the states.
CallsSound ==
    /\ MsgTypeOK
    /\ SendOnce(smallSend) /\ SendOnce(bigSend)
    /\ IsInjective(smallReceive) /\ IsInjective(bigReceive)
    /\ PoolExact(smallSend, hwUsed)
    /\ ListsSound(ToSet(smallSend), ToSet(bigSend), ToSet(smallReceive),
                  ToSet(bigReceive), state, eax, ebx)

MsgInv == SchedInv /\ CallsSound

\* What a step keeps, and how it may close a circle.
StepSound ==
    /\ CallsSound'
    /\ ClosedByBig(ToSet(smallSend), ToSet(bigSend), ToSet(smallReceive),
                   ToSet(bigReceive), ebx,
                   ToSet(smallSend'), ToSet(bigSend'), ToSet(smallReceive'),
                   ToSet(bigReceive'), ebx')

\* The scans of a send list, in terms of its entries.
LEMMA SendScans ==
    ASSUME NEW E, NEW ls \in Seq(E)
    PROVE  /\ Sending(ls) = Sources(ToSet(ls))
           /\ \A x, p : SendsTo(ls, x, p) <=> From(ToSet(ls), x, p)
           /\ \A x, p : Senders(ls, x, p) = {} <=>
                 \A e \in ToSet(ls) : ~(e.dest = p /\ x \in {e.src, MSG_ANY})
<1>1. Sending(ls) = Sources(ToSet(ls))
    BY DEF Sending, Sources, ToSet
<1>2. \A x, p : SendsTo(ls, x, p) <=> From(ToSet(ls), x, p)
    BY DEF SendsTo, From, IsFrom, ToSet
<1>3. \A x, p : Senders(ls, x, p) = {} <=>
          \A e \in ToSet(ls) : ~(e.dest = p /\ x \in {e.src, MSG_ANY})
    BY DEF Senders, ToSet
<1> QED
    BY <1>1, <1>2, <1>3

\* The scans of a receive list, in terms of the processes in it.
LEMMA ReceiveScans ==
    ASSUME NEW lr \in Seq(Procs)
    PROVE  /\ \A x, p : ReceivesFrom(lr, x, p) <=> x \in ToSet(lr) /\ ebx[x] = p
           /\ \A x, p : Receivers(lr, x, p) = {} <=>
                 ~(p \in ToSet(lr) /\ ebx[p] \in {x, MSG_ANY})
           /\ \A x, p : \A i \in Receivers(lr, x, p) : i \in DOMAIN lr /\ lr[i] = p
<1>1. \A x, p : ReceivesFrom(lr, x, p) <=> x \in ToSet(lr) /\ ebx[x] = p
    BY DEF ReceivesFrom, ToSet
<1>2. \A x, p : Receivers(lr, x, p) = {} <=>
          ~(p \in ToSet(lr) /\ ebx[p] \in {x, MSG_ANY})
    BY DEF Receivers, ToSet
<1>3. \A x, p : \A i \in Receivers(lr, x, p) : i \in DOMAIN lr /\ lr[i] = p
    BY DEF Receivers
<1> QED
    BY <1>1, <1>2, <1>3

\* WaitsFor is Waits of the lists.
LEMMA WaitsForIsWaits ==
    ASSUME MsgTypeOK
    PROVE  \A p, q : WaitsFor(p, q) <=>
               Waits(ToSet(smallSend), ToSet(bigSend), ToSet(smallReceive),
                     ToSet(bigReceive), ebx, p, q)
<1>1. /\ \A x, p : SendsTo(smallSend, x, p) <=> From(ToSet(smallSend), x, p)
      /\ \A x, p : SendsTo(bigSend, x, p) <=> From(ToSet(bigSend), x, p)
    BY SendScans DEF MsgTypeOK
<1>2. /\ \A x, p : ReceivesFrom(smallReceive, x, p) <=>
             x \in ToSet(smallReceive) /\ ebx[x] = p
      /\ \A x, p : ReceivesFrom(bigReceive, x, p) <=>
             x \in ToSet(bigReceive) /\ ebx[x] = p
    BY ReceiveScans DEF MsgTypeOK
<1> QED
    BY <1>1, <1>2 DEF WaitsFor, Waits

\* The same of the state after a step.
LEMMA WaitsNext ==
    ASSUME NEW p, NEW q, WaitsFor(p, q)'
    PROVE  Waits(ToSet(smallSend'), ToSet(bigSend'), ToSet(smallReceive'),
                 ToSet(bigReceive'), ebx', p, q)
    BY DEF WaitsFor, Waits, SendsTo, ReceivesFrom, From, IsFrom, ToSet

\* The invariant is what the model checker checks of small instances.
LEMMA MsgInvMeans ==
    ASSUME MsgInv
    PROVE  /\ MsgTypeOK /\ SleepersListed /\ ListedOnce /\ HardwarePool
           /\ NoMissedRendezvous
<1>1. /\ MsgTypeOK
      /\ smallSend \in Seq(SmallEntry \cup HwEntry) /\ bigSend \in Seq(BigEntry)
      /\ smallReceive \in Seq(Procs) /\ bigReceive \in Seq(Procs)
    BY DEF MsgInv, CallsSound, MsgTypeOK
<1>2. /\ Sending(smallSend) = Sources(ToSet(smallSend))
      /\ Sending(bigSend) = Sources(ToSet(bigSend))
    BY <1>1, SendScans
<1>3. /\ Placed(Sending(smallSend), Sending(bigSend), ToSet(smallReceive),
                ToSet(bigReceive), state, eax)
      /\ NoMiss(ToSet(smallSend), ToSet(smallReceive), ebx)
      /\ NoMiss(ToSet(bigSend), ToSet(bigReceive), ebx)
    BY <1>2 DEF MsgInv, CallsSound, ListsSound
<1>4. SleepersListed
    BY <1>3 DEF SleepersListed, Placed
<1>5. ListedOnce
    <2>1. \A i \in DOMAIN bigSend : bigSend[i].src # MSG_HARDWARE
        <3>1. MSG_HARDWARE \notin Pids
            BY MessagingAssumption DEF Pids, MSG_HARDWARE
        <3>2. \A i \in DOMAIN bigSend : bigSend[i] \in BigEntry
            BY <1>1
        <3>3. \A e \in BigEntry : e.src \in Pids
            BY DEF BigEntry
        <3> QED
            BY <3>1, <3>2, <3>3
    <2> QED
        BY <1>3, <2>1 DEF ListedOnce, Placed, MsgInv, CallsSound, SendOnce
<1>6. HardwarePool
    BY DEF HardwarePool, MsgInv, CallsSound, PoolExact
<1>7. NoMissedRendezvous
    <2>1. \A i \in DOMAIN smallSend : smallSend[i] \in ToSet(smallSend)
        BY DEF ToSet
    <2>2. \A i \in DOMAIN bigSend : bigSend[i] \in ToSet(bigSend)
        BY DEF ToSet
    <2>3. /\ \A x, p : Receivers(smallReceive, x, p) = {} <=>
                ~(p \in ToSet(smallReceive) /\ ebx[p] \in {x, MSG_ANY})
          /\ \A x, p : Receivers(bigReceive, x, p) = {} <=>
                ~(p \in ToSet(bigReceive) /\ ebx[p] \in {x, MSG_ANY})
        BY <1>1, ReceiveScans
    <2> QED
        BY <1>3, <2>1, <2>2, <2>3 DEF NoMissedRendezvous, NoMiss
<1> QED
    BY <1>1, <1>4, <1>5, <1>6, <1>7

LEMMA CallsInit == Init => CallsSound
<1> SUFFICES ASSUME Init PROVE CallsSound
    OBVIOUS
<1>1. /\ smallSend = <<>> /\ bigSend = <<>> /\ smallReceive = <<>> /\ bigReceive = <<>>
      /\ hwUsed = {}
      /\ state = [p \in Procs |-> "RUNNING"]
      /\ eax = [p \in Procs |-> 1] /\ ebx = [p \in Procs |-> MSG_ANY]
      /\ ecx = [p \in Procs |-> NoMsg] /\ page = [p \in Procs |-> NoMsg]
    BY DEF Init, ProcInit
<1>2. MsgTypeOK
    BY <1>1 DEF MsgTypeOK
<1>3. /\ ToSet(smallSend) = {} /\ ToSet(bigSend) = {}
      /\ ToSet(smallReceive) = {} /\ ToSet(bigReceive) = {}
    BY <1>1 DEF ToSet
<1>4. SendOnce(smallSend) /\ SendOnce(bigSend) /\ PoolExact(smallSend, hwUsed)
    BY <1>1 DEF SendOnce, PoolExact
<1>5. IsInjective(smallReceive) /\ IsInjective(bigReceive)
    BY <1>1 DEF IsInjective
<1>6. Placed(Sources({}), Sources({}), {}, {}, state, eax)
    BY <1>1 DEF Placed, Sources
<1>7. NoMiss({}, {}, ebx)
    BY DEF NoMiss
<1>8. ListsSound(ToSet(smallSend), ToSet(bigSend), ToSet(smallReceive),
                 ToSet(bigReceive), state, eax, ebx)
    BY <1>3, <1>6, <1>7 DEF ListsSound
<1> QED
    BY <1>2, <1>4, <1>5, <1>8 DEF CallsSound

-----------------------------------------------------------------------------
(* Calls that end a wait, or none                                           *)

LEMMA MsgFacts ==
    ASSUME MsgInv
    PROVE  /\ state \in [Procs -> States]
           /\ proc_current \in Procs /\ state[proc_current] = "RUNNING"
           /\ smallSend \in Seq(SmallEntry \cup HwEntry) /\ bigSend \in Seq(BigEntry)
           /\ smallReceive \in Seq(Procs) /\ bigReceive \in Seq(Procs)
           /\ hwUsed \in SUBSET HwSlots
           /\ eax \in [Procs -> {-1, 0, 1}]
           /\ ebx \in [Procs -> Pids \cup {MSG_ANY, MSG_HARDWARE}]
           /\ ecx \in [Procs -> Msgs \cup {NoMsg}]
           /\ page \in [Procs -> Msgs \cup {NoMsg}]
           /\ Procs \subseteq Pids
           /\ Placed(Sources(ToSet(smallSend)), Sources(ToSet(bigSend)),
                     ToSet(smallReceive), ToSet(bigReceive), state, eax)
<1>1. SchedInv /\ MsgTypeOK
    BY DEF MsgInv, CallsSound
<1>2. /\ state \in [Procs -> States]
      /\ proc_current \in Procs /\ state[proc_current] = "RUNNING"
    BY <1>1 DEF SchedInv, ProcTypeOK, QueueSound
<1>3. Procs \subseteq Pids
    BY MessagingAssumption DEF Pids
<1>4. Placed(Sources(ToSet(smallSend)), Sources(ToSet(bigSend)),
             ToSet(smallReceive), ToSet(bigReceive), state, eax)
    BY DEF MsgInv, CallsSound, ListsSound
<1> QED
    BY <1>1, <1>2, <1>3, <1>4 DEF MsgTypeOK

LEMMA ScheduleState == ASSUME NEW st, Schedule(st) PROVE state' = st
    BY DEF Schedule

\* The send list ls without what process r has in it, and without entries of
\* interrupt handlers perhaps; the receive list lr without process r.
SendLess(ls, rest, r) ==
    /\ SendOnce(rest)
    /\ ToSet(rest) \subseteq ToSet(ls)
    /\ \A e \in ToSet(ls) : e.src \in Procs \ {r} => e \in ToSet(rest)
    /\ Sources(ToSet(rest)) = Sources(ToSet(ls)) \ {r}
ReceiveLess(lr, rest, r) == IsInjective(rest) /\ ToSet(rest) = ToSet(lr) \ {r}

\* The four lists are now w, x, y and z, and r has left them.
Left(r, w, x, y, z) ==
    /\ SendLess(smallSend, w, r) /\ SendLess(bigSend, x, r)
    /\ ReceiveLess(smallReceive, y, r) /\ ReceiveLess(bigReceive, z, r)

LEMMA SendKept ==
    ASSUME NEW ls, SendOnce(ls), NEW r, r \notin Sources(ToSet(ls))
    PROVE  SendLess(ls, ls, r)
    BY DEF SendLess

LEMMA ReceiveKept ==
    ASSUME NEW lr, IsInjective(lr), NEW r, r \notin ToSet(lr)
    PROVE  ReceiveLess(lr, lr, r)
    BY DEF ReceiveLess

\* Whoever is in no list has left them all; the running process is in none.
LEMMA RunningLeft ==
    ASSUME MsgInv
    PROVE  Left(proc_current, smallSend, bigSend, smallReceive, bigReceive)
<1> DEFINE p == proc_current
<1>1. /\ p \notin Sources(ToSet(smallSend)) /\ p \notin Sources(ToSet(bigSend))
      /\ p \notin ToSet(smallReceive) /\ p \notin ToSet(bigReceive)
    BY MsgFacts DEF Placed
<1>2. /\ SendOnce(smallSend) /\ SendOnce(bigSend)
      /\ IsInjective(smallReceive) /\ IsInjective(bigReceive)
    BY DEF MsgInv, CallsSound
<1> HIDE DEF p
<1>3. /\ SendLess(smallSend, smallSend, p) /\ SendLess(bigSend, bigSend, p)
      /\ ReceiveLess(smallReceive, smallReceive, p)
      /\ ReceiveLess(bigReceive, bigReceive, p)
    BY <1>1, <1>2, SendKept, ReceiveKept
<1> QED
    BY <1>3 DEF Left, p

\* A process taken out of one list has left all four.
LEMMA TakenLeft ==
    ASSUME MsgInv
    PROVE  /\ \A i \in DOMAIN smallSend :
                 smallSend[i].src # MSG_HARDWARE =>
                     /\ smallSend[i].src \in Procs
                     /\ Left(smallSend[i].src, RemoveAt(smallSend, i), bigSend,
                             smallReceive, bigReceive)
           /\ \A i \in DOMAIN bigSend :
                 /\ bigSend[i].src \in Procs
                 /\ Left(bigSend[i].src, smallSend, RemoveAt(bigSend, i),
                         smallReceive, bigReceive)
           /\ \A i \in DOMAIN smallReceive :
                 Left(smallReceive[i], smallSend, bigSend,
                      RemoveAt(smallReceive, i), bigReceive)
           /\ \A i \in DOMAIN bigReceive :
                 Left(bigReceive[i], smallSend, bigSend, smallReceive,
                      RemoveAt(bigReceive, i))
           /\ \A i \in DOMAIN smallSend :
                 smallSend[i].src = MSG_HARDWARE =>
                     Left(proc_current, RemoveAt(smallSend, i), bigSend,
                          smallReceive, bigReceive)
<1> DEFINE a == Sources(ToSet(smallSend))
           b == Sources(ToSet(bigSend))
           c == ToSet(smallReceive)
           d == ToSet(bigReceive)
<1>1. /\ smallSend \in Seq(SmallEntry \cup HwEntry) /\ bigSend \in Seq(BigEntry)
      /\ smallReceive \in Seq(Procs) /\ bigReceive \in Seq(Procs)
      /\ Placed(a, b, c, d, state, eax)
    BY MsgFacts
<1>2. /\ SendOnce(smallSend) /\ SendOnce(bigSend)
      /\ IsInjective(smallReceive) /\ IsInjective(bigReceive)
    BY DEF MsgInv, CallsSound
<1>3. ASSUME NEW i \in DOMAIN smallSend, smallSend[i].src # MSG_HARDWARE
      PROVE  /\ smallSend[i].src \in Procs
             /\ Left(smallSend[i].src, RemoveAt(smallSend, i), bigSend,
                     smallReceive, bigReceive)
    <2> DEFINE r == smallSend[i].src
               w == RemoveAt(smallSend, i)
    <2>1. r \in a
        BY <1>3 DEF Sources, ToSet
    <2>2. r \in Procs /\ r \notin b /\ r \notin c /\ r \notin d
        BY <1>1, <2>1 DEF Placed
    <2>3. SendLess(smallSend, w, r)
        BY <1>1, <1>2, SendTaken DEF SendLess
    <2> HIDE DEF r, w
    <2>4. /\ SendLess(bigSend, bigSend, r) /\ ReceiveLess(smallReceive, smallReceive, r)
          /\ ReceiveLess(bigReceive, bigReceive, r)
        BY <1>2, <2>2, SendKept, ReceiveKept
    <2>5. Left(r, w, bigSend, smallReceive, bigReceive)
        BY <2>3, <2>4 DEF Left
    <2> QED
        BY <2>2, <2>5 DEF r, w
<1>4. ASSUME NEW i \in DOMAIN bigSend
      PROVE  /\ bigSend[i].src \in Procs
             /\ Left(bigSend[i].src, smallSend, RemoveAt(bigSend, i),
                     smallReceive, bigReceive)
    <2> DEFINE r == bigSend[i].src
               x == RemoveAt(bigSend, i)
    <2>1. r \in b
        <3>1. bigSend[i] \in BigEntry
            BY <1>1
        <3>2. r \in Pids /\ MSG_HARDWARE \notin Pids
            BY <3>1, MessagingAssumption DEF BigEntry, Pids, MSG_HARDWARE
        <3> QED
            BY <3>2 DEF Sources, ToSet
    <2>2. r \in Procs /\ r \notin a /\ r \notin c /\ r \notin d
        BY <1>1, <2>1 DEF Placed
    <2>3. SendLess(bigSend, x, r)
        BY <1>1, <1>2, SendTaken DEF SendLess
    <2> HIDE DEF r, x
    <2>4. /\ SendLess(smallSend, smallSend, r)
          /\ ReceiveLess(smallReceive, smallReceive, r)
          /\ ReceiveLess(bigReceive, bigReceive, r)
        BY <1>2, <2>2, SendKept, ReceiveKept
    <2>5. Left(r, smallSend, x, smallReceive, bigReceive)
        BY <2>3, <2>4 DEF Left
    <2> QED
        BY <2>2, <2>5 DEF r, x
<1>5. ASSUME NEW i \in DOMAIN smallReceive
      PROVE  Left(smallReceive[i], smallSend, bigSend, RemoveAt(smallReceive, i),
                  bigReceive)
    <2> DEFINE r == smallReceive[i]
               y == RemoveAt(smallReceive, i)
    <2>1. r \in c
        BY DEF ToSet
    <2>2. r \notin a /\ r \notin b /\ r \notin d
        BY <1>1, <2>1 DEF Placed
    <2>3. ReceiveLess(smallReceive, y, r)
        BY <1>1, <1>2, RemoveAtElements DEF ReceiveLess
    <2> HIDE DEF r, y
    <2>4. /\ SendLess(smallSend, smallSend, r) /\ SendLess(bigSend, bigSend, r)
          /\ ReceiveLess(bigReceive, bigReceive, r)
        BY <1>2, <2>2, SendKept, ReceiveKept
    <2>5. Left(r, smallSend, bigSend, y, bigReceive)
        BY <2>3, <2>4 DEF Left
    <2> QED
        BY <2>5 DEF r, y
<1>6. ASSUME NEW i \in DOMAIN bigReceive
      PROVE  Left(bigReceive[i], smallSend, bigSend, smallReceive,
                  RemoveAt(bigReceive, i))
    <2> DEFINE r == bigReceive[i]
               z == RemoveAt(bigReceive, i)
    <2>1. r \in d
        BY DEF ToSet
    <2>2. r \notin a /\ r \notin b /\ r \notin c
        BY <1>1, <2>1 DEF Placed
    <2>3. ReceiveLess(bigReceive, z, r)
        BY <1>1, <1>2, RemoveAtElements DEF ReceiveLess
    <2> HIDE DEF r, z
    <2>4. /\ SendLess(smallSend, smallSend, r) /\ SendLess(bigSend, bigSend, r)
          /\ ReceiveLess(smallReceive, smallReceive, r)
        BY <1>2, <2>2, SendKept, ReceiveKept
    <2>5. Left(r, smallSend, bigSend, smallReceive, z)
        BY <2>3, <2>4 DEF Left
    <2> QED
        BY <2>5 DEF r, z
<1>7. ASSUME NEW i \in DOMAIN smallSend, smallSend[i].src = MSG_HARDWARE
      PROVE  Left(proc_current, RemoveAt(smallSend, i), bigSend, smallReceive,
                  bigReceive)
    <2> DEFINE p == proc_current
               w == RemoveAt(smallSend, i)
    <2>1. /\ SendLess(smallSend, smallSend, p) /\ SendLess(bigSend, bigSend, p)
          /\ ReceiveLess(smallReceive, smallReceive, p)
          /\ ReceiveLess(bigReceive, bigReceive, p)
        BY RunningLeft DEF Left
    <2>2. /\ SendOnce(w) /\ ToSet(w) \subseteq ToSet(smallSend)
          /\ \A e \in ToSet(smallSend) : e.src # MSG_HARDWARE => e \in ToSet(w)
          /\ Sources(ToSet(w)) = Sources(ToSet(smallSend)) \ {MSG_HARDWARE}
        BY <1>1, <1>2, <1>7, SendTaken
    <2> HIDE DEF p, w
    <2>3. Sources(ToSet(w)) = Sources(ToSet(smallSend))
        BY <2>2 DEF Sources
    <2>4. SendLess(smallSend, w, p)
        BY <2>1, <2>2, <2>3, Names DEF SendLess
    <2>5. Left(p, w, bigSend, smallReceive, bigReceive)
        BY <2>1, <2>4 DEF Left
    <2> QED
        BY <2>5 DEF p, w
<1> QED
    BY <1>3, <1>4, <1>5, <1>6, <1>7

\* When r, which is the running process or has been taken out of its list, is
\* made able to run and gets a result, and only it and the running process see
\* their cells change, the lists remain sound.
LEMMA LeftSound ==
    ASSUME MsgInv, NEW r \in Procs,
           Left(r, smallSend', bigSend', smallReceive', bigReceive'),
           state' = Awake(r),
           \A p \in Procs : eax'[p] = 0 <=> eax[p] = 0 /\ p # r,
           \A p \in Procs \ {r, proc_current} : ebx'[p] = ebx[p]
    PROVE  /\ SendOnce(smallSend') /\ SendOnce(bigSend')
           /\ IsInjective(smallReceive') /\ IsInjective(bigReceive')
           /\ ListsSound(ToSet(smallSend'), ToSet(bigSend'), ToSet(smallReceive'),
                         ToSet(bigReceive'), state', eax', ebx')
           /\ ClosedByBig(ToSet(smallSend), ToSet(bigSend), ToSet(smallReceive),
                          ToSet(bigReceive), ebx,
                          ToSet(smallSend'), ToSet(bigSend'), ToSet(smallReceive'),
                          ToSet(bigReceive'), ebx')
<1> DEFINE E1 == ToSet(smallSend)
           E2 == ToSet(bigSend)
           R1 == ToSet(smallReceive)
           R2 == ToSet(bigReceive)
           F1 == ToSet(smallSend')
           F2 == ToSet(bigSend')
           Q1 == ToSet(smallReceive')
           Q2 == ToSet(bigReceive')
<1>1. ListsSound(E1, E2, R1, R2, state, eax, ebx)
    BY DEF MsgInv, CallsSound
<1>2. state \in [Procs -> States] /\ state' = [state EXCEPT ![r] = "RUNNING"]
    BY MsgFacts DEF Awake
<1>3. /\ F1 \subseteq E1 /\ F2 \subseteq E2
      /\ \A e \in E2 : e.src \in Procs \ {r} => e \in F2
      /\ Sources(F1) = Sources(E1) \ {r} /\ Sources(F2) = Sources(E2) \ {r}
      /\ Q1 = R1 \ {r} /\ Q2 = R2 \ {r}
    BY DEF Left, SendLess, ReceiveLess
<1>4. \A p \in Q1 \cup Q2 : ebx'[p] = ebx[p]
    <2>1. proc_current \notin R1 \cup R2 /\ R1 \cup R2 \subseteq Procs
        BY MsgFacts DEF Placed
    <2> QED
        BY <1>3, <2>1
<1> HIDE DEF E1, E2, R1, R2, F1, F2, Q1, Q2
<1>5. /\ ListsSound(F1, F2, Q1, Q2, state', eax', ebx')
      /\ ClosedByBig(E1, E2, R1, R2, ebx, F1, F2, Q1, Q2, ebx')
    <2>1. Ends(E1, E2, R1, R2, eax, ebx, F1, F2, Q1, Q2, eax', ebx', r)
        BY <1>3, <1>4 DEF Ends
    <2> QED
        BY <1>1, <1>2, <2>1, StopWaiting, ZenonT(30)
<1>6. /\ SendOnce(smallSend') /\ SendOnce(bigSend')
      /\ IsInjective(smallReceive') /\ IsInjective(bigReceive')
    BY DEF Left, SendLess, ReceiveLess
<1> QED
    BY <1>5, <1>6 DEF E1, E2, R1, R2, F1, F2, Q1, Q2

\* A message of a process is not one of an interrupt handler, and has no place
\* in the pool.
LEMMA SmallEntries ==
    /\ \A e \in SmallEntry \cup HwEntry :
          /\ e.src \in Pids \cup {MSG_HARDWARE} /\ e.msg \in Msgs
          /\ e.slot \in HwSlots \cup {0}
          /\ e.src # MSG_HARDWARE => e.slot = 0
    /\ 0 \notin HwSlots
<1>1. \A e \in SmallEntry : e.src \in Pids /\ e.msg \in Msgs /\ e.slot = 0
    BY DEF SmallEntry
<1>2. \A e \in HwEntry : e.src = MSG_HARDWARE /\ e.msg \in Msgs /\ e.slot \in HwSlots
    BY DEF HwEntry
<1>3. 0 \notin HwSlots
    BY DEF HwSlots
<1> QED
    BY <1>1, <1>2, <1>3

\* A call that fails changes nothing that others look at.
LEMMA FailsSound ==
    ASSUME MsgInv, NEW p \in Procs, Calls(p), Fails(p)
    PROVE  StepSound
<1>1. /\ p = proc_current /\ state' = state
      /\ eax' = [eax EXCEPT ![p] = -1]
      /\ ebx' = [ebx EXCEPT ![p] = MSG_ANY] /\ ecx' = [ecx EXCEPT ![p] = NoMsg]
      /\ smallSend' = smallSend /\ bigSend' = bigSend
      /\ smallReceive' = smallReceive /\ bigReceive' = bigReceive
      /\ hwUsed' = hwUsed /\ page' = page
    BY DEF Calls, Fails, NoSource, NoMessage, procVars, listVars
<1>2. MsgTypeOK'
    BY <1>1, MsgFacts DEF MsgTypeOK
<1>3. state' = Awake(p)
    BY <1>1, MsgFacts DEF Awake
<1>4. Left(p, smallSend', bigSend', smallReceive', bigReceive')
    BY <1>1, RunningLeft
<1>5. eax[p] # 0 /\ \A x \in Procs : eax'[x] = 0 <=> eax[x] = 0 /\ x # p
    BY <1>1, MsgFacts DEF Placed
<1>6. \A x \in Procs \ {p, proc_current} : ebx'[x] = ebx[x]
    BY <1>1, MsgFacts
<1>7. PoolExact(smallSend', hwUsed')
    BY <1>1 DEF MsgInv, CallsSound
<1> QED
    BY <1>2, <1>3, <1>4, <1>5, <1>6, <1>7, LeftSound DEF StepSound, CallsSound

LEMMA SmallSendMeetsSound ==
    ASSUME MsgInv, NEW p \in Procs, NEW d, NEW m \in Msgs, SmallSendMeets(p, d, m)
    PROVE  StepSound
<1>1. PICK i \in DOMAIN smallReceive : PutSmall(p, d, i)
    BY DEF SmallSendMeets
<1>2. smallReceive[i] = d /\ d \in Procs
    <2>1. smallReceive[i] = d
        BY <1>1, MsgFacts, ReceiveScans DEF PutSmall, IsFirst
    <2> QED
        BY <2>1, MsgFacts
<1>3. /\ p = proc_current /\ d # p /\ Schedule(Awake(d))
      /\ eax' = [eax EXCEPT ![p] = 1, ![d] = 1]
      /\ ebx' = [[ebx EXCEPT ![p] = MSG_ANY] EXCEPT ![d] = p]
      /\ ecx' = [[ecx EXCEPT ![p] = NoMsg] EXCEPT ![d] = m]
      /\ smallReceive' = RemoveAt(smallReceive, i)
      /\ smallSend' = smallSend /\ bigSend' = bigSend /\ bigReceive' = bigReceive
      /\ hwUsed' = hwUsed /\ page' = page
    BY <1>1 DEF SmallSendMeets, PutSmall, Meet, Calls, NoSource, NoMessage
<1>4. state' = Awake(d)
    BY <1>3, ScheduleState
<1>5. Left(d, smallSend', bigSend', smallReceive', bigReceive')
    BY <1>2, <1>3, TakenLeft
<1>6. MsgTypeOK'
    <2>1. smallReceive' \in Seq(Procs)
        BY <1>3, MsgFacts, RemoveAtPlaces
    <2> QED
        BY <1>3, <2>1, MsgFacts DEF MsgTypeOK
<1>7. \A x \in Procs : eax'[x] = 0 <=> eax[x] = 0 /\ x # d
    <2>1. eax[p] # 0
        BY <1>3, MsgFacts DEF Placed
    <2> QED
        BY <1>2, <1>3, <2>1, MsgFacts
<1>8. \A x \in Procs \ {d, proc_current} : ebx'[x] = ebx[x]
    BY <1>3, MsgFacts
<1>9. PoolExact(smallSend', hwUsed')
    BY <1>3 DEF MsgInv, CallsSound
<1> QED
    BY <1>2, <1>4, <1>5, <1>6, <1>7, <1>8, <1>9, LeftSound DEF StepSound, CallsSound

LEMMA HardwareSendMeetsSound ==
    ASSUME MsgInv, NEW d, NEW m \in Msgs, HardwareSendMeets(d, m)
    PROVE  StepSound
<1>1. PICK i \in DOMAIN smallReceive : PutSmall(MSG_HARDWARE, d, i)
    BY DEF HardwareSendMeets
<1>2. smallReceive[i] = d /\ d \in Procs
    <2>1. smallReceive[i] = d
        BY <1>1, MsgFacts, ReceiveScans DEF PutSmall, IsFirst
    <2> QED
        BY <2>1, MsgFacts
<1>3. /\ Schedule(Awake(d))
      /\ eax' = [eax EXCEPT ![d] = 1]
      /\ ebx' = [ebx EXCEPT ![d] = MSG_HARDWARE]
      /\ ecx' = [ecx EXCEPT ![d] = m]
      /\ smallReceive' = RemoveAt(smallReceive, i)
      /\ smallSend' = smallSend /\ bigSend' = bigSend /\ bigReceive' = bigReceive
      /\ hwUsed' = hwUsed /\ page' = page
    BY <1>1 DEF HardwareSendMeets, PutSmall
<1>4. state' = Awake(d)
    BY <1>3, ScheduleState
<1>5. Left(d, smallSend', bigSend', smallReceive', bigReceive')
    BY <1>2, <1>3, TakenLeft
<1>6. MsgTypeOK'
    <2>1. smallReceive' \in Seq(Procs)
        BY <1>3, MsgFacts, RemoveAtPlaces
    <2> QED
        BY <1>3, <2>1, MsgFacts DEF MsgTypeOK
<1>7. \A x \in Procs : eax'[x] = 0 <=> eax[x] = 0 /\ x # d
    BY <1>2, <1>3, MsgFacts
<1>8. \A x \in Procs \ {d, proc_current} : ebx'[x] = ebx[x]
    BY <1>3, MsgFacts
<1>9. PoolExact(smallSend', hwUsed')
    BY <1>3 DEF MsgInv, CallsSound
<1> QED
    BY <1>2, <1>4, <1>5, <1>6, <1>7, <1>8, <1>9, LeftSound DEF StepSound, CallsSound

LEMMA BigSendMeetsSound ==
    ASSUME MsgInv, NEW p \in Procs, NEW d, NEW m \in Msgs, BigSendMeets(p, d, m)
    PROVE  StepSound
<1>1. PICK i \in DOMAIN bigReceive : /\ IsFirst(i, Receivers(bigReceive, p, d))
                                     /\ bigReceive' = RemoveAt(bigReceive, i)
    BY DEF BigSendMeets
<1>2. bigReceive[i] = d /\ d \in Procs
    <2>1. bigReceive[i] = d
        BY <1>1, MsgFacts, ReceiveScans DEF IsFirst
    <2> QED
        BY <2>1, MsgFacts
<1>3. /\ p = proc_current /\ d # p /\ Schedule(Awake(d))
      /\ eax' = [eax EXCEPT ![p] = 1, ![d] = 1]
      /\ ebx' = [[ebx EXCEPT ![p] = MSG_ANY] EXCEPT ![d] = p]
      /\ ecx' = [ecx EXCEPT ![p] = NoMsg]
      /\ page' = [page EXCEPT ![p] = m, ![d] = m]
      /\ smallSend' = smallSend /\ bigSend' = bigSend /\ smallReceive' = smallReceive
      /\ hwUsed' = hwUsed
    BY DEF BigSendMeets, Meet, Calls, NoSource, NoMessage
<1>4. state' = Awake(d)
    BY <1>3, ScheduleState
<1>5. Left(d, smallSend', bigSend', smallReceive', bigReceive')
    BY <1>1, <1>2, <1>3, TakenLeft
<1>6. MsgTypeOK'
    <2>1. bigReceive' \in Seq(Procs)
        BY <1>1, MsgFacts, RemoveAtPlaces
    <2> QED
        BY <1>3, <2>1, MsgFacts DEF MsgTypeOK
<1>7. \A x \in Procs : eax'[x] = 0 <=> eax[x] = 0 /\ x # d
    <2>1. eax[p] # 0
        BY <1>3, MsgFacts DEF Placed
    <2> QED
        BY <1>2, <1>3, <2>1, MsgFacts
<1>8. \A x \in Procs \ {d, proc_current} : ebx'[x] = ebx[x]
    BY <1>3, MsgFacts
<1>9. PoolExact(smallSend', hwUsed')
    BY <1>3 DEF MsgInv, CallsSound
<1> QED
    BY <1>2, <1>4, <1>5, <1>6, <1>7, <1>8, <1>9, LeftSound DEF StepSound, CallsSound

LEMMA SmallReceiveMeetsSound ==
    ASSUME MsgInv, NEW p \in Procs, NEW x, SmallReceiveMeets(p, x)
    PROVE  StepSound
<1>1. PICK i \in DOMAIN smallSend : /\ TakeSmall(p, x, i)
                                    /\ smallSend[i].src # MSG_HARDWARE
                                    /\ Meet(p, smallSend[i].src)
    BY DEF SmallReceiveMeets
<1> DEFINE r == smallSend[i].src
<1>2. /\ p = proc_current /\ Schedule(Awake(r))
      /\ eax' = [eax EXCEPT ![p] = 1, ![r] = 1]
      /\ ebx' = [ebx EXCEPT ![p] = r]
      /\ ecx' = [ecx EXCEPT ![p] = smallSend[i].msg]
      /\ smallSend' = RemoveAt(smallSend, i)
      /\ smallReceive' = smallReceive /\ bigSend' = bigSend /\ bigReceive' = bigReceive
      /\ hwUsed' = hwUsed /\ page' = page
    BY <1>1 DEF SmallReceiveMeets, TakeSmall, Meet, Calls
<1>3. r \in Procs /\ Left(r, smallSend', bigSend', smallReceive', bigReceive')
    BY <1>1, <1>2, TakenLeft
<1>4. smallSend[i] \in SmallEntry \cup HwEntry
    BY MsgFacts
<1>5. smallSend[i].msg \in Msgs /\ smallSend[i].slot = 0
    BY <1>1, <1>4, SmallEntries
<1>6. state' = Awake(r)
    BY <1>2, ScheduleState
<1> HIDE DEF r
<1>7. MsgTypeOK'
    <2>1. smallSend' \in Seq(SmallEntry \cup HwEntry)
        BY <1>2, MsgFacts, RemoveAtPlaces
    <2> QED
        BY <1>2, <1>3, <1>5, <2>1, MsgFacts DEF MsgTypeOK
<1>8. \A y \in Procs : eax'[y] = 0 <=> eax[y] = 0 /\ y # r
    <2>1. eax[p] # 0
        BY <1>2, MsgFacts DEF Placed
    <2> QED
        BY <1>2, <1>3, <2>1, MsgFacts
<1>9. \A y \in Procs \ {r, proc_current} : ebx'[y] = ebx[y]
    BY <1>2, MsgFacts
<1>10. PoolExact(smallSend', hwUsed')
    <2>1. PoolExact(smallSend, hwUsed)
        BY DEF MsgInv, CallsSound
    <2>2. PoolExact(smallSend', hwUsed \ {smallSend[i].slot})
        BY <1>2, <2>1, MsgFacts, PoolTaken
    <2>3. hwUsed \ {smallSend[i].slot} = hwUsed
        BY <1>5, MsgFacts, SmallEntries
    <2> QED
        BY <1>2, <2>2, <2>3
<1> QED
    BY <1>3, <1>6, <1>7, <1>8, <1>9, <1>10, LeftSound DEF StepSound, CallsSound

LEMMA SmallReceiveDrainsSound ==
    ASSUME MsgInv, NEW p \in Procs, NEW x, SmallReceiveDrains(p, x)
    PROVE  StepSound
<1>1. PICK i \in DOMAIN smallSend : /\ TakeSmall(p, x, i)
                                    /\ smallSend[i].src = MSG_HARDWARE
                                    /\ hwUsed' = hwUsed \ {smallSend[i].slot}
    BY DEF SmallReceiveDrains
<1>2. /\ p = proc_current /\ Schedule(state)
      /\ eax' = [eax EXCEPT ![p] = 1]
      /\ ebx' = [ebx EXCEPT ![p] = MSG_HARDWARE]
      /\ ecx' = [ecx EXCEPT ![p] = smallSend[i].msg]
      /\ smallSend' = RemoveAt(smallSend, i)
      /\ smallReceive' = smallReceive /\ bigSend' = bigSend /\ bigReceive' = bigReceive
      /\ page' = page
    BY <1>1 DEF SmallReceiveDrains, TakeSmall, Calls
<1>3. Left(p, smallSend', bigSend', smallReceive', bigReceive')
    BY <1>1, <1>2, TakenLeft
<1>4. smallSend[i] \in SmallEntry \cup HwEntry
    BY MsgFacts
<1>5. smallSend[i].msg \in Msgs
    BY <1>4, SmallEntries
<1>6. state' = Awake(p)
    <2>1. state' = state
        BY <1>2, ScheduleState
    <2> QED
        BY <1>2, <2>1, MsgFacts DEF Awake
<1>7. MsgTypeOK'
    <2>1. smallSend' \in Seq(SmallEntry \cup HwEntry)
        BY <1>2, MsgFacts, RemoveAtPlaces
    <2>2. hwUsed' \subseteq HwSlots
        BY <1>1, MsgFacts
    <2> QED
        BY <1>2, <1>5, <2>1, <2>2, MsgFacts DEF MsgTypeOK
<1>8. \A y \in Procs : eax'[y] = 0 <=> eax[y] = 0 /\ y # p
    <2>1. eax[p] # 0
        BY <1>2, MsgFacts DEF Placed
    <2> QED
        BY <1>2, <2>1, MsgFacts
<1>9. \A y \in Procs \ {p, proc_current} : ebx'[y] = ebx[y]
    BY <1>2, MsgFacts
<1>10. PoolExact(smallSend', hwUsed')
    <2>1. PoolExact(smallSend, hwUsed)
        BY DEF MsgInv, CallsSound
    <2> QED
        BY <1>1, <1>2, <2>1, MsgFacts, PoolTaken
<1> QED
    BY <1>3, <1>6, <1>7, <1>8, <1>9, <1>10, LeftSound DEF StepSound, CallsSound

LEMMA BigReceiveMeetsSound ==
    ASSUME MsgInv, NEW p \in Procs, NEW x, BigReceiveMeets(p, x)
    PROVE  StepSound
<1>1. PICK i \in DOMAIN bigSend :
          /\ page' = [page EXCEPT ![p] = page[bigSend[i].src]]
          /\ ebx' = [ebx EXCEPT ![p] = bigSend[i].src]
          /\ bigSend' = RemoveAt(bigSend, i)
          /\ Meet(p, bigSend[i].src)
    BY DEF BigReceiveMeets
<1> DEFINE r == bigSend[i].src
<1>2. /\ p = proc_current /\ Schedule(Awake(r))
      /\ eax' = [eax EXCEPT ![p] = 1, ![r] = 1]
      /\ ebx' = [ebx EXCEPT ![p] = r]
      /\ ecx' = [ecx EXCEPT ![p] = NoMsg]
      /\ page' = [page EXCEPT ![p] = page[r]]
      /\ bigSend' = RemoveAt(bigSend, i)
      /\ smallReceive' = smallReceive /\ smallSend' = smallSend
      /\ bigReceive' = bigReceive /\ hwUsed' = hwUsed
    BY <1>1 DEF BigReceiveMeets, Meet, Calls, NoMessage
<1>3. r \in Procs /\ Left(r, smallSend', bigSend', smallReceive', bigReceive')
    BY <1>2, TakenLeft
<1>6. state' = Awake(r)
    BY <1>2, ScheduleState
<1> HIDE DEF r
<1>7. MsgTypeOK'
    <2>1. bigSend' \in Seq(BigEntry)
        BY <1>2, MsgFacts, RemoveAtPlaces
    <2> QED
        BY <1>2, <1>3, <2>1, MsgFacts DEF MsgTypeOK
<1>8. \A y \in Procs : eax'[y] = 0 <=> eax[y] = 0 /\ y # r
    <2>1. eax[p] # 0
        BY <1>2, MsgFacts DEF Placed
    <2> QED
        BY <1>2, <1>3, <2>1, MsgFacts
<1>9. \A y \in Procs \ {r, proc_current} : ebx'[y] = ebx[y]
    BY <1>2, MsgFacts
<1>10. PoolExact(smallSend', hwUsed')
    BY <1>2 DEF MsgInv, CallsSound
<1> QED
    BY <1>3, <1>6, <1>7, <1>8, <1>9, <1>10, LeftSound DEF StepSound, CallsSound

-----------------------------------------------------------------------------
(* Calls that wait                                                          *)

\* What the four of them have in common.
LEMMA WaitFacts ==
    ASSUME MsgInv, NEW p \in Procs, Calls(p), Sleeps(p),
           \E v \in Pids \cup {MSG_ANY, MSG_HARDWARE} : ebx' = [ebx EXCEPT ![p] = v]
    PROVE  /\ p = proc_current
           /\ eax' \in [Procs -> {-1, 0, 1}]
           /\ FallsAsleep(p, state, eax, ebx, state', eax', ebx')
           /\ ebx' \in [Procs -> Pids \cup {MSG_ANY, MSG_HARDWARE}]
           /\ p \notin Sources(ToSet(smallSend)) /\ p \notin Sources(ToSet(bigSend))
           /\ p \notin ToSet(smallReceive) /\ p \notin ToSet(bigReceive)
<1>1. p = proc_current /\ Schedule(Asleep(p)) /\ eax' = [eax EXCEPT ![p] = 0]
    BY DEF Calls, Sleeps
<1>2. state' = [state EXCEPT ![p] = "SLEEPING"]
    BY <1>1, ScheduleState DEF Asleep
<1>3. /\ eax' \in [Procs -> {-1, 0, 1}]
      /\ \A x \in Procs : eax'[x] = 0 <=> eax[x] = 0 \/ x = p
    BY <1>1, MsgFacts
<1>4. /\ ebx' \in [Procs -> Pids \cup {MSG_ANY, MSG_HARDWARE}]
      /\ \A x \in Procs \ {p} : ebx'[x] = ebx[x]
    BY MsgFacts
<1>5. /\ p \notin Sources(ToSet(smallSend)) /\ p \notin Sources(ToSet(bigSend))
      /\ p \notin ToSet(smallReceive) /\ p \notin ToSet(bigReceive)
    BY <1>1, MsgFacts DEF Placed
<1>6. FallsAsleep(p, state, eax, ebx, state', eax', ebx')
    BY <1>1, <1>2, <1>3, <1>4, MsgFacts DEF FallsAsleep
<1> QED
    BY <1>1, <1>3, <1>4, <1>5, <1>6

\* p waits for q in the lists as they are.
WaitsNow(p, q) ==
    Waits(ToSet(smallSend), ToSet(bigSend), ToSet(smallReceive), ToSet(bigReceive),
          ebx, p, q)

\* The refusals and the empty scans before a wait, as facts of the lists.
LEMMA ScanFacts ==
    ASSUME MsgInv
    PROVE  \A s, d :
           /\ Receivers(smallReceive, s, d) = {} =>
                 /\ NoneReceives(ToSet(smallReceive), ebx, s, d)
                 /\ ~SmallSendRefused(s, d) => ~WaitsNow(d, s)
           /\ Receivers(bigReceive, s, d) = {} =>
                 NoneReceives(ToSet(bigReceive), ebx, s, d)
           /\ Senders(smallSend, s, d) = {} =>
                 /\ NoneSent(ToSet(smallSend), s, d)
                 /\ ~SmallReceiveRefused(d, s) => ~WaitsNow(s, d)
           /\ Senders(bigSend, s, d) = {} =>
                 /\ NoneSent(ToSet(bigSend), s, d)
                 /\ ~BigReceiveRefused(d, s) => ~WaitsNow(s, d)
<1> TAKE s, d
<1>1. /\ \A x, p : SendsTo(smallSend, x, p) <=> From(ToSet(smallSend), x, p)
      /\ \A x, p : SendsTo(bigSend, x, p) <=> From(ToSet(bigSend), x, p)
      /\ \A x, p : Senders(smallSend, x, p) = {} <=>
             NoneSent(ToSet(smallSend), x, p)
      /\ \A x, p : Senders(bigSend, x, p) = {} <=>
             NoneSent(ToSet(bigSend), x, p)
    BY MsgFacts, SendScans DEF NoneSent
<1>2. /\ \A x, p : ReceivesFrom(smallReceive, x, p) <=>
             x \in ToSet(smallReceive) /\ ebx[x] = p
      /\ \A x, p : ReceivesFrom(bigReceive, x, p) <=>
             x \in ToSet(bigReceive) /\ ebx[x] = p
      /\ \A x, p : Receivers(smallReceive, x, p) = {} <=>
             NoneReceives(ToSet(smallReceive), ebx, x, p)
      /\ \A x, p : Receivers(bigReceive, x, p) = {} <=>
             NoneReceives(ToSet(bigReceive), ebx, x, p)
    BY MsgFacts, ReceiveScans DEF NoneReceives
<1>3. Senders(smallSend, s, d) = {} => ~From(ToSet(smallSend), s, d)
    BY <1>1 DEF From, IsFrom, NoneSent
<1>4. Senders(bigSend, s, d) = {} => ~From(ToSet(bigSend), s, d)
    BY <1>1 DEF From, IsFrom, NoneSent
<1>5. Receivers(smallReceive, s, d) = {} /\ ~SmallSendRefused(s, d) =>
          ~WaitsNow(d, s)
    BY <1>1, <1>2 DEF SmallSendRefused, NoneReceives, WaitsNow, Waits
<1>6. Senders(smallSend, s, d) = {} /\ ~SmallReceiveRefused(d, s) =>
          ~WaitsNow(s, d)
    BY <1>1, <1>2, <1>3 DEF SmallReceiveRefused, WaitsNow, Waits
<1>7. Senders(bigSend, s, d) = {} /\ ~BigReceiveRefused(d, s) =>
          ~WaitsNow(s, d)
    BY <1>1, <1>2, <1>4 DEF BigReceiveRefused, WaitsNow, Waits
<1> QED
    BY <1>1, <1>2, <1>5, <1>6, <1>7

\* The small message of p waits.
LEMMA SmallSendWaitsSound ==
    ASSUME MsgInv, NEW p \in Procs, NEW d, NEW m \in Msgs, SmallSendWaits(p, d, m)
    PROVE  StepSound
<1> DEFINE e == [src |-> p, dest |-> d, msg |-> m, slot |-> 0]
           E1 == ToSet(smallSend)
           E2 == ToSet(bigSend)
           R1 == ToSet(smallReceive)
           R2 == ToSet(bigReceive)
<1>1. /\ Calls(p) /\ Sleeps(p) /\ d \in Pids /\ d # p
      /\ Receivers(smallReceive, p, d) = {} /\ ~SmallSendRefused(p, d)
      /\ smallSend' = Append(smallSend, e)
      /\ ebx' = [ebx EXCEPT ![p] = MSG_ANY] /\ ecx' = [ecx EXCEPT ![p] = NoMsg]
      /\ smallReceive' = smallReceive /\ bigSend' = bigSend /\ bigReceive' = bigReceive
      /\ hwUsed' = hwUsed /\ page' = page
    BY DEF SmallSendWaits, NoSource, NoMessage
<1>2. e \in SmallEntry /\ e \in SmallEntry \cup HwEntry /\ IsFrom(e, p, d)
    BY <1>1, MsgFacts DEF SmallEntry, IsFrom
<1>3. e.src = p
    OBVIOUS
<1> HIDE DEF e
<1>4. /\ p = proc_current
      /\ eax' \in [Procs -> {-1, 0, 1}]
      /\ FallsAsleep(p, state, eax, ebx, state', eax', ebx')
      /\ ebx' \in [Procs -> Pids \cup {MSG_ANY, MSG_HARDWARE}]
      /\ p \notin Sources(E1)
    BY <1>1, WaitFacts
<1>5. SendOnce(smallSend) /\ PoolExact(smallSend, hwUsed)
    BY DEF MsgInv, CallsSound
<1>6. /\ smallSend' \in Seq(SmallEntry \cup HwEntry) /\ SendOnce(smallSend')
      /\ ToSet(smallSend') = E1 \cup {e}
    BY <1>1, <1>2, <1>3, <1>4, <1>5, MsgFacts, SendAdded
<1>7. MsgTypeOK'
    BY <1>1, <1>4, <1>6, MsgFacts DEF MsgTypeOK
<1>8. PoolExact(smallSend', hwUsed')
    BY <1>1, <1>2, <1>5, MsgFacts, PoolAdded
<1>9. /\ NoneReceives(R1, ebx, p, d)
      /\ ~Waits(E1, E2, R1, R2, ebx, d, p)
    BY <1>1, ScanFacts DEF WaitsNow
<1>10. ListsSound(E1, E2, R1, R2, state, eax, ebx)
    BY DEF MsgInv, CallsSound
<1> HIDE DEF E1, E2, R1, R2
<1>11. /\ ListsSound(E1 \cup {e}, E2, R1, R2, state', eax', ebx')
       /\ ClosedByBig(E1, E2, R1, R2, ebx, E1 \cup {e}, E2, R1, R2, ebx')
    BY <1>1, <1>2, <1>4, <1>9, <1>10, StartSmallSend
<1> QED
    BY <1>1, <1>6, <1>7, <1>8, <1>11 DEF StepSound, CallsSound, MsgInv, E1, E2, R1, R2

LEMMA HardwareSendQueuesSound ==
    ASSUME MsgInv, NEW d, NEW m \in Msgs, HardwareSendQueues(d, m)
    PROVE  StepSound
<1>1. PICK k \in HwSlots :
          /\ IsFirst(k, HwSlots \ hwUsed)
          /\ hwUsed' = hwUsed \cup {k}
          /\ smallSend' = Append(smallSend,
                 [src |-> MSG_HARDWARE, dest |-> d, msg |-> m, slot |-> k])
    BY DEF HardwareSendQueues
<1> DEFINE e == [src |-> MSG_HARDWARE, dest |-> d, msg |-> m, slot |-> k]
           E1 == ToSet(smallSend)
           E2 == ToSet(bigSend)
           R1 == ToSet(smallReceive)
           R2 == ToSet(bigReceive)
<1>2. /\ d \in Pids /\ Schedule(state)
      /\ Receivers(smallReceive, MSG_HARDWARE, d) = {}
      /\ smallReceive' = smallReceive /\ bigSend' = bigSend /\ bigReceive' = bigReceive
      /\ eax' = eax /\ ebx' = ebx /\ ecx' = ecx /\ page' = page
    BY DEF HardwareSendQueues, cellVars
<1>3. state' = state
    BY <1>2, ScheduleState
<1>4. /\ e \in HwEntry /\ e \in SmallEntry \cup HwEntry
      /\ e.src = MSG_HARDWARE /\ e.dest = d /\ e.slot = k /\ k \notin hwUsed
    BY <1>1, <1>2 DEF HwEntry, IsFirst
<1>5. smallSend' = Append(smallSend, e)
    BY <1>1
<1> HIDE DEF e
<1>6. SendOnce(smallSend) /\ PoolExact(smallSend, hwUsed)
    BY DEF MsgInv, CallsSound
<1>7. /\ smallSend' \in Seq(SmallEntry \cup HwEntry) /\ SendOnce(smallSend')
      /\ ToSet(smallSend') = E1 \cup {e}
    <2>1. MSG_HARDWARE \notin Sources(E1)
        BY DEF Sources
    <2> QED
        BY <1>4, <1>5, <1>6, <2>1, MsgFacts, SendAdded
<1>8. MsgTypeOK'
    <2>1. hwUsed' \subseteq HwSlots
        BY <1>1, MsgFacts
    <2> QED
        BY <1>2, <1>7, <2>1, MsgFacts DEF MsgTypeOK
<1>9. PoolExact(smallSend', hwUsed')
    BY <1>1, <1>4, <1>5, <1>6, MsgFacts, PoolAdded, ZenonT(30)
<1>10. NoneReceives(R1, ebx, MSG_HARDWARE, d)
    BY <1>2, ScanFacts
<1>11. ListsSound(E1, E2, R1, R2, state, eax, ebx)
    BY DEF MsgInv, CallsSound
<1> HIDE DEF E1, E2, R1, R2
<1>12. /\ ListsSound(E1 \cup {e}, E2, R1, R2, state, eax, ebx)
       /\ ClosedByBig(E1, E2, R1, R2, ebx, E1 \cup {e}, E2, R1, R2, ebx)
    BY <1>4, <1>10, <1>11, StartHardware
<1> QED
    BY <1>2, <1>3, <1>7, <1>8, <1>9, <1>12 DEF StepSound, CallsSound, MsgInv, E1, E2, R1, R2

LEMMA BigSendWaitsSound ==
    ASSUME MsgInv, NEW p \in Procs, NEW d, NEW m \in Msgs, BigSendWaits(p, d, m)
    PROVE  StepSound
<1> DEFINE e == [src |-> p, dest |-> d]
           E1 == ToSet(smallSend)
           E2 == ToSet(bigSend)
           R1 == ToSet(smallReceive)
           R2 == ToSet(bigReceive)
<1>1. /\ Calls(p) /\ Sleeps(p) /\ d \in Pids /\ d # p
      /\ Receivers(bigReceive, p, d) = {}
      /\ bigSend' = Append(bigSend, e)
      /\ page' = [page EXCEPT ![p] = m]
      /\ ebx' = [ebx EXCEPT ![p] = MSG_ANY] /\ ecx' = [ecx EXCEPT ![p] = NoMsg]
      /\ smallReceive' = smallReceive /\ smallSend' = smallSend
      /\ bigReceive' = bigReceive /\ hwUsed' = hwUsed
    BY DEF BigSendWaits, NoSource, NoMessage
<1>2. e \in BigEntry /\ IsFrom(e, p, d)
    BY <1>1, MsgFacts DEF BigEntry, IsFrom
<1>3. e.src = p
    OBVIOUS
<1> HIDE DEF e
<1>4. /\ p = proc_current
      /\ eax' \in [Procs -> {-1, 0, 1}]
      /\ FallsAsleep(p, state, eax, ebx, state', eax', ebx')
      /\ ebx' \in [Procs -> Pids \cup {MSG_ANY, MSG_HARDWARE}]
      /\ p \notin Sources(E2)
    BY <1>1, WaitFacts
<1>5. SendOnce(bigSend)
    BY DEF MsgInv, CallsSound
<1>6. /\ bigSend' \in Seq(BigEntry) /\ SendOnce(bigSend')
      /\ ToSet(bigSend') = E2 \cup {e}
    BY <1>1, <1>2, <1>3, <1>4, <1>5, MsgFacts, SendAdded
<1>7. MsgTypeOK'
    BY <1>1, <1>4, <1>6, MsgFacts DEF MsgTypeOK
<1>8. PoolExact(smallSend', hwUsed')
    BY <1>1 DEF MsgInv, CallsSound
<1>9. NoneReceives(R2, ebx, p, d)
    BY <1>1, ScanFacts
<1>10. ListsSound(E1, E2, R1, R2, state, eax, ebx)
    BY DEF MsgInv, CallsSound
<1> HIDE DEF E1, E2, R1, R2
<1>11. /\ ListsSound(E1, E2 \cup {e}, R1, R2, state', eax', ebx')
       /\ ClosedByBig(E1, E2, R1, R2, ebx, E1, E2 \cup {e}, R1, R2, ebx')
    BY <1>2, <1>4, <1>9, <1>10, StartBigSend
<1> QED
    BY <1>1, <1>6, <1>7, <1>8, <1>11 DEF StepSound, CallsSound, MsgInv, E1, E2, R1, R2

LEMMA SmallReceiveWaitsSound ==
    ASSUME MsgInv, NEW p \in Procs, NEW x, SmallReceiveWaits(p, x)
    PROVE  StepSound
<1> DEFINE E1 == ToSet(smallSend)
           E2 == ToSet(bigSend)
           R1 == ToSet(smallReceive)
           R2 == ToSet(bigReceive)
<1>1. /\ Calls(p) /\ Sleeps(p) /\ x # p /\ x \in Pids \cup {MSG_ANY, MSG_HARDWARE}
      /\ Senders(smallSend, x, p) = {} /\ ~SmallReceiveRefused(p, x)
      /\ smallReceive' = Append(smallReceive, p)
      /\ ebx' = [ebx EXCEPT ![p] = x] /\ ecx' = [ecx EXCEPT ![p] = NoMsg]
      /\ smallSend' = smallSend /\ bigSend' = bigSend /\ bigReceive' = bigReceive
      /\ hwUsed' = hwUsed /\ page' = page
    BY DEF SmallReceiveWaits, SmallSources, NoMessage
<1>2. /\ p = proc_current
      /\ eax' \in [Procs -> {-1, 0, 1}]
      /\ FallsAsleep(p, state, eax, ebx, state', eax', ebx')
      /\ ebx' \in [Procs -> Pids \cup {MSG_ANY, MSG_HARDWARE}]
      /\ p \notin R1
    BY <1>1, WaitFacts
<1>3. ebx'[p] = x
    BY <1>1, MsgFacts
<1>4. IsInjective(smallReceive)
    BY DEF MsgInv, CallsSound
<1>5. /\ smallReceive' \in Seq(Procs) /\ IsInjective(smallReceive')
      /\ ToSet(smallReceive') = R1 \cup {p}
    BY <1>1, <1>2, <1>4, MsgFacts, AppendElements
<1>6. MsgTypeOK'
    BY <1>1, <1>2, <1>5, MsgFacts DEF MsgTypeOK
<1>7. PoolExact(smallSend', hwUsed')
    BY <1>1 DEF MsgInv, CallsSound
<1>8. /\ NoneSent(E1, x, p)
      /\ ~Waits(E1, E2, R1, R2, ebx, x, p)
    BY <1>1, ScanFacts DEF WaitsNow
<1>9. ListsSound(E1, E2, R1, R2, state, eax, ebx)
    BY DEF MsgInv, CallsSound
<1> HIDE DEF E1, E2, R1, R2
<1>10. /\ ListsSound(E1, E2, R1 \cup {p}, R2, state', eax', ebx')
       /\ ClosedByBig(E1, E2, R1, R2, ebx, E1, E2, R1 \cup {p}, R2, ebx')
    BY <1>1, <1>2, <1>3, <1>8, <1>9, StartSmallReceive
<1> QED
    BY <1>1, <1>5, <1>6, <1>7, <1>10 DEF StepSound, CallsSound, MsgInv, E1, E2, R1, R2

LEMMA BigReceiveWaitsSound ==
    ASSUME MsgInv, NEW p \in Procs, NEW x, BigReceiveWaits(p, x)
    PROVE  StepSound
<1> DEFINE E1 == ToSet(smallSend)
           E2 == ToSet(bigSend)
           R1 == ToSet(smallReceive)
           R2 == ToSet(bigReceive)
<1>1. /\ Calls(p) /\ Sleeps(p) /\ x # p /\ x \in Pids \cup {MSG_ANY, MSG_HARDWARE}
      /\ Senders(bigSend, x, p) = {} /\ ~BigReceiveRefused(p, x)
      /\ bigReceive' = Append(bigReceive, p)
      /\ ebx' = [ebx EXCEPT ![p] = x] /\ ecx' = [ecx EXCEPT ![p] = NoMsg]
      /\ smallSend' = smallSend /\ bigSend' = bigSend /\ smallReceive' = smallReceive
      /\ hwUsed' = hwUsed /\ page' = page
    BY DEF BigReceiveWaits, BigSources, NoMessage
<1>2. /\ p = proc_current
      /\ eax' \in [Procs -> {-1, 0, 1}]
      /\ FallsAsleep(p, state, eax, ebx, state', eax', ebx')
      /\ ebx' \in [Procs -> Pids \cup {MSG_ANY, MSG_HARDWARE}]
      /\ p \notin R2
    BY <1>1, WaitFacts
<1>3. ebx'[p] = x
    BY <1>1, MsgFacts
<1>4. IsInjective(bigReceive)
    BY DEF MsgInv, CallsSound
<1>5. /\ bigReceive' \in Seq(Procs) /\ IsInjective(bigReceive')
      /\ ToSet(bigReceive') = R2 \cup {p}
    BY <1>1, <1>2, <1>4, MsgFacts, AppendElements
<1>6. MsgTypeOK'
    BY <1>1, <1>2, <1>5, MsgFacts DEF MsgTypeOK
<1>7. PoolExact(smallSend', hwUsed')
    BY <1>1 DEF MsgInv, CallsSound
<1>8. /\ NoneSent(E2, x, p)
      /\ ~Waits(E1, E2, R1, R2, ebx, x, p)
    BY <1>1, ScanFacts DEF WaitsNow
<1>9. ListsSound(E1, E2, R1, R2, state, eax, ebx)
    BY DEF MsgInv, CallsSound
<1> HIDE DEF E1, E2, R1, R2
<1>10. /\ ListsSound(E1, E2, R1, R2 \cup {p}, state', eax', ebx')
       /\ ClosedByBig(E1, E2, R1, R2, ebx, E1, E2, R1, R2 \cup {p}, ebx')
    BY <1>1, <1>2, <1>3, <1>8, <1>9, StartBigReceive
<1> QED
    BY <1>1, <1>5, <1>6, <1>7, <1>10 DEF StepSound, CallsSound, MsgInv, E1, E2, R1, R2

-----------------------------------------------------------------------------
(* The invariant holds                                                      *)

LEMMA CallSound ==
    ASSUME MsgInv, NEW p \in Procs, Call(p)
    PROVE  StepSound
<1>1. PICK x \in Operands : \/ SmallReceive(p, x)
                            \/ BigReceive(p, x)
                            \/ \E m \in Msgs : SmallSend(p, x, m) \/ BigSend(p, x, m)
    BY DEF Call
<1>2. CASE SmallReceive(p, x)
    <2>1. CASE SmallReceiveFails(p, x)
        BY <2>1, FailsSound DEF SmallReceiveFails
    <2> QED
        BY <1>2, <2>1, SmallReceiveMeetsSound, SmallReceiveDrainsSound,
           SmallReceiveWaitsSound DEF SmallReceive
<1>3. CASE BigReceive(p, x)
    <2>1. CASE BigReceiveFails(p, x)
        BY <2>1, FailsSound DEF BigReceiveFails
    <2> QED
        BY <1>3, <2>1, BigReceiveMeetsSound, BigReceiveWaitsSound DEF BigReceive
<1>4. ASSUME NEW m \in Msgs, SmallSend(p, x, m)
      PROVE  StepSound
    <2>1. CASE SmallSendFails(p, x)
        BY <2>1, FailsSound DEF SmallSendFails
    <2> QED
        BY <1>4, <2>1, SmallSendMeetsSound, SmallSendWaitsSound DEF SmallSend
<1>5. ASSUME NEW m \in Msgs, BigSend(p, x, m)
      PROVE  StepSound
    <2>1. CASE BigSendFails(p, x)
        BY <2>1, FailsSound DEF BigSendFails
    <2> QED
        BY <1>5, <2>1, BigSendMeetsSound, BigSendWaitsSound DEF BigSend
<1> QED
    BY <1>1, <1>2, <1>3, <1>4, <1>5

\* A tick, whoever it lets run, and a step of nothing.
LEMMA NoCallSound ==
    ASSUME MsgInv, state' = state, UNCHANGED msgVars
    PROVE  StepSound
<1>1. MsgTypeOK'
    BY MsgFacts DEF MsgTypeOK, msgVars, listVars, cellVars
<1> QED
    BY <1>1 DEF StepSound, ClosedByBig, MsgInv, CallsSound, msgVars, listVars, cellVars

LEMMA ClockKeepsState == Clock => state' = state /\ UNCHANGED msgVars
<1>1. Tick => state' = state
    BY ScheduleState DEF Tick
<1>2. KernelTick => state' = state
    BY DEF KernelTick
<1> QED
    BY <1>1, <1>2 DEF Clock

LEMMA EachStepSound == MsgInv /\ [Next]_vars => StepSound
<1> SUFFICES ASSUME MsgInv, [Next]_vars PROVE StepSound
    OBVIOUS
<1>1. ASSUME NEW p \in Procs, Call(p) PROVE StepSound
    BY <1>1, CallSound
<1>2. ASSUME NEW d \in Pids, NEW m \in Msgs, HardwareSend(d, m) PROVE StepSound
    BY <1>2, HardwareSendMeetsSound, HardwareSendQueuesSound DEF HardwareSend
<1>3. ASSUME Clock PROVE StepSound
    BY <1>3, ClockKeepsState, NoCallSound
<1>4. ASSUME UNCHANGED vars PROVE StepSound
    <2>1. state' = state /\ UNCHANGED msgVars
        BY <1>4 DEF vars, procVars
    <2> QED
        BY <2>1, NoCallSound
<1> QED
    BY <1>1, <1>2, <1>3, <1>4 DEF Next

LEMMA MsgNext == MsgInv /\ [Next]_vars => MsgInv'
    BY MessagingSchedNext, EachStepSound DEF MsgInv, StepSound

THEOREM MessagingInvariant == Spec => []MsgInv
<1>1. Init => MsgInv
    BY MessagingInit, CallsInit DEF MsgInv
<1> QED
    BY <1>1, MsgNext, PTL DEF Spec

\* The lists hold entries of processes and handlers, the cells results, sources
\* and messages, whatever is sent (messaging.c).
THEOREM MessagingTypes == Spec => []MsgTypeOK
<1>1. MsgInv => MsgTypeOK
    BY MsgInvMeans
<1> QED
    BY <1>1, MessagingInvariant, PTL

\* Whoever sleeps in a call can be found in a list, and a list entry never
\* outlives the call whose stack holds it.
THEOREM SleepersAreListed == Spec => []SleepersListed
<1>1. MsgInv => SleepersListed
    BY MsgInvMeans
<1> QED
    BY <1>1, MessagingInvariant, PTL

\* A process waits in one list, at one place.
THEOREM EachListedOnce == Spec => []ListedOnce
<1>1. MsgInv => ListedOnce
    BY MsgInvMeans
<1> QED
    BY <1>1, MessagingInvariant, PTL

\* No place of msg_hardware leaks, and none is used twice.
THEOREM PoolIsExact == Spec => []HardwarePool
<1>1. MsgInv => HardwarePool
    BY MsgInvMeans
<1> QED
    BY <1>1, MessagingInvariant, PTL

\* A message and a receive that accepts it never both wait.
THEOREM NoRendezvousMissed == Spec => []NoMissedRendezvous
<1>1. MsgInv => NoMissedRendezvous
    BY MsgInvMeans
<1> QED
    BY <1>1, MessagingInvariant, PTL

\* The refusals keep every call but a big_send from closing a circle of two;
\* those of big_send refuse nothing (messaging.c:264, 272, 280).
THEOREM OnlyBigSendDeadlocksPairs == Spec => MutualWaitOnlyByBigSend
<1>1. ASSUME MsgInv, [Next]_vars, NEW p \in Procs, NEW q \in Procs,
             ~Deadlocked(p, q), Deadlocked(p, q)'
      PROVE  \E x, y \in {p, q} : ~SendsTo(bigSend, x, y) /\ SendsTo(bigSend, x, y)'
    <2>1. MsgTypeOK /\ MsgTypeOK'
        BY <1>1, MsgNext DEF MsgInv, CallsSound
    <2>2. \A x, y : /\ SendsTo(bigSend, x, y) <=> From(ToSet(bigSend), x, y)
                   /\ SendsTo(bigSend, x, y)' <=> From(ToSet(bigSend'), x, y)
        BY DEF SendsTo, From, IsFrom, ToSet
    <2>3. ~Circle(ToSet(smallSend), ToSet(bigSend), ToSet(smallReceive),
                  ToSet(bigReceive), ebx, p, q)
        BY <1>1, <2>1, WaitsForIsWaits DEF Deadlocked, Circle
    <2>4. Circle(ToSet(smallSend'), ToSet(bigSend'), ToSet(smallReceive'),
                 ToSet(bigReceive'), ebx', p, q)
        BY <1>1, <2>1, WaitsNext DEF Deadlocked, Circle
    <2>5. ClosedByBig(ToSet(smallSend), ToSet(bigSend), ToSet(smallReceive),
                      ToSet(bigReceive), ebx,
                      ToSet(smallSend'), ToSet(bigSend'), ToSet(smallReceive'),
                      ToSet(bigReceive'), ebx')
        BY <1>1, EachStepSound DEF StepSound
    <2> QED
        BY <2>2, <2>3, <2>4, <2>5 DEF ClosedByBig
<1>2. MsgInv /\ [Next]_vars =>
          [\A p, q \in Procs : p < q /\ ~Deadlocked(p, q) /\ Deadlocked(p, q)' =>
              \E x, y \in {p, q} : ~SendsTo(bigSend, x, y) /\ SendsTo(bigSend, x, y)'
          ]_vars
    BY <1>1
<1> QED
    BY <1>2, MessagingInvariant, PTL DEF Spec, MutualWaitOnlyByBigSend

-----------------------------------------------------------------------------
(* What the callers see: the calls that wait, as records *)

SmallPost(e) ==
    [op |-> "send", size |-> "small", by |-> e.src, peer |-> e.dest, msg |-> e.msg,
     ticket |-> e.slot]
BigPost(e, pg) ==
    [op |-> "send", size |-> "big", by |-> e.src, peer |-> e.dest, msg |-> pg[e.src],
     ticket |-> 0]
ReceivePost(size, p, eb) ==
    [op |-> "receive", size |-> size, by |-> p, peer |-> eb[p], msg |-> NoMsg,
     ticket |-> 0]

SmallPosts(E) == {SmallPost(e) : e \in E}
BigPosts(E, pg) == {BigPost(e, pg) : e \in E}
ReceivePosts(size, R, eb) == {ReceivePost(size, p, eb) : p \in R}

\* The posts of lists with these entries.
PostsOf(E1, E2, R1, R2, eb, pg) ==
    SmallPosts(E1) \cup BigPosts(E2, pg)
    \cup ReceivePosts("small", R1, eb) \cup ReceivePosts("big", R2, eb)

LEMMA PostedIsPosts ==
    /\ Posted = PostsOf(ToSet(smallSend), ToSet(bigSend), ToSet(smallReceive),
                        ToSet(bigReceive), ebx, page)
    /\ Posted' = PostsOf(ToSet(smallSend'), ToSet(bigSend'), ToSet(smallReceive'),
                         ToSet(bigReceive'), ebx', page')
    BY DEF Posted, PostsOf, SmallPosts, BigPosts, ReceivePosts, SmallPost, BigPost,
           ReceivePost, ToSet

\* A post says in which of the lists it is, and whose it is.
LEMMA PostKinds ==
    /\ \A E : \A r \in SmallPosts(E) : r.op = "send" /\ r.size = "small"
    /\ \A E, pg : \A r \in BigPosts(E, pg) :
          r.op = "send" /\ r.size = "big" /\ r.ticket = 0
    /\ \A size, R, eb : \A r \in ReceivePosts(size, R, eb) :
          r.op = "receive" /\ r.size = size /\ r.by \in R /\ r.ticket = 0
    BY DEF SmallPosts, BigPosts, ReceivePosts, SmallPost, BigPost, ReceivePost

\* Posts change only with the cells of those that wait.
LEMMA SamePosts ==
    /\ \A E, pg, fg : (\A e \in E : fg[e.src] = pg[e.src]) =>
          BigPosts(E, fg) = BigPosts(E, pg)
    /\ \A size, R, eb, fb : (\A p \in R : fb[p] = eb[p]) =>
          ReceivePosts(size, R, fb) = ReceivePosts(size, R, eb)
<1>1. ASSUME NEW E, NEW pg, NEW fg, \A e \in E : fg[e.src] = pg[e.src]
      PROVE  BigPosts(E, fg) = BigPosts(E, pg)
    <2>1. \A e \in E : BigPost(e, fg) = BigPost(e, pg)
        BY <1>1 DEF BigPost
    <2> QED
        BY <2>1 DEF BigPosts
<1>2. ASSUME NEW size, NEW R, NEW eb, NEW fb, \A p \in R : fb[p] = eb[p]
      PROVE  ReceivePosts(size, R, fb) = ReceivePosts(size, R, eb)
    <2>1. \A p \in R : ReceivePost(size, p, fb) = ReceivePost(size, p, eb)
        BY <1>2 DEF ReceivePost
    <2> QED
        BY <2>1 DEF ReceivePosts
<1> QED
    BY <1>1, <1>2

\* One entry more is one post more.
LEMMA PostAdded ==
    /\ \A E, e : SmallPosts(E \cup {e}) = SmallPosts(E) \cup {SmallPost(e)}
    /\ \A E, e, pg : BigPosts(E \cup {e}, pg) = BigPosts(E, pg) \cup {BigPost(e, pg)}
    /\ \A size, R, p, eb : ReceivePosts(size, R \cup {p}, eb)
                             = ReceivePosts(size, R, eb) \cup {ReceivePost(size, p, eb)}
    BY DEF SmallPosts, BigPosts, ReceivePosts

\* One entry less is one post less: no other entry has the same post.
LEMMA PostTaken ==
    ASSUME NEW E1 \in SUBSET (SmallEntry \cup HwEntry), NEW E2 \in SUBSET BigEntry,
           NEW R1, NEW R2, NEW eb, NEW pg
    PROVE  /\ \A e \in E1 : PostsOf(E1 \ {e}, E2, R1, R2, eb, pg)
                = PostsOf(E1, E2, R1, R2, eb, pg) \ {SmallPost(e)}
           /\ \A e \in E2 : PostsOf(E1, E2 \ {e}, R1, R2, eb, pg)
                = PostsOf(E1, E2, R1, R2, eb, pg) \ {BigPost(e, pg)}
           /\ \A p \in R1 : PostsOf(E1, E2, R1 \ {p}, R2, eb, pg)
                = PostsOf(E1, E2, R1, R2, eb, pg) \ {ReceivePost("small", p, eb)}
           /\ \A p \in R2 : PostsOf(E1, E2, R1, R2 \ {p}, eb, pg)
                = PostsOf(E1, E2, R1, R2, eb, pg) \ {ReceivePost("big", p, eb)}
<1>1. \A e \in E1 : SmallPosts(E1 \ {e}) = SmallPosts(E1) \ {SmallPost(e)}
    <2>1. \A e, f \in SmallEntry \cup HwEntry :
              e.src = f.src /\ e.dest = f.dest /\ e.msg = f.msg /\ e.slot = f.slot => e = f
        BY DEF SmallEntry, HwEntry
    <2>2. \A e, f \in E1 : SmallPost(e) = SmallPost(f) => e = f
        BY <2>1 DEF SmallPost
    <2> QED
        BY <2>2 DEF SmallPosts
<1>2. \A e \in E2 : BigPosts(E2 \ {e}, pg) = BigPosts(E2, pg) \ {BigPost(e, pg)}
    <2>1. \A e, f \in BigEntry : e.src = f.src /\ e.dest = f.dest => e = f
        BY DEF BigEntry
    <2>2. \A e, f \in E2 : BigPost(e, pg) = BigPost(f, pg) => e = f
        BY <2>1 DEF BigPost
    <2> QED
        BY <2>2 DEF BigPosts
<1>3. \A size, R : \A p \in R :
          ReceivePosts(size, R \ {p}, eb) = ReceivePosts(size, R, eb) \ {ReceivePost(size, p, eb)}
    <2>1. \A size, p, q : ReceivePost(size, p, eb) = ReceivePost(size, q, eb) => p = q
        BY DEF ReceivePost
    <2> QED
        BY <2>1 DEF ReceivePosts
<1>4. /\ \A e : SmallPost(e).op = "send" /\ SmallPost(e).size = "small"
      /\ \A e : BigPost(e, pg).op = "send" /\ BigPost(e, pg).size = "big"
      /\ \A size, p : /\ ReceivePost(size, p, eb).op = "receive"
                      /\ ReceivePost(size, p, eb).size = size
    BY DEF SmallPost, BigPost, ReceivePost
<1> DEFINE A == SmallPosts(E1)
           B == BigPosts(E2, pg)
           C == ReceivePosts("small", R1, eb)
           D == ReceivePosts("big", R2, eb)
<1>5. /\ \A r \in A : r.op = "send" /\ r.size = "small"
      /\ \A r \in B : r.op = "send" /\ r.size = "big"
      /\ \A r \in C : r.op = "receive" /\ r.size = "small"
      /\ \A r \in D : r.op = "receive" /\ r.size = "big"
    BY PostKinds
<1>6. /\ \A e : SmallPost(e) \notin B \cup C \cup D
      /\ \A e : BigPost(e, pg) \notin A \cup C \cup D
      /\ \A p : ReceivePost("small", p, eb) \notin A \cup B \cup D
      /\ \A p : ReceivePost("big", p, eb) \notin A \cup B \cup C
    BY <1>4, <1>5
<1>7. /\ \A e \in E1 : SmallPosts(E1 \ {e}) = A \ {SmallPost(e)}
      /\ \A e \in E2 : BigPosts(E2 \ {e}, pg) = B \ {BigPost(e, pg)}
      /\ \A p \in R1 : ReceivePosts("small", R1 \ {p}, eb) = C \ {ReceivePost("small", p, eb)}
      /\ \A p \in R2 : ReceivePosts("big", R2 \ {p}, eb) = D \ {ReceivePost("big", p, eb)}
    BY <1>1, <1>2, <1>3
<1> HIDE DEF A, B, C, D
<1>8. \A r, X : /\ r \notin B \cup C \cup D /\ X = A \ {r} =>
                     X \cup B \cup C \cup D = (A \cup B \cup C \cup D) \ {r}
                /\ r \notin A \cup C \cup D /\ X = B \ {r} =>
                     A \cup X \cup C \cup D = (A \cup B \cup C \cup D) \ {r}
                /\ r \notin A \cup B \cup D /\ X = C \ {r} =>
                     A \cup B \cup X \cup D = (A \cup B \cup C \cup D) \ {r}
                /\ r \notin A \cup B \cup C /\ X = D \ {r} =>
                     A \cup B \cup C \cup X = (A \cup B \cup C \cup D) \ {r}
    OBVIOUS
<1> QED
    BY <1>6, <1>7, <1>8 DEF PostsOf, A, B, C, D

-----------------------------------------------------------------------------
(* The scans, in terms of the posts *)

\* A send list holds no entry twice.
LEMMA EntriesOnce ==
    ASSUME MsgInv
    PROVE  IsInjective(smallSend) /\ IsInjective(bigSend)
<1>1. SendOnce(smallSend) /\ SendOnce(bigSend) /\ PoolExact(smallSend, hwUsed)
    BY DEF MsgInv, CallsSound
<1>2. 0 \notin hwUsed
    BY MsgFacts, SmallEntries
<1>3. \A i, j \in DOMAIN smallSend : smallSend[i] = smallSend[j] => i = j
    <2> SUFFICES ASSUME NEW i \in DOMAIN smallSend, NEW j \in DOMAIN smallSend,
                        smallSend[i] = smallSend[j]
                 PROVE  i = j
        OBVIOUS
    <2>1. CASE smallSend[i].src # MSG_HARDWARE
        BY <1>1, <2>1 DEF SendOnce
    <2>2. CASE smallSend[i].src = MSG_HARDWARE
        <3>1. smallSend[i].slot # 0
            BY <1>1, <1>2, <2>2 DEF PoolExact
        <3> QED
            BY <1>1, <3>1 DEF PoolExact
    <2> QED
        BY <2>1, <2>2
<1>4. \A i \in DOMAIN bigSend : bigSend[i].src # MSG_HARDWARE
    <2>1. \A e \in BigEntry : e.src \in Pids
        BY DEF BigEntry
    <2> QED
        BY <2>1, Names, MsgFacts DEF Pids
<1>5. \A i, j \in DOMAIN bigSend : bigSend[i] = bigSend[j] => i = j
    BY <1>1, <1>4 DEF SendOnce
<1> QED
    BY <1>3, <1>5 DEF IsInjective

\* Whom a scan finds has a post that is accepted or offered, and when it finds
\* nobody there is none.
LEMMA ScansArePosts ==
    ASSUME MsgInv
    PROVE  \A s, d :
       /\ Receivers(smallReceive, s, d) = {} => Promise!Accepting("small", s, d) = {}
       /\ Receivers(bigReceive, s, d) = {} => Promise!Accepting("big", s, d) = {}
       /\ Senders(smallSend, s, d) = {} => Promise!Offered("small", s, d) = {}
       /\ Senders(bigSend, s, d) = {} => Promise!Offered("big", s, d) = {}
       /\ \A i \in Receivers(smallReceive, s, d) :
             ReceivePost("small", d, ebx) \in Promise!Accepting("small", s, d)
       /\ \A i \in Receivers(bigReceive, s, d) :
             ReceivePost("big", d, ebx) \in Promise!Accepting("big", s, d)
       /\ \A i \in Senders(smallSend, s, d) :
             SmallPost(smallSend[i]) \in Promise!Offered("small", s, d)
       /\ \A i \in Senders(bigSend, s, d) :
             BigPost(bigSend[i], page) \in Promise!Offered("big", s, d)
<1> TAKE s, d
<1> DEFINE E1 == ToSet(smallSend)
           E2 == ToSet(bigSend)
           R1 == ToSet(smallReceive)
           R2 == ToSet(bigReceive)
<1>1. Posted = PostsOf(E1, E2, R1, R2, ebx, page)
    BY PostedIsPosts
<1>2. /\ \A r : r \in Promise!Accepting("small", s, d) <=>
             /\ r \in Posted /\ r.op = "receive" /\ r.size = "small"
             /\ r.by = d /\ r.peer \in {s, MSG_ANY}
      /\ \A r : r \in Promise!Accepting("big", s, d) <=>
             /\ r \in Posted /\ r.op = "receive" /\ r.size = "big"
             /\ r.by = d /\ r.peer \in {s, MSG_ANY}
    BY DEF Promise!Accepting
<1>3. /\ \A r : r \in Promise!Offered("small", s, d) <=>
             /\ r \in Posted /\ r.op = "send" /\ r.size = "small"
             /\ r.peer = d /\ s \in {r.by, MSG_ANY}
      /\ \A r : r \in Promise!Offered("big", s, d) <=>
             /\ r \in Posted /\ r.op = "send" /\ r.size = "big"
             /\ r.peer = d /\ s \in {r.by, MSG_ANY}
    BY DEF Promise!Offered
<1>4. \A r \in Posted : \/ r.op = "send" /\ r.size = "small" /\ \E e \in E1 : r = SmallPost(e)
                        \/ r.op = "send" /\ r.size = "big" /\ \E e \in E2 : r = BigPost(e, page)
                        \/ r.op = "receive" /\ r.size = "small"
                             /\ \E p \in R1 : r = ReceivePost("small", p, ebx)
                        \/ r.op = "receive" /\ r.size = "big"
                             /\ \E p \in R2 : r = ReceivePost("big", p, ebx)
    BY <1>1, PostKinds DEF PostsOf, SmallPosts, BigPosts, ReceivePosts
<1>5. /\ \A i \in Receivers(smallReceive, s, d) : d \in R1 /\ ebx[d] \in {s, MSG_ANY}
      /\ \A i \in Receivers(bigReceive, s, d) : d \in R2 /\ ebx[d] \in {s, MSG_ANY}
      /\ \A i \in Senders(smallSend, s, d) :
            smallSend[i] \in E1 /\ smallSend[i].dest = d /\ s \in {smallSend[i].src, MSG_ANY}
      /\ \A i \in Senders(bigSend, s, d) :
            bigSend[i] \in E2 /\ bigSend[i].dest = d /\ s \in {bigSend[i].src, MSG_ANY}
    BY DEF Receivers, Senders, ToSet
<1>6. /\ Receivers(smallReceive, s, d) = {} => ~(d \in R1 /\ ebx[d] \in {s, MSG_ANY})
      /\ Receivers(bigReceive, s, d) = {} => ~(d \in R2 /\ ebx[d] \in {s, MSG_ANY})
      /\ Senders(smallSend, s, d) = {} =>
            \A e \in E1 : ~(e.dest = d /\ s \in {e.src, MSG_ANY})
      /\ Senders(bigSend, s, d) = {} =>
            \A e \in E2 : ~(e.dest = d /\ s \in {e.src, MSG_ANY})
    BY DEF Receivers, Senders, ToSet
<1> HIDE DEF E1, E2, R1, R2
<1>7. /\ \A e : /\ SmallPost(e).op = "send" /\ SmallPost(e).size = "small"
                /\ SmallPost(e).by = e.src /\ SmallPost(e).peer = e.dest
      /\ \A e : /\ BigPost(e, page).op = "send" /\ BigPost(e, page).size = "big"
                /\ BigPost(e, page).by = e.src /\ BigPost(e, page).peer = e.dest
      /\ \A size, p : /\ ReceivePost(size, p, ebx).op = "receive"
                      /\ ReceivePost(size, p, ebx).size = size
                      /\ ReceivePost(size, p, ebx).by = p
                      /\ ReceivePost(size, p, ebx).peer = ebx[p]
    BY DEF SmallPost, BigPost, ReceivePost
<1>8. /\ \A e \in E1 : SmallPost(e) \in Posted
      /\ \A e \in E2 : BigPost(e, page) \in Posted
      /\ \A p \in R1 : ReceivePost("small", p, ebx) \in Posted
      /\ \A p \in R2 : ReceivePost("big", p, ebx) \in Posted
    BY <1>1 DEF PostsOf, SmallPosts, BigPosts, ReceivePosts
<1>9. ASSUME Receivers(smallReceive, s, d) = {}, NEW r \in Promise!Accepting("small", s, d)
      PROVE  FALSE
    <2>1. /\ r \in Posted /\ r.op = "receive" /\ r.size = "small"
          /\ r.by = d /\ r.peer \in {s, MSG_ANY}
        BY <1>2, <1>9
    <2>2. PICK p \in R1 : r = ReceivePost("small", p, ebx)
        BY <1>4, <2>1
    <2>3. r.by = p /\ r.peer = ebx[p]
        BY <2>2 DEF ReceivePost
    <2> QED
        BY <1>6, <1>9, <2>1, <2>2, <2>3
<1>10. ASSUME Receivers(bigReceive, s, d) = {}, NEW r \in Promise!Accepting("big", s, d)
      PROVE  FALSE
    <2>1. /\ r \in Posted /\ r.op = "receive" /\ r.size = "big"
          /\ r.by = d /\ r.peer \in {s, MSG_ANY}
        BY <1>2, <1>10
    <2>2. PICK p \in R2 : r = ReceivePost("big", p, ebx)
        BY <1>4, <2>1
    <2>3. r.by = p /\ r.peer = ebx[p]
        BY <2>2 DEF ReceivePost
    <2> QED
        BY <1>6, <1>10, <2>1, <2>2, <2>3
<1>11. ASSUME Senders(smallSend, s, d) = {}, NEW r \in Promise!Offered("small", s, d)
      PROVE  FALSE
    <2>1. /\ r \in Posted /\ r.op = "send" /\ r.size = "small"
          /\ r.peer = d /\ s \in {r.by, MSG_ANY}
        BY <1>3, <1>11
    <2>2. PICK e \in E1 : r = SmallPost(e)
        BY <1>4, <2>1
    <2>3. r.by = e.src /\ r.peer = e.dest
        BY <1>7, <2>2
    <2> QED
        BY <1>6, <1>11, <2>1, <2>2, <2>3
<1>12. ASSUME Senders(bigSend, s, d) = {}, NEW r \in Promise!Offered("big", s, d)
      PROVE  FALSE
    <2>1. /\ r \in Posted /\ r.op = "send" /\ r.size = "big"
          /\ r.peer = d /\ s \in {r.by, MSG_ANY}
        BY <1>3, <1>12
    <2>2. PICK e \in E2 : r = BigPost(e, page)
        BY <1>4, <2>1
    <2>3. r.by = e.src /\ r.peer = e.dest
        BY <1>7, <2>2
    <2> QED
        BY <1>6, <1>12, <2>1, <2>2, <2>3
<1>13. ASSUME NEW i \in Receivers(smallReceive, s, d)
       PROVE  ReceivePost("small", d, ebx) \in Promise!Accepting("small", s, d)
    <2> DEFINE r == ReceivePost("small", d, ebx)
    <2>1. r \in Posted /\ r.op = "receive" /\ r.size = "small" /\ r.by = d /\ r.peer = ebx[d]
        BY <1>5, <1>7, <1>8
    <2> HIDE DEF r
    <2>2. r \in Promise!Accepting("small", s, d)
        BY <1>2, <1>5, <2>1
    <2> QED
        BY <2>2 DEF r
<1>14. ASSUME NEW i \in Receivers(bigReceive, s, d)
       PROVE  ReceivePost("big", d, ebx) \in Promise!Accepting("big", s, d)
    <2> DEFINE r == ReceivePost("big", d, ebx)
    <2>1. r \in Posted /\ r.op = "receive" /\ r.size = "big" /\ r.by = d /\ r.peer = ebx[d]
        BY <1>5, <1>7, <1>8
    <2> HIDE DEF r
    <2>2. r \in Promise!Accepting("big", s, d)
        BY <1>2, <1>5, <2>1
    <2> QED
        BY <2>2 DEF r
<1>15. ASSUME NEW i \in Senders(smallSend, s, d)
       PROVE  SmallPost(smallSend[i]) \in Promise!Offered("small", s, d)
    <2> DEFINE r == SmallPost(smallSend[i])
    <2>1. /\ r \in Posted /\ r.op = "send" /\ r.size = "small"
          /\ r.by = smallSend[i].src /\ r.peer = smallSend[i].dest
        BY <1>5, <1>7, <1>8
    <2> HIDE DEF r
    <2>2. r \in Promise!Offered("small", s, d)
        BY <1>3, <1>5, <2>1
    <2> QED
        BY <2>2 DEF r
<1>16. ASSUME NEW i \in Senders(bigSend, s, d)
       PROVE  BigPost(bigSend[i], page) \in Promise!Offered("big", s, d)
    <2> DEFINE r == BigPost(bigSend[i], page)
    <2>1. /\ r \in Posted /\ r.op = "send" /\ r.size = "big"
          /\ r.by = bigSend[i].src /\ r.peer = bigSend[i].dest
        BY <1>5, <1>7, <1>8
    <2> HIDE DEF r
    <2>2. r \in Promise!Offered("big", s, d)
        BY <1>3, <1>5, <2>1
    <2> QED
        BY <2>2 DEF r
<1> QED
    BY <1>9, <1>10, <1>11, <1>12, <1>13, <1>14, <1>15, <1>16

\* The running process has posted nothing.
LEMMA RunningPostsNothing ==
    ASSUME MsgInv
    PROVE  ~Promise!Waiting(proc_current)
<1> DEFINE p == proc_current
<1>1. /\ p \notin Sources(ToSet(smallSend)) /\ p \notin Sources(ToSet(bigSend))
      /\ p \notin ToSet(smallReceive) /\ p \notin ToSet(bigReceive)
      /\ p # MSG_HARDWARE
    BY MsgFacts, Names DEF Placed, Pids
<1> HIDE DEF p
<1>2. /\ \A e \in ToSet(smallSend) : SmallPost(e).by # p
      /\ \A e \in ToSet(bigSend) : BigPost(e, page).by # p
    BY <1>1 DEF Sources, SmallPost, BigPost
<1>3. \A r \in Posted : r.by # p
    BY <1>1, <1>2, PostKinds, PostedIsPosts DEF PostsOf, SmallPosts, BigPosts
<1> QED
    BY <1>3 DEF Promise!Waiting, p

-----------------------------------------------------------------------------
(* Every call is a step of what was promised *)

\* The lists as sets, and what is known of the process that runs.
LEMMA PostFacts ==
    ASSUME MsgInv
    PROVE  /\ ToSet(smallSend) \in SUBSET (SmallEntry \cup HwEntry)
           /\ ToSet(bigSend) \in SUBSET BigEntry
           /\ ToSet(smallReceive) \subseteq Procs /\ ToSet(bigReceive) \subseteq Procs
           /\ \A e \in ToSet(bigSend) : e.src \in Procs
           /\ ToSet(smallReceive) \cap ToSet(bigReceive) = {}
           /\ proc_current \notin ToSet(smallReceive) \cup ToSet(bigReceive)
           /\ \A e \in ToSet(smallSend) \cup ToSet(bigSend) : e.src # proc_current
           /\ \A p \in ToSet(smallReceive) \cup ToSet(bigReceive) :
                 \A e \in ToSet(smallSend) \cup ToSet(bigSend) : e.src # p
<1>1. /\ proc_current \notin Sources(ToSet(smallSend))
      /\ proc_current \notin Sources(ToSet(bigSend))
      /\ proc_current \notin ToSet(smallReceive) /\ proc_current \notin ToSet(bigReceive)
      /\ ToSet(smallReceive) \cap ToSet(bigReceive) = {}
      /\ (Sources(ToSet(smallSend)) \cup Sources(ToSet(bigSend)))
            \cap (ToSet(smallReceive) \cup ToSet(bigReceive)) = {}
      /\ ToSet(smallReceive) \subseteq Procs /\ ToSet(bigReceive) \subseteq Procs
      /\ Sources(ToSet(bigSend)) \subseteq Procs
      /\ Procs \subseteq Pids /\ proc_current \in Procs
    BY MsgFacts DEF Placed
<1>2. MSG_HARDWARE \notin Pids
    BY Names DEF Pids
<1>3. /\ ToSet(smallSend) \in SUBSET (SmallEntry \cup HwEntry)
      /\ ToSet(bigSend) \in SUBSET BigEntry
    BY MsgFacts DEF ToSet
<1>4. \A e \in ToSet(bigSend) : e.src \in Procs
    <2>1. \A e \in ToSet(bigSend) : e.src \in Pids
        BY <1>3 DEF BigEntry
    <2> QED
        BY <1>1, <1>2, <2>1 DEF Sources
<1> QED
    BY <1>1, <1>2, <1>3, <1>4 DEF Sources

\* A call that fails refuses.
LEMMA FailsRefuses ==
    ASSUME MsgInv, NEW p \in Procs, Calls(p), Fails(p)
    PROVE  Promise!Refuse(p)
<1>1. /\ p = proc_current
      /\ eax' = [eax EXCEPT ![p] = -1]
      /\ ebx' = [ebx EXCEPT ![p] = MSG_ANY] /\ ecx' = [ecx EXCEPT ![p] = NoMsg]
      /\ smallSend' = smallSend /\ bigSend' = bigSend
      /\ smallReceive' = smallReceive /\ bigReceive' = bigReceive
      /\ page' = page
    BY DEF Calls, Fails, NoSource, NoMessage, listVars
<1>2. \A q \in ToSet(smallReceive) \cup ToSet(bigReceive) : ebx'[q] = ebx[q]
    <2>1. \A q \in ToSet(smallReceive) \cup ToSet(bigReceive) : q \in Procs /\ q # p
        BY <1>1, PostFacts
    <2>2. \A q \in Procs \ {p} : ebx'[q] = ebx[q]
        BY <1>1, MsgFacts
    <2> QED
        BY <2>1, <2>2
<1>3. Posted' = Posted
    <2> DEFINE E1 == ToSet(smallSend)
               E2 == ToSet(bigSend)
               R1 == ToSet(smallReceive)
               R2 == ToSet(bigReceive)
    <2>1. PostsOf(E1, E2, R1, R2, ebx', page) = PostsOf(E1, E2, R1, R2, ebx, page)
        BY <1>2, SamePosts DEF PostsOf
    <2>2. Posted = PostsOf(E1, E2, R1, R2, ebx, page)
        BY PostedIsPosts
    <2>3. Posted' = PostsOf(E1, E2, R1, R2, ebx', page)
        BY <1>1, PostedIsPosts
    <2> QED
        BY <2>1, <2>2, <2>3
<1>4. ~Promise!Waiting(p)
    BY <1>1, RunningPostsNothing
<1> QED
    BY <1>1, <1>3, <1>4 DEF Promise!Refuse

LEMMA SmallSendCompletes ==
    ASSUME MsgInv, NEW p \in Procs, NEW d, NEW m \in Msgs, SmallSendMeets(p, d, m)
    PROVE  Promise!SendCompletes("small", p, d, m)
<1> DEFINE r == ReceivePost("small", d, ebx)
           E1 == ToSet(smallSend)
           E2 == ToSet(bigSend)
           R1 == ToSet(smallReceive)
           R2 == ToSet(bigReceive)
<1>1. PICK i \in DOMAIN smallReceive : PutSmall(p, d, i)
    BY DEF SmallSendMeets
<1>2. i \in Receivers(smallReceive, p, d) /\ smallReceive[i] = d /\ d \in R1 /\ d \in Procs
    BY <1>1, MsgFacts DEF PutSmall, IsFirst, Receivers, ToSet
<1>3. /\ p = proc_current /\ d # p
      /\ eax' = [eax EXCEPT ![p] = 1, ![d] = 1]
      /\ ebx' = [ebx EXCEPT ![p] = MSG_ANY, ![d] = p]
      /\ ecx' = [ecx EXCEPT ![p] = NoMsg, ![d] = m]
      /\ smallReceive' = RemoveAt(smallReceive, i)
      /\ smallSend' = smallSend /\ bigSend' = bigSend /\ bigReceive' = bigReceive
      /\ page' = page
    BY <1>1 DEF SmallSendMeets, PutSmall, Meet, Calls, NoSource, NoMessage
<1>4. ToSet(smallReceive') = R1 \ {d}
    BY <1>2, <1>3, MsgFacts, RemoveAtElements DEF MsgInv, CallsSound
<1>5. \A q \in (R1 \ {d}) \cup R2 : ebx'[q] = ebx[q]
    BY <1>2, <1>3, MsgFacts, PostFacts
<1>6. Posted' = PostsOf(E1, E2, R1 \ {d}, R2, ebx', page)
    BY <1>3, <1>4, PostedIsPosts
<1>7. PostsOf(E1, E2, R1 \ {d}, R2, ebx', page) = PostsOf(E1, E2, R1 \ {d}, R2, ebx, page)
    BY <1>5, SamePosts DEF PostsOf
<1>8. Posted = PostsOf(E1, E2, R1, R2, ebx, page)
    BY PostedIsPosts
<1> HIDE DEF r
<1>9. Posted' = Posted \ {r}
    BY <1>2, <1>6, <1>7, <1>8, PostTaken, PostFacts DEF r
<1>10. r \in Promise!Accepting("small", p, d)
    BY <1>2, ScansArePosts DEF r
<1>11. ~Promise!Waiting(p)
    BY <1>3, RunningPostsNothing
<1> QED
    BY <1>3, <1>9, <1>10, <1>11 DEF Promise!SendCompletes

LEMMA HardwareSendCompletes ==
    ASSUME MsgInv, NEW d, NEW m \in Msgs, HardwareSendMeets(d, m)
    PROVE  Promise!HardwareCompletes(d, m)
<1> DEFINE r == ReceivePost("small", d, ebx)
           E1 == ToSet(smallSend)
           E2 == ToSet(bigSend)
           R1 == ToSet(smallReceive)
           R2 == ToSet(bigReceive)
<1>1. PICK i \in DOMAIN smallReceive : PutSmall(MSG_HARDWARE, d, i)
    BY DEF HardwareSendMeets
<1>2. /\ i \in Receivers(smallReceive, MSG_HARDWARE, d)
      /\ smallReceive[i] = d /\ d \in R1 /\ d \in Procs
    BY <1>1, MsgFacts DEF PutSmall, IsFirst, Receivers, ToSet
<1>3. /\ eax' = [eax EXCEPT ![d] = 1]
      /\ ebx' = [ebx EXCEPT ![d] = MSG_HARDWARE]
      /\ ecx' = [ecx EXCEPT ![d] = m]
      /\ smallReceive' = RemoveAt(smallReceive, i)
      /\ smallSend' = smallSend /\ bigSend' = bigSend /\ bigReceive' = bigReceive
      /\ page' = page
    BY <1>1 DEF HardwareSendMeets, PutSmall
<1>4. ToSet(smallReceive') = R1 \ {d}
    BY <1>2, <1>3, MsgFacts, RemoveAtElements DEF MsgInv, CallsSound
<1>5. \A q \in (R1 \ {d}) \cup R2 : ebx'[q] = ebx[q]
    BY <1>2, <1>3, MsgFacts, PostFacts
<1>6. Posted' = PostsOf(E1, E2, R1 \ {d}, R2, ebx', page)
    BY <1>3, <1>4, PostedIsPosts
<1>7. PostsOf(E1, E2, R1 \ {d}, R2, ebx', page) = PostsOf(E1, E2, R1 \ {d}, R2, ebx, page)
    BY <1>5, SamePosts DEF PostsOf
<1>8. Posted = PostsOf(E1, E2, R1, R2, ebx, page)
    BY PostedIsPosts
<1> HIDE DEF r
<1>9. Posted' = Posted \ {r}
    BY <1>2, <1>6, <1>7, <1>8, PostTaken, PostFacts DEF r
<1>10. r \in Promise!Accepting("small", MSG_HARDWARE, d)
    BY <1>2, ScansArePosts DEF r
<1> QED
    BY <1>3, <1>9, <1>10 DEF Promise!HardwareCompletes

LEMMA BigSendCompletes ==
    ASSUME MsgInv, NEW p \in Procs, NEW d, NEW m \in Msgs, BigSendMeets(p, d, m)
    PROVE  Promise!SendCompletes("big", p, d, m)
<1> DEFINE r == ReceivePost("big", d, ebx)
           E1 == ToSet(smallSend)
           E2 == ToSet(bigSend)
           R1 == ToSet(smallReceive)
           R2 == ToSet(bigReceive)
<1>1. PICK i \in DOMAIN bigReceive : /\ IsFirst(i, Receivers(bigReceive, p, d))
                                     /\ bigReceive' = RemoveAt(bigReceive, i)
    BY DEF BigSendMeets
<1>2. i \in Receivers(bigReceive, p, d) /\ bigReceive[i] = d /\ d \in R2 /\ d \in Procs
    BY <1>1, MsgFacts DEF IsFirst, Receivers, ToSet
<1>3. /\ p = proc_current /\ d # p
      /\ eax' = [eax EXCEPT ![p] = 1, ![d] = 1]
      /\ ebx' = [ebx EXCEPT ![p] = MSG_ANY, ![d] = p]
      /\ ecx' = [ecx EXCEPT ![p] = NoMsg]
      /\ page' = [page EXCEPT ![p] = m, ![d] = m]
      /\ smallSend' = smallSend /\ bigSend' = bigSend /\ smallReceive' = smallReceive
    BY <1>1 DEF BigSendMeets, Meet, Calls, NoSource, NoMessage
<1>4. ToSet(bigReceive') = R2 \ {d}
    BY <1>1, <1>2, MsgFacts, RemoveAtElements DEF MsgInv, CallsSound
<1>5. /\ \A q \in R1 \cup (R2 \ {d}) : ebx'[q] = ebx[q]
      /\ \A e \in E2 : page'[e.src] = page[e.src]
    <2>1. \A q \in R1 \cup (R2 \ {d}) : ebx'[q] = ebx[q]
        BY <1>2, <1>3, MsgFacts, PostFacts
    <2>2. \A e \in E2 : e.src \in Procs /\ e.src # p /\ e.src # d
        BY <1>2, <1>3, PostFacts
    <2> QED
        BY <1>3, <2>1, <2>2, MsgFacts
<1>6. Posted' = PostsOf(E1, E2, R1, R2 \ {d}, ebx', page')
    BY <1>3, <1>4, PostedIsPosts
<1>7. PostsOf(E1, E2, R1, R2 \ {d}, ebx', page') = PostsOf(E1, E2, R1, R2 \ {d}, ebx, page)
    BY <1>5, SamePosts DEF PostsOf
<1>8. Posted = PostsOf(E1, E2, R1, R2, ebx, page)
    BY PostedIsPosts
<1> HIDE DEF r
<1>9. Posted' = Posted \ {r}
    BY <1>2, <1>6, <1>7, <1>8, PostTaken, PostFacts DEF r
<1>10. r \in Promise!Accepting("big", p, d)
    BY <1>2, ScansArePosts DEF r
<1>11. ~Promise!Waiting(p)
    BY <1>3, RunningPostsNothing
<1> QED
    BY <1>3, <1>9, <1>10, <1>11 DEF Promise!SendCompletes

LEMMA SmallReceiveCompletes ==
    ASSUME MsgInv, NEW p \in Procs, NEW x,
           SmallReceiveMeets(p, x) \/ SmallReceiveDrains(p, x)
    PROVE  Promise!ReceiveCompletes("small", p, x)
<1> DEFINE E1 == ToSet(smallSend)
           E2 == ToSet(bigSend)
           R1 == ToSet(smallReceive)
           R2 == ToSet(bigReceive)
<1>1. PICK i \in DOMAIN smallSend :
          /\ TakeSmall(p, x, i)
          /\ \/ smallSend[i].src # MSG_HARDWARE /\ Meet(p, smallSend[i].src)
             \/ smallSend[i].src = MSG_HARDWARE /\ eax' = [eax EXCEPT ![p] = 1]
    BY DEF SmallReceiveMeets, SmallReceiveDrains
<1> DEFINE e == smallSend[i]
           r == SmallPost(e)
<1>2. i \in Senders(smallSend, x, p) /\ e \in E1
    BY <1>1 DEF TakeSmall, IsFirst, ToSet
<1>3. /\ p = proc_current
      /\ ebx' = [ebx EXCEPT ![p] = e.src]
      /\ ecx' = [ecx EXCEPT ![p] = e.msg]
      /\ smallSend' = RemoveAt(smallSend, i)
      /\ bigSend' = bigSend /\ smallReceive' = smallReceive /\ bigReceive' = bigReceive
      /\ page' = page
    BY <1>1 DEF SmallReceiveMeets, SmallReceiveDrains, TakeSmall, Calls
<1>4. ToSet(smallSend') = E1 \ {e}
    BY <1>3, MsgFacts, EntriesOnce, RemoveAtElements
<1>5. r \in Promise!Offered("small", x, p)
    BY <1>2, ScansArePosts
<1>6. r.by = e.src /\ r.msg = e.msg
    BY DEF SmallPost
<1>7. eax' = [q \in Procs |-> IF q \in {p, e.src} THEN 1 ELSE eax[q]]
    <2>1. CASE e.src # MSG_HARDWARE
        <3>1. eax' = [eax EXCEPT ![p] = 1, ![e.src] = 1]
            BY <1>1, <2>1 DEF Meet
        <3> QED
            BY <3>1, MsgFacts
    <2>2. CASE e.src = MSG_HARDWARE
        <3>1. eax' = [eax EXCEPT ![p] = 1]
            BY <1>1, <2>2
        <3> QED
            BY <2>2, <3>1, MsgFacts, Names
    <2> QED
        BY <2>1, <2>2
<1> HIDE DEF e, r
<1>8. \A q \in R1 \cup R2 : ebx'[q] = ebx[q]
    <2>1. \A q \in R1 \cup R2 : q \in Procs /\ q # p
        BY <1>3, PostFacts
    <2> QED
        BY <1>3, <2>1, MsgFacts
<1>9. Posted' = PostsOf(E1 \ {e}, E2, R1, R2, ebx', page)
    BY <1>3, <1>4, PostedIsPosts
<1>10. PostsOf(E1 \ {e}, E2, R1, R2, ebx', page) = PostsOf(E1 \ {e}, E2, R1, R2, ebx, page)
    BY <1>8, SamePosts DEF PostsOf
<1>11. Posted = PostsOf(E1, E2, R1, R2, ebx, page)
    BY PostedIsPosts
<1>12. Posted' = Posted \ {r}
    BY <1>2, <1>9, <1>10, <1>11, PostTaken, PostFacts DEF r
<1>13. ~Promise!Waiting(p)
    BY <1>3, RunningPostsNothing
<1> QED
    BY <1>3, <1>5, <1>6, <1>7, <1>12, <1>13 DEF Promise!ReceiveCompletes

LEMMA BigReceiveCompletes ==
    ASSUME MsgInv, NEW p \in Procs, NEW x, BigReceiveMeets(p, x)
    PROVE  Promise!ReceiveCompletes("big", p, x)
<1> DEFINE E1 == ToSet(smallSend)
           E2 == ToSet(bigSend)
           R1 == ToSet(smallReceive)
           R2 == ToSet(bigReceive)
<1>1. PICK i \in DOMAIN bigSend :
          /\ IsFirst(i, Senders(bigSend, x, p))
          /\ page' = [page EXCEPT ![p] = page[bigSend[i].src]]
          /\ ebx' = [ebx EXCEPT ![p] = bigSend[i].src]
          /\ bigSend' = RemoveAt(bigSend, i)
          /\ Meet(p, bigSend[i].src)
    BY DEF BigReceiveMeets
<1> DEFINE e == bigSend[i]
           r == BigPost(e, page)
<1>2. i \in Senders(bigSend, x, p) /\ e \in E2
    BY <1>1 DEF IsFirst, ToSet
<1>3. /\ p = proc_current
      /\ eax' = [eax EXCEPT ![p] = 1, ![e.src] = 1]
      /\ ebx' = [ebx EXCEPT ![p] = e.src]
      /\ ecx' = [ecx EXCEPT ![p] = NoMsg]
      /\ page' = [page EXCEPT ![p] = page[e.src]]
      /\ bigSend' = RemoveAt(bigSend, i)
      /\ smallSend' = smallSend /\ smallReceive' = smallReceive /\ bigReceive' = bigReceive
    BY <1>1 DEF BigReceiveMeets, Meet, Calls, NoMessage
<1>4. ToSet(bigSend') = E2 \ {e}
    BY <1>3, MsgFacts, EntriesOnce, RemoveAtElements
<1>5. r \in Promise!Offered("big", x, p)
    BY <1>2, ScansArePosts
<1>6. r.by = e.src /\ r.msg = page[e.src]
    BY DEF BigPost
<1>7. eax' = [q \in Procs |-> IF q \in {p, e.src} THEN 1 ELSE eax[q]]
    BY <1>3, MsgFacts
<1> HIDE DEF e, r
<1>8. /\ \A q \in R1 \cup R2 : ebx'[q] = ebx[q]
      /\ \A f \in E2 : page'[f.src] = page[f.src]
    <2>1. \A q \in R1 \cup R2 : q \in Procs /\ q # p
        BY <1>3, PostFacts
    <2>2. \A f \in E2 : f.src \in Procs /\ f.src # p
        BY <1>3, PostFacts
    <2> QED
        BY <1>3, <2>1, <2>2, MsgFacts
<1>9. Posted' = PostsOf(E1, E2 \ {e}, R1, R2, ebx', page')
    BY <1>3, <1>4, PostedIsPosts
<1>10. PostsOf(E1, E2 \ {e}, R1, R2, ebx', page') = PostsOf(E1, E2 \ {e}, R1, R2, ebx, page)
    BY <1>8, SamePosts DEF PostsOf
<1>11. Posted = PostsOf(E1, E2, R1, R2, ebx, page)
    BY PostedIsPosts
<1>12. Posted' = Posted \ {r}
    BY <1>2, <1>9, <1>10, <1>11, PostTaken, PostFacts DEF r
<1>13. ~Promise!Waiting(p)
    BY <1>3, RunningPostsNothing
<1> QED
    BY <1>3, <1>5, <1>6, <1>7, <1>12, <1>13, ZenonT(30) DEF Promise!ReceiveCompletes

\* What becomes of the running process p in a call that waits.
LEMMA WaitPosts ==
    ASSUME MsgInv, NEW p \in Procs, Calls(p), Sleeps(p),
           \A q \in Procs \ {p} : ebx'[q] = ebx[q] /\ page'[q] = page[q]
    PROVE  /\ ~Promise!Waiting(p)
           /\ eax' = [eax EXCEPT ![p] = 0]
           /\ PostsOf(ToSet(smallSend), ToSet(bigSend), ToSet(smallReceive),
                      ToSet(bigReceive), ebx', page') = Posted
<1> DEFINE E1 == ToSet(smallSend)
           E2 == ToSet(bigSend)
           R1 == ToSet(smallReceive)
           R2 == ToSet(bigReceive)
<1>1. p = proc_current /\ eax' = [eax EXCEPT ![p] = 0]
    BY DEF Calls, Sleeps
<1>2. ~Promise!Waiting(p)
    BY <1>1, RunningPostsNothing
<1>3. /\ \A q \in R1 \cup R2 : ebx'[q] = ebx[q]
      /\ \A e \in E2 : page'[e.src] = page[e.src]
    BY <1>1, PostFacts
<1>4. PostsOf(E1, E2, R1, R2, ebx', page') = PostsOf(E1, E2, R1, R2, ebx, page)
    BY <1>3, SamePosts DEF PostsOf
<1>5. Posted = PostsOf(E1, E2, R1, R2, ebx, page)
    BY PostedIsPosts
<1> QED
    BY <1>1, <1>2, <1>4, <1>5

LEMMA SmallSendPosts ==
    ASSUME MsgInv, NEW p \in Procs, NEW d, NEW m \in Msgs, SmallSendWaits(p, d, m)
    PROVE  Promise!SendPosts("small", p, d, m)
<1> DEFINE e == [src |-> p, dest |-> d, msg |-> m, slot |-> 0]
           E1 == ToSet(smallSend)
           E2 == ToSet(bigSend)
           R1 == ToSet(smallReceive)
           R2 == ToSet(bigReceive)
<1>1. /\ Calls(p) /\ Sleeps(p) /\ d \in Pids
      /\ Receivers(smallReceive, p, d) = {}
      /\ smallSend' = Append(smallSend, e)
      /\ ebx' = [ebx EXCEPT ![p] = MSG_ANY] /\ ecx' = [ecx EXCEPT ![p] = NoMsg]
      /\ smallReceive' = smallReceive /\ bigSend' = bigSend /\ bigReceive' = bigReceive
      /\ page' = page
    BY DEF SmallSendWaits, NoSource, NoMessage
<1>2. /\ ~Promise!Waiting(p) /\ eax' = [eax EXCEPT ![p] = 0]
      /\ PostsOf(E1, E2, R1, R2, ebx', page') = Posted
    <2>1. \A q \in Procs \ {p} : ebx'[q] = ebx[q] /\ page'[q] = page[q]
        BY <1>1, MsgFacts
    <2> QED
        BY <1>1, <2>1, WaitPosts
<1>3. ToSet(smallSend') = E1 \cup {e}
    <2>1. e \in SmallEntry \cup HwEntry
        BY <1>1, MsgFacts DEF SmallEntry
    <2> QED
        BY <1>1, <2>1, MsgFacts, AppendElements
<1>4. SmallPost(e) = Promise!Post("send", "small", p, d, m, 0)
    BY DEF SmallPost, Promise!Post
<1> HIDE DEF e
<1>5. Posted' = PostsOf(E1 \cup {e}, E2, R1, R2, ebx', page')
    BY <1>1, <1>3, PostedIsPosts
<1>6. PostsOf(E1 \cup {e}, E2, R1, R2, ebx', page')
        = PostsOf(E1, E2, R1, R2, ebx', page') \cup {SmallPost(e)}
    <2>1. SmallPosts(E1 \cup {e}) = SmallPosts(E1) \cup {SmallPost(e)}
        BY PostAdded
    <2> QED
        BY <2>1 DEF PostsOf
<1>7. Promise!Accepting("small", p, d) = {}
    BY <1>1, ScansArePosts
<1> QED
    BY <1>1, <1>2, <1>4, <1>5, <1>6, <1>7 DEF Promise!SendPosts

LEMMA BigSendPosts ==
    ASSUME MsgInv, NEW p \in Procs, NEW d, NEW m \in Msgs, BigSendWaits(p, d, m)
    PROVE  Promise!SendPosts("big", p, d, m)
<1> DEFINE e == [src |-> p, dest |-> d]
           E1 == ToSet(smallSend)
           E2 == ToSet(bigSend)
           R1 == ToSet(smallReceive)
           R2 == ToSet(bigReceive)
<1>1. /\ Calls(p) /\ Sleeps(p) /\ d \in Pids
      /\ Receivers(bigReceive, p, d) = {}
      /\ bigSend' = Append(bigSend, e)
      /\ page' = [page EXCEPT ![p] = m]
      /\ ebx' = [ebx EXCEPT ![p] = MSG_ANY] /\ ecx' = [ecx EXCEPT ![p] = NoMsg]
      /\ smallSend' = smallSend /\ smallReceive' = smallReceive
      /\ bigReceive' = bigReceive
    BY DEF BigSendWaits, NoSource, NoMessage
<1>2. /\ page'[p] = m
      /\ \A q \in Procs \ {p} : ebx'[q] = ebx[q] /\ page'[q] = page[q]
    BY <1>1, MsgFacts
<1>3. /\ ~Promise!Waiting(p) /\ eax' = [eax EXCEPT ![p] = 0]
      /\ PostsOf(E1, E2, R1, R2, ebx', page') = Posted
    BY <1>1, <1>2, WaitPosts
<1>4. ToSet(bigSend') = E2 \cup {e}
    <2>1. e \in BigEntry
        BY <1>1, MsgFacts DEF BigEntry
    <2> QED
        BY <1>1, <2>1, MsgFacts, AppendElements
<1>5. BigPost(e, page') = Promise!Post("send", "big", p, d, m, 0)
    BY <1>2 DEF BigPost, Promise!Post
<1> HIDE DEF e
<1>6. Posted' = PostsOf(E1, E2 \cup {e}, R1, R2, ebx', page')
    BY <1>1, <1>4, PostedIsPosts
<1>7. PostsOf(E1, E2 \cup {e}, R1, R2, ebx', page')
        = PostsOf(E1, E2, R1, R2, ebx', page') \cup {BigPost(e, page')}
    <2>1. BigPosts(E2 \cup {e}, page') = BigPosts(E2, page') \cup {BigPost(e, page')}
        BY PostAdded
    <2> QED
        BY <2>1 DEF PostsOf
<1>8. Promise!Accepting("big", p, d) = {}
    BY <1>1, ScansArePosts
<1> QED
    BY <1>1, <1>3, <1>5, <1>6, <1>7, <1>8 DEF Promise!SendPosts

LEMMA HardwareSendPosts ==
    ASSUME MsgInv, NEW d, NEW m \in Msgs, HardwareSendQueues(d, m)
    PROVE  \E t \in HwSlots : Promise!HardwarePosts(d, m, t)
<1> DEFINE E1 == ToSet(smallSend)
           E2 == ToSet(bigSend)
           R1 == ToSet(smallReceive)
           R2 == ToSet(bigReceive)
<1>1. /\ d \in Pids /\ Receivers(smallReceive, MSG_HARDWARE, d) = {}
      /\ smallReceive' = smallReceive /\ bigSend' = bigSend /\ bigReceive' = bigReceive
      /\ eax' = eax /\ ebx' = ebx /\ ecx' = ecx /\ page' = page
    BY DEF HardwareSendQueues, cellVars
<1>2. PICK k \in HwSlots :
         /\ IsFirst(k, HwSlots \ hwUsed)
         /\ smallSend' = Append(smallSend,
                [src |-> MSG_HARDWARE, dest |-> d, msg |-> m, slot |-> k])
    BY DEF HardwareSendQueues
<1> DEFINE e == [src |-> MSG_HARDWARE, dest |-> d, msg |-> m, slot |-> k]
<1>3. ToSet(smallSend') = E1 \cup {e}
    <2>1. e \in SmallEntry \cup HwEntry
        BY <1>1 DEF HwEntry
    <2> QED
        BY <1>2, <2>1, MsgFacts, AppendElements, SMTT(30)
<1>4. SmallPost(e) = Promise!Post("send", "small", MSG_HARDWARE, d, m, k)
    BY DEF SmallPost, Promise!Post
<1> HIDE DEF e
<1>5. Posted' = PostsOf(E1 \cup {e}, E2, R1, R2, ebx, page)
    BY <1>1, <1>3, PostedIsPosts
<1>6. /\ Posted = PostsOf(E1, E2, R1, R2, ebx, page)
      /\ PostsOf(E1 \cup {e}, E2, R1, R2, ebx, page)
           = PostsOf(E1, E2, R1, R2, ebx, page) \cup {SmallPost(e)}
    <2>1. SmallPosts(E1 \cup {e}) = SmallPosts(E1) \cup {SmallPost(e)}
        BY PostAdded
    <2> QED
        BY <2>1, PostedIsPosts DEF PostsOf
<1>7. Promise!Accepting("small", MSG_HARDWARE, d) = {}
    BY <1>1, ScansArePosts
<1>8. \A r \in Posted : r.ticket # k
    <2>1. k \notin hwUsed /\ k # 0
        BY <1>2, SmallEntries DEF IsFirst
    <2>2. \A i \in DOMAIN smallSend : smallSend[i].slot # k
        <3> SUFFICES ASSUME NEW i \in DOMAIN smallSend, smallSend[i].slot = k
                     PROVE  FALSE
            OBVIOUS
        <3>1. smallSend[i].src # MSG_HARDWARE
            BY <2>1 DEF MsgInv, CallsSound, PoolExact
        <3>2. smallSend[i] \in SmallEntry \cup HwEntry
            BY MsgFacts
        <3> QED
            BY <2>1, <3>1, <3>2, SmallEntries
    <2>3. \A r \in SmallPosts(E1) : r.ticket # k
        BY <2>2 DEF SmallPosts, SmallPost, ToSet
    <2> QED
        BY <1>6, <2>1, <2>3, PostKinds DEF PostsOf
<1>9. Promise!HardwarePosts(d, m, k)
    BY <1>1, <1>4, <1>5, <1>6, <1>7, <1>8 DEF Promise!HardwarePosts
<1> QED
    BY <1>9

LEMMA ReceivesPost ==
    ASSUME MsgInv, NEW p \in Procs, NEW x
    PROVE  /\ SmallReceiveWaits(p, x) => Promise!ReceivePosts("small", p, x)
           /\ BigReceiveWaits(p, x) => Promise!ReceivePosts("big", p, x)
<1> DEFINE E1 == ToSet(smallSend)
           E2 == ToSet(bigSend)
           R1 == ToSet(smallReceive)
           R2 == ToSet(bigReceive)
<1>1. ASSUME Calls(p), Sleeps(p), ebx' = [ebx EXCEPT ![p] = x], page' = page
      PROVE  /\ ~Promise!Waiting(p) /\ eax' = [eax EXCEPT ![p] = 0]
             /\ PostsOf(E1, E2, R1, R2, ebx', page') = Posted
             /\ \A size : ReceivePost(size, p, ebx')
                            = Promise!Post("receive", size, p, x, NoMsg, 0)
    <2>1. ebx'[p] = x
        BY <1>1, MsgFacts
    <2>2. \A size : ReceivePost(size, p, ebx')
                      = Promise!Post("receive", size, p, x, NoMsg, 0)
        BY <2>1 DEF ReceivePost, Promise!Post
    <2>3. \A q \in Procs \ {p} : ebx'[q] = ebx[q] /\ page'[q] = page[q]
        BY <1>1, MsgFacts
    <2> QED
        BY <1>1, <2>2, <2>3, WaitPosts
<1>2. ASSUME SmallReceiveWaits(p, x) PROVE Promise!ReceivePosts("small", p, x)
    <2>1. /\ Calls(p) /\ Sleeps(p) /\ Senders(smallSend, x, p) = {}
          /\ smallReceive' = Append(smallReceive, p)
          /\ ebx' = [ebx EXCEPT ![p] = x] /\ ecx' = [ecx EXCEPT ![p] = NoMsg]
          /\ smallSend' = smallSend /\ bigSend' = bigSend /\ bigReceive' = bigReceive
          /\ page' = page
        BY <1>2 DEF SmallReceiveWaits, NoMessage
    <2>2. Posted' = PostsOf(E1, E2, R1 \cup {p}, R2, ebx', page')
        <3>1. ToSet(smallReceive') = R1 \cup {p}
            BY <2>1, MsgFacts, AppendElements
        <3> QED
            BY <2>1, <3>1, PostedIsPosts
    <2>3. PostsOf(E1, E2, R1 \cup {p}, R2, ebx', page')
            = PostsOf(E1, E2, R1, R2, ebx', page') \cup {ReceivePost("small", p, ebx')}
        <3>1. ReceivePosts("small", R1 \cup {p}, ebx')
                = ReceivePosts("small", R1, ebx') \cup {ReceivePost("small", p, ebx')}
            BY PostAdded
        <3> QED
            BY <3>1 DEF PostsOf
    <2>4. Promise!Offered("small", x, p) = {}
        BY <2>1, ScansArePosts
    <2> QED
        BY <1>1, <2>1, <2>2, <2>3, <2>4 DEF Promise!ReceivePosts
<1>3. ASSUME BigReceiveWaits(p, x) PROVE Promise!ReceivePosts("big", p, x)
    <2>1. /\ Calls(p) /\ Sleeps(p) /\ Senders(bigSend, x, p) = {}
          /\ bigReceive' = Append(bigReceive, p)
          /\ ebx' = [ebx EXCEPT ![p] = x] /\ ecx' = [ecx EXCEPT ![p] = NoMsg]
          /\ smallSend' = smallSend /\ bigSend' = bigSend /\ smallReceive' = smallReceive
          /\ page' = page
        BY <1>3 DEF BigReceiveWaits, NoMessage
    <2>2. Posted' = PostsOf(E1, E2, R1, R2 \cup {p}, ebx', page')
        <3>1. ToSet(bigReceive') = R2 \cup {p}
            BY <2>1, MsgFacts, AppendElements
        <3> QED
            BY <2>1, <3>1, PostedIsPosts
    <2>3. PostsOf(E1, E2, R1, R2 \cup {p}, ebx', page')
            = PostsOf(E1, E2, R1, R2, ebx', page') \cup {ReceivePost("big", p, ebx')}
        <3>1. ReceivePosts("big", R2 \cup {p}, ebx')
                = ReceivePosts("big", R2, ebx') \cup {ReceivePost("big", p, ebx')}
            BY PostAdded
        <3> QED
            BY <3>1 DEF PostsOf
    <2>4. Promise!Offered("big", x, p) = {}
        BY <2>1, ScansArePosts
    <2> QED
        BY <1>1, <2>1, <2>2, <2>3, <2>4 DEF Promise!ReceivePosts
<1> QED
    BY <1>2, <1>3

LEMMA PromiseInit == Init => Promise!Init
<1> SUFFICES ASSUME Init PROVE Promise!Init
    OBVIOUS
<1>1. /\ smallSend = <<>> /\ bigSend = <<>> /\ smallReceive = <<>> /\ bigReceive = <<>>
      /\ eax = [p \in Procs |-> 1] /\ ebx = [p \in Procs |-> MSG_ANY]
      /\ ecx = [p \in Procs |-> NoMsg] /\ page = [p \in Procs |-> NoMsg]
    BY DEF Init
<1>2. /\ ToSet(smallSend) = {} /\ ToSet(bigSend) = {}
      /\ ToSet(smallReceive) = {} /\ ToSet(bigReceive) = {}
    BY <1>1 DEF ToSet
<1>3. Posted = {}
    BY <1>2, PostedIsPosts DEF PostsOf, SmallPosts, BigPosts, ReceivePosts
<1> QED
    BY <1>1, <1>3 DEF Promise!Init

\* What process p asks for.
LEMMA CallKeepsPromise ==
    ASSUME MsgInv, NEW p \in Procs, Call(p)
    PROVE  Promise!Next
<1>1. PICK x \in Operands : \/ SmallReceive(p, x)
                            \/ BigReceive(p, x)
                            \/ \E m \in Msgs : SmallSend(p, x, m) \/ BigSend(p, x, m)
    BY DEF Call
<1>2. ASSUME Calls(p), Fails(p) PROVE Promise!Next
    BY <1>2, FailsRefuses DEF Promise!Next
<1>3. \A size \in {"small", "big"}, m \in Msgs :
          x \in Pids /\ (Promise!SendCompletes(size, p, x, m) \/ Promise!SendPosts(size, p, x, m))
              => Promise!Next
    BY DEF Promise!Next
<1>4. \A size \in {"small", "big"} :
          x \in SmallSources
          /\ (Promise!ReceiveCompletes(size, p, x) \/ Promise!ReceivePosts(size, p, x))
              => Promise!Next
    BY DEF Promise!Next, SmallSources
<1>5. CASE SmallReceive(p, x)
    <2>1. CASE SmallReceiveFails(p, x)
        BY <1>2, <2>1 DEF SmallReceiveFails
    <2>2. CASE SmallReceiveMeets(p, x) \/ SmallReceiveDrains(p, x)
        <3>1. x \in SmallSources
            BY <2>2 DEF SmallReceiveMeets, SmallReceiveDrains
        <3> QED
            BY <1>4, <2>2, <3>1, SmallReceiveCompletes
    <2>3. CASE SmallReceiveWaits(p, x)
        <3>1. x \in SmallSources
            BY <2>3 DEF SmallReceiveWaits
        <3> QED
            BY <1>4, <2>3, <3>1, ReceivesPost
    <2> QED
        BY <1>5, <2>1, <2>2, <2>3 DEF SmallReceive
<1>6. CASE BigReceive(p, x)
    <2>1. CASE BigReceiveFails(p, x)
        BY <1>2, <2>1 DEF BigReceiveFails
    <2>2. CASE BigReceiveMeets(p, x)
        <3>1. x \in SmallSources
            BY <2>2 DEF BigReceiveMeets, BigSources, SmallSources
        <3> QED
            BY <1>4, <2>2, <3>1, BigReceiveCompletes
    <2>3. CASE BigReceiveWaits(p, x)
        <3>1. x \in SmallSources
            BY <2>3 DEF BigReceiveWaits, BigSources, SmallSources
        <3> QED
            BY <1>4, <2>3, <3>1, ReceivesPost
    <2> QED
        BY <1>6, <2>1, <2>2, <2>3 DEF BigReceive
<1>7. ASSUME NEW m \in Msgs, SmallSend(p, x, m)
      PROVE  Promise!Next
    <2>1. CASE SmallSendFails(p, x)
        BY <1>2, <2>1 DEF SmallSendFails
    <2>2. CASE SmallSendMeets(p, x, m)
        <3>1. x \in Pids
            BY <2>2 DEF SmallSendMeets
        <3> QED
            BY <1>3, <2>2, <3>1, SmallSendCompletes
    <2>3. CASE SmallSendWaits(p, x, m)
        <3>1. x \in Pids
            BY <2>3 DEF SmallSendWaits
        <3> QED
            BY <1>3, <2>3, <3>1, SmallSendPosts
    <2> QED
        BY <1>7, <2>1, <2>2, <2>3 DEF SmallSend
<1>8. ASSUME NEW m \in Msgs, BigSend(p, x, m)
      PROVE  Promise!Next
    <2>1. CASE BigSendFails(p, x)
        BY <1>2, <2>1 DEF BigSendFails
    <2>2. CASE BigSendMeets(p, x, m)
        <3>1. x \in Pids
            BY <2>2 DEF BigSendMeets
        <3> QED
            BY <1>3, <2>2, <3>1, BigSendCompletes
    <2>3. CASE BigSendWaits(p, x, m)
        <3>1. x \in Pids
            BY <2>3 DEF BigSendWaits
        <3> QED
            BY <1>3, <2>3, <3>1, BigSendPosts
    <2> QED
        BY <1>8, <2>1, <2>2, <2>3 DEF BigSend
<1> QED
    BY <1>1, <1>5, <1>6, <1>7, <1>8

\* A tick, which the callers do not see.
LEMMA PostedKept ==
    ASSUME UNCHANGED msgVars
    PROVE  UNCHANGED Promise!vars
<1>1. /\ smallSend' = smallSend /\ bigSend' = bigSend
      /\ smallReceive' = smallReceive /\ bigReceive' = bigReceive
      /\ eax' = eax /\ ebx' = ebx /\ ecx' = ecx /\ page' = page
    BY DEF msgVars, listVars, cellVars
<1>2. Posted' = Posted
    BY <1>1, PostedIsPosts
<1> QED
    BY <1>1, <1>2 DEF Promise!vars

LEMMA PromiseNext == MsgInv /\ [Next]_vars => [Promise!Next]_(Promise!vars)
<1> SUFFICES ASSUME MsgInv, [Next]_vars
             PROVE  Promise!Next \/ UNCHANGED Promise!vars
    OBVIOUS
<1>1. ASSUME NEW p \in Procs, Call(p) PROVE Promise!Next
    BY <1>1, CallKeepsPromise
<1>2. ASSUME NEW d \in Pids, NEW m \in Msgs, HardwareSend(d, m) PROVE Promise!Next
    BY <1>2, HardwareSendCompletes, HardwareSendPosts DEF HardwareSend, Promise!Next
<1>3. ASSUME Clock PROVE UNCHANGED Promise!vars
    BY <1>3, PostedKept DEF Clock
<1>4. ASSUME UNCHANGED vars PROVE UNCHANGED Promise!vars
    BY <1>4, PostedKept DEF vars
<1> QED
    BY <1>1, <1>2, <1>3, <1>4 DEF Next

\* Whatever the lists, cells and pages it is made of, a message and its source
\* reach, once and unchanged, a receiver that asked for them, in the step that
\* completes the sender's call (messaging.c, lib/message.c).
THEOREM MessagingImplementsRendezvous == Spec => ImplementsRendezvous
<1> QED
    BY MessagingInvariant, PromiseInit, PromiseNext, PTL
       DEF Spec, ImplementsRendezvous, Promise!Spec

-----------------------------------------------------------------------------
(* The system task                                                          *)

\* Its loop and the clients' calls are calls like others.
LEMMA SystemStep ==
    ASSUME SystemTask \in Procs, [SystemNext]_vars
    PROVE  [Next]_vars
<1>1. MSG_ANY \in Operands
    BY MessagingAssumption DEF Operands, MSG_ANY
<1>2. Serve => Call(SystemTask)
    BY <1>1 DEF Serve, Call
<1> QED
    BY <1>2 DEF SystemNext, Next

\* Nobody has MSG_ANY for a pid, so nobody ever waits for the task's call as such.
LEMMA ReceiveAnyNotRefused ==
    ASSUME MsgTypeOK, NEW d \in Procs
    PROVE  ~BigReceiveFails(d, MSG_ANY)
<1>1. MSG_ANY \notin Pids /\ MSG_ANY # MSG_HARDWARE /\ Procs \subseteq Pids
    BY MessagingAssumption DEF MSG_ANY, MSG_HARDWARE, Pids
<1>2. ~SendsTo(smallSend, MSG_ANY, d)
    <2> SUFFICES ASSUME NEW i \in DOMAIN smallSend PROVE smallSend[i].src # MSG_ANY
        BY DEF SendsTo
    <2>1. smallSend[i] \in SmallEntry \cup HwEntry
        BY DEF MsgTypeOK
    <2> QED
        BY <1>1, <2>1 DEF SmallEntry, HwEntry
<1>3. ASSUME NEW R \in Seq(Procs) PROVE ~ReceivesFrom(R, MSG_ANY, d)
    BY <1>1, <1>3 DEF ReceivesFrom
<1>4. ~BigReceiveRefused(d, MSG_ANY)
    BY <1>2, <1>3 DEF BigReceiveRefused, MsgTypeOK
<1>5. d # MSG_ANY /\ MSG_ANY \in BigSources
    BY <1>1 DEF BigSources
<1> QED
    BY <1>4, <1>5 DEF BigReceiveFails

\* The call of p only writes -1 to its own result.
LEMMA OthersNotRefused ==
    ASSUME MsgTypeOK, NEW d \in Procs, eax[d] # -1, NEW p \in Procs \ {d}, Call(p)
    PROVE  eax'[d] # -1
<1>1. eax \in [Procs -> {-1, 0, 1}]
    BY DEF MsgTypeOK
<1>2. Fails(p) => eax'[d] # -1
    BY <1>1 DEF Fails
<1>3. Sleeps(p) => eax'[d] # -1
    BY <1>1 DEF Sleeps
<1>4. ASSUME NEW r, Meet(p, r) PROVE eax'[d] # -1
    BY <1>1, <1>4 DEF Meet
<1>5. eax' = [eax EXCEPT ![p] = 1] => eax'[d] # -1
    BY <1>1
<1>6. ASSUME NEW x, SmallReceive(p, x) PROVE eax'[d] # -1
    BY <1>2, <1>3, <1>4, <1>5, <1>6 DEF SmallReceive, SmallReceiveFails, SmallReceiveMeets,
           SmallReceiveDrains, SmallReceiveWaits
<1>7. ASSUME NEW x, BigReceive(p, x) PROVE eax'[d] # -1
    BY <1>2, <1>3, <1>4, <1>7 DEF BigReceive, BigReceiveFails, BigReceiveMeets, BigReceiveWaits
<1>8. ASSUME NEW x, NEW m, SmallSend(p, x, m) PROVE eax'[d] # -1
    BY <1>2, <1>3, <1>4, <1>8 DEF SmallSend, SmallSendFails, SmallSendMeets, SmallSendWaits
<1>9. ASSUME NEW x, NEW m, BigSend(p, x, m) PROVE eax'[d] # -1
    BY <1>2, <1>3, <1>4, <1>9 DEF BigSend, BigSendFails, BigSendMeets, BigSendWaits
<1> QED
    BY <1>6, <1>7, <1>8, <1>9 DEF Call

LEMMA ServeNotRefused ==
    ASSUME MsgTypeOK, SystemTask \in Procs, TaskNeverRefused, Serve
    PROVE  TaskNeverRefused'
<1>1. eax \in [Procs -> {-1, 0, 1}]
    BY DEF MsgTypeOK
<1>2. Sleeps(SystemTask) => eax'[SystemTask] # -1
    BY <1>1 DEF Sleeps
<1>3. ASSUME NEW r, Meet(SystemTask, r) PROVE eax'[SystemTask] # -1
    BY <1>1, <1>3 DEF Meet
<1>4. ~BigReceiveFails(SystemTask, MSG_ANY)
    BY ReceiveAnyNotRefused
<1> QED
    BY <1>2, <1>3, <1>4 DEF Serve, BigReceive, BigReceiveMeets, BigReceiveWaits,
           TaskNeverRefused

LEMMA SystemInvNext ==
    ASSUME SystemTask \in Procs, MsgInv, TaskNeverRefused, [SystemNext]_vars
    PROVE  TaskNeverRefused'
<1>1. MsgTypeOK
    BY MsgInvMeans
<1>2. CASE Serve
    BY <1>1, <1>2, ServeNotRefused
<1>3. ASSUME NEW p \in Procs \ {SystemTask}, Call(p) PROVE TaskNeverRefused'
    BY <1>1, <1>3, OthersNotRefused DEF TaskNeverRefused
<1>4. CASE Clock
    BY <1>4 DEF Clock, msgVars, cellVars, TaskNeverRefused
<1>5. CASE UNCHANGED vars
    BY <1>5 DEF vars, msgVars, cellVars, TaskNeverRefused
<1> QED
    BY <1>2, <1>3, <1>4, <1>5 DEF SystemNext

\* system_task ignores the result of its call, and may: big_receive never refuses
\* it, however many clients call it and each other, in whatever way.
THEOREM TaskIsNeverRefused ==
    ASSUME SystemTask \in Procs
    PROVE  SystemSpec => []TaskNeverRefused
<1>1. Init => MsgInv
    BY MessagingInit, CallsInit DEF MsgInv
<1>2. Init => TaskNeverRefused
    BY DEF Init, TaskNeverRefused
<1>3. MsgInv /\ [SystemNext]_vars => MsgInv'
    BY SystemStep, MsgNext
<1>4. MsgInv /\ TaskNeverRefused /\ [SystemNext]_vars => TaskNeverRefused'
    BY SystemInvNext
<1> QED
    BY <1>1, <1>2, <1>3, <1>4, PTL DEF SystemSpec
=============================================================================
