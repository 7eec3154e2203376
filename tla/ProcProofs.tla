----------------------------- MODULE ProcProofs -----------------------------
(***************************************************************************)
(* The scheduler's invariants, for any number of processes of any types.   *)
(***************************************************************************)
EXTENDS Proc, FiniteSetTheorems, SequenceTheorems, TLAPS

-----------------------------------------------------------------------------
(* Queues as sequences without repetition: what the list operations of the   *)
(* code do to their elements.                                                *)

\* Appending a queue of other elements.
LEMMA ConcatElements ==
    ASSUME NEW S, NEW s \in Seq(S), NEW t \in Seq(S)
    PROVE  /\ s \o t \in Seq(S)
           /\ ToSet(s \o t) = ToSet(s) \cup ToSet(t)
<1>1. s \o t \in Seq(S) /\ Len(s \o t) = Len(s) + Len(t)
    OBVIOUS
<1>2. \A i \in 1 .. Len(s) : (s \o t)[i] = s[i]
    OBVIOUS
<1>3. \A i \in 1 .. Len(t) : (s \o t)[Len(s) + i] = t[i]
    OBVIOUS
<1>4. ToSet(s \o t) \subseteq ToSet(s) \cup ToSet(t)
    BY <1>1, <1>2 DEF ToSet
<1>5. ToSet(s) \subseteq ToSet(s \o t)
    BY <1>1, <1>2 DEF ToSet
<1>6. ToSet(t) \subseteq ToSet(s \o t)
    <2> SUFFICES ASSUME NEW i \in 1 .. Len(t)
                 PROVE  t[i] \in ToSet(s \o t)
        BY SMTT(30) DEF ToSet
    <2>1. Len(s) + i \in 1 .. Len(s \o t)
        BY <1>1
    <2> QED
        BY <1>1, <1>3, <2>1, SMTT(30) DEF ToSet
<1> QED
    BY <1>1, <1>4, <1>5, <1>6

LEMMA ConcatInjective ==
    ASSUME NEW S, NEW s \in Seq(S), NEW t \in Seq(S),
           IsInjective(s), IsInjective(t), ToSet(s) \cap ToSet(t) = {}
    PROVE  IsInjective(s \o t)
<1> SUFFICES ASSUME NEW i \in 1 .. Len(s) + Len(t), NEW j \in 1 .. Len(s) + Len(t),
                    (s \o t)[i] = (s \o t)[j]
             PROVE  i = j
    BY DEF IsInjective
<1>1. \A a \in 1 .. Len(s), b \in 1 .. Len(t) : s[a] # t[b]
    BY SMTT(30) DEF ToSet
<1>2. CASE i <= Len(s) /\ j <= Len(s)
    BY <1>2 DEF IsInjective
<1>3. CASE i > Len(s) /\ j > Len(s)
    <2>1. t[i - Len(s)] = t[j - Len(s)]
        BY <1>3
    <2>2. i - Len(s) \in 1 .. Len(t) /\ j - Len(s) \in 1 .. Len(t)
        BY <1>3
    <2> QED
        BY <2>1, <2>2 DEF IsInjective
<1>4. CASE i <= Len(s) /\ j > Len(s)
    <2>1. i \in 1 .. Len(s) /\ j - Len(s) \in 1 .. Len(t) /\ s[i] = t[j - Len(s)]
        BY <1>4
    <2> QED
        BY <1>1, <2>1
<1>5. CASE i > Len(s) /\ j <= Len(s)
    <2>1. j \in 1 .. Len(s) /\ i - Len(s) \in 1 .. Len(t) /\ s[j] = t[i - Len(s)]
        BY <1>5
    <2> QED
        BY <1>1, <2>1
<1> QED
    BY <1>2, <1>3, <1>4, <1>5

\* Taking the head of a queue off.
LEMMA TailElements ==
    ASSUME NEW S, NEW s \in Seq(S), s # <<>>, IsInjective(s)
    PROVE  /\ Head(s) \in S
           /\ Tail(s) \in Seq(S)
           /\ ToSet(Tail(s)) = ToSet(s) \ {Head(s)}
           /\ IsInjective(Tail(s))
           /\ Head(s) \in ToSet(s)
<1>1. /\ Len(s) \in Nat \ {0} /\ Head(s) = s[1] /\ Tail(s) \in Seq(S)
      /\ Len(Tail(s)) = Len(s) - 1
    OBVIOUS
<1>2. \A i \in 1 .. Len(s) - 1 : Tail(s)[i] = s[i + 1]
    OBVIOUS
<1>3. \A i, j \in 1 .. Len(s) : s[i] = s[j] => i = j
    BY DEF IsInjective
<1>4. IsInjective(Tail(s))
    BY <1>1, <1>2, <1>3 DEF IsInjective
<1>5. ToSet(Tail(s)) \subseteq ToSet(s) \ {Head(s)}
    <2> SUFFICES ASSUME NEW i \in 1 .. Len(s) - 1
                 PROVE  Tail(s)[i] \in ToSet(s) \ {Head(s)}
        BY <1>1 DEF ToSet
    <2>1. i + 1 \in 1 .. Len(s) /\ i + 1 # 1 /\ 1 \in 1 .. Len(s)
        BY <1>1
    <2> QED
        BY <1>1, <1>2, <1>3, <2>1 DEF ToSet
<1>6. ToSet(s) \ {Head(s)} \subseteq ToSet(Tail(s))
    <2> SUFFICES ASSUME NEW i \in 1 .. Len(s), s[i] # s[1]
                 PROVE  s[i] \in ToSet(Tail(s))
        BY <1>1 DEF ToSet
    <2>1. i # 1 /\ i - 1 \in 1 .. Len(s) - 1
        BY <1>1
    <2>2. Tail(s)[i - 1] = s[(i - 1) + 1] /\ (i - 1) + 1 = i
        BY <1>2, <2>1
    <2>3. DOMAIN Tail(s) = 1 .. Len(s) - 1
        BY <1>1
    <2> QED
        BY <2>1, <2>2, <2>3 DEF ToSet
<1>7. Head(s) \in ToSet(s) /\ Head(s) \in S
    BY <1>1 DEF ToSet
<1> QED
    BY <1>1, <1>4, <1>5, <1>6, <1>7

\* Appending one new element.
LEMMA AppendElements ==
    ASSUME NEW S, NEW s \in Seq(S), NEW e \in S
    PROVE  /\ Append(s, e) \in Seq(S)
           /\ ToSet(Append(s, e)) = ToSet(s) \cup {e}
           /\ IsInjective(s) /\ e \notin ToSet(s) => IsInjective(Append(s, e))
<1>1. Append(s, e) \in Seq(S) /\ Len(Append(s, e)) = Len(s) + 1
    OBVIOUS
<1>2. \A i \in 1 .. Len(s) : Append(s, e)[i] = s[i]
    OBVIOUS
<1>3. Append(s, e)[Len(s) + 1] = e
    OBVIOUS
<1>4. ToSet(Append(s, e)) = ToSet(s) \cup {e}
    BY <1>1, <1>2, <1>3 DEF ToSet
<1>5. IsInjective(s) /\ e \notin ToSet(s) => IsInjective(Append(s, e))
    BY <1>1, <1>2, <1>3 DEF ToSet, IsInjective
<1> QED
    BY <1>1, <1>4, <1>5

\* Taking the element at i out: the others keep their order.
LEMMA RemoveAtFacts ==
    ASSUME NEW S, NEW s \in Seq(S), NEW i \in 1 .. Len(s)
    PROVE  LET r == RemoveAt(s, i) IN
           /\ r \in Seq(S) /\ Len(r) = Len(s) - 1 /\ DOMAIN r = 1 .. Len(s) - 1
           /\ \A j \in 1 .. Len(s) - 1 : r[j] = IF j < i THEN s[j] ELSE s[j + 1]
<1> DEFINE r == RemoveAt(s, i)
           a == SubSeq(s, 1, i - 1)
           b == SubSeq(s, i + 1, Len(s))
<1>1. r = a \o b
    BY DEF RemoveAt
<1>2. a \in Seq(S) /\ Len(a) = i - 1 /\ \A j \in 1 .. i - 1 : a[j] = s[j]
    OBVIOUS
<1>3. b \in Seq(S) /\ Len(b) = Len(s) - i /\ \A j \in 1 .. Len(s) - i : b[j] = s[i + j]
    OBVIOUS
<1> HIDE DEF a, b, r
<1>4. r \in Seq(S) /\ Len(r) = Len(s) - 1
    <2>1. a \in Seq(S) /\ b \in Seq(S)
        BY <1>2, <1>3
    <2>3. a \o b \in Seq(S) /\ Len(a \o b) = Len(a) + Len(b)
        BY <2>1
    <2>2. (i - 1) + (Len(s) - i) = Len(s) - 1
        OBVIOUS
    <2> QED
        BY <1>1, <1>2, <1>3, <2>2, <2>3
<1>5. ASSUME NEW j \in 1 .. Len(s) - 1
      PROVE  r[j] = IF j < i THEN s[j] ELSE s[j + 1]
    <2>1. CASE j < i
        <3>1. r[j] = a[j] /\ j \in 1 .. i - 1
            BY <1>1, <1>2, <1>3, <2>1
        <3> QED
            BY <1>2, <2>1, <3>1
    <2>2. CASE ~(j < i)
        <3>1. r[j] = b[j - (i - 1)] /\ j - (i - 1) \in 1 .. Len(s) - i
            BY <1>1, <1>2, <1>3, <2>2, SMTT(30)
        <3>2. i + (j - (i - 1)) = j + 1
            OBVIOUS
        <3> QED
            BY <1>3, <2>2, <3>1, <3>2
    <2> QED
        BY <2>1, <2>2
<1>6. DOMAIN r = 1 .. Len(s) - 1
    BY <1>4
<1> QED
    BY <1>4, <1>5, <1>6 DEF r

\* What remains are the elements at the other places, each once.
LEMMA RemoveAtPlaces ==
    ASSUME NEW S, NEW s \in Seq(S), NEW i \in DOMAIN s
    PROVE  LET r == RemoveAt(s, i) IN
           /\ r \in Seq(S)
           /\ \A j \in DOMAIN r : \E k \in DOMAIN s \ {i} : r[j] = s[k]
           /\ \A k \in DOMAIN s \ {i} : \E j \in DOMAIN r : r[j] = s[k]
           /\ \A j, k \in DOMAIN r : j # k =>
                 \E a, b \in DOMAIN s \ {i} : a # b /\ r[j] = s[a] /\ r[k] = s[b]
<1> DEFINE r == RemoveAt(s, i)
           From(j) == IF j < i THEN j ELSE j + 1
<1>1. DOMAIN s = 1 .. Len(s) /\ i \in 1 .. Len(s) /\ Len(s) \in Nat
    OBVIOUS
<1>2. /\ r \in Seq(S) /\ DOMAIN r = 1 .. Len(s) - 1
      /\ \A j \in 1 .. Len(s) - 1 : r[j] = s[From(j)]
    BY <1>1, RemoveAtFacts
<1> HIDE DEF r
<1>3. \A j \in DOMAIN r : From(j) \in DOMAIN s \ {i} /\ r[j] = s[From(j)]
    BY <1>1, <1>2
<1>4. \A j, k \in DOMAIN r : j # k => From(j) # From(k)
    BY <1>1, <1>2
<1>5. ASSUME NEW k \in DOMAIN s \ {i}
      PROVE  \E j \in DOMAIN r : r[j] = s[k]
    <2>1. CASE k < i
        <3>1. k \in 1 .. Len(s) - 1 /\ From(k) = k
            BY <1>1, <2>1
        <3> QED
            BY <1>2, <3>1
    <2>2. CASE ~(k < i)
        <3>1. k - 1 \in 1 .. Len(s) - 1 /\ From(k - 1) = k
            BY <1>1, <2>2
        <3> QED
            BY <1>2, <3>1
    <2> QED
        BY <2>1, <2>2
<1> HIDE DEF From
<1>6. \A j \in DOMAIN r : \E k \in DOMAIN s \ {i} : r[j] = s[k]
    BY <1>3
<1>7. \A j, k \in DOMAIN r : j # k =>
         \E a, b \in DOMAIN s \ {i} : a # b /\ r[j] = s[a] /\ r[k] = s[b]
    BY <1>3, <1>4
<1> QED
    BY <1>2, <1>5, <1>6, <1>7 DEF r

\* Taking an element out of a queue.
LEMMA RemoveAtElements ==
    ASSUME NEW S, NEW s \in Seq(S), IsInjective(s), NEW i \in DOMAIN s
    PROVE  /\ RemoveAt(s, i) \in Seq(S)
           /\ ToSet(RemoveAt(s, i)) = ToSet(s) \ {s[i]}
           /\ IsInjective(RemoveAt(s, i))
<1> DEFINE r == RemoveAt(s, i)
<1>1. /\ r \in Seq(S)
      /\ \A j \in DOMAIN r : \E k \in DOMAIN s \ {i} : r[j] = s[k]
      /\ \A k \in DOMAIN s \ {i} : \E j \in DOMAIN r : r[j] = s[k]
      /\ \A j, k \in DOMAIN r : j # k =>
            \E a, b \in DOMAIN s \ {i} : a # b /\ r[j] = s[a] /\ r[k] = s[b]
    BY RemoveAtPlaces
<1> HIDE DEF r
<1>2. IsInjective(r)
    BY <1>1 DEF IsInjective
<1>3. ToSet(r) = ToSet(s) \ {s[i]}
    BY <1>1 DEF ToSet, IsInjective
<1> QED
    BY <1>1, <1>2, <1>3 DEF r

-----------------------------------------------------------------------------
(* The scheduler                                                             *)

\* The inductive invariant: the processes that can run are either queued where
\* they belong, or the one that was dropped, and none is more urgent than the
\* process that runs.
SchedInv == ProcTypeOK /\ QueueSound /\ TopPriority /\ AtMostOneDropped

\* What schedule() expects when the states have become st: what is queued can
\* still run, and so can the idle process.
MayRun(st) ==
    /\ st \in [Procs -> States]
    /\ st[Idle] = "RUNNING"
    /\ \A t \in Types : \A p \in ToSet(ready[t]) : st[p] = "RUNNING"

\* The processes of type t that wait for the processor once states are st.
Ready(st, t) ==
    {p \in Procs \ {Idle, proc_current} : st[p] = "RUNNING" /\ ProcType[p] = t}

-----------------------------------------------------------------------------
\* The enumeration by pid lists each member once.
LEMMA PidOrderElements ==
    ASSUME NEW S \in SUBSET Procs, NEW s \in PidOrder(S)
    PROVE  /\ s \in Seq(Procs)
           /\ ToSet(s) = S
           /\ IsInjective(s)
<1>1. S \subseteq Nat /\ IsFiniteSet(S) /\ Cardinality(S) \in Nat
    BY ProcAssumption, FS_Subset, FS_CardinalityType
<1>2. s \in [1 .. Cardinality(S) -> S] /\ ToSet(s) = S
    BY DEF PidOrder
<1>3. s \in Seq(Procs)
    <2> DEFINE n == Cardinality(S)
    <2>1. n \in Nat /\ s \in [1 .. n -> Procs]
        BY <1>1, <1>2
    <2> HIDE DEF n
    <2> QED
        BY <2>1, SeqDef
<1>4. \A i, j \in DOMAIN s : i < j => s[i] < s[j]
    BY DEF PidOrder
<1>5. IsInjective(s)
    <2> SUFFICES ASSUME NEW i \in DOMAIN s, NEW j \in DOMAIN s, s[i] = s[j]
                 PROVE  i = j
        BY DEF IsInjective
    <2>1. i \in Nat /\ j \in Nat /\ s[i] \in Nat
        BY <1>3, ProcAssumption, SMTT(30)
    <2>2. ~(i < j) /\ ~(j < i)
        BY <1>4, <2>1
    <2> QED
        BY <2>1, <2>2
<1> QED
    BY <1>2, <1>3, <1>5

\* After add_running_proc() the queue of type t holds, once each, all processes
\* of the type that wait for the processor.
LEMMA AddRunningProcElements ==
    ASSUME ProcTypeOK, QueueSound, NEW st, MayRun(st),
           NEW t \in Types, NEW q \in AddRunningProc(st, t)
    PROVE  /\ q \in Seq(Procs)
           /\ ToSet(q) = Ready(st, t)
           /\ IsInjective(q)
<1>1. PICK s \in PidOrder(Newcomers(st, t)) : q = ready[t] \o s
    BY DEF AddRunningProc
<1>2. Newcomers(st, t) \in SUBSET Procs
    BY DEF Newcomers
<1>3. s \in Seq(Procs) /\ ToSet(s) = Newcomers(st, t) /\ IsInjective(s)
    BY <1>2, PidOrderElements
<1>4. ready[t] \in Seq(Procs) /\ IsInjective(ready[t])
    BY DEF ProcTypeOK, QueueSound
<1>5. ToSet(ready[t]) \cap ToSet(s) = {}
    BY <1>3 DEF Newcomers
<1>6. ToSet(ready[t]) \cup Newcomers(st, t) = Ready(st, t)
    BY DEF Newcomers, Ready, QueueSound, MayRun, Waiting
<1>7. q \in Seq(Procs) /\ ToSet(q) = ToSet(ready[t]) \cup ToSet(s)
    BY <1>1, <1>3, <1>4, ConcatElements
<1>8. IsInjective(q)
    BY <1>1, <1>3, <1>4, <1>5, ConcatInjective
<1> QED
    BY <1>3, <1>6, <1>7, <1>8

\* Putting a process back: it is queued, once, and at most the head is gone.
LEMMA RequeueElements ==
    ASSUME NEW q \in Seq(Procs), IsInjective(q), NEW p \in Procs, p \notin ToSet(q)
    PROVE  /\ Requeue(q, p) \in Seq(Procs)
           /\ IsInjective(Requeue(q, p))
           /\ ToSet(Requeue(q, p)) = (ToSet(q) \ {Head(q)}) \cup {p}
<1>1. CASE q = <<>>
    <2>1. Requeue(q, p) = <<p>> /\ ToSet(q) = {}
        BY <1>1 DEF Requeue, ToSet
    <2> QED
        BY <2>1 DEF ToSet, IsInjective
<1>2. CASE q # <<>>
    <2>1. Requeue(q, p) = Append(Tail(q), p)
        BY <1>2 DEF Requeue
    <2>2. /\ Tail(q) \in Seq(Procs)
          /\ ToSet(Tail(q)) = ToSet(q) \ {Head(q)}
          /\ IsInjective(Tail(q))
        BY <1>2, TailElements
    <2> DEFINE tail == Tail(q)
    <2>3. tail \in Seq(Procs) /\ IsInjective(tail) /\ p \notin ToSet(tail)
        BY <2>2
    <2> HIDE DEF tail
    <2>4. /\ Append(tail, p) \in Seq(Procs)
          /\ IsInjective(Append(tail, p))
          /\ ToSet(Append(tail, p)) = ToSet(tail) \cup {p}
        BY ONLY <2>3, AppendElements, p \in Procs
    <2> QED
        BY <2>1, <2>2, <2>4 DEF tail
<1> QED
    BY <1>1, <1>2

\* A queue with an element is not empty, and the other way round.
LEMMA EmptyQueue ==
    ASSUME NEW q \in Seq(Procs)
    PROVE  q = <<>> <=> ToSet(q) = {}
    BY DEF ToSet

\* One process is chosen: the queues after the choice and the requeueing.
LEMMA SwitchToInv ==
    ASSUME ProcTypeOK, QueueSound, NEW st, MayRun(st), state' = st,
           NEW q \in [Types -> Seq(Procs)],
           \A t \in Types : ToSet(q[t]) = Ready(st, t) /\ IsInjective(q[t]),
           SwitchTo(st, q)
    PROVE  SchedInv' /\ ~IdleWithWork'
<1>1. PICK t \in Eligible(st, q) :
          /\ \A u \in Eligible(st, q) : t <= u
          /\ proc_current' = Head(q[t])
          /\ counter' = COUNTER
          /\ LET popped == [q EXCEPT ![t] = Tail(@)] IN
             ready' = IF st[proc_current] = "RUNNING" /\ proc_current # Idle
                        THEN [popped EXCEPT ![ProcType[proc_current]] =
                                  Requeue(@, proc_current)]
                        ELSE popped
    BY DEF SwitchTo
<1> DEFINE n == Head(q[t])
           c == ProcType[proc_current]
           popped == [q EXCEPT ![t] = Tail(@)]
           again == st[proc_current] = "RUNNING" /\ proc_current # Idle
<1>2. t \in Types /\ q[t] # <<>> /\ t <= Flag(st)
    BY DEF Eligible
<1>3. n \in Ready(st, t)
    BY <1>2, TailElements
<1>4. proc_current \in Procs /\ c \in Types
    BY ProcAssumption DEF ProcTypeOK
<1>5. \A u \in Types :
          /\ popped[u] \in Seq(Procs)
          /\ IsInjective(popped[u])
          /\ ToSet(popped[u]) = Ready(st, u) \ {n}
    <2> SUFFICES ASSUME NEW u \in Types
                 PROVE  /\ popped[u] \in Seq(Procs)
                        /\ IsInjective(popped[u])
                        /\ ToSet(popped[u]) = Ready(st, u) \ {n}
        OBVIOUS
    <2>1. CASE u = t
        BY <1>2, <2>1, TailElements
    <2>2. CASE u # t
        BY <1>2, <1>3, <2>2 DEF Ready
    <2> QED
        BY <2>1, <2>2
<1>6. Head(popped[c]) \in ToSet(popped[c]) \/ popped[c] = <<>>
    BY <1>4, <1>5, TailElements
<1>7. \A u \in Types :
          /\ ready'[u] \in Seq(Procs)
          /\ IsInjective(ready'[u])
          /\ ToSet(ready'[u]) = IF again /\ u = c
                                  THEN (Ready(st, u) \ {n, Head(popped[c])}) \cup {proc_current}
                                  ELSE Ready(st, u) \ {n}
    <2> SUFFICES ASSUME NEW u \in Types
                 PROVE  /\ ready'[u] \in Seq(Procs)
                        /\ IsInjective(ready'[u])
                        /\ ToSet(ready'[u]) = IF again /\ u = c
                              THEN (Ready(st, u) \ {n, Head(popped[c])}) \cup {proc_current}
                              ELSE Ready(st, u) \ {n}
        OBVIOUS
    <2>1. CASE again /\ u = c
        <3>1. ready'[u] = Requeue(popped[u], proc_current)
            BY <1>1, <1>4, <2>1
        <3>2. proc_current \notin ToSet(popped[u])
            BY <1>5 DEF Ready
        <3> HIDE DEF popped, n, c, again
        <3>3. /\ ready'[u] \in Seq(Procs)
              /\ IsInjective(ready'[u])
              /\ ToSet(ready'[u]) = (ToSet(popped[u]) \ {Head(popped[u])}) \cup {proc_current}
            BY <1>4, <1>5, <3>1, <3>2, RequeueElements
        <3> QED
            BY <1>5, <2>1, <3>3
    <2>2. CASE ~(again /\ u = c)
        <3>1. ready'[u] = popped[u]
            BY <1>1, <1>2, <1>4, <2>2
        <3> QED
            BY <1>5, <2>2, <3>1
    <2> QED
        BY <2>1, <2>2
<1>8. ready' \in [Types -> Seq(Procs)]
    <2>1. DOMAIN ready' = Types /\ ready' = [u \in Types |-> ready'[u]]
        BY <1>1, <1>2, <1>4
    <2> QED
        BY <1>7, <2>1
<1>9. Waiting' = ((UNION {Ready(st, u) : u \in Types}) \ {n})
                   \cup (IF again THEN {proc_current} ELSE {})
    <2>1. n # Idle /\ n # proc_current
        BY <1>3 DEF Ready
    <2>2. Waiting' = {p \in Procs \ {Idle, n} : st[p] = "RUNNING"}
        BY <1>1 DEF Waiting
    <2>3. \A p \in Procs : ProcType[p] \in Types
        BY ProcAssumption
    <2> HIDE DEF n
    <2> QED
        BY <1>4, <2>1, <2>2, <2>3 DEF Ready
<1>10. again => t <= c
    BY <1>2 DEF Flag
<1>11. \A u \in Types : Ready(st, u) # {} /\ u <= Flag(st) => t <= u
    BY <1>1, EmptyQueue DEF Eligible
<1>12. Flag(st) \in Types
    BY <1>4 DEF Flag, Types
<1> HIDE DEF n, c, popped, again
<1>13. ProcTypeOK'
    <2>1. proc_current' \in Procs
        BY <1>1, <1>3 DEF Ready, n
    <2>2. counter' \in 0 .. COUNTER
        BY <1>1, ProcAssumption
    <2> QED
        BY <1>8, <2>1, <2>2 DEF ProcTypeOK, MayRun
<1>14. QueueSound'
    <2>1. \A u \in Types : ToSet(ready'[u]) \subseteq {p \in Waiting' : ProcType[p] = u}
        <3> SUFFICES ASSUME NEW u \in Types, NEW p \in ToSet(ready'[u])
                     PROVE  p \in Waiting' /\ ProcType[p] = u
            OBVIOUS
        <3>1. \/ p \in Ready(st, u) \ {n}
              \/ again /\ u = c /\ p = proc_current
            BY <1>7
        <3>2. CASE p \in Ready(st, u) \ {n}
            BY <1>9, <3>2 DEF Ready
        <3>3. CASE again /\ u = c /\ p = proc_current
            BY <1>9, <3>3 DEF c
        <3> QED
            BY <3>1, <3>2, <3>3
    <2>2. state'[proc_current'] = "RUNNING" /\ state'[Idle] = "RUNNING"
        BY <1>1, <1>3 DEF MayRun, Ready, n
    <2> QED
        BY <1>7, <2>1, <2>2 DEF QueueSound
<1>15. TopPriority'
    <2> SUFFICES ASSUME NEW p \in Waiting'
                 PROVE  ProcType[n] <= ProcType[p]
        BY <1>1 DEF TopPriority, n
    <2>1. ProcType[n] = t
        BY <1>3 DEF Ready
    <2>2. CASE again /\ p = proc_current
        BY <1>10, <2>1, <2>2 DEF c
    <2>3. CASE p \in Ready(st, ProcType[p]) /\ ProcType[p] \in Types
        BY <1>2, <1>11, <1>12, <2>1, <2>3 DEF Types
    <2> QED
        BY <1>9, <2>2, <2>3, ProcAssumption DEF Ready
<1>16. AtMostOneDropped'
    <2>1. \A p \in Waiting' : ~Queued(p)' => p = Head(popped[c])
        <3> SUFFICES ASSUME NEW p \in Waiting', p # Head(popped[c])
                     PROVE  p \in ToSet(ready'[ProcType[p]])
            BY DEF Queued
        <3>1. ProcType[p] \in Types
            BY ProcAssumption DEF Waiting
        <3>2. p \in Ready(st, ProcType[p]) \ {n} \/ (again /\ p = proc_current)
            BY <1>9 DEF Ready
        <3> QED
            BY <1>7, <3>1, <3>2 DEF c
    <2> QED
        BY <2>1 DEF AtMostOneDropped
<1>17. ~IdleWithWork'
    BY <1>1, <1>3 DEF IdleWithWork, Ready, n
<1> QED
    BY <1>13, <1>14, <1>15, <1>16, <1>17 DEF SchedInv

\* schedule() re-establishes the invariant, whatever the processes' new states,
\* and makes the processor idle only when nobody else can run.
LEMMA ScheduleInv ==
    ASSUME ProcTypeOK, QueueSound, NEW st, MayRun(st), Schedule(st)
    PROVE  SchedInv' /\ ~IdleWithWork'
<1>1. PICK q1 \in AddRunningProc(st, 1), q2 \in AddRunningProc(st, 2),
           q3 \in AddRunningProc(st, 3) :
        \/ KeepCurrent(st, <<q1, q2, q3>>)
        \/ RunIdle(st, <<q1, q2, q3>>)
        \/ SwitchTo(st, <<q1, q2, q3>>)
    BY DEF Schedule
<1> DEFINE q == <<q1, q2, q3>>
<1>2. state' = st
    BY DEF Schedule
<1>3. /\ q \in [Types -> Seq(Procs)]
      /\ \A t \in Types : ToSet(q[t]) = Ready(st, t) /\ IsInjective(q[t])
    <2>1. /\ q1 \in Seq(Procs) /\ ToSet(q1) = Ready(st, 1) /\ IsInjective(q1)
          /\ q2 \in Seq(Procs) /\ ToSet(q2) = Ready(st, 2) /\ IsInjective(q2)
          /\ q3 \in Seq(Procs) /\ ToSet(q3) = Ready(st, 3) /\ IsInjective(q3)
        BY AddRunningProcElements DEF Types
    <2> QED
        BY <2>1 DEF Types
<1> HIDE DEF q
<1>4. \A t \in Types : t \in Eligible(st, q) <=> t <= Flag(st) /\ Ready(st, t) # {}
    BY <1>3, EmptyQueue DEF Eligible
<1>5. ASSUME ready' = q, proc_current' \in {proc_current, Idle},
             st[proc_current'] = "RUNNING", counter' \in 0 .. COUNTER,
             proc_current' # proc_current => st[proc_current] # "RUNNING"
      PROVE  ProcTypeOK' /\ QueueSound' /\ AtMostOneDropped'
    <2>1. proc_current' \in Procs
        BY <1>5, ProcAssumption DEF ProcTypeOK
    <2>2. Waiting' = {p \in Procs \ {Idle, proc_current} : st[p] = "RUNNING"}
        BY <1>2, <1>5 DEF Waiting
    <2>3. ProcTypeOK'
        BY <1>2, <1>3, <1>5, <2>1 DEF ProcTypeOK, MayRun
    <2>4. QueueSound'
        BY <1>2, <1>3, <1>5, <2>2 DEF QueueSound, MayRun, Ready
    <2>5. \A p \in Waiting' : Queued(p)'
        <3> SUFFICES ASSUME NEW p \in Waiting'
                     PROVE  p \in ToSet(ready'[ProcType[p]])
            BY DEF Queued
        <3>1. ProcType[p] \in Types /\ p \in Ready(st, ProcType[p])
            BY <2>2, ProcAssumption DEF Ready
        <3> QED
            BY <1>3, <1>5, <3>1
    <2> QED
        BY <2>3, <2>4, <2>5 DEF AtMostOneDropped
<1>6. CASE KeepCurrent(st, q)
    <2>1. /\ ready' = q /\ proc_current' = proc_current
          /\ st[proc_current] = "RUNNING" /\ counter' \in 0 .. COUNTER
        BY <1>6, ProcAssumption DEF KeepCurrent
    <2>2. TopPriority'
        <3> SUFFICES ASSUME NEW p \in Waiting'
                     PROVE  ProcType[proc_current] <= ProcType[p]
            BY <2>1 DEF TopPriority
        <3>1. ProcType[p] \in Types /\ p \in Ready(st, ProcType[p])
            BY <1>2, <2>1, ProcAssumption DEF Ready, Waiting
        <3>2. ~(ProcType[p] <= ProcType[proc_current])
            BY <1>4, <1>6, <2>1, <3>1 DEF KeepCurrent, Flag
        <3> QED
            BY <3>1, <3>2, ProcAssumption DEF Types, ProcTypeOK
    <2>3. ~IdleWithWork'
        <3> SUFFICES ASSUME proc_current' = Idle, NEW p \in Waiting'
                     PROVE  FALSE
            BY DEF IdleWithWork
        <3>1. ProcType[p] \in Types /\ p \in Ready(st, ProcType[p])
            BY <1>2, <2>1, ProcAssumption DEF Ready, Waiting
        <3>2. Flag(st) = 3
            BY <2>1, ProcAssumption DEF Flag
        <3> QED
            BY <1>4, <1>6, <3>1, <3>2 DEF KeepCurrent, Types
    <2> QED
        BY <1>5, <2>1, <2>2, <2>3 DEF SchedInv
<1>7. CASE RunIdle(st, q)
    <2>1. /\ ready' = q /\ proc_current' = Idle
          /\ st[Idle] = "RUNNING" /\ counter' \in 0 .. COUNTER
        BY <1>7, ProcAssumption DEF RunIdle, MayRun
    <2>2. TopPriority'
        BY <2>1 DEF TopPriority
    <2>3. st[proc_current] # "RUNNING"
        BY <1>7 DEF RunIdle
    <2>4. ~IdleWithWork'
        <3> SUFFICES ASSUME NEW p \in Waiting'
                     PROVE  FALSE
            BY DEF IdleWithWork
        <3>1. p \in Procs \ {Idle, proc_current} /\ st[p] = "RUNNING"
            BY <1>2, <2>1, <2>3 DEF Waiting
        <3>2. ProcType[p] \in Types /\ p \in Ready(st, ProcType[p])
            BY <3>1, ProcAssumption DEF Ready
        <3>3. Flag(st) = 3
            BY <2>3 DEF Flag
        <3> QED
            BY <1>4, <1>7, <3>2, <3>3 DEF RunIdle, Types
    <2> QED
        BY <1>5, <2>1, <2>2, <2>3, <2>4 DEF SchedInv
<1>8. CASE SwitchTo(st, q)
    BY <1>2, <1>3, <1>8, SwitchToInv
<1> QED
    BY <1>1, <1>6, <1>7, <1>8 DEF q

\* The states in which the handlers call schedule() fit its expectations.
LEMMA HandlersMayRun ==
    ASSUME SchedInv
    PROVE  /\ MayRun(state)
           /\ proc_current # Idle => MayRun([state EXCEPT ![proc_current] = "SLEEPING"])
           /\ \A p \in Procs : MayRun([state EXCEPT ![p] = "RUNNING"])
<1>1. \A t \in Types : \A p \in ToSet(ready[t]) :
         p \in Procs /\ p # proc_current /\ state[p] = "RUNNING"
    BY DEF SchedInv, QueueSound, Waiting
<1> QED
    BY <1>1 DEF SchedInv, ProcTypeOK, QueueSound, MayRun, States

LEMMA SchedInit == ProcInit => SchedInv
<1> SUFFICES ASSUME ProcInit PROVE SchedInv
    OBVIOUS
<1>1. ProcTypeOK
    BY ProcAssumption DEF ProcInit, ProcTypeOK, States
<1>2. \A t \in Types : ready[t] = <<>> /\ ToSet(ready[t]) = {} /\ IsInjective(ready[t])
    BY DEF ProcInit, ToSet, IsInjective
<1>3. QueueSound
    BY <1>2, ProcAssumption DEF ProcInit, QueueSound
<1> QED
    BY <1>1, <1>3 DEF SchedInv, ProcInit, TopPriority, AtMostOneDropped

LEMMA SchedNext ==
    SchedInv /\ [ProcNext]_procVars => SchedInv' /\ (IdleWithWork' => IdleWithWork)
<1> SUFFICES ASSUME SchedInv, [ProcNext]_procVars
             PROVE  SchedInv' /\ (IdleWithWork' => IdleWithWork)
    OBVIOUS
<1>1. ProcTypeOK /\ QueueSound
    BY DEF SchedInv
<1>2. ASSUME UNCHANGED <<state, proc_current, ready>>, counter' \in 0 .. COUNTER
      PROVE  SchedInv' /\ (IdleWithWork' => IdleWithWork)
    BY <1>2 DEF SchedInv, ProcTypeOK, QueueSound, TopPriority, AtMostOneDropped,
                Waiting, Queued, IdleWithWork
<1>3. counter \in 0 .. COUNTER /\ COUNTER \in Nat
    BY ProcAssumption DEF SchedInv, ProcTypeOK
<1>4. CASE Tick
    <2>1. CASE counter > 1
        BY <1>2, <1>3, <1>4, <2>1 DEF Tick
    <2>2. CASE ~(counter > 1)
        BY <1>1, <1>4, <2>2, HandlersMayRun, ScheduleInv DEF Tick
    <2> QED
        BY <2>1, <2>2
<1>5. CASE KernelTick
    BY <1>2, <1>3, <1>5 DEF KernelTick
<1>6. CASE Block
    BY <1>1, <1>6, HandlersMayRun, ScheduleInv DEF Block
<1>7. CASE \E p \in Procs \ {Idle} : Wake(p)
    BY <1>1, <1>7, HandlersMayRun, ScheduleInv DEF Wake
<1>8. CASE Yield
    BY <1>1, <1>8, HandlersMayRun, ScheduleInv DEF Yield
<1>9. CASE UNCHANGED procVars
    BY <1>2, <1>3, <1>9 DEF procVars
<1> QED
    BY <1>4, <1>5, <1>6, <1>7, <1>8, <1>9 DEF ProcNext

-----------------------------------------------------------------------------
\* The scheduler's variables keep their types, and a time slice its bound.
THEOREM ProcTypeCorrect == ProcSpec => []ProcTypeOK
<1>1. SchedInv => ProcTypeOK
    BY DEF SchedInv
<1> QED
    BY SchedInit, SchedNext, <1>1, PTL DEF ProcSpec

\* The ready queues of schedule() and add_running_proc() only ever hold, once
\* and in the right queue, processes that can run and wait for the processor.
THEOREM QueuesSound == ProcSpec => []QueueSound
<1>1. SchedInv => QueueSound
    BY DEF SchedInv
<1> QED
    BY SchedInit, SchedNext, <1>1, PTL DEF ProcSpec

\* schedule() never leaves a process waiting behind a less urgent one.
THEOREM PriorityRespected == ProcSpec => []TopPriority
<1>1. SchedInv => TopPriority
    BY DEF SchedInv
<1> QED
    BY SchedInit, SchedNext, <1>1, PTL DEF ProcSpec

\* The requeueing of schedule() never has two processes missing at a time.
THEOREM DroppedBounded == ProcSpec => []AtMostOneDropped
<1>1. SchedInv => AtMostOneDropped
    BY DEF SchedInv
<1> QED
    BY SchedInit, SchedNext, <1>1, PTL DEF ProcSpec

\* After boot no step of the kernel leaves the processor idle with work to do.
THEOREM NeverIdleWithWork == ProcSpec => WorkConserving
<1> QED
    BY SchedInit, SchedNext, PTL DEF ProcSpec, WorkConserving
=============================================================================
