-------------------------- MODULE InterruptProofs ---------------------------
(***************************************************************************)
(* Interrupts, for any set of processes and any depth of page faults: the  *)
(* lines in service are those whose handlers are at work, and processes    *)
(* are switched only from the outermost level with no line in service.     *)
(***************************************************************************)
EXTENDS Interrupt, Integers, FiniteSetTheorems, TLAPS

Frame == [kind : Kinds, at : Stages, user : BOOLEAN]

\* An activity that holds its line in service.
ClockOpen(f) == f.kind = "clock" /\ f.at = "entry"
KeyboardOpen(f) == f.kind = "keyboard" /\ f.at # "return"

\* The stack s of the process that runs, with the lines in service: only its
\* first activity interrupted user mode; a tick that is not ended is on top, for
\* nothing interrupts it; one key is at work at a time.
StackSound(s, lines) ==
    /\ \A i \in 1 .. Len(s) : s[i].user <=> i = 1
    /\ \A i \in 1 .. Len(s) : s[i].kind = "message" => i = 1
    /\ \A i \in 1 .. Len(s) : ClockOpen(s[i]) => i = Len(s)
    /\ \A i, j \in 1 .. Len(s) : KeyboardOpen(s[i]) /\ KeyboardOpen(s[j]) => i = j
    /\ Clock \in lines <=> \E i \in 1 .. Len(s) : ClockOpen(s[i])
    /\ Keyboard \in lines <=> \E i \in 1 .. Len(s) : KeyboardOpen(s[i])

\* The stack of a process that was switched out: one activity, about to return.
StackParked(s) ==
    \A i \in 1 .. Len(s) : i = 1 /\ s[i].user /\ s[i].at = "return"

InterruptInv ==
    /\ TypeOK
    /\ StackSound(stack[proc_current], isr)
    /\ \A p \in Procs \ {proc_current} : StackParked(stack[p])
    /\ \A i \in 1 .. Len(stack[0]) : stack[0][i].kind # "message"

-----------------------------------------------------------------------------
(* Stacks                                                                   *)

LEMMA LineNumbers == Clock # Keyboard /\ Lines = {Clock, Keyboard} /\ Clock < Keyboard
    /\ ~(Keyboard < Clock) /\ ~(Clock < Clock) /\ ~(Keyboard < Keyboard)
    BY DEF Clock, Keyboard, Lines

\* An activity of the kind k begins on the stack s.
LEMMA PushFacts ==
    ASSUME NEW s \in Seq(Frame), NEW k \in Kinds, NEW a \in Stages, NEW u \in BOOLEAN
    PROVE  LET t == Append(s, [kind |-> k, at |-> a, user |-> u]) IN
           /\ t \in Seq(Frame) /\ Len(t) = Len(s) + 1
           /\ \A i \in 1 .. Len(s) : t[i] = s[i]
           /\ t[Len(s) + 1] = [kind |-> k, at |-> a, user |-> u]
    BY DEF Frame

\* The innermost activity of s gets on to stage a.
LEMMA StageFacts ==
    ASSUME NEW s \in Seq(Frame), NEW a \in Stages, NEW n, n = Len(s), n # 0
    PROVE  LET t == [s EXCEPT ![n].at = a] IN
           /\ t \in Seq(Frame) /\ Len(t) = n
           /\ \A i \in 1 .. n - 1 : t[i] = s[i]
           /\ t[n].at = a /\ t[n].kind = s[n].kind /\ t[n].user = s[n].user
<1> DEFINE t == [s EXCEPT ![n].at = a]
<1>1. n \in Nat \ {0} /\ s \in [1 .. n -> Frame] /\ s[n] \in Frame
    OBVIOUS
<1>2. [s[n] EXCEPT !.at = a] \in Frame
    BY <1>1 DEF Frame
<1>3. /\ DOMAIN t = 1 .. n
      /\ \A i \in 1 .. n - 1 : t[i] = s[i]
      /\ t[n] = [s[n] EXCEPT !.at = a]
    BY <1>1
<1>4. \A i \in 1 .. n : t[i] \in Frame
    BY <1>1, <1>2, <1>3
<1>5. t \in Seq(Frame) /\ Len(t) = n
    BY <1>1, <1>2
<1>6. t[n].at = a /\ t[n].kind = s[n].kind /\ t[n].user = s[n].user
    BY <1>1, <1>3 DEF Frame
<1> QED
    BY <1>3, <1>5, <1>6

LEMMA StagedStack ==
    ASSUME TypeOK, NEW a \in Stages, ~UserMode, Stage(a)
    PROVE  LET s == stack[proc_current]
               t == stack'[proc_current]
           IN
           /\ stack' \in [Procs -> Seq(Frame)]
           /\ \A p \in Procs \ {proc_current} : stack'[p] = stack[p]
           /\ Len(t) = Len(s) /\ Len(s) \in Nat \ {0} /\ Depth = Len(s)
           /\ \A i \in 1 .. Len(s) - 1 : t[i] = s[i]
           /\ t[Len(s)].at = a /\ t[Len(s)].kind = Top.kind
           /\ t[Len(s)].user = Top.user /\ Top = s[Len(s)]
<1> DEFINE s == stack[proc_current]
           t == [s EXCEPT ![Len(s)].at = a]
<1>1. stack \in [Procs -> Seq(Frame)] /\ proc_current \in Procs /\ s \in Seq(Frame)
    BY DEF TypeOK, Frame
<1>2. Len(s) \in Nat \ {0} /\ Depth = Len(s) /\ Top = s[Len(s)]
    BY <1>1 DEF UserMode, Depth, Top
<1>3. stack' = [stack EXCEPT ![proc_current] = t]
    BY DEF Stage, Depth
<1>4. /\ t \in Seq(Frame) /\ Len(t) = Len(s)
      /\ \A i \in 1 .. Len(s) - 1 : t[i] = s[i]
      /\ t[Len(s)].at = a /\ t[Len(s)].kind = s[Len(s)].kind
      /\ t[Len(s)].user = s[Len(s)].user
    BY <1>1, <1>2, StageFacts
<1> HIDE DEF t
<1>5. /\ stack' \in [Procs -> Seq(Frame)] /\ stack'[proc_current] = t
      /\ \A p \in Procs \ {proc_current} : stack'[p] = stack[p]
    BY <1>1, <1>3, <1>4
<1> QED
    BY <1>2, <1>4, <1>5

LEMMA PushedStack ==
    ASSUME TypeOK, NEW k \in Kinds, NEW a \in Stages, Push(k, a)
    PROVE  LET s == stack[proc_current]
               t == stack'[proc_current]
           IN
           /\ stack' \in [Procs -> Seq(Frame)]
           /\ \A p \in Procs \ {proc_current} : stack'[p] = stack[p]
           /\ Len(t) = Len(s) + 1 /\ Len(s) \in Nat
           /\ \A i \in 1 .. Len(s) : t[i] = s[i]
           /\ t[Len(t)].kind = k /\ t[Len(t)].at = a /\ (t[Len(t)].user <=> Len(s) = 0)
<1> DEFINE s == stack[proc_current]
           t == Append(s, [kind |-> k, at |-> a, user |-> UserMode])
<1>1. stack \in [Procs -> Seq(Frame)] /\ proc_current \in Procs /\ s \in Seq(Frame)
    BY DEF TypeOK, Frame
<1>2. Len(s) \in Nat /\ UserMode \in BOOLEAN /\ (UserMode <=> Len(s) = 0)
    BY <1>1 DEF UserMode, Depth
<1>3. stack' = [stack EXCEPT ![proc_current] = t]
    BY DEF Push
<1>4. /\ t \in Seq(Frame) /\ Len(t) = Len(s) + 1
      /\ \A i \in 1 .. Len(s) : t[i] = s[i]
      /\ t[Len(s) + 1] = [kind |-> k, at |-> a, user |-> UserMode]
    BY <1>1, <1>2, PushFacts
<1> HIDE DEF t
<1>5. /\ stack' \in [Procs -> Seq(Frame)] /\ stack'[proc_current] = t
      /\ \A p \in Procs \ {proc_current} : stack'[p] = stack[p]
    BY <1>1, <1>3, <1>4
<1> QED
    BY <1>1, <1>2, <1>4, <1>5

-----------------------------------------------------------------------------
(* What begins and what goes on keeps the running stack sound               *)

\* t is s with one more activity, the last.
IsPushed(s, t) ==
    /\ Len(s) \in Nat /\ Len(t) = Len(s) + 1
    /\ \A i \in 1 .. Len(s) : t[i] = s[i]
    /\ t[Len(t)].user <=> Len(s) = 0

\* While no tick waits to be ended, anything may begin: a call from user mode
\* only, a key only if none is at work.
LEMMA PushSound ==
    ASSUME NEW s, NEW t, NEW lines, NEW more,
           StackSound(s, lines), IsPushed(s, t), Clock \notin lines,
           t[Len(t)].kind = "message" => Len(s) = 0,
           KeyboardOpen(t[Len(t)]) => Keyboard \notin lines,
           Clock \in more <=> ClockOpen(t[Len(t)]),
           Keyboard \in more <=> Keyboard \in lines \/ KeyboardOpen(t[Len(t)])
    PROVE  StackSound(t, more)
<1> DEFINE n == Len(s)
           m == Len(t)
<1>1. /\ n \in Nat /\ m = n + 1 /\ \A i \in 1 .. n : t[i] = s[i]
      /\ t[m].user <=> n = 0
      /\ 1 .. m = 1 .. n \cup {m} /\ m \notin 1 .. n
    BY DEF IsPushed
<1>2. /\ \A i \in 1 .. n : s[i].user <=> i = 1
      /\ \A i \in 1 .. n : s[i].kind = "message" => i = 1
      /\ \A i, j \in 1 .. n : KeyboardOpen(s[i]) /\ KeyboardOpen(s[j]) => i = j
      /\ \A i \in 1 .. n : ~ClockOpen(s[i])
      /\ Keyboard \in lines <=> \E i \in 1 .. n : KeyboardOpen(s[i])
    BY DEF StackSound
<1> HIDE DEF n, m
<1>3. /\ \A i \in 1 .. m : t[i].user <=> i = 1
      /\ \A i \in 1 .. m : t[i].kind = "message" => i = 1
    BY <1>1, <1>2 DEF n, m
<1>4. \A i, j \in 1 .. m : KeyboardOpen(t[i]) /\ KeyboardOpen(t[j]) => i = j
    BY <1>1, <1>2 DEF m
<1>5. \A i \in 1 .. m : ClockOpen(t[i]) => i = m
    BY <1>1, <1>2
<1>6. /\ Clock \in more <=> \E i \in 1 .. m : ClockOpen(t[i])
      /\ Keyboard \in more <=> \E i \in 1 .. m : KeyboardOpen(t[i])
    BY <1>1, <1>2 DEF m
<1> QED
    BY <1>3, <1>4, <1>5, <1>6 DEF StackSound, m

\* t is s with its last activity further on.
IsStaged(s, t) ==
    /\ Len(s) \in Nat \ {0} /\ Len(t) = Len(s)
    /\ \A i \in 1 .. Len(s) - 1 : t[i] = s[i]
    /\ t[Len(s)].kind = s[Len(s)].kind /\ t[Len(s)].user = s[Len(s)].user

\* If a line is ended it is the line of that activity.
LEMMA StageSound ==
    ASSUME NEW s, NEW t, NEW lines, NEW less,
           StackSound(s, lines), IsStaged(s, t), ~ClockOpen(t[Len(s)]),
           KeyboardOpen(t[Len(s)]) => KeyboardOpen(s[Len(s)]),
           Clock \notin less,
           Keyboard \in less <=> /\ Keyboard \in lines
                                 /\ KeyboardOpen(s[Len(s)]) => KeyboardOpen(t[Len(s)])
    PROVE  StackSound(t, less)
<1> DEFINE n == Len(s)
<1>1. /\ n \in Nat \ {0} /\ Len(t) = n /\ \A i \in 1 .. n - 1 : t[i] = s[i]
      /\ t[n].kind = s[n].kind /\ t[n].user = s[n].user
      /\ 1 .. n = 1 .. n - 1 \cup {n} /\ n \notin 1 .. n - 1
    BY DEF IsStaged
<1>2. /\ \A i \in 1 .. n : s[i].user <=> i = 1
      /\ \A i \in 1 .. n : s[i].kind = "message" => i = 1
      /\ \A i, j \in 1 .. n : KeyboardOpen(s[i]) /\ KeyboardOpen(s[j]) => i = j
      /\ \A i \in 1 .. n : ClockOpen(s[i]) => i = n
      /\ Keyboard \in lines <=> \E i \in 1 .. n : KeyboardOpen(s[i])
    BY DEF StackSound
<1>3. /\ ~ClockOpen(t[n])
      /\ KeyboardOpen(t[n]) => KeyboardOpen(s[n])
      /\ Keyboard \in less <=> /\ Keyboard \in lines
                               /\ KeyboardOpen(s[n]) => KeyboardOpen(t[n])
    OBVIOUS
<1> HIDE DEF n
<1>4. /\ \A i \in 1 .. n : t[i].user <=> i = 1
      /\ \A i \in 1 .. n : t[i].kind = "message" => i = 1
    BY <1>1, <1>2
<1>5. \A i, j \in 1 .. n : KeyboardOpen(t[i]) /\ KeyboardOpen(t[j]) => i = j
    BY <1>1, <1>2, <1>3
<1>6. \A i \in 1 .. n : ~ClockOpen(t[i])
    BY <1>1, <1>2, <1>3
<1>7. Keyboard \in less <=> \E i \in 1 .. n : KeyboardOpen(t[i])
    BY <1>1, <1>2, <1>3
<1> QED
    BY <1>1, <1>4, <1>5, <1>6, <1>7 DEF StackSound

\* A process that is switched to finds its own activity, about to return.
LEMMA ParkedSound ==
    ASSUME NEW s \in Seq(Frame), StackParked(s)
    PROVE  StackSound(s, {})
<1>1. \A i \in 1 .. Len(s) : i = 1 /\ s[i].user /\ ~ClockOpen(s[i]) /\ ~KeyboardOpen(s[i])
    BY DEF StackParked, ClockOpen, KeyboardOpen
<1> QED
    BY <1>1 DEF StackSound

-----------------------------------------------------------------------------
(* The controller                                                           *)

\* The command ends the tick, if there is one, and else the key.
LEMMA EoiFacts ==
    ASSUME isr \subseteq Lines, Eoi
    PROVE  /\ isr' \subseteq Lines
           /\ Clock \in isr => isr' = isr \ {Clock}
           /\ isr = {Keyboard} => isr' = {}
<1>1. isr' = isr \ {CHOOSE l \in isr : \A m \in isr : l <= m}
    BY DEF Eoi
<1>2. CASE Clock \in isr
    <2>1. Clock \in isr /\ \A m \in isr : Clock <= m
        BY <1>2 DEF Lines, Clock, Keyboard
    <2>2. \A l \in isr : (\A m \in isr : l <= m) => l = Clock
        BY <1>2 DEF Lines, Clock, Keyboard
    <2>3. (CHOOSE l \in isr : \A m \in isr : l <= m) = Clock
        BY <2>1, <2>2
    <2> QED
        BY <1>1, <1>2, <2>3, LineNumbers
<1>3. CASE isr = {Keyboard}
    <2>1. \E l \in isr : \A m \in isr : l <= m
        BY <1>3 DEF Keyboard
    <2>2. (CHOOSE l \in isr : \A m \in isr : l <= m) \in isr
        BY <2>1
    <2> QED
        BY <1>1, <1>3, <2>2, LineNumbers
<1> QED
    BY <1>1, <1>2, <1>3

-----------------------------------------------------------------------------
(* The handlers                                                             *)

\* An activity begins in the process that runs.
LEMMA BeginInv ==
    ASSUME InterruptInv, NEW k \in Kinds, NEW a \in Stages, Push(k, a),
           proc_current' = proc_current, asleep' = asleep,
           irr' \subseteq Lines, isr' \subseteq Lines,
           Clock \notin isr,
           k = "message" => UserMode /\ proc_current # 0,
           k = "keyboard" /\ a # "return" => Keyboard \notin isr,
           Clock \in isr' <=> k = "clock" /\ a = "entry",
           Keyboard \in isr' <=> Keyboard \in isr \/ (k = "keyboard" /\ a # "return")
    PROVE  InterruptInv'
<1> DEFINE p == proc_current
           s == stack[p]
           t == stack'[p]
<1>1. TypeOK /\ p \in Procs
    BY DEF InterruptInv, TypeOK
<1>2. /\ stack' \in [Procs -> Seq(Frame)]
      /\ \A q \in Procs \ {p} : stack'[q] = stack[q]
      /\ Len(t) = Len(s) + 1 /\ Len(s) \in Nat
      /\ \A i \in 1 .. Len(s) : t[i] = s[i]
      /\ t[Len(t)].kind = k /\ t[Len(t)].at = a /\ (t[Len(t)].user <=> Len(s) = 0)
    BY <1>1, PushedStack
<1>3. UserMode => Len(s) = 0
    BY DEF UserMode, Depth
<1>4. StackSound(s, isr) /\ \A q \in Procs \ {p} : StackParked(stack[q])
    BY DEF InterruptInv
<1>5. \A i \in 1 .. Len(stack'[0]) : stack'[0][i].kind # "message"
    <2>1. \A i \in 1 .. Len(stack[0]) : stack[0][i].kind # "message"
        BY DEF InterruptInv
    <2>2. CASE p = 0
        <3>1. \A i \in 1 .. Len(t) : i \in 1 .. Len(s) \/ i = Len(t)
            BY <1>2
        <3> QED
            BY <1>2, <2>1, <2>2, <3>1
    <2>3. CASE p # 0
        <3>1. stack'[0] = stack[0]
            BY <1>2, <2>3, InterruptAssumption
        <3> QED
            BY <2>1, <3>1
    <2> QED
        BY <2>2, <2>3
<1>6. /\ ClockOpen(t[Len(t)]) <=> k = "clock" /\ a = "entry"
      /\ KeyboardOpen(t[Len(t)]) <=> k = "keyboard" /\ a # "return"
    BY <1>2 DEF ClockOpen, KeyboardOpen
<1>7. IsPushed(s, t)
    BY <1>2 DEF IsPushed
<1> HIDE DEF s, t
<1>8. StackSound(t, isr')
    BY <1>2, <1>3, <1>4, <1>6, <1>7, PushSound
<1>9. TypeOK'
    BY <1>1, <1>2 DEF TypeOK, Frame
<1> QED
    BY <1>2, <1>4, <1>5, <1>8, <1>9 DEF InterruptInv, t

\* The innermost activity of the process that runs goes on.
LEMMA GoOnInv ==
    ASSUME InterruptInv, NEW a \in Stages, ~UserMode, Stage(a),
           proc_current' = proc_current, asleep' \subseteq Procs \ {0},
           irr' \subseteq Lines, isr' \subseteq Lines,
           ~(Top.kind = "clock" /\ a = "entry"),
           Top.kind = "keyboard" /\ a # "return" => Top.at # "return",
           Clock \notin isr',
           Keyboard \in isr' <=> /\ Keyboard \in isr
                                 /\ KeyboardOpen(Top) => a # "return"
    PROVE  InterruptInv'
<1> DEFINE p == proc_current
           s == stack[p]
           t == stack'[p]
           n == Len(s)
<1>1. TypeOK /\ p \in Procs
    BY DEF InterruptInv, TypeOK
<1>2. /\ stack' \in [Procs -> Seq(Frame)]
      /\ \A q \in Procs \ {p} : stack'[q] = stack[q]
      /\ Len(t) = n /\ n \in Nat \ {0}
      /\ \A i \in 1 .. n - 1 : t[i] = s[i]
      /\ t[n].at = a /\ t[n].kind = Top.kind /\ t[n].user = Top.user /\ Top = s[n]
    BY <1>1, StagedStack
<1>3. StackSound(s, isr) /\ \A q \in Procs \ {p} : StackParked(stack[q])
    BY DEF InterruptInv
<1>4. \A i \in 1 .. Len(stack'[0]) : stack'[0][i].kind # "message"
    <2>1. \A i \in 1 .. Len(stack[0]) : stack[0][i].kind # "message"
        BY DEF InterruptInv
    <2>2. CASE p = 0
        <3>1. \A i \in 1 .. n : i \in 1 .. n - 1 \/ i = n
            BY <1>2
        <3> QED
            BY <1>2, <2>1, <2>2, <3>1
    <2>3. CASE p # 0
        <3>1. stack'[0] = stack[0]
            BY <1>2, <2>3, InterruptAssumption
        <3> QED
            BY <2>1, <3>1
    <2> QED
        BY <2>2, <2>3
<1>5. /\ ~ClockOpen(t[n])
      /\ KeyboardOpen(t[n]) => KeyboardOpen(s[n])
      /\ Keyboard \in isr' <=> /\ Keyboard \in isr
                               /\ KeyboardOpen(s[n]) => KeyboardOpen(t[n])
    BY <1>2 DEF ClockOpen, KeyboardOpen
<1>6. IsStaged(s, t)
    BY <1>2 DEF IsStaged
<1> HIDE DEF s, t
<1>7. StackSound(t, isr')
    BY <1>3, <1>5, <1>6, StageSound
<1>8. TypeOK'
    BY <1>1, <1>2 DEF TypeOK, Frame
<1> QED
    BY <1>2, <1>3, <1>4, <1>7, <1>8 DEF InterruptInv, t

\* An activity that interrupted user mode is alone; if it holds no line nobody
\* does.
LEMMA AloneFacts ==
    ASSUME InterruptInv, ~UserMode, Top.user \/ Top.kind = "message",
           ~ClockOpen(Top), ~KeyboardOpen(Top)
    PROVE  Depth = 1 /\ isr = {} /\ Top.user
<1> DEFINE s == stack[proc_current]
<1>1. s \in Seq(Frame) /\ isr \subseteq Lines
    BY DEF InterruptInv, TypeOK, Frame
<1>2. Depth = Len(s) /\ Len(s) \in Nat \ {0} /\ Top = s[Len(s)]
    BY <1>1 DEF UserMode, Depth, Top
<1>3. StackSound(s, isr)
    BY DEF InterruptInv
<1>4. Len(s) = 1 /\ Top.user
    <2> DEFINE n == Len(s)
    <2>1. n \in 1 .. n /\ Top = s[n]
        BY <1>2
    <2>2. (s[n].user <=> n = 1) /\ (s[n].kind = "message" => n = 1)
        BY <1>3, <2>1 DEF StackSound
    <2>3. s[n].user \/ s[n].kind = "message"
        BY <2>1
    <2> HIDE DEF n
    <2>4. n = 1 /\ s[n].user
        BY <2>2, <2>3
    <2> QED
        BY <2>1, <2>4 DEF n
<1>5. Clock \notin isr /\ Keyboard \notin isr
    BY <1>2, <1>3, <1>4 DEF StackSound
<1> QED
    BY <1>1, <1>2, <1>4, <1>5, LineNumbers

\* Such an activity calls schedule(): whatever process runs next, all of them
\* are about to return.
LEMMA SwitchInv ==
    ASSUME InterruptInv, ~UserMode, Stage("return"),
           Top.user \/ Top.kind = "message", ~ClockOpen(Top), ~KeyboardOpen(Top),
           proc_current' \in Procs, UNCHANGED <<irr, isr, asleep>>
    PROVE  InterruptInv'
<1> DEFINE p == proc_current
           s == stack[p]
           t == stack'[p]
           r == proc_current'
<1>1. TypeOK /\ p \in Procs /\ "return" \in Stages
    BY DEF InterruptInv, TypeOK, Stages
<1>2. /\ stack' \in [Procs -> Seq(Frame)]
      /\ \A q \in Procs \ {p} : stack'[q] = stack[q]
      /\ Len(t) = Len(s) /\ Len(s) \in Nat \ {0} /\ Depth = Len(s)
      /\ t[Len(s)].at = "return" /\ t[Len(s)].kind = Top.kind
      /\ t[Len(s)].user = Top.user /\ Top = s[Len(s)]
    BY <1>1, StagedStack
<1>3. Len(s) = 1 /\ isr = {} /\ Top.user
    <2>1. Depth = 1 /\ isr = {} /\ Top.user
        BY AloneFacts
    <2> QED
        BY <1>2, <2>1
<1>4. StackParked(t)
    <2>1. Len(t) = 1 /\ t[1].at = "return" /\ t[1].user = Top.user
        BY <1>2, <1>3
    <2>2. t[1].user
        BY <1>3, <2>1, Zenon
    <2>3. \A i \in 1 .. Len(t) : i = 1
        BY <2>1
    <2> HIDE DEF t
    <2> QED
        BY <2>1, <2>2, <2>3 DEF StackParked
<1>5. \A q \in Procs : StackParked(stack'[q])
    <2>1. \A q \in Procs \ {p} : StackParked(stack[q])
        BY DEF InterruptInv
    <2> QED
        BY <1>2, <1>4, <2>1
<1>6. StackSound(stack'[r], isr')
    <2>1. stack'[r] \in Seq(Frame) /\ StackParked(stack'[r]) /\ isr' = {}
        BY <1>2, <1>3, <1>5
    <2> QED
        BY <2>1, ParkedSound
<1>7. \A i \in 1 .. Len(stack'[0]) : stack'[0][i].kind # "message"
    <2>1. \A i \in 1 .. Len(stack[0]) : stack[0][i].kind # "message"
        BY DEF InterruptInv
    <2>2. CASE p = 0
        BY <1>2, <1>3, <2>1, <2>2
    <2>3. CASE p # 0
        <3>1. stack'[0] = stack[0]
            BY <1>2, <2>3, InterruptAssumption
        <3> QED
            BY <2>1, <3>1
    <2> QED
        BY <2>2, <2>3
<1>8. TypeOK'
    BY <1>1, <1>2 DEF TypeOK, Frame
<1> QED
    BY <1>5, <1>6, <1>7, <1>8 DEF InterruptInv

\* The innermost activity is over.
LEMMA ReturnInv ==
    ASSUME InterruptInv, Return
    PROVE  InterruptInv'
<1> DEFINE p == proc_current
           s == stack[p]
           n == Len(s)
           t == SubSeq(s, 1, n - 1)
<1>1. /\ TypeOK /\ p \in Procs /\ s \in Seq(Frame)
      /\ stack \in [Procs -> Seq(Frame)]
    BY DEF InterruptInv, TypeOK, Frame
<1>2. n \in Nat \ {0} /\ Depth = n /\ Top = s[n] /\ Top.at = "return"
    BY <1>1 DEF Return, UserMode, Depth, Top
<1>3. stack' = [stack EXCEPT ![p] = t] /\ UNCHANGED <<irr, isr, proc_current, asleep>>
    BY <1>2 DEF Return
<1>4. t \in Seq(Frame) /\ Len(t) = n - 1 /\ \A i \in 1 .. n - 1 : t[i] = s[i]
    BY <1>1, <1>2
<1>5. StackSound(s, isr) /\ \A q \in Procs \ {p} : StackParked(stack[q])
    BY DEF InterruptInv
<1>6. ~ClockOpen(s[n]) /\ ~KeyboardOpen(s[n])
    BY <1>2 DEF ClockOpen, KeyboardOpen
<1> HIDE DEF t
<1>7. /\ stack' \in [Procs -> Seq(Frame)] /\ stack'[p] = t
      /\ \A q \in Procs \ {p} : stack'[q] = stack[q]
    BY <1>1, <1>3, <1>4
<1>8. StackSound(t, isr)
    <2>1. 1 .. n = 1 .. n - 1 \cup {n} /\ n - 1 \in Nat
        BY <1>2
    <2> HIDE DEF n
    <2>2. /\ \A i \in 1 .. n - 1 : t[i].user <=> i = 1
          /\ \A i \in 1 .. n - 1 : t[i].kind = "message" => i = 1
          /\ \A i, j \in 1 .. n - 1 : KeyboardOpen(t[i]) /\ KeyboardOpen(t[j]) => i = j
        BY <1>4, <1>5, <2>1 DEF StackSound, n
    <2>3. \A i \in 1 .. n - 1 : ~ClockOpen(t[i])
        <3>1. \A i \in 1 .. n - 1 : i # n
            BY <1>2
        <3> QED
            BY <1>4, <1>5, <2>1, <3>1 DEF StackSound, n
    <2>4. /\ Clock \in isr <=> \E i \in 1 .. n - 1 : ClockOpen(t[i])
          /\ Keyboard \in isr <=> \E i \in 1 .. n - 1 : KeyboardOpen(t[i])
        BY <1>4, <1>5, <1>6, <2>1, <2>3 DEF StackSound, n
    <2> QED
        BY <1>4, <2>2, <2>3, <2>4 DEF StackSound
<1>9. \A i \in 1 .. Len(stack'[0]) : stack'[0][i].kind # "message"
    <2>1. \A i \in 1 .. Len(stack[0]) : stack[0][i].kind # "message"
        BY DEF InterruptInv
    <2>2. CASE p = 0
        BY <1>2, <1>4, <1>7, <2>1, <2>2
    <2>3. CASE p # 0
        <3>1. stack'[0] = stack[0]
            BY <1>7, <2>3, InterruptAssumption
        <3> QED
            BY <2>1, <3>1
    <2> QED
        BY <2>2, <2>3
<1>10. TypeOK'
    BY <1>1, <1>3, <1>7 DEF TypeOK, Frame
<1> QED
    BY <1>3, <1>5, <1>7, <1>8, <1>9, <1>10 DEF InterruptInv

-----------------------------------------------------------------------------
(* The actions                                                              *)

LEMMA InterruptInit == Init => InterruptInv
<1> SUFFICES ASSUME Init PROVE InterruptInv
    OBVIOUS
<1>1. /\ irr = {} /\ isr = {} /\ proc_current = 0 /\ asleep = {} /\ 0 \in Procs
      /\ stack = [p \in Procs |-> <<>>]
    BY InterruptAssumption DEF Init
<1>2. \A p \in Procs : stack[p] = <<>> /\ stack[p] \in Seq(Frame) /\ StackParked(stack[p])
    BY <1>1 DEF StackParked
<1>3. TypeOK
    BY <1>1, <1>2 DEF TypeOK, Frame
<1>4. StackSound(stack[proc_current], isr)
    BY <1>1, <1>2, ParkedSound
<1>5. \A i \in 1 .. Len(stack[0]) : stack[0][i].kind # "message"
    BY <1>1, <1>2
<1> QED
    BY <1>2, <1>3, <1>4, <1>5 DEF InterruptInv

\* In user mode no line is in service.
LEMMA UserFacts ==
    ASSUME InterruptInv, UserMode
    PROVE  isr = {}
<1>1. Len(stack[proc_current]) = 0 /\ isr \subseteq Lines
    BY DEF UserMode, Depth, InterruptInv, TypeOK
<1>2. Clock \notin isr /\ Keyboard \notin isr
    BY <1>1 DEF InterruptInv, StackSound
<1> QED
    BY <1>1, <1>2, LineNumbers

\* What the innermost activity says of the lines in service.
LEMMA TopFacts ==
    ASSUME InterruptInv, ~UserMode
    PROVE  /\ Clock \in isr <=> ClockOpen(Top)
           /\ KeyboardOpen(Top) => Keyboard \in isr
           /\ Top.kind = "message" => proc_current # 0
<1> DEFINE s == stack[proc_current]
           n == Len(s)
<1>1. s \in Seq(Frame) /\ proc_current \in Procs
    BY DEF InterruptInv, TypeOK, Frame
<1>2. n \in Nat \ {0} /\ Top = s[n] /\ n \in 1 .. n
    BY <1>1 DEF UserMode, Depth, Top
<1>3. /\ \A i \in 1 .. n : ClockOpen(s[i]) => i = n
      /\ Clock \in isr <=> \E i \in 1 .. n : ClockOpen(s[i])
      /\ Keyboard \in isr <=> \E i \in 1 .. n : KeyboardOpen(s[i])
    BY DEF InterruptInv, StackSound
<1>4. \A i \in 1 .. Len(stack[0]) : stack[0][i].kind # "message"
    BY DEF InterruptInv
<1>5. Top.kind = "message" => proc_current # 0
    BY <1>2, <1>4
<1> HIDE DEF n
<1> QED
    BY <1>2, <1>3, <1>5

LEMMA RaiseInv ==
    ASSUME InterruptInv, NEW l \in Lines, Raise(l)
    PROVE  InterruptInv'
<1>1. irr' = irr \cup {l} /\ UNCHANGED <<isr, proc_current, asleep, stack>>
    BY DEF Raise
<1> QED
    BY <1>1 DEF InterruptInv, TypeOK

LEMMA AcceptInv ==
    ASSUME InterruptInv, NEW l \in Lines, Accept(l)
    PROVE  InterruptInv'
<1>1. /\ irr \subseteq Lines /\ isr \subseteq Lines
      /\ \A m \in isr : l < m
      /\ irr' = irr \ {l} /\ isr' = isr \cup {l}
      /\ proc_current' = proc_current /\ asleep' = asleep
    BY DEF Accept, InterruptInv, TypeOK
<1>2. irr' \subseteq Lines /\ isr' \subseteq Lines /\ "entry" \in Stages
    BY <1>1 DEF Stages
<1>3. CASE l = Clock
    <2>1. Push("clock", "entry") /\ "clock" \in Kinds
        BY <1>3 DEF Accept, Kinds
    <2>2. Clock \notin isr /\ Clock \in isr' /\ (Keyboard \in isr' <=> Keyboard \in isr)
        BY <1>1, <1>3, LineNumbers
    <2> QED
        BY <1>1, <1>2, <2>1, <2>2, BeginInv
<1>4. CASE l = Keyboard
    <2>1. Push("keyboard", "entry") /\ "keyboard" \in Kinds
        BY <1>4, LineNumbers DEF Accept, Kinds
    <2>2. Clock \notin isr /\ Keyboard \notin isr /\ Clock \notin isr' /\ Keyboard \in isr'
        BY <1>1, <1>4, LineNumbers
    <2> QED
        BY <1>1, <1>2, <2>1, <2>2, BeginInv
<1> QED
    BY <1>3, <1>4, LineNumbers

\* Calls, faults and exceptions begin while no tick waits to be ended.
LEMMA EnterInv ==
    ASSUME InterruptInv, MessageCall \/ PageFault \/ Exception
    PROVE  InterruptInv'
<1>1. irr \subseteq Lines /\ isr \subseteq Lines
    BY DEF InterruptInv, TypeOK
<1>2. "entry" \in Stages /\ "work" \in Stages
      /\ "message" \in Kinds /\ "fault" \in Kinds /\ "exception" \in Kinds
    BY DEF Stages, Kinds
<1>3. CASE MessageCall
    <2>1. UserMode /\ proc_current # 0 /\ Push("message", "work")
          /\ irr' = irr /\ isr' = isr /\ proc_current' = proc_current /\ asleep' = asleep
        BY <1>3 DEF MessageCall
    <2>2. isr = {}
        BY <2>1, UserFacts
    <2> QED
        BY <1>1, <1>2, <2>1, <2>2, BeginInv
<1>4. CASE PageFault
    <2>1. Push("fault", "entry")
          /\ irr' = irr /\ isr' = isr /\ proc_current' = proc_current /\ asleep' = asleep
        BY <1>4 DEF PageFault
    <2>2. Clock \notin isr
        <3>1. CASE UserMode
            BY <3>1, UserFacts
        <3>2. CASE ~UserMode
            <4>1. Top.kind # "clock"
                BY <1>4, <3>2 DEF PageFault, InKernel
            <4> QED
                BY <3>2, <4>1, TopFacts DEF ClockOpen
        <3> QED
            BY <3>1, <3>2
    <2> QED
        BY <1>1, <1>2, <2>1, <2>2, BeginInv
<1>5. CASE Exception
    <2>1. UserMode /\ Push("exception", "work")
          /\ irr' = irr /\ isr' = isr /\ proc_current' = proc_current /\ asleep' = asleep
        BY <1>5 DEF Exception
    <2>2. isr = {}
        BY <2>1, UserFacts
    <2> QED
        BY <1>1, <1>2, <2>1, <2>2, BeginInv
<1> QED
    BY <1>3, <1>4, <1>5

\* An activity goes on and leaves the controller alone.
GoesOn(a) ==
    /\ ~UserMode /\ Stage(a) /\ a \in Stages /\ a # "entry"
    /\ irr' = irr /\ isr' = isr /\ proc_current' = proc_current
    /\ asleep' \subseteq Procs \ {0}
    /\ ~ClockOpen(Top)
    /\ Top.kind = "keyboard" => Top.at # "return" /\ a # "return"

LEMMA GoesOnInv ==
    ASSUME InterruptInv, NEW a, GoesOn(a)
    PROVE  InterruptInv'
<1>1. irr \subseteq Lines /\ isr \subseteq Lines
    BY DEF InterruptInv, TypeOK
<1>2. /\ a \in Stages /\ ~UserMode /\ Stage(a) /\ proc_current' = proc_current
      /\ asleep' \subseteq Procs \ {0} /\ irr' \subseteq Lines /\ isr' \subseteq Lines
      /\ isr' = isr /\ a # "entry"
    BY <1>1 DEF GoesOn
<1>3. Clock \notin isr
    BY TopFacts DEF GoesOn
<1>4. /\ Top.kind = "keyboard" /\ a # "return" => Top.at # "return"
      /\ KeyboardOpen(Top) => a # "return"
    BY DEF GoesOn, KeyboardOpen
<1> QED
    BY <1>2, <1>3, <1>4, GoOnInv

LEMMA ScheduleChooses ==
    ASSUME InterruptInv
    PROVE  Candidates(asleep) \subseteq Procs
    BY InterruptAssumption DEF Candidates, InterruptInv, TypeOK

LEMMA ClockInv ==
    ASSUME InterruptInv, DoIntrClock
    PROVE  InterruptInv'
<1>1. irr \subseteq Lines /\ isr \subseteq Lines /\ asleep \subseteq Procs \ {0}
    BY DEF InterruptInv, TypeOK
<1>2. "work" \in Stages /\ "return" \in Stages
    BY DEF Stages
<1>3. CASE ClockEoi
    <2>1. /\ ~UserMode /\ Top.kind = "clock" /\ Top.at = "entry" /\ Eoi /\ Stage("work")
          /\ irr' = irr /\ proc_current' = proc_current /\ asleep' = asleep
        BY <1>3 DEF ClockEoi, InKernel
    <2>2. Clock \in isr
        BY <2>1, TopFacts DEF ClockOpen
    <2>3. isr' = isr \ {Clock}
        BY <1>1, <2>1, <2>2, EoiFacts
    <2>4. Clock \notin isr' /\ isr' \subseteq Lines /\ (Keyboard \in isr' <=> Keyboard \in isr)
        BY <1>1, <2>3, LineNumbers
    <2>5. ~KeyboardOpen(Top) /\ Top.kind # "keyboard"
        BY <2>1 DEF KeyboardOpen
    <2> QED
        BY <1>1, <1>2, <2>1, <2>4, <2>5, GoOnInv
<1>4. ASSUME NEW over \in BOOLEAN, ClockSlice(over) PROVE InterruptInv'
    <2>1. /\ ~UserMode /\ Top.kind = "clock" /\ Top.at = "work" /\ Stage("return")
          /\ irr' = irr /\ isr' = isr /\ asleep' = asleep
        BY <1>4 DEF ClockSlice, InKernel
    <2>2. ~ClockOpen(Top) /\ ~KeyboardOpen(Top) /\ Top.kind # "keyboard"
        BY <2>1 DEF ClockOpen, KeyboardOpen
    <2>3. CASE over /\ Top.user
        <3>1. proc_current' \in Procs
            BY <1>4, <2>3, ScheduleChooses DEF ClockSlice
        <3> QED
            BY <2>1, <2>2, <2>3, <3>1, SwitchInv
    <2>4. CASE ~(over /\ Top.user)
        <3>1. proc_current' = proc_current
            BY <1>4, <2>4 DEF ClockSlice
        <3>2. GoesOn("return")
            BY <1>1, <1>2, <2>1, <2>2, <3>1 DEF GoesOn
        <3> QED
            BY <3>2, GoesOnInv
    <2> QED
        BY <2>3, <2>4
<1> QED
    BY <1>3, <1>4 DEF DoIntrClock

LEMMA KeyboardLineInv ==
    ASSUME InterruptInv, DoIntrKeyboard
    PROVE  InterruptInv'
<1>1. irr \subseteq Lines /\ isr \subseteq Lines /\ asleep \subseteq Procs \ {0}
    BY DEF InterruptInv, TypeOK
<1>2. "work" \in Stages /\ "eoi" \in Stages /\ "return" \in Stages
    BY DEF Stages
<1>3. CASE KeyboardStep("entry", "work")
    <2>1. GoesOn("work")
        BY <1>1, <1>2, <1>3 DEF KeyboardStep, InKernel, GoesOn, ClockOpen
    <2> QED
        BY <2>1, GoesOnInv
<1>4. CASE KeyboardStep("work", "eoi")
    <2>1. GoesOn("eoi")
        BY <1>1, <1>2, <1>4 DEF KeyboardStep, InKernel, GoesOn, ClockOpen
    <2> QED
        BY <2>1, GoesOnInv
<1>5. CASE KeyboardEoi("eoi", "return")
    <2>1. /\ ~UserMode /\ Top.kind = "keyboard" /\ Top.at = "eoi" /\ Eoi /\ Stage("return")
          /\ irr' = irr /\ proc_current' = proc_current /\ asleep' = asleep
        BY <1>5 DEF KeyboardEoi, InKernel
    <2>2. KeyboardOpen(Top) /\ ~ClockOpen(Top)
        BY <2>1 DEF KeyboardOpen, ClockOpen
    <2>3. isr = {Keyboard}
        BY <1>1, <2>1, <2>2, TopFacts, LineNumbers
    <2>4. isr' = {}
        BY <1>1, <2>1, <2>3, EoiFacts
    <2>5. Clock \notin isr' /\ Keyboard \notin isr' /\ isr' \subseteq Lines /\ irr' \subseteq Lines
        BY <1>1, <2>1, <2>4
    <2> QED
        BY <1>1, <1>2, <2>1, <2>2, <2>5, GoOnInv
<1> QED
    BY <1>3, <1>4, <1>5 DEF DoIntrKeyboard

LEMMA MessageInv ==
    ASSUME InterruptInv, DoIntrMsg
    PROVE  InterruptInv'
<1>1. asleep \subseteq Procs \ {0} /\ proc_current \in Procs
    BY DEF InterruptInv, TypeOK
<1>2. "schedule" \in Stages /\ "return" \in Stages
    BY DEF Stages
<1>3. ~UserMode /\ Top.kind = "message" /\ irr' = irr /\ isr' = isr
    BY DEF DoIntrMsg, InKernel
<1>4. ~ClockOpen(Top) /\ ~KeyboardOpen(Top) /\ Top.kind # "keyboard" /\ proc_current # 0
    BY <1>3, TopFacts DEF ClockOpen, KeyboardOpen
<1>5. CASE Top.at = "work"
    <2>1. proc_current' = proc_current /\ asleep' \subseteq Procs \ {0}
        BY <1>1, <1>4, <1>5 DEF DoIntrMsg, InKernel
    <2>2. Stage("return") \/ Stage("schedule")
        BY <1>5 DEF DoIntrMsg, InKernel
    <2>3. CASE Stage("return")
        <3>1. GoesOn("return")
            BY <1>2, <1>3, <1>4, <2>1, <2>3 DEF GoesOn
        <3> QED
            BY <3>1, GoesOnInv
    <2>4. CASE Stage("schedule")
        <3>1. GoesOn("schedule")
            BY <1>2, <1>3, <1>4, <2>1, <2>4 DEF GoesOn
        <3> QED
            BY <3>1, GoesOnInv
    <2> QED
        BY <2>2, <2>3, <2>4
<1>6. CASE Top.at # "work"
    <2>1. Stage("return") /\ proc_current' \in Candidates(asleep) /\ asleep' = asleep
        BY <1>6 DEF DoIntrMsg, InKernel
    <2>2. proc_current' \in Procs
        BY <2>1, ScheduleChooses
    <2> QED
        BY <1>3, <1>4, <2>1, <2>2, SwitchInv
<1> QED
    BY <1>5, <1>6

LEMMA OthersInv ==
    ASSUME InterruptInv, DoIntrPage \/ DoIntrException
    PROVE  InterruptInv'
<1>1. asleep \subseteq Procs \ {0} /\ "work" \in Stages /\ "return" \in Stages
    BY DEF InterruptInv, TypeOK, Stages
<1>2. /\ ~UserMode /\ (Top.kind = "fault" \/ Top.kind = "exception")
      /\ irr' = irr /\ isr' = isr /\ proc_current' = proc_current /\ asleep' = asleep
    BY DEF DoIntrPage, DoIntrException, InKernel
<1>3. Stage("work") \/ Stage("return")
    BY DEF DoIntrPage, DoIntrException
<1>4. ~ClockOpen(Top) /\ Top.kind # "keyboard"
    BY <1>2 DEF ClockOpen
<1>5. GoesOn("work") \/ GoesOn("return")
    BY <1>1, <1>2, <1>3, <1>4 DEF GoesOn
<1> QED
    BY <1>5, GoesOnInv

LEMMA InterruptNext == InterruptInv /\ [Next]_vars => InterruptInv'
<1> SUFFICES ASSUME InterruptInv, [Next]_vars PROVE InterruptInv'
    OBVIOUS
<1>1. ASSUME NEW l \in Lines, Raise(l) PROVE InterruptInv'
    BY <1>1, RaiseInv
<1>2. ASSUME NEW l \in Lines, Accept(l) PROVE InterruptInv'
    BY <1>2, AcceptInv
<1>3. CASE MessageCall \/ PageFault \/ Exception
    BY <1>3, EnterInv
<1>4. CASE DoIntrClock
    BY <1>4, ClockInv
<1>5. CASE DoIntrKeyboard
    BY <1>5, KeyboardLineInv
<1>6. CASE DoIntrMsg
    BY <1>6, MessageInv
<1>7. CASE DoIntrPage \/ DoIntrException
    BY <1>7, OthersInv
<1>8. CASE Return
    BY <1>8, ReturnInv
<1>9. CASE UNCHANGED vars
    BY <1>9 DEF vars, InterruptInv, TypeOK
<1>10. CASE Next
    BY <1>1, <1>2, <1>3, <1>4, <1>5, <1>6, <1>7, <1>8, <1>10 DEF Next, Handlers
<1> QED
    BY <1>9, <1>10

-----------------------------------------------------------------------------
(* The theorems                                                             *)

\* Handlers nest as the controller and the gates let them: the inductive
\* invariant of the module.
THEOREM InterruptInvariant == Spec => []InterruptInv
<1>1. Init /\ [][Next]_vars => []InterruptInv
    BY InterruptInit, InterruptNext, PTL
<1> QED
    BY <1>1, PTL DEF Spec

\* The stacks hold activities, and the idle process never sleeps, whatever
\* interrupts whom.
THEOREM InterruptTypes == Spec => []TypeOK
<1>1. InterruptInv => TypeOK
    BY DEF InterruptInv
<1> QED
    BY <1>1, InterruptInvariant, PTL

\* The activities of the kernel stacks, and those that hold their line.
LEMMA OpenActivities ==
    ASSUME InterruptInv, NEW p \in Procs, NEW i \in 1 .. Len(stack[p]),
           ClockOpen(stack[p][i]) \/ KeyboardOpen(stack[p][i])
    PROVE  p = proc_current
    BY DEF InterruptInv, StackParked, ClockOpen, KeyboardOpen

\* A line is in service exactly while a handler that has not ended it is on a
\* stack: the end-of-interrupt commands of the handlers (kernel/time.c,
\* driver/character/keyboard.c) never end another line.
THEOREM LinesHaveHandlers == Spec => []InServiceHasHandler
<1>1. InterruptInv => InServiceHasHandler
    <2> SUFFICES ASSUME InterruptInv PROVE InServiceHasHandler
        OBVIOUS
    <2> DEFINE F == UNION {{stack[p][i] : i \in 1 .. Len(stack[p])} : p \in Procs}
               G == {g \in F : \/ g.kind = "clock" /\ g.at = "entry"
                               \/ g.kind = "keyboard" /\ g.at # "return"}
               L == {IF f.kind = "clock" THEN Clock ELSE Keyboard : f \in G}
               s == stack[proc_current]
    <2>1. /\ isr \subseteq Lines /\ proc_current \in Procs
          /\ Clock \in isr <=> \E i \in 1 .. Len(s) : ClockOpen(s[i])
          /\ Keyboard \in isr <=> \E i \in 1 .. Len(s) : KeyboardOpen(s[i])
        BY DEF InterruptInv, TypeOK, StackSound
    <2>2. \A g \in G : \E i \in 1 .. Len(s) : g = s[i]
        <3> SUFFICES ASSUME NEW g \in G PROVE \E i \in 1 .. Len(s) : g = s[i]
            OBVIOUS
        <3>1. PICK p \in Procs : \E i \in 1 .. Len(stack[p]) : g = stack[p][i]
            OBVIOUS
        <3>2. PICK i \in 1 .. Len(stack[p]) : g = stack[p][i]
            BY <3>1
        <3>3. p = proc_current
            BY <3>2, OpenActivities DEF ClockOpen, KeyboardOpen
        <3> QED
            BY <3>2, <3>3
    <2>3. \A i \in 1 .. Len(s) : ClockOpen(s[i]) \/ KeyboardOpen(s[i]) => s[i] \in G
        BY <2>1 DEF ClockOpen, KeyboardOpen
    <2>4. \A g \in G : ClockOpen(g) \/ (KeyboardOpen(g) /\ g.kind # "clock")
        BY DEF ClockOpen, KeyboardOpen
    <2> HIDE DEF G, s
    <2>5. \A l \in L : l \in isr
        BY <2>1, <2>2, <2>4 DEF ClockOpen
    <2>6. ASSUME Clock \in isr PROVE Clock \in L
        <3>1. PICK i \in 1 .. Len(s) : ClockOpen(s[i])
            BY <2>1, <2>6
        <3> QED
            BY <2>3, <3>1 DEF ClockOpen
    <2>7. ASSUME Keyboard \in isr PROVE Keyboard \in L
        <3>1. PICK i \in 1 .. Len(s) : KeyboardOpen(s[i])
            BY <2>1, <2>7
        <3>2. s[i] \in G /\ s[i].kind # "clock"
            BY <2>3, <3>1 DEF KeyboardOpen
        <3> QED
            BY <3>2
    <2>8. isr = L
        BY <2>1, <2>5, <2>6, <2>7, LineNumbers
    <2> QED
        BY <2>8 DEF InServiceHasHandler, G
<1> QED
    BY <1>1, InterruptInvariant, PTL

\* do_intr_keyboard is not entered again before it is through with a key, on
\* whatever stacks handlers are at work.
THEOREM KeyboardOnce == Spec => []KeyboardNotReentered
<1>1. InterruptInv => KeyboardNotReentered
    <2> SUFFICES ASSUME InterruptInv PROVE KeyboardNotReentered
        OBVIOUS
    <2> DEFINE Open(p) == {<<p, i>> : i \in {j \in 1 .. Len(stack[p]) :
                 stack[p][j].kind = "keyboard" /\ stack[p][j].at # "return"}}
               K == UNION {Open(p) : p \in Procs}
    <2>1. \A k \in K : \E i \in 1 .. Len(stack[proc_current]) :
             k = <<proc_current, i>> /\ KeyboardOpen(stack[proc_current][i])
        <3> SUFFICES ASSUME NEW p \in Procs, NEW i \in 1 .. Len(stack[p]),
                            stack[p][i].kind = "keyboard" /\ stack[p][i].at # "return"
                     PROVE  p = proc_current /\ KeyboardOpen(stack[p][i])
            OBVIOUS
        <3>1. KeyboardOpen(stack[p][i])
            BY DEF KeyboardOpen
        <3> QED
            BY <3>1, OpenActivities
    <2>2. \A i, j \in 1 .. Len(stack[proc_current]) :
             KeyboardOpen(stack[proc_current][i]) /\ KeyboardOpen(stack[proc_current][j]) => i = j
        BY DEF InterruptInv, StackSound
    <2>3. KeyboardNotReentered <=> Cardinality(K) <= 1
        BY DEF KeyboardNotReentered
    <2> HIDE DEF K
    <2>4. \A k, m \in K : k = m
        BY <2>1, <2>2
    <2>5. CASE K = {}
        BY <2>3, <2>5, FS_EmptySet
    <2>6. CASE K # {}
        <3>1. PICK k : K = {k}
            BY <2>4, <2>6
        <3> QED
            BY <2>3, <3>1, FS_Singleton
    <2> QED
        BY <2>5, <2>6
<1> QED
    BY <1>1, InterruptInvariant, PTL

\* schedule() is only called from the outermost level, with no interrupt in
\* service (cpl, kernel/time.c): no handler is left half done on a stack.
THEOREM SwitchOutermost == Spec => SwitchesOutermost
<1>1. InterruptInv /\ [Next]_vars =>
        [proc_current' # proc_current => Depth = 1 /\ isr = {}]_vars
    <2> SUFFICES ASSUME InterruptInv, Next, proc_current' # proc_current
                 PROVE  Depth = 1 /\ isr = {}
        OBVIOUS
    <2>1. ~UserMode /\ (Top.user \/ Top.kind = "message") /\ ~ClockOpen(Top) /\ ~KeyboardOpen(Top)
        <3>1. \/ \E over \in BOOLEAN : ClockSlice(over) /\ over /\ Top.user
              \/ InKernel("message", "schedule")
            BY DEF Next, Raise, Accept, MessageCall, PageFault, Exception, Handlers,
                   DoIntrClock, ClockEoi, ClockSlice, DoIntrKeyboard, KeyboardStep,
                   KeyboardEoi, DoIntrMsg, DoIntrPage, DoIntrException, Return
        <3> QED
            BY <3>1 DEF ClockSlice, InKernel, ClockOpen, KeyboardOpen
    <2> QED
        BY <2>1, AloneFacts
<1> QED
    BY <1>1, InterruptInvariant, PTL DEF Spec, SwitchesOutermost
=============================================================================
