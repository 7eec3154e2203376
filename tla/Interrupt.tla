----------------------------- MODULE Interrupt -----------------------------
(* Interrupts: the gates of kernel/interrupt.c, the entry code of kernel/asm.s, *)
(* the interrupt controller as setup.asm programs it, and the handlers of the   *)
(* clock, the keyboard, page faults, message calls and exceptions as far as     *)
(* they end interrupts, let others in and switch processes. Every gate but that *)
(* of page faults leaves interrupts enabled.                                    *)
EXTENDS Naturals, Sequences, FiniteSets

CONSTANTS
  Procs,    \* pids; 0 is the idle process
  MaxNest   \* a page fault finds fewer activities than this on its kernel stack

ASSUME InterruptAssumption ==
  /\ Procs \subseteq Nat /\ IsFiniteSet(Procs) /\ 0 \in Procs
  /\ MaxNest \in Nat \ {0}

\* The lines that are not masked and have a device, the lower number first.
Clock == 0
Keyboard == 1
Lines == {Clock, Keyboard}

VARIABLES
  irr,           \* lines of the 8259A with a request
  isr,           \* lines in service
  proc_current,
  asleep,        \* processes that wait for a message
  stack          \* per process, what goes on in the kernel on its behalf, the
                 \* innermost last: its kind, how far it is, and the level it
                 \* interrupted (cpl # 0 in the code)

vars == <<irr, isr, proc_current, asleep, stack>>

Kinds == {"clock", "keyboard", "message", "fault", "exception"}
Stages == {"entry", "work", "eoi", "schedule", "return"}

TypeOK ==
  /\ irr \subseteq Lines /\ isr \subseteq Lines
  /\ proc_current \in Procs
  /\ asleep \subseteq Procs \ {0}
  /\ stack \in [Procs -> Seq([kind : Kinds, at : Stages, user : BOOLEAN])]

Init ==
  /\ irr = {} /\ isr = {}
  /\ proc_current = 0 /\ asleep = {}
  /\ stack = [p \in Procs |-> <<>>]

Depth == Len(stack[proc_current])
UserMode == Depth = 0
Top == stack[proc_current][Depth]
InKernel(kind, at) == ~UserMode /\ Top.kind = kind /\ Top.at = at

Push(kind, at) ==
  stack' = [stack EXCEPT ![proc_current] =
              Append(@, [kind |-> kind, at |-> at, user |-> UserMode])]
Stage(at) == stack' = [stack EXCEPT ![proc_current][Depth].at = at]

-----------------------------------------------------------------------------
(* The interrupt controller: not in automatic end-of-interrupt mode, so a line  *)
(* in service holds back itself and the lines after it; an end-of-interrupt     *)
(* command ends the first line in service.                                      *)

Eoi == isr' = isr \ {CHOOSE l \in isr : \A m \in isr : l <= m}

\* A page fault is entered with interrupts disabled, until do_intr_page says sti.
Enabled == ~InKernel("fault", "entry")

\* The handler of a tick is through before the clock, 10 ms later, ticks again.
TicksApart == \A i \in 1 .. Depth : stack[proc_current][i].kind # "clock"

\* A key follows another only when no handler of a key is just about to return.
KeysApart ==
  \A i \in 1 .. Depth :
    ~(stack[proc_current][i].kind = "keyboard" /\ stack[proc_current][i].at = "return")

Raise(l) ==
  /\ l \notin irr
  /\ l = Clock => Clock \notin isr /\ TicksApart
  /\ l = Keyboard => KeysApart
  /\ irr' = irr \cup {l}
  /\ UNCHANGED <<isr, proc_current, asleep, stack>>

Accept(l) ==
  /\ Enabled
  /\ l \in irr /\ \A m \in isr \cup (irr \ {l}) : l < m
  /\ irr' = irr \ {l} /\ isr' = isr \cup {l}
  /\ Push(IF l = Clock THEN "clock" ELSE "keyboard", "entry")
  /\ UNCHANGED <<proc_current, asleep>>

-----------------------------------------------------------------------------
(* The handlers *)

\* schedule() when the processes in S sleep: of those that can run it lets run
\* another, or the current one when the others are of a less urgent class; if none
\* can run, the idle process.
Candidates(S) ==
  LET able == Procs \ (S \cup {0}) IN
  IF able = {} THEN {0} ELSE able

Return ==
  /\ ~UserMode /\ Top.at = "return"
  /\ stack' = [stack EXCEPT ![proc_current] = SubSeq(@, 1, Depth - 1)]
  /\ UNCHANGED <<irr, isr, proc_current, asleep>>

ClockEoi ==
  /\ InKernel("clock", "entry")
  /\ Eoi /\ Stage("work")
  /\ UNCHANGED <<irr, proc_current, asleep>>

\* Faulty variant: the clock switches processes in the kernel as well.
ClockSlicePreempting(over) ==
  /\ InKernel("clock", "work")
  /\ Stage("return")
  /\ IF over THEN proc_current' \in Candidates(asleep) ELSE UNCHANGED proc_current
  /\ UNCHANGED <<irr, isr, asleep>>
ClockSlice(over) ==
  /\ InKernel("clock", "work")
  /\ Stage("return")
  /\ IF over /\ Top.user THEN proc_current' \in Candidates(asleep) ELSE UNCHANGED proc_current
  /\ UNCHANGED <<irr, isr, asleep>>

\* Faulty variant: the interrupt is ended on the way out.
DoIntrClockLate ==
  \/ \E over \in BOOLEAN :
       /\ InKernel("clock", "entry")
       /\ Stage("eoi")
       /\ IF over /\ Top.user THEN proc_current' \in Candidates(asleep) ELSE UNCHANGED proc_current
       /\ UNCHANGED <<irr, isr, asleep>>
  \/ /\ InKernel("clock", "eoi")
     /\ Eoi /\ Stage("return")
     /\ UNCHANGED <<irr, proc_current, asleep>>
DoIntrClock == ClockEoi \/ \E over \in BOOLEAN : ClockSlice(over)

KeyboardStep(from, to) ==
  /\ InKernel("keyboard", from) /\ Stage(to)
  /\ UNCHANGED <<irr, isr, proc_current, asleep>>
KeyboardEoi(from, to) ==
  /\ InKernel("keyboard", from) /\ Eoi /\ Stage(to)
  /\ UNCHANGED <<irr, proc_current, asleep>>

\* Faulty variant: the interrupt is ended before the key is dealt with.
DoIntrKeyboardEarly == KeyboardEoi("entry", "work") \/ KeyboardStep("work", "return")
DoIntrKeyboard ==
  KeyboardStep("entry", "work") \/ KeyboardStep("work", "eoi") \/ KeyboardEoi("eoi", "return")

\* A message call from user mode: it may wake a process or put the caller to sleep,
\* and then calls schedule(), or it fails and returns.
MessageCall ==
  /\ UserMode /\ proc_current # 0
  /\ Push("message", "work")
  /\ UNCHANGED <<irr, isr, proc_current, asleep>>

DoIntrMsg ==
  \/ /\ InKernel("message", "work")
     /\ \/ Stage("return") /\ UNCHANGED asleep
        \/ /\ Stage("schedule")
           /\ \/ asleep' = asleep \cup {proc_current}
              \/ \E p \in asleep : asleep' = asleep \ {p}
     /\ UNCHANGED <<irr, isr, proc_current>>
  \/ /\ InKernel("message", "schedule")
     /\ Stage("return")
     /\ proc_current' \in Candidates(asleep)
     /\ UNCHANGED <<irr, isr, asleep>>

\* Pages are missing for programs, for a message that is shared, and for the frames
\* that the page fault handler clears.
PageFault ==
  /\ UserMode \/ InKernel("message", "work") \/ InKernel("fault", "work")
  /\ Depth < MaxNest
  /\ Push("fault", "entry")
  /\ UNCHANGED <<irr, isr, proc_current, asleep>>

DoIntrPage ==
  /\ \/ InKernel("fault", "entry") /\ Stage("work")
     \/ InKernel("fault", "work") /\ Stage("return")
  /\ UNCHANGED <<irr, isr, proc_current, asleep>>

\* Exceptions and kernel calls print a line.
Exception ==
  /\ UserMode
  /\ Push("exception", "work")
  /\ UNCHANGED <<irr, isr, proc_current, asleep>>

DoIntrException ==
  /\ InKernel("exception", "work") /\ Stage("return")
  /\ UNCHANGED <<irr, isr, proc_current, asleep>>

Handlers == DoIntrClock \/ DoIntrKeyboard \/ DoIntrMsg \/ DoIntrPage \/ DoIntrException \/ Return

Next ==
  \/ \E l \in Lines : Raise(l) \/ Accept(l)
  \/ MessageCall \/ PageFault \/ Exception
  \/ Handlers

\* Neither the clock nor the keyboard is so fast that the handlers of both make no
\* progress in between; the clock ticks on; a request that the controller lets
\* through again and again is taken.
Spec ==
  /\ Init /\ [][Next]_vars
  /\ WF_vars(Handlers) /\ WF_vars(Raise(Clock))
  /\ SF_vars(DoIntrClock \/ (InKernel("clock", "return") /\ Return))
  /\ SF_vars(DoIntrKeyboard \/ (InKernel("keyboard", "return") /\ Return))
  /\ \A l \in Lines : SF_vars(Accept(l))

-----------------------------------------------------------------------------
(* Properties *)

\* When processes are switched the outgoing one is in the kernel for one thing only
\* and no interrupt is in service. An activity left half done in the middle of a
\* stack would go on with stale data much later, and a line in service would be
\* dead until the process runs again. This is also what lets a message call count
\* as one step in the modules on scheduling and messages.
SwitchesOutermost ==
  [][proc_current' # proc_current => Depth = 1 /\ isr = {}]_vars

\* The keyboard handler is not entered again before it is through with a key.
KeyboardNotReentered ==
  Cardinality(UNION {{<<p, i>> : i \in {j \in 1 .. Len(stack[p]) :
    stack[p][j].kind = "keyboard" /\ stack[p][j].at # "return"}} : p \in Procs}) <= 1

\* A line is in service exactly while a handler that has not ended it is on a
\* stack: none is ended twice, or by the handler of another line.
InServiceHasHandler ==
  isr = {IF f.kind = "clock" THEN Clock ELSE Keyboard :
           f \in {g \in UNION {{stack[p][i] : i \in 1 .. Len(stack[p])} : p \in Procs} :
                    \/ g.kind = "clock" /\ g.at = "entry"
                    \/ g.kind = "keyboard" /\ g.at # "return"}}

\* The clock does not stop, whatever process is switched to, and a key pressed is
\* dealt with.
Served ==
  /\ []<><<Accept(Clock)>>_vars
  /\ Keyboard \in irr ~> Keyboard \notin irr
=============================================================================
