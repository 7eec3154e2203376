----------------------------- MODULE Messaging ------------------------------
(***************************************************************************)
(* Message passing (kernel/messaging.c) on top of the scheduler.           *)
(*                                                                         *)
(* A call is made with int 0x80 by the running process; the kernel does    *)
(* not switch processes before the call reaches schedule(), so a call is   *)
(* one step.  A caller that must wait leaves an entry in one of four lists *)
(* and sleeps; the entry is a local variable of the call, so it lives as   *)
(* long as the caller sleeps in it.                                        *)
(*                                                                         *)
(* A receive entry holds pointers to the cells in which the receiver's ebx *)
(* (whom it receives from) and ecx (the small message) are saved: here it  *)
(* is the receiver's pid, and the cells are ebx[pid] and ecx[pid].  A big  *)
(* message is the page at the process' message buffer: page[pid] stands    *)
(* for what is mapped there, and share_page() makes two of them the same.  *)
(*                                                                         *)
(* A call loads both registers, and only a receive that succeeds leaves    *)
(* something in them that is read later (lib/message.c:44-49, 79-83), so a *)
(* process that sends, or whose call fails, has them as they are at first. *)
(***************************************************************************)
EXTENDS Proc

CONSTANTS NR_PROCS,        \* length of the table proc[]
          NR_MSG_HARDWARE, \* entries kept for messages of interrupt handlers
          Msgs             \* contents of messages

MSG_ANY == -1
MSG_HARDWARE == -2

\* An ecx cell, or a page, in which no message has been put.
NoMsg == "none"

ASSUME MessagingAssumption ==
    /\ NR_PROCS \in Nat
    /\ Procs \subseteq 0 .. NR_PROCS - 1
    /\ NR_MSG_HARDWARE \in Nat
    /\ NoMsg \notin Msgs

VARIABLES
    smallSend,     \* small_send_head .. small_send_tail
    smallReceive,  \* small_receive_head .. small_receive_tail
    bigSend,       \* big_send_head .. big_send_tail
    bigReceive,    \* big_receive_head .. big_receive_tail
    hwUsed,        \* the i with msg_hardware[i].src = MSG_HARDWARE
    eax,           \* result of the last call; 0 while the call is under way
    ebx,           \* saved ebx of a receive call: its source
    ecx,           \* saved ecx of a small receive: the message
    page           \* content of the page at the message buffer

listVars == <<smallSend, smallReceive, bigSend, bigReceive, hwUsed>>
cellVars == <<eax, ebx, ecx, page>>
msgVars == <<listVars, cellVars>>
vars == <<procVars, msgVars>>

Pids == 0 .. NR_PROCS - 1
HwSlots == 1 .. NR_MSG_HARDWARE

-----------------------------------------------------------------------------
(* The scans of the lists *)

\* Faulty variant: MSG_ANY is not recognised by a receive.
SendersNamed(ls, s, d) == {i \in DOMAIN ls : ls[i].dest = d /\ s = ls[i].src}

\* Entries of the send list ls that a receive by d from s accepts.
Senders(ls, s, d) ==
    {i \in DOMAIN ls : ls[i].dest = d /\ s \in {ls[i].src, MSG_ANY}}

\* Entries of the receive list lr that accept a message of s for d.
Receivers(lr, s, d) ==
    {i \in DOMAIN lr : lr[i] = d /\ ebx[lr[i]] \in {s, MSG_ANY}}

\* i is where a scan for an element of the set S of positions stops.
IsFirst(i, S) == i \in S /\ \A j \in S : i <= j

\* Process x waits in the send list ls for p, in the receive list lr for p.
SendsTo(ls, x, p) == \E i \in DOMAIN ls : ls[i].src = x /\ ls[i].dest = p
ReceivesFrom(lr, x, p) == \E i \in DOMAIN lr : lr[i] = x /\ ebx[x] = p

\* States after process p went to sleep, after it was woken.
Asleep(p) == [state EXCEPT ![p] = "SLEEPING"]
Awake(p) == [state EXCEPT ![p] = "RUNNING"]

\* Process p calls int 0x80; the idle process never does.
Calls(p) == p = proc_current /\ p # Idle

\* The cells as a call of p that receives nothing leaves them.
NoSource(p) == [ebx EXCEPT ![p] = MSG_ANY]
NoMessage(p) == [ecx EXCEPT ![p] = NoMsg]

\* The call of p returns -1, with the lists left as they are.
Fails(p) ==
    /\ eax' = [eax EXCEPT ![p] = -1]
    /\ ebx' = NoSource(p) /\ ecx' = NoMessage(p)
    /\ UNCHANGED <<procVars, listVars, page>>

\* Process p has left an entry in a list and sleeps.
Sleeps(p) ==
    /\ eax' = [eax EXCEPT ![p] = 0]
    /\ Schedule(Asleep(p))

\* Faulty variants: the sleeping process is not woken; it is, but schedule()
\* is not called.
MeetAsleep(p, r) ==
    /\ eax' = [eax EXCEPT ![p] = 1, ![r] = 1]
    /\ Schedule(state)
MeetUnscheduled(p, r) ==
    /\ eax' = [eax EXCEPT ![p] = 1, ![r] = 1]
    /\ state' = Awake(r)
    /\ UNCHANGED <<proc_current, ready, counter>>

\* The calls of the current process p and of the sleeping process r meet.
Meet(p, r) ==
    /\ eax' = [eax EXCEPT ![p] = 1, ![r] = 1]
    /\ Schedule(Awake(r))

-----------------------------------------------------------------------------
(* small_send: function 1, process s sends m to d *)

\* Faulty variant: the big send list is not scanned (messaging.c:91-97).
SmallSendRefusedUnscanned(s, d) ==
    SendsTo(smallSend, d, s) \/ ReceivesFrom(bigReceive, d, s)

\* d already waits for s, and not for this message.
SmallSendRefused(s, d) ==
    \/ SendsTo(smallSend, d, s)
    \/ SendsTo(bigSend, d, s)
    \/ ReceivesFrom(bigReceive, d, s)

\* Faulty variant: the entry stays in the list.
PutSmallKept(s, d, i) ==
    /\ IsFirst(i, Receivers(smallReceive, s, d))
    /\ UNCHANGED <<smallSend, smallReceive, bigSend, bigReceive, hwUsed, page>>

\* The message goes straight into the cells of the receiver waiting at i.
PutSmall(s, d, i) ==
    /\ IsFirst(i, Receivers(smallReceive, s, d))
    /\ smallReceive' = RemoveAt(smallReceive, i)
    /\ UNCHANGED <<smallSend, bigSend, bigReceive, hwUsed, page>>

SmallSendFails(s, d) ==
    /\ Calls(s)
    /\ \/ d = s
       \/ d \notin Pids
       \/ Receivers(smallReceive, s, d) = {} /\ SmallSendRefused(s, d)
    /\ Fails(s)

SmallSendMeets(s, d, m) ==
    /\ Calls(s) /\ d \in Pids \ {s}
    /\ \E i \in DOMAIN smallReceive : PutSmall(s, d, i)
    /\ ebx' = [NoSource(s) EXCEPT ![d] = s]
    /\ ecx' = [NoMessage(s) EXCEPT ![d] = m]
    /\ Meet(s, d)

SmallSendWaits(s, d, m) ==
    /\ Calls(s) /\ d \in Pids \ {s}
    /\ Receivers(smallReceive, s, d) = {} /\ ~SmallSendRefused(s, d)
    /\ smallSend' = Append(smallSend, [src |-> s, dest |-> d, msg |-> m, slot |-> 0])
    /\ ebx' = NoSource(s) /\ ecx' = NoMessage(s)
    /\ Sleeps(s)
    /\ UNCHANGED <<smallReceive, bigSend, bigReceive, hwUsed, page>>

\* small_send with src = MSG_HARDWARE, called by an interrupt handler (none of
\* the repository does it yet).  It never sleeps: its entry is the first free
\* one of msg_hardware.  With all of them in use nothing changes.
HardwareSendMeets(d, m) ==
    /\ \E i \in DOMAIN smallReceive : PutSmall(MSG_HARDWARE, d, i)
    /\ ebx' = [ebx EXCEPT ![d] = MSG_HARDWARE]
    /\ ecx' = [ecx EXCEPT ![d] = m]
    /\ eax' = [eax EXCEPT ![d] = 1]
    /\ Schedule(Awake(d))

HardwareSendQueues(d, m) ==
    /\ d \in Pids
    /\ Receivers(smallReceive, MSG_HARDWARE, d) = {}
    /\ ~SmallSendRefused(MSG_HARDWARE, d)
    /\ \E k \in HwSlots :
         /\ IsFirst(k, HwSlots \ hwUsed)
         /\ hwUsed' = hwUsed \cup {k}
         /\ smallSend' = Append(smallSend,
                [src |-> MSG_HARDWARE, dest |-> d, msg |-> m, slot |-> k])
    /\ Schedule(state)
    /\ UNCHANGED <<smallReceive, bigSend, bigReceive, cellVars>>

-----------------------------------------------------------------------------
(* small_receive: function 2, process d receives from x *)

SmallReceiveRefused(d, x) ==
    \/ ReceivesFrom(smallReceive, x, d)
    \/ SendsTo(bigSend, x, d)
    \/ ReceivesFrom(bigReceive, x, d)

\* Faulty variant: the head of the list is unlinked instead of entry i.
TakeSmallHead(d, x, i) ==
    /\ IsFirst(i, Senders(smallSend, x, d))
    /\ ecx' = [ecx EXCEPT ![d] = smallSend[i].msg]
    /\ ebx' = [ebx EXCEPT ![d] = smallSend[i].src]
    /\ smallSend' = Tail(smallSend)
    /\ UNCHANGED <<smallReceive, bigSend, bigReceive, page>>

\* The message of the first sender accepted, at i, goes into the cells of d.
TakeSmall(d, x, i) ==
    /\ IsFirst(i, Senders(smallSend, x, d))
    /\ ecx' = [ecx EXCEPT ![d] = smallSend[i].msg]
    /\ ebx' = [ebx EXCEPT ![d] = smallSend[i].src]
    /\ smallSend' = RemoveAt(smallSend, i)
    /\ UNCHANGED <<smallReceive, bigSend, bigReceive, page>>

\* Faulty variant: an upper bound one too high.
SmallSourcesBeyond == 0 .. NR_PROCS \cup {MSG_ANY, MSG_HARDWARE}

SmallSources == Pids \cup {MSG_ANY, MSG_HARDWARE}

SmallReceiveFails(d, x) ==
    /\ Calls(d)
    /\ \/ x = d
       \/ x \notin SmallSources
       \/ Senders(smallSend, x, d) = {} /\ SmallReceiveRefused(d, x)
    /\ Fails(d)

\* The sender is a process: it is woken.
SmallReceiveMeets(d, x) ==
    /\ Calls(d) /\ x \in SmallSources \ {d}
    /\ \E i \in DOMAIN smallSend :
         /\ TakeSmall(d, x, i)
         /\ smallSend[i].src # MSG_HARDWARE
         /\ Meet(d, smallSend[i].src)
    /\ UNCHANGED hwUsed

\* Faulty variant: the entry is not marked free (messaging.c:174).
SmallReceiveDrainsKept(d, x) ==
    /\ Calls(d) /\ x \in SmallSources \ {d}
    /\ \E i \in DOMAIN smallSend :
         /\ TakeSmall(d, x, i)
         /\ smallSend[i].src = MSG_HARDWARE
    /\ eax' = [eax EXCEPT ![d] = 1]
    /\ Schedule(state)
    /\ UNCHANGED hwUsed

\* The sender is an interrupt handler: its entry of msg_hardware becomes free.
SmallReceiveDrains(d, x) ==
    /\ Calls(d) /\ x \in SmallSources \ {d}
    /\ \E i \in DOMAIN smallSend :
         /\ TakeSmall(d, x, i)
         /\ smallSend[i].src = MSG_HARDWARE
         /\ hwUsed' = hwUsed \ {smallSend[i].slot}
    /\ eax' = [eax EXCEPT ![d] = 1]
    /\ Schedule(state)

SmallReceiveWaits(d, x) ==
    /\ Calls(d) /\ x \in SmallSources \ {d}
    /\ Senders(smallSend, x, d) = {} /\ ~SmallReceiveRefused(d, x)
    /\ smallReceive' = Append(smallReceive, d)
    /\ ebx' = [ebx EXCEPT ![d] = x]
    /\ ecx' = NoMessage(d)
    /\ Sleeps(d)
    /\ UNCHANGED <<smallSend, bigSend, bigReceive, hwUsed, page>>

-----------------------------------------------------------------------------
(* big_send: function 3, process s sends its message page, holding m, to d *)

\* d already waits for s.  The code compares the pointer `dest', not the pid it
\* points to, with the pids of the entries (messaging.c:264, 272, 280): an
\* address in the kernel never equals one, so no call is refused.
BigSendRefused(s, d) == FALSE

BigSendFails(s, d) ==
    /\ Calls(s)
    /\ \/ d = s
       \/ d \notin Pids
       \/ Receivers(bigReceive, s, d) = {} /\ BigSendRefused(s, d)
    /\ Fails(s)

\* share_page() maps the page of s at the buffer of the waiting receiver.
BigSendMeets(s, d, m) ==
    /\ Calls(s) /\ d \in Pids \ {s}
    /\ \E i \in DOMAIN bigReceive :
         /\ IsFirst(i, Receivers(bigReceive, s, d))
         /\ bigReceive' = RemoveAt(bigReceive, i)
    /\ page' = [page EXCEPT ![s] = m, ![d] = m]
    /\ ebx' = [NoSource(s) EXCEPT ![d] = s]
    /\ ecx' = NoMessage(s)
    /\ Meet(s, d)
    /\ UNCHANGED <<smallSend, smallReceive, bigSend, hwUsed>>

BigSendWaits(s, d, m) ==
    /\ Calls(s) /\ d \in Pids \ {s}
    /\ Receivers(bigReceive, s, d) = {} /\ ~BigSendRefused(s, d)
    /\ bigSend' = Append(bigSend, [src |-> s, dest |-> d])
    /\ page' = [page EXCEPT ![s] = m]
    /\ ebx' = NoSource(s) /\ ecx' = NoMessage(s)
    /\ Sleeps(s)
    /\ UNCHANGED <<smallSend, smallReceive, bigReceive, hwUsed>>

-----------------------------------------------------------------------------
(* big_receive: function 4, process d receives a page from x *)

\* Faulty variant: any small message for d counts as a wait of the peer.
BigReceiveRefusedAny(d, x) ==
    \/ \E i \in DOMAIN smallSend : smallSend[i].dest = d
    \/ ReceivesFrom(smallReceive, x, d)
    \/ ReceivesFrom(bigReceive, x, d)

BigReceiveRefused(d, x) ==
    \/ SendsTo(smallSend, x, d)
    \/ ReceivesFrom(smallReceive, x, d)
    \/ ReceivesFrom(bigReceive, x, d)

BigSources == Pids \cup {MSG_ANY}

BigReceiveFails(d, x) ==
    /\ Calls(d)
    /\ \/ x = d
       \/ x \notin BigSources
       \/ Senders(bigSend, x, d) = {} /\ BigReceiveRefused(d, x)
    /\ Fails(d)

BigReceiveMeets(d, x) ==
    /\ Calls(d) /\ x \in BigSources \ {d}
    /\ \E i \in DOMAIN bigSend :
         LET s == bigSend[i].src IN
         /\ IsFirst(i, Senders(bigSend, x, d))
         /\ page' = [page EXCEPT ![d] = page[s]]
         /\ ebx' = [ebx EXCEPT ![d] = s]
         /\ bigSend' = RemoveAt(bigSend, i)
         /\ Meet(d, s)
    /\ ecx' = NoMessage(d)
    /\ UNCHANGED <<smallSend, smallReceive, bigReceive, hwUsed>>

BigReceiveWaits(d, x) ==
    /\ Calls(d) /\ x \in BigSources \ {d}
    /\ Senders(bigSend, x, d) = {} /\ ~BigReceiveRefused(d, x)
    /\ bigReceive' = Append(bigReceive, d)
    /\ ebx' = [ebx EXCEPT ![d] = x]
    /\ ecx' = NoMessage(d)
    /\ Sleeps(d)
    /\ UNCHANGED <<smallSend, smallReceive, bigSend, hwUsed, page>>

-----------------------------------------------------------------------------
(* The kernel: the calls, interrupt handlers that send, and the clock *)

\* Operands a caller can pass for its peer: every pid, the two names, and a
\* value out of range on either side.
Operands == -3 .. NR_PROCS

Init ==
    /\ ProcInit
    /\ smallSend = <<>> /\ smallReceive = <<>>
    /\ bigSend = <<>> /\ bigReceive = <<>>
    /\ hwUsed = {}
    /\ eax = [p \in Procs |-> 1]  \* no call under way
    /\ ebx = [p \in Procs |-> MSG_ANY]
    /\ ecx = [p \in Procs |-> NoMsg]
    /\ page = [p \in Procs |-> NoMsg]

SmallSend(s, d, m) ==
    SmallSendFails(s, d) \/ SmallSendMeets(s, d, m) \/ SmallSendWaits(s, d, m)

SmallReceive(d, x) ==
    \/ SmallReceiveFails(d, x)
    \/ SmallReceiveMeets(d, x)
    \/ SmallReceiveDrains(d, x)
    \/ SmallReceiveWaits(d, x)

BigSend(s, d, m) ==
    BigSendFails(s, d) \/ BigSendMeets(s, d, m) \/ BigSendWaits(s, d, m)

BigReceive(d, x) ==
    BigReceiveFails(d, x) \/ BigReceiveMeets(d, x) \/ BigReceiveWaits(d, x)

HardwareSend(d, m) == HardwareSendMeets(d, m) \/ HardwareSendQueues(d, m)

\* do_intr_msg: what process p may ask for.
Call(p) ==
    \E x \in Operands :
        \/ SmallReceive(p, x)
        \/ BigReceive(p, x)
        \/ \E m \in Msgs : SmallSend(p, x, m) \/ BigSend(p, x, m)

Clock == (Tick \/ KernelTick) /\ UNCHANGED msgVars

Next ==
    \/ \E p \in Procs : Call(p)
    \/ \E d \in Pids, m \in Msgs : HardwareSend(d, m)
    \/ Clock

Spec == Init /\ [][Next]_vars /\ WF_vars(Tick /\ UNCHANGED msgVars)

-----------------------------------------------------------------------------
(* Properties *)

SmallEntry == [src : Pids, dest : Pids, msg : Msgs, slot : {0}]
HwEntry == [src : {MSG_HARDWARE}, dest : Pids, msg : Msgs, slot : HwSlots]
BigEntry == [src : Pids, dest : Pids]

\* Type of the variables of message passing.
MsgTypeOK ==
    /\ smallSend \in Seq(SmallEntry \cup HwEntry)
    /\ smallReceive \in Seq(Procs)
    /\ bigSend \in Seq(BigEntry)
    /\ bigReceive \in Seq(Procs)
    /\ hwUsed \subseteq HwSlots
    /\ eax \in [Procs -> {-1, 0, 1}]
    /\ ebx \in [Procs -> Pids \cup {MSG_ANY, MSG_HARDWARE}]
    /\ ecx \in [Procs -> Msgs \cup {NoMsg}]
    /\ page \in [Procs -> Msgs \cup {NoMsg}]

\* The processes with an entry in a send list.
Sending(ls) == {ls[i].src : i \in DOMAIN ls} \ {MSG_HARDWARE}

\* A process sleeps exactly when one of the four lists holds an entry of it,
\* which is also when its call has no result yet: no entry outlives the stack
\* frame it lives in, and no process sleeps where nobody can find it.
SleepersListed ==
    \A p \in Procs :
        /\ state[p] = "SLEEPING" <=>
              p \in Sending(smallSend) \cup Sending(bigSend)
                    \cup ToSet(smallReceive) \cup ToSet(bigReceive)
        /\ state[p] = "SLEEPING" <=> eax[p] = 0

\* And it holds only one: a process waits in one list, at one place.
ListedOnce ==
    /\ \A i, j \in DOMAIN smallSend :
          smallSend[i].src = smallSend[j].src /\ smallSend[i].src # MSG_HARDWARE => i = j
    /\ \A i, j \in DOMAIN bigSend : bigSend[i].src = bigSend[j].src => i = j
    /\ IsInjective(smallReceive)
    /\ IsInjective(bigReceive)
    /\ Sending(smallSend) \cap Sending(bigSend) = {}
    /\ ToSet(smallReceive) \cap ToSet(bigReceive) = {}
    /\ (Sending(smallSend) \cup Sending(bigSend))
          \cap (ToSet(smallReceive) \cup ToSet(bigReceive)) = {}

\* The entries of msg_hardware in use are those in the list, each one once:
\* none is lost, so the pool cannot run dry while messages are received.
HardwarePool ==
    /\ \A i \in DOMAIN smallSend :
          smallSend[i].src = MSG_HARDWARE <=> smallSend[i].slot \in hwUsed
    /\ \A k \in hwUsed : \E i \in DOMAIN smallSend : smallSend[i].slot = k
    /\ \A i, j \in DOMAIN smallSend :
          smallSend[i].slot = smallSend[j].slot /\ smallSend[i].slot # 0 => i = j

\* A message and a call that would receive it never both wait: whichever call
\* comes second, of any length of queue and of any wildcard, finds the first.
NoMissedRendezvous ==
    /\ \A i \in DOMAIN smallSend :
          Receivers(smallReceive, smallSend[i].src, smallSend[i].dest) = {}
    /\ \A i \in DOMAIN bigSend :
          Receivers(bigReceive, bigSend[i].src, bigSend[i].dest) = {}

\* p sleeps until q, and no other, makes the call that matches.
WaitsFor(p, q) ==
    \/ SendsTo(smallSend, p, q)
    \/ SendsTo(bigSend, p, q)
    \/ ReceivesFrom(smallReceive, p, q)
    \/ ReceivesFrom(bigReceive, p, q)

\* Each of p and q waits for the other: both sleep for ever.
Deadlocked(p, q) == WaitsFor(p, q) /\ WaitsFor(q, p)

\* The call that would complete a circle of two is refused, unless it is a
\* big_send: whatever p and q wait in, the entry that closes the circle is new
\* in the big send list.  (p < q: each pair once.)
MutualWaitOnlyByBigSend ==
    [][\A p, q \in Procs : p < q /\ ~Deadlocked(p, q) /\ Deadlocked(p, q)' =>
          \E x, y \in {p, q} : ~SendsTo(bigSend, x, y) /\ SendsTo(bigSend, x, y)'
      ]_vars

\* What the checks before each wait are for (messaging.c:83-105, 182-204,
\* 261-283, 339-361): no two processes wait for each other.
NoMutualWait == \A p, q \in Procs : ~Deadlocked(p, q)

\* Message passing puts to sleep, wakes and dispatches only as the scheduler's
\* specification allows.
ImplementsProc == ProcSpec

\* The calls that wait, as the callers see them: entries of the four lists.
Posted ==
    LET Post(op, size, by, peer, msg, ticket) ==
            [op |-> op, size |-> size, by |-> by, peer |-> peer, msg |-> msg,
             ticket |-> ticket]
    IN
    {Post("send", "small", smallSend[i].src, smallSend[i].dest, smallSend[i].msg,
          smallSend[i].slot) : i \in DOMAIN smallSend}
    \cup {Post("send", "big", bigSend[i].src, bigSend[i].dest, page[bigSend[i].src], 0) :
          i \in DOMAIN bigSend}
    \cup {Post("receive", "small", p, ebx[p], NoMsg, 0) : p \in ToSet(smallReceive)}
    \cup {Post("receive", "big", p, ebx[p], NoMsg, 0) : p \in ToSet(bigReceive)}

Promise == INSTANCE Rendezvous WITH
    Tickets <- HwSlots, Any <- MSG_ANY, Hardware <- MSG_HARDWARE,
    posted <- Posted, ret <- eax, source <- ebx, small <- ecx

\* A message and its source reach, once and unchanged, a receiver that asked
\* for them, in the step in which the sender's call is completed, although the
\* receiver's cells and the sender's page are written while they sleep.
ImplementsRendezvous == Promise!Spec
=============================================================================
