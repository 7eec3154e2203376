----------------------------- MODULE Rendezvous -----------------------------
(***************************************************************************)
(* What message passing promises to its callers, whatever the lists, the   *)
(* stack frames and the scheduler that implement it (kernel/messaging.c,   *)
(* lib/message.c).                                                         *)
(*                                                                         *)
(* A call that cannot be completed at once is posted.  A send and a        *)
(* receive that accept each other complete in one step: the message and    *)
(* its source reach the receiver, and both posts are gone.  Messages of    *)
(* interrupt handlers are posted too, each with a ticket of its own.       *)
(***************************************************************************)
EXTENDS Integers

CONSTANTS Procs,    \* processes
          Pids,     \* whom a call may name, processes or not
          Tickets,  \* how many messages of interrupt handlers can be posted
          Msgs, NoMsg,
          Any, Hardware

VARIABLES posted,   \* the calls that wait
          ret,      \* result of the last call of each process, 0 : waiting
          source,   \* the source a receiver named, then the one it got
          small,    \* the small message a receiver got
          page      \* the page in which big messages are sent and received

vars == <<posted, ret, source, small, page>>

Post(op, size, by, peer, msg, ticket) ==
    [op |-> op, size |-> size, by |-> by, peer |-> peer, msg |-> msg, ticket |-> ticket]

\* The posted receives of d that accept s; the posted sends to d that it
\* accepts when it names x.
Accepting(size, s, d) ==
    {r \in posted : r.op = "receive" /\ r.size = size /\ r.by = d /\ r.peer \in {s, Any}}
Offered(size, x, d) ==
    {r \in posted : r.op = "send" /\ r.size = size /\ r.peer = d /\ x \in {r.by, Any}}

Waiting(p) == \E r \in posted : r.by = p

Init ==
    /\ posted = {}
    /\ ret = [p \in Procs |-> 1]
    /\ source = [p \in Procs |-> Any]
    /\ small = [p \in Procs |-> NoMsg]
    /\ page = [p \in Procs |-> NoMsg]

\* A call fails: nothing is posted, nothing is received.
Refuse(p) ==
    /\ ~Waiting(p)
    /\ ret' = [ret EXCEPT ![p] = -1]
    /\ source' = [source EXCEPT ![p] = Any]
    /\ small' = [small EXCEPT ![p] = NoMsg]
    /\ UNCHANGED <<posted, page>>

\* s sends m to d, which waits for it ...
SendCompletes(size, s, d, m) ==
    \E r \in Accepting(size, s, d) :
        /\ ~Waiting(s)
        /\ posted' = posted \ {r}
        /\ ret' = [ret EXCEPT ![s] = 1, ![d] = 1]
        /\ source' = [source EXCEPT ![s] = Any, ![d] = s]
        /\ IF size = "small"
             THEN /\ small' = [small EXCEPT ![s] = NoMsg, ![d] = m]
                  /\ UNCHANGED page
             ELSE /\ page' = [page EXCEPT ![s] = m, ![d] = m]
                  /\ small' = [small EXCEPT ![s] = NoMsg]

\* ... or has to be waited for.
SendPosts(size, s, d, m) ==
    /\ ~Waiting(s)
    /\ Accepting(size, s, d) = {}
    /\ posted' = posted \cup {Post("send", size, s, d, m, 0)}
    /\ ret' = [ret EXCEPT ![s] = 0]
    /\ source' = [source EXCEPT ![s] = Any]
    /\ small' = [small EXCEPT ![s] = NoMsg]
    /\ page' = IF size = "big" THEN [page EXCEPT ![s] = m] ELSE page

\* An interrupt handler sends m to d.
HardwareCompletes(d, m) ==
    \E r \in Accepting("small", Hardware, d) :
        /\ posted' = posted \ {r}
        /\ ret' = [ret EXCEPT ![d] = 1]
        /\ source' = [source EXCEPT ![d] = Hardware]
        /\ small' = [small EXCEPT ![d] = m]
        /\ UNCHANGED page

HardwarePosts(d, m, t) ==
    /\ Accepting("small", Hardware, d) = {}
    /\ \A r \in posted : r.ticket # t
    /\ posted' = posted \cup {Post("send", "small", Hardware, d, m, t)}
    /\ UNCHANGED <<ret, source, small, page>>

\* d receives from x a message that has been posted ...
ReceiveCompletes(size, d, x) ==
    \E r \in Offered(size, x, d) :
        /\ ~Waiting(d)
        /\ posted' = posted \ {r}
        /\ ret' = [p \in Procs |-> IF p \in {d, r.by} THEN 1 ELSE ret[p]]
        /\ source' = [source EXCEPT ![d] = r.by]
        /\ IF size = "small"
             THEN small' = [small EXCEPT ![d] = r.msg] /\ UNCHANGED page
             ELSE page' = [page EXCEPT ![d] = r.msg] /\ small' = [small EXCEPT ![d] = NoMsg]

\* ... or has to wait for one.
ReceivePosts(size, d, x) ==
    /\ ~Waiting(d)
    /\ Offered(size, x, d) = {}
    /\ posted' = posted \cup {Post("receive", size, d, x, NoMsg, 0)}
    /\ ret' = [ret EXCEPT ![d] = 0]
    /\ source' = [source EXCEPT ![d] = x]
    /\ small' = [small EXCEPT ![d] = NoMsg]
    /\ UNCHANGED page

Next ==
    \/ \E p \in Procs : Refuse(p)
    \/ \E size \in {"small", "big"}, s \in Procs, d \in Pids, m \in Msgs :
          SendCompletes(size, s, d, m) \/ SendPosts(size, s, d, m)
    \/ \E size \in {"small", "big"}, d \in Procs, x \in Pids \cup {Any, Hardware} :
          ReceiveCompletes(size, d, x) \/ ReceivePosts(size, d, x)
    \/ \E d \in Pids, m \in Msgs :
          HardwareCompletes(d, m) \/ \E t \in Tickets : HardwarePosts(d, m, t)

Spec == Init /\ [][Next]_vars
=============================================================================
