------------------------------- MODULE Links --------------------------------
(* The linked lists of kernel/messaging.c, pointer by pointer. A call walks one *)
(* list with two pointers, msg_p and, behind it, msg_t; it unlinks the entry it *)
(* stops at, or reaches the end and links an entry of its own to another list.  *)
(* Entries lie on the stacks of processes that sleep, or in msg_hardware[]: when *)
(* one is unlinked its memory is used again for something else.                 *)
(*                                                                              *)
(* Messaging has sequences in place of these lists. Here the sequences are a    *)
(* history variable, line, and the pointers are shown to agree with it.         *)
EXTENDS Integers, Sequences, SequencesExt, Functions

CONSTANTS
  Lists,  \* small_send, small_receive, big_send, big_receive
  Cells,  \* places of entries: one per process, and msg_hardware
  NULL

ASSUME LinksAssumption == NULL \notin Cells

VARIABLES
  head, tail,     \* per list: small_send_head, small_send_tail and so on
  next,           \* per cell
  pc,             \* "user", or "scan" in a call
  here, there,    \* the list a call walks, and the one it may link an entry to
  msg_p, msg_t,
  line            \* history: per list its entries, the first linked first

linkVars == <<head, tail, next>>
scanVars == <<pc, here, there, msg_p, msg_t>>
vars == <<linkVars, scanVars, line>>

\* msg_init()
Init ==
  /\ head = [l \in Lists |-> NULL] /\ tail = [l \in Lists |-> NULL]
  /\ next = [c \in Cells |-> NULL]
  /\ pc = "user" /\ here \in Lists /\ there \in Lists
  /\ msg_p = NULL /\ msg_t = NULL
  /\ line = [l \in Lists |-> <<>>]

\* The entries in use.
Linked == UNION {ToSet(line[l]) : l \in Lists}

-----------------------------------------------------------------------------
(* A call *)

Call(l, m) ==
  /\ pc = "user" /\ pc' = "scan"
  /\ here' = l /\ there' = m
  /\ msg_p' = head[l] /\ msg_t' = NULL
  /\ UNCHANGED <<linkVars, line>>

\* Faulty variant: the pointer behind is not moved on.
AdvanceAlone ==
  /\ pc = "scan" /\ msg_p # NULL
  /\ msg_p' = next[msg_p]
  /\ UNCHANGED <<linkVars, pc, here, there, msg_t, line>>
\* msg_p does not match.
Advance ==
  /\ pc = "scan" /\ msg_p # NULL
  /\ msg_t' = msg_p /\ msg_p' = next[msg_p]
  /\ UNCHANGED <<linkVars, pc, here, there, line>>

Without(s, c) ==
  IF c \in ToSet(s) THEN RemoveAt(s, CHOOSE i \in DOMAIN s : s[i] = c) ELSE s

\* Faulty variant: the tail keeps pointing to the entry that was the last.
UnlinkTailKept ==
  /\ pc = "scan" /\ msg_p # NULL
  /\ IF msg_t = NULL
     THEN head' = [head EXCEPT ![here] = next[msg_p]] /\ UNCHANGED next
     ELSE next' = [next EXCEPT ![msg_t] = next[msg_p]] /\ UNCHANGED head
  /\ pc' = "user"
  /\ line' = [line EXCEPT ![here] = Without(@, msg_p)]
  /\ UNCHANGED <<tail, here, there, msg_p, msg_t>>
\* msg_p matches: the entry leaves the list.
Unlink ==
  /\ pc = "scan" /\ msg_p # NULL
  /\ IF msg_t = NULL
     THEN head' = [head EXCEPT ![here] = next[msg_p]] /\ UNCHANGED next
     ELSE next' = [next EXCEPT ![msg_t] = next[msg_p]] /\ UNCHANGED head
  /\ tail' = IF next[msg_p] = NULL THEN [tail EXCEPT ![here] = msg_t] ELSE tail
  /\ pc' = "user"
  /\ line' = [line EXCEPT ![here] = Without(@, msg_p)]
  /\ UNCHANGED <<here, there, msg_p, msg_t>>

\* Faulty variant: any entry of msg_hardware is taken for free.
LinkUsed(c) ==
  /\ pc = "scan" /\ msg_p = NULL
  /\ IF head[there] = NULL
     THEN /\ head' = [head EXCEPT ![there] = c]
          /\ next' = [next EXCEPT ![c] = NULL]
     ELSE /\ next' = [next EXCEPT ![c] = NULL, ![tail[there]] = c]
          /\ UNCHANGED head
  /\ tail' = [tail EXCEPT ![there] = c]
  /\ pc' = "user"
  /\ line' = [line EXCEPT ![there] = Append(@, c)]
  /\ UNCHANGED <<here, there, msg_p, msg_t>>
\* There is no match, and nothing against waiting: the caller's entry, or a free
\* one of msg_hardware, becomes the last.
Link(c) ==
  /\ pc = "scan" /\ msg_p = NULL /\ c \in Cells \ Linked
  /\ IF head[there] = NULL
     THEN /\ head' = [head EXCEPT ![there] = c]
          /\ next' = [next EXCEPT ![c] = NULL]
     ELSE /\ next' = [next EXCEPT ![c] = NULL, ![tail[there]] = c]
          /\ UNCHANGED head
  /\ tail' = [tail EXCEPT ![there] = c]
  /\ pc' = "user"
  /\ line' = [line EXCEPT ![there] = Append(@, c)]
  /\ UNCHANGED <<here, there, msg_p, msg_t>>

\* The call fails, after scans of the lists that change nothing.
Refuse ==
  /\ pc = "scan" /\ msg_p = NULL /\ pc' = "user"
  /\ UNCHANGED <<linkVars, here, there, msg_p, msg_t, line>>

\* The memory of an entry that is in no list gets another content.
Reuse(c, x) ==
  /\ pc = "user" /\ c \notin Linked
  /\ next' = [next EXCEPT ![c] = x]
  /\ UNCHANGED <<head, tail, scanVars, line>>

Next ==
  \/ \E l, m \in Lists : Call(l, m)
  \/ Advance \/ Unlink \/ Refuse
  \/ \E c \in Cells : Link(c)
  \/ \E c \in Cells, x \in Cells \cup {NULL} : Reuse(c, x)

Spec == Init /\ [][Next]_vars

-----------------------------------------------------------------------------
(* Properties *)

\* Types; an entry is in one list, once.
TypeOK ==
  /\ head \in [Lists -> Cells \cup {NULL}] /\ tail \in [Lists -> Cells \cup {NULL}]
  /\ next \in [Cells -> Cells \cup {NULL}]
  /\ pc \in {"user", "scan"} /\ here \in Lists /\ there \in Lists
  /\ msg_p \in Cells \cup {NULL} /\ msg_t \in Cells \cup {NULL}
  /\ line \in [Lists -> Seq(Cells)]
  /\ \A l \in Lists : IsInjective(line[l])
  /\ \A l, m \in Lists : l # m => ToSet(line[l]) \cap ToSet(line[m]) = {}

\* The entry of s at i, NULL before the first and after the last.
At(s, i) == IF i \in DOMAIN s THEN s[i] ELSE NULL

\* Following the pointers from the head of a list gives its entries in the order in
\* which they were linked, and ends at its tail, whatever was unlinked before and
\* whatever has become of the memory of entries that are gone.
PointersAgree ==
  \A l \in Lists :
    /\ head[l] = At(line[l], 1)
    /\ tail[l] = At(line[l], Len(line[l]))
    /\ \A i \in DOMAIN line[l] : next[line[l][i]] = At(line[l], i + 1)

\* A scan is always at some entry, or just behind the last one, with msg_t one
\* behind: it misses none, ends behind the last, and what it unlinks is unlinked from its predecessor.
ScanInOrder ==
  pc = "scan" =>
    \E i \in 1 .. Len(line[here]) + 1 :
      msg_p = At(line[here], i) /\ msg_t = At(line[here], i - 1)
=============================================================================
