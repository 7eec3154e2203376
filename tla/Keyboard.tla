------------------------------ MODULE Keyboard ------------------------------
(* The keyboard driver, driver/character/keyboard.c: an interrupt per scan    *)
(* code, and a buffer of the shift keys that were pressed, whose head decides *)
(* the column of the keymap. buf, head and tail are the fields of kbd, the    *)
(* pointers as indexes. Around it a keyboard: keys go down, repeat while they *)
(* are held, and come up again.                                               *)
EXTENDS Naturals, FiniteSets

CONSTANTS
  KBD_BUF_SIZE,  \* entries of the buffer, 64 in the code
  Shifts,        \* the shift keys the keyboard has, SHIFT_L and SHIFT_R
  Keys           \* scan codes of its other keys

ASSUME KeyboardAssumption ==
  /\ KBD_BUF_SIZE \in Nat \ {0}
  /\ Shifts \subseteq Nat \ {0} /\ Keys \subseteq Nat
  /\ Shifts \cap Keys = {}

MAP_COL == 3
NO_SHIFT == 0
WITH_SHIFT == 1

VARIABLES
  buf,      \* kbd.buf
  head,     \* kbd.head - kbd.buf
  tail,     \* kbd.tail - kbd.buf
  printed,  \* the index of the keymap entry printed last
  typematic, \* whether the keyboard repeats a key that is held
  held,     \* the keys that are down
  last,     \* the key pressed last, the only one that repeats; 0 once it is up
  refused   \* history: a press was refused, of the shift keys down since then

kbd == <<buf, head, tail>>
vars == <<kbd, printed, typematic, held, last, refused>>

TypeOK ==
  /\ buf \in [0 .. KBD_BUF_SIZE - 1 -> Shifts \cup {0}]
  /\ tail \in 0 .. KBD_BUF_SIZE
  /\ head \in 0 .. tail
  /\ \A i \in head .. tail - 1 : buf[i] \in Shifts
  /\ printed \in Nat
  /\ held \subseteq Shifts \cup Keys
  /\ last \in held \cup {0}
  /\ typematic \in BOOLEAN /\ refused \in BOOLEAN

Init ==
  /\ buf = [i \in 0 .. KBD_BUF_SIZE - 1 |-> 0]
  /\ head = 0 /\ tail = 0
  /\ printed = 0
  /\ typematic \in BOOLEAN /\ held = {} /\ last = 0 /\ refused = FALSE

-----------------------------------------------------------------------------
(* The handler *)

Full == tail = KBD_BUF_SIZE

\* Faulty variant: the entries already taken out make room for new ones.
EnqueueCompacting(code) ==
  IF Full /\ head = 0 THEN UNCHANGED kbd
  ELSE /\ buf' = [i \in DOMAIN buf |-> CASE i + head < tail -> buf[i + head]
                                          [] i + head = tail -> code
                                          [] OTHER -> buf[i]]
       /\ tail' = tail - head + 1 /\ head' = 0
Enqueue(code) ==
  IF Full THEN UNCHANGED kbd
  ELSE /\ buf' = [buf EXCEPT ![tail] = code]
       /\ tail' = tail + 1
       /\ UNCHANGED head

\* Faulty variant: an empty queue is left where it is.
DequeueUnreset ==
  /\ head' = IF head = tail THEN head ELSE head + 1
  /\ UNCHANGED <<buf, tail>>
Dequeue ==
  /\ CASE tail = 0 -> UNCHANGED <<head, tail>>
       [] tail # 0 /\ head = tail -> head' = 0 /\ tail' = 0
       [] head # tail -> head' = head + 1 /\ UNCHANGED tail
  /\ UNCHANGED buf

HeadQueue == IF tail = head THEN 0 ELSE buf[head]

Column == IF HeadQueue \in Shifts THEN WITH_SHIFT ELSE NO_SHIFT

Make(code) ==
  IF code \in Shifts
  THEN Enqueue(code) /\ UNCHANGED printed
  ELSE printed' = code * MAP_COL + Column /\ UNCHANGED kbd

\* Faulty variant: of the shift keys only one counts when it comes up.
BreakOneSided(code) ==
  /\ IF code = CHOOSE s \in Shifts : \A t \in Shifts : s <= t THEN Dequeue ELSE UNCHANGED kbd
  /\ UNCHANGED printed
Break(code) ==
  /\ IF code \in Shifts THEN Dequeue ELSE UNCHANGED kbd
  /\ UNCHANGED printed

-----------------------------------------------------------------------------
(* The keyboard *)

Press(k) ==
  /\ k \notin held
  /\ held' = held \cup {k} /\ last' = k
  /\ Make(k)
  /\ refused' = (refused \/ (k \in Shifts /\ kbd' = kbd))
  /\ UNCHANGED typematic

Repeat ==
  /\ typematic /\ last # 0
  /\ Make(last)
  /\ UNCHANGED <<typematic, held, last, refused>>

Release(k) ==
  /\ k \in held
  /\ held' = held \ {k} /\ last' = IF last = k THEN 0 ELSE last
  /\ Break(k)
  /\ refused' = (refused /\ held' \cap Shifts # {})
  /\ UNCHANGED typematic

Next ==
  \/ \E k \in Shifts \cup Keys : Press(k) \/ Release(k)
  \/ Repeat

\* Someone goes on typing: shift keys are pressed again and again, none stays down.
Spec ==
  /\ Init /\ [][Next]_vars
  /\ \A s \in Shifts : WF_vars(Press(s)) /\ WF_vars(Release(s))

-----------------------------------------------------------------------------
(* Properties *)

ShiftsDown == held \cap Shifts

\* Shift follows the keys: as long as no key repeats, the buffer holds one press for
\* each shift key that is down, whichever of them come up first. After a press was
\* refused it may hold fewer, but never more, so shift does not stick, and it is
\* right again once all shift keys have come up.
ShiftFollows ==
  ~typematic => /\ tail - head <= Cardinality(ShiftsDown)
                /\ refused \/ tail - head = Cardinality(ShiftsDown)

\* Shift comes off, and the driver does not go deaf: however many presses a held key
\* piled up, someone who goes on typing finds the buffer empty again and again, with
\* its pointers back at the start. Presses and releases cancel out; that presses are
\* refused at the end of the buffer is what empties it.
ShiftComesOff == []<>(tail = 0)
=============================================================================
