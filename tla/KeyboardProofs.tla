--------------------------- MODULE KeyboardProofs ---------------------------
(***************************************************************************)
(* The keyboard driver, for a buffer of any length, any shift keys and any *)
(* other keys: its indexes stay in bounds, and shift follows the keys.     *)
(***************************************************************************)
EXTENDS Keyboard, Integers, FiniteSetTheorems, TLAPS

\* Besides what is to be proved: only so many keys are down.
KeyboardInv == TypeOK /\ IsFiniteSet(held) /\ ShiftFollows

LEMMA KeyboardInit == Init => KeyboardInv
<1> SUFFICES ASSUME Init PROVE KeyboardInv
    OBVIOUS
<1>1. head = 0 /\ tail = 0 /\ held = {} /\ KBD_BUF_SIZE \in Nat
    BY KeyboardAssumption DEF Init
<1>2. TypeOK
    <2>1. buf \in [0 .. KBD_BUF_SIZE - 1 -> Shifts \cup {0}]
        BY DEF Init
    <2>2. /\ tail \in 0 .. KBD_BUF_SIZE /\ head \in 0 .. tail
          /\ \A i \in head .. tail - 1 : buf[i] \in Shifts
        BY <1>1
    <2>3. /\ printed \in Nat /\ held \subseteq Shifts \cup Keys
          /\ last \in held \cup {0} /\ typematic \in BOOLEAN /\ refused \in BOOLEAN
        BY DEF Init
    <2> QED
        BY <2>1, <2>2, <2>3 DEF TypeOK
<1>3. IsFiniteSet(held) /\ Cardinality(ShiftsDown) = 0
    BY <1>1, FS_EmptySet DEF ShiftsDown
<1> QED
    BY <1>1, <1>2, <1>3 DEF KeyboardInv, ShiftFollows

\* What the handler does with a key: the indexes stay in bounds, the entries
\* between them are shift keys.
LEMMA BufferTyped ==
    ASSUME TypeOK, NEW k \in Shifts \cup Keys, Make(k) \/ Break(k)
    PROVE  /\ buf' \in [0 .. KBD_BUF_SIZE - 1 -> Shifts \cup {0}]
           /\ tail' \in 0 .. KBD_BUF_SIZE
           /\ head' \in 0 .. tail'
           /\ \A i \in head' .. tail' - 1 : buf'[i] \in Shifts
           /\ printed' \in Nat
<1>1. KBD_BUF_SIZE \in Nat \ {0} /\ head \in Nat /\ tail \in Nat /\ head <= tail
    BY KeyboardAssumption DEF TypeOK
<1>2. CASE UNCHANGED <<buf, head, tail, printed>>
    BY <1>2 DEF TypeOK
<1>3. CASE k \in Shifts /\ ~Full /\ Enqueue(k) /\ UNCHANGED printed
    <2>1. tail \in 0 .. KBD_BUF_SIZE - 1
        BY <1>1, <1>3 DEF Full, TypeOK
    <2> QED
        BY <1>1, <1>3, <2>1 DEF Enqueue, TypeOK
<1>4. CASE k \in Keys /\ printed' = k * MAP_COL + Column /\ UNCHANGED kbd
    <2>1. k \in Nat /\ MAP_COL \in Nat /\ Column \in Nat
        BY <1>4, KeyboardAssumption DEF MAP_COL, Column, WITH_SHIFT, NO_SHIFT
    <2>2. k * MAP_COL + Column \in Nat
        BY <2>1 DEF MAP_COL
    <2> QED
        BY <1>4, <2>2 DEF kbd, TypeOK
<1>5. CASE Dequeue /\ UNCHANGED printed
    <2>1. buf' = buf /\ printed' = printed
        BY <1>5 DEF Dequeue
    <2>2. CASE tail = 0
        BY <1>5, <2>1, <2>2 DEF Dequeue, TypeOK
    <2>3. CASE tail # 0 /\ head = tail
        <3>1. head' = 0 /\ tail' = 0
            BY <1>5, <2>3 DEF Dequeue
        <3>2. \A i \in 0 .. 0 - 1 : FALSE
            OBVIOUS
        <3> QED
            BY <1>1, <2>1, <3>1, <3>2 DEF TypeOK
    <2>4. CASE tail # 0 /\ head # tail
        <3>1. head' = head + 1 /\ tail' = tail
            BY <1>5, <2>4 DEF Dequeue
        <3>2. head + 1 \in 0 .. tail
            BY <1>1, <2>4
        <3>3. head + 1 .. tail - 1 \subseteq head .. tail - 1
            BY <1>1
        <3> QED
            BY <2>1, <3>1, <3>2, <3>3 DEF TypeOK
    <2> QED
        BY <2>2, <2>3, <2>4
<1>6. \/ UNCHANGED <<buf, head, tail, printed>>
      \/ k \in Shifts /\ ~Full /\ Enqueue(k) /\ UNCHANGED printed
      \/ k \in Keys /\ printed' = k * MAP_COL + Column /\ UNCHANGED kbd
      \/ Dequeue /\ UNCHANGED printed
    <2>1. CASE Make(k)
        BY <2>1 DEF Make, Enqueue, kbd
    <2>2. CASE Break(k)
        BY <2>2 DEF Break, kbd
    <2> QED
        BY <2>1, <2>2
<1> QED
    BY <1>2, <1>3, <1>4, <1>5, <1>6

LEMMA PressInv ==
    ASSUME KeyboardInv, NEW k \in Shifts \cup Keys, Press(k)
    PROVE  KeyboardInv'
<1>1. /\ k \notin held /\ held' = held \cup {k} /\ last' = k /\ Make(k)
      /\ refused' = (refused \/ (k \in Shifts /\ kbd' = kbd))
      /\ typematic' = typematic
    BY DEF Press
<1>2. TypeOK /\ IsFiniteSet(held) /\ head \in Nat /\ tail \in Nat /\ head <= tail
      /\ KBD_BUF_SIZE \in Nat \ {0}
    BY KeyboardAssumption DEF KeyboardInv, TypeOK
<1>3. TypeOK'
    BY <1>1, <1>2, BufferTyped DEF TypeOK
<1>4. IsFiniteSet(held')
    BY <1>1, <1>2, FS_AddElement
<1>5. IsFiniteSet(ShiftsDown) /\ Cardinality(ShiftsDown) \in Nat
    BY <1>2, FS_Subset, FS_CardinalityType DEF ShiftsDown
<1>6. ShiftFollows'
    <2> SUFFICES ASSUME ~typematic
                 PROVE  /\ tail' - head' <= Cardinality(ShiftsDown')
                        /\ refused' \/ tail' - head' = Cardinality(ShiftsDown')
        BY <1>1 DEF ShiftFollows
    <2>1. /\ tail - head <= Cardinality(ShiftsDown)
          /\ refused \/ tail - head = Cardinality(ShiftsDown)
        BY DEF KeyboardInv, ShiftFollows
    <2>2. CASE k \in Shifts
        <3>1. ShiftsDown' = ShiftsDown \cup {k} /\ k \notin ShiftsDown
            BY <1>1, <2>2 DEF ShiftsDown
        <3>2. Cardinality(ShiftsDown') = Cardinality(ShiftsDown) + 1
            BY <1>5, <3>1, FS_AddElement
        <3>3. CASE Full
            <4>1. kbd' = kbd /\ tail' = tail /\ head' = head
                BY <1>1, <2>2, <3>3 DEF Make, Enqueue, kbd
            <4>2. refused'
                BY <1>1, <2>2, <4>1
            <4>3. tail - head \in Nat /\ tail' - head' = tail - head
                BY <1>2, <4>1
            <4> QED
                BY <1>5, <2>1, <3>2, <4>2, <4>3
        <3>4. CASE ~Full
            <4>1. tail' = tail + 1 /\ head' = head
                BY <1>1, <2>2, <3>4 DEF Make, Enqueue
            <4>2. refused => refused'
                BY <1>1
            <4> QED
                BY <1>2, <1>5, <2>1, <3>2, <4>1, <4>2
        <3> QED
            BY <3>3, <3>4
    <2>3. CASE k \notin Shifts
        <3>1. ShiftsDown' = ShiftsDown
            BY <1>1, <2>3 DEF ShiftsDown
        <3>2. tail' = tail /\ head' = head /\ (refused => refused')
            BY <1>1, <2>3 DEF Make, kbd
        <3> QED
            BY <2>1, <3>1, <3>2
    <2> QED
        BY <2>2, <2>3
<1> QED
    BY <1>3, <1>4, <1>6 DEF KeyboardInv

LEMMA ReleaseInv ==
    ASSUME KeyboardInv, NEW k \in Shifts \cup Keys, Release(k)
    PROVE  KeyboardInv'
<1>1. /\ k \in held /\ held' = held \ {k} /\ last' = (IF last = k THEN 0 ELSE last)
      /\ Break(k)
      /\ refused' = (refused /\ held' \cap Shifts # {})
      /\ typematic' = typematic
    BY DEF Release
<1>2. TypeOK /\ IsFiniteSet(held) /\ head \in Nat /\ tail \in Nat /\ head <= tail
      /\ KBD_BUF_SIZE \in Nat \ {0}
    BY KeyboardAssumption DEF KeyboardInv, TypeOK
<1>3. TypeOK'
    BY <1>1, <1>2, BufferTyped DEF TypeOK
<1>4. IsFiniteSet(held')
    BY <1>1, <1>2, FS_RemoveElement
<1>5. /\ IsFiniteSet(ShiftsDown) /\ Cardinality(ShiftsDown) \in Nat
      /\ Cardinality(ShiftsDown') \in Nat
      /\ ShiftsDown' = {} => Cardinality(ShiftsDown') = 0
    BY <1>2, <1>4, FS_Subset, FS_CardinalityType, FS_EmptySet DEF ShiftsDown
<1>6. ShiftFollows'
    <2> SUFFICES ASSUME ~typematic
                 PROVE  /\ tail' - head' <= Cardinality(ShiftsDown')
                        /\ refused' \/ tail' - head' = Cardinality(ShiftsDown')
        BY <1>1 DEF ShiftFollows
    <2>1. /\ tail - head <= Cardinality(ShiftsDown)
          /\ refused \/ tail - head = Cardinality(ShiftsDown)
        BY DEF KeyboardInv, ShiftFollows
    <2>2. head' \in Nat /\ tail' \in Nat /\ head' <= tail'
        BY <1>2, <1>3 DEF TypeOK
    <2>3. tail' - head' <= Cardinality(ShiftsDown')
          /\ (~refused => tail' - head' = Cardinality(ShiftsDown'))
        <3>1. CASE k \in Shifts
            <4>1. ShiftsDown' = ShiftsDown \ {k} /\ k \in ShiftsDown
                BY <1>1, <3>1 DEF ShiftsDown
            <4>2. Cardinality(ShiftsDown') = Cardinality(ShiftsDown) - 1
                BY <1>5, <4>1, FS_RemoveElement
            <4>3. \/ tail' = head' /\ tail = head
                  \/ tail' - head' = (tail - head) - 1
                <5>1. Dequeue
                    BY <1>1, <3>1 DEF Break
                <5>2. CASE tail = 0
                    BY <1>2, <5>1, <5>2 DEF Dequeue
                <5>3. CASE tail # 0 /\ head = tail
                    BY <1>2, <5>1, <5>3 DEF Dequeue
                <5>4. CASE tail # 0 /\ head # tail
                    <6>1. head' = head + 1 /\ tail' = tail
                        BY <5>1, <5>4 DEF Dequeue
                    <6> QED
                        BY <1>2, <6>1
                <5> QED
                    BY <5>2, <5>3, <5>4
            <4>4. Cardinality(ShiftsDown) # 0
                BY <1>5, <4>2
            <4>5. CASE tail' = head' /\ tail = head
                <5>1. \A n \in Nat : n - n = 0
                    OBVIOUS
                <5>2. tail - head = 0 /\ tail' - head' = 0
                    BY <1>2, <2>2, <4>5, <5>1
                <5> QED
                    BY <1>5, <2>1, <4>4, <5>2
            <4>6. CASE tail' - head' = (tail - head) - 1
                <5>1. tail - head \in Int
                    BY <1>2
                <5> QED
                    BY <1>5, <2>1, <4>2, <4>6, <5>1
            <4> QED
                BY <4>3, <4>5, <4>6
        <3>2. CASE k \notin Shifts
            <4>1. ShiftsDown' = ShiftsDown
                BY <1>1, <3>2 DEF ShiftsDown
            <4>2. tail' = tail /\ head' = head
                BY <1>1, <3>2 DEF Break, kbd
            <4> QED
                BY <2>1, <4>1, <4>2
        <3> QED
            BY <3>1, <3>2
    <2>4. CASE ShiftsDown' = {}
        BY <1>5, <2>2, <2>3, <2>4
    <2>5. CASE ShiftsDown' # {}
        <3>1. refused' = refused
            BY <1>1, <1>2, <2>5 DEF ShiftsDown, TypeOK
        <3> QED
            BY <2>3, <3>1
    <2> QED
        BY <2>4, <2>5
<1> QED
    BY <1>3, <1>4, <1>6 DEF KeyboardInv

LEMMA RepeatInv ==
    ASSUME KeyboardInv, Repeat
    PROVE  KeyboardInv'
<1>1. /\ typematic /\ last \in held /\ held \subseteq Shifts \cup Keys /\ Make(last)
      /\ UNCHANGED <<typematic, held, last, refused>>
    BY DEF KeyboardInv, TypeOK, Repeat
<1>2. TypeOK'
    BY <1>1, BufferTyped DEF KeyboardInv, TypeOK
<1> QED
    BY <1>1, <1>2 DEF KeyboardInv, ShiftFollows

THEOREM KeyboardInvariant == Spec => []KeyboardInv
<1>1. KeyboardInv /\ [Next]_vars => KeyboardInv'
    <2> SUFFICES ASSUME KeyboardInv, [Next]_vars PROVE KeyboardInv'
        OBVIOUS
    <2>1. CASE UNCHANGED vars
        BY <2>1 DEF vars, kbd, KeyboardInv, TypeOK, ShiftFollows, ShiftsDown
    <2> QED
        BY <2>1, PressInv, ReleaseInv, RepeatInv DEF Next
<1> QED
    BY KeyboardInit, <1>1, PTL DEF Spec

\* The head and the tail of the buffer never leave it (keyboard.c:51-71), and
\* between them are shift keys.
THEOREM BufferInBounds == Spec => []TypeOK
<1>1. KeyboardInv => TypeOK
    BY DEF KeyboardInv
<1> QED
    BY <1>1, KeyboardInvariant, PTL

\* Without repeat, shift is on as the keys are, for a buffer of any length: a
\* press that was refused is never made up for by a shift that sticks.
THEOREM ShiftAsTheKeys == Spec => []ShiftFollows
<1>1. KeyboardInv => ShiftFollows
    BY DEF KeyboardInv
<1> QED
    BY <1>1, KeyboardInvariant, PTL
=============================================================================
