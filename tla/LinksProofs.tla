---------------------------- MODULE LinksProofs ----------------------------
(* For any number of lists and entries, the pointers of a list and the order in *)
(* which its entries were linked agree, and scans visit the entries in order.   *)
EXTENDS Links, TLAPS

\* Unlinking the i-th entry: those before it keep their places, the others move up.
LEMMA TakenOutFacts ==
    ASSUME NEW S, NEW s \in Seq(S), NEW i \in 1 .. Len(s)
    PROVE  LET r == RemoveAt(s, i) IN
           /\ r \in Seq(S) /\ Len(r) = Len(s) - 1 /\ DOMAIN r = 1 .. Len(s) - 1
           /\ \A j \in 1 .. Len(s) - 1 : r[j] = IF j < i THEN s[j] ELSE s[j + 1]
<1> DEFINE r == RemoveAt(s, i)
           a == SubSeq(s, 1, i - 1)
           b == SubSeq(s, i + 1, Len(s))
<1>1. r = a \o b
    BY DEF RemoveAt
<1>2. a \in Seq(S) /\ Len(a) = i - 1 /\ \A j \in 1 .. i - 1 : a[j] = s[j]
    OBVIOUS
<1>3. b \in Seq(S) /\ Len(b) = Len(s) - i /\ \A j \in 1 .. Len(s) - i : b[j] = s[i + j]
    OBVIOUS
<1> HIDE DEF a, b, r
<1>4. r \in Seq(S) /\ Len(r) = Len(s) - 1
    <2>1. a \in Seq(S) /\ b \in Seq(S)
        BY <1>2, <1>3
    <2>3. a \o b \in Seq(S) /\ Len(a \o b) = Len(a) + Len(b)
        BY <2>1
    <2>2. (i - 1) + (Len(s) - i) = Len(s) - 1
        OBVIOUS
    <2> QED
        BY <1>1, <1>2, <1>3, <2>2, <2>3
<1>5. ASSUME NEW j \in 1 .. Len(s) - 1
      PROVE  r[j] = IF j < i THEN s[j] ELSE s[j + 1]
    <2>1. CASE j < i
        <3>1. r[j] = a[j] /\ j \in 1 .. i - 1
            BY <1>1, <1>2, <1>3, <2>1
        <3> QED
            BY <1>2, <2>1, <3>1
    <2>2. CASE ~(j < i)
        <3>1. r[j] = b[j - (i - 1)] /\ j - (i - 1) \in 1 .. Len(s) - i
            BY <1>1, <1>2, <1>3, <2>2, SMTT(30)
        <3>2. i + (j - (i - 1)) = j + 1
            OBVIOUS
        <3> QED
            BY <1>3, <2>2, <3>1, <3>2
    <2> QED
        BY <2>1, <2>2
<1>6. DOMAIN r = 1 .. Len(s) - 1
    BY <1>4
<1> QED
    BY <1>4, <1>5, <1>6 DEF r

\* What remains of a sequence without repetition when its i-th element is taken out.
LEMMA WithoutFacts ==
  ASSUME NEW S, NEW s \in Seq(S), IsInjective(s), NEW i \in 1 .. Len(s)
  PROVE  LET r == Without(s, s[i]) IN
         /\ r \in Seq(S)
         /\ Len(r) = Len(s) - 1
         /\ \A j \in 1 .. Len(s) - 1 : r[j] = IF j < i THEN s[j] ELSE s[j + 1]
         /\ ToSet(r) \subseteq ToSet(s)
         /\ IsInjective(r)
<1> DEFINE r == Without(s, s[i])
<1>1. \A j, k \in 1 .. Len(s) : s[j] = s[k] => j = k
  BY DEF IsInjective
<1>2. PICK k \in DOMAIN s : s[k] = s[i] /\ r = RemoveAt(s, k)
  <2>1. i \in DOMAIN s /\ s[i] \in ToSet(s)
    BY DEF ToSet
  <2>2. r = RemoveAt(s, CHOOSE j \in DOMAIN s : s[j] = s[i])
    BY <2>1, Zenon DEF Without
  <2> DEFINE k == CHOOSE j \in DOMAIN s : s[j] = s[i]
  <2>3. k \in DOMAIN s /\ s[k] = s[i]
    BY <2>1, Zenon
  <2> QED
    BY <2>2, <2>3
<1>3. r = RemoveAt(s, i)
  BY <1>1, <1>2
<1> HIDE DEF r
<1>4. r \in Seq(S) /\ Len(r) = Len(s) - 1
  BY <1>3, TakenOutFacts
<1>5. \A j \in 1 .. Len(s) - 1 : r[j] = IF j < i THEN s[j] ELSE s[j + 1]
  BY <1>3, TakenOutFacts
<1>6. DOMAIN r = 1 .. Len(s) - 1 /\ DOMAIN s = 1 .. Len(s)
  BY <1>4
<1>7. ToSet(r) \subseteq ToSet(s)
  <2> SUFFICES ASSUME NEW j \in 1 .. Len(s) - 1
               PROVE  r[j] \in ToSet(s)
    BY <1>6 DEF ToSet
  <2>1. r[j] = s[j] \/ r[j] = s[j + 1]
    BY <1>5
  <2>2. j \in 1 .. Len(s) /\ j + 1 \in 1 .. Len(s)
    OBVIOUS
  <2> QED
    BY <1>6, <2>1, <2>2 DEF ToSet
<1>8. IsInjective(r)
  <2> SUFFICES ASSUME NEW j \in 1 .. Len(s) - 1, NEW n \in 1 .. Len(s) - 1, r[j] = r[n]
               PROVE  j = n
    BY <1>6 DEF IsInjective
  <2>1. j \in 1 .. Len(s) /\ j + 1 \in 1 .. Len(s) /\ n \in 1 .. Len(s) /\ n + 1 \in 1 .. Len(s)
    OBVIOUS
  <2> QED
    BY <1>1, <1>5, <2>1
<1> QED
  BY <1>4, <1>5, <1>7, <1>8 DEF r

-----------------------------------------------------------------------------

Inv == TypeOK /\ PointersAgree /\ ScanInOrder

\* An entry of a list is a cell, hence not NULL.
LEMMA EntryIsCell ==
  ASSUME TypeOK, NEW l \in Lists
  PROVE  /\ line[l] \in Seq(Cells) /\ Len(line[l]) \in Nat
         /\ DOMAIN line[l] = 1 .. Len(line[l])
         /\ \A i \in DOMAIN line[l] : line[l][i] \in Cells /\ line[l][i] # NULL
         /\ \A i \in Int : At(line[l], i) = NULL <=> i \notin 1 .. Len(line[l])
<1>1. line[l] \in Seq(Cells)
  BY DEF TypeOK
<1>2. Len(line[l]) \in Nat /\ DOMAIN line[l] = 1 .. Len(line[l])
  BY <1>1
<1>3. \A i \in DOMAIN line[l] : line[l][i] \in Cells /\ line[l][i] # NULL
  BY <1>1, LinksAssumption
<1> QED
  BY <1>1, <1>2, <1>3 DEF At

LEMMA LinksInit == Init => Inv
<1> SUFFICES ASSUME Init PROVE Inv
  OBVIOUS
<1>1. \A l \in Lists : line[l] = <<>> /\ ToSet(line[l]) = {} /\ IsInjective(line[l])
  BY DEF Init, ToSet, IsInjective
<1>2. TypeOK
  BY <1>1 DEF Init, TypeOK
<1>3. PointersAgree
  BY <1>1 DEF Init, PointersAgree, At
<1> QED
  BY <1>2, <1>3 DEF Init, Inv, ScanInOrder

\* Steps of a scan leave the lists alone.
LEMMA CallInv ==
  ASSUME Inv, NEW l \in Lists, NEW m \in Lists, Call(l, m)
  PROVE  Inv'
<1>1. UNCHANGED <<head, tail, next, line>>
  BY DEF Call, linkVars
<1>2. TypeOK'
  BY <1>1 DEF Inv, TypeOK, Call
<1>3. PointersAgree'
  BY <1>1 DEF Inv, PointersAgree, At
<1>4. ScanInOrder'
  <2>1. msg_p' = At(line[l], 1)
    BY DEF Inv, PointersAgree, Call
  <2>2. msg_t' = At(line[l], 0)
    BY EntryIsCell DEF Inv, Call
  <2>3. 1 \in 1 .. Len(line[l]) + 1 /\ 1 - 1 = 0
    BY EntryIsCell DEF Inv
  <2>4. here' = l /\ line' = line
    BY DEF Call
  <2> QED
    BY <2>1, <2>2, <2>3, <2>4 DEF ScanInOrder, At
<1> QED
  BY <1>2, <1>3, <1>4 DEF Inv

LEMMA AdvanceInv ==
  ASSUME Inv, Advance
  PROVE  Inv'
<1>1. UNCHANGED <<head, tail, next, line, here, there, pc>> /\ here \in Lists
  BY DEF Inv, TypeOK, Advance, linkVars
<1>2. TypeOK'
  BY <1>1 DEF Inv, TypeOK, Advance
<1>3. PointersAgree'
  BY <1>1 DEF Inv, PointersAgree, At
<1>4. ScanInOrder'
  <2>1. PICK i \in 1 .. Len(line[here]) + 1 : msg_p = At(line[here], i)
    BY DEF Inv, ScanInOrder, Advance
  <2>2. i \in 1 .. Len(line[here]) /\ i \in DOMAIN line[here] /\ Len(line[here]) \in Nat
    BY <1>1, <2>1, EntryIsCell DEF Inv, Advance
  <2>3. msg_t' = At(line[here], i)
    BY <2>1 DEF Advance
  <2>4. msg_p' = At(line[here], i + 1)
    BY <1>1, <2>1, <2>2 DEF Inv, PointersAgree, Advance, At
  <2>5. i + 1 \in 1 .. Len(line[here]) + 1 /\ (i + 1) - 1 = i
    BY <2>2
  <2> QED
    BY <1>1, <2>3, <2>4, <2>5 DEF ScanInOrder, At
<1> QED
  BY <1>2, <1>3, <1>4 DEF Inv

\* The entry msg_p, at i of its list, leaves it.
LEMMA UnlinkInv ==
  ASSUME Inv, Unlink
  PROVE  Inv'
<1> DEFINE s == line[here]
           r == Without(s, msg_p)
<1>1. /\ here \in Lists /\ s \in Seq(Cells) /\ IsInjective(s) /\ Len(s) \in Nat
      /\ DOMAIN s = 1 .. Len(s)
      /\ \A j \in 1 .. Len(s) : s[j] \in Cells /\ s[j] # NULL
      /\ \A j, k \in 1 .. Len(s) : s[j] = s[k] => j = k
  BY EntryIsCell DEF Inv, TypeOK, IsInjective
<1>2. PICK i \in 1 .. Len(s) + 1 : msg_p = At(s, i) /\ msg_t = At(s, i - 1)
  BY DEF Inv, ScanInOrder, Unlink
<1>3. i \in 1 .. Len(s) /\ msg_p = s[i]
  BY <1>1, <1>2 DEF Unlink, At
<1>4. /\ r \in Seq(Cells) /\ Len(r) = Len(s) - 1
      /\ \A j \in 1 .. Len(s) - 1 : r[j] = IF j < i THEN s[j] ELSE s[j + 1]
      /\ ToSet(r) \subseteq ToSet(s) /\ IsInjective(r)
  BY <1>1, <1>3, WithoutFacts
<1>5. DOMAIN r = 1 .. Len(s) - 1
  BY <1>1, <1>4
<1>6. line' = [line EXCEPT ![here] = r] /\ line'[here] = r
  BY <1>1 DEF Unlink, Inv, TypeOK
<1>7. \A l \in Lists \ {here} : line'[l] = line[l]
  BY <1>6 DEF Inv, TypeOK
<1>8. next[msg_p] = At(s, i + 1)
  BY <1>1, <1>3 DEF Inv, PointersAgree
<1>9. i \in Nat /\ Len(s) \in Nat /\ 1 <= i /\ i <= Len(s)
  BY <1>1, <1>3
<1> HIDE DEF s, r
<1>10. TypeOK'
  <2>1. \A l \in Lists : line'[l] \in Seq(Cells) /\ IsInjective(line'[l]) /\ ToSet(line'[l]) \subseteq ToSet(line[l])
    BY <1>4, <1>6, <1>7 DEF Inv, TypeOK, s
  <2>2. line' \in [Lists -> Seq(Cells)]
    BY <1>4, <1>6 DEF Inv, TypeOK
  <2>3. msg_p \in Cells /\ next[msg_p] \in Cells \cup {NULL}
    BY DEF Inv, TypeOK, Unlink
  <2>4. /\ head' \in [Lists -> Cells \cup {NULL}] /\ tail' \in [Lists -> Cells \cup {NULL}]
        /\ next' \in [Cells -> Cells \cup {NULL}]
    BY <2>3 DEF Inv, TypeOK, Unlink
  <2>5. UNCHANGED <<here, there, msg_p, msg_t>> /\ pc' = "user"
    BY DEF Unlink
  <2>6. \A l, m \in Lists : l # m => ToSet(line'[l]) \cap ToSet(line'[m]) = {}
    BY <2>1 DEF Inv, TypeOK
  <2> QED
    BY <2>1, <2>2, <2>4, <2>5, <2>6 DEF Inv, TypeOK
<1>11. ASSUME NEW l \in Lists
       PROVE  /\ head'[l] = At(line'[l], 1)
              /\ tail'[l] = At(line'[l], Len(line'[l]))
              /\ \A j \in DOMAIN line'[l] : next'[line'[l][j]] = At(line'[l], j + 1)
  <2>1. CASE l # here
    <3>1. line'[l] = line[l] /\ head'[l] = head[l] /\ tail'[l] = tail[l]
      BY <1>7, <2>1 DEF Unlink, Inv, TypeOK
    <3>2. ASSUME NEW j \in DOMAIN line[l]
          PROVE  next'[line[l][j]] = next[line[l][j]]
      <4>1. line[l][j] \in ToSet(line[l]) /\ line[l][j] \in Cells
        BY EntryIsCell DEF ToSet, Inv
      <4>2. line[l][j] # msg_t \/ msg_t = NULL
        <5>1. CASE i = 1
          BY <1>1, <1>2, <5>1 DEF At
        <5>2. CASE i # 1
          <6>1. i - 1 \in 1 .. Len(s) /\ msg_t = s[i - 1]
            BY <1>1, <1>2, <1>3, <5>2 DEF At
          <6>2. msg_t \in ToSet(s)
            BY <1>1, <6>1 DEF ToSet
          <6> QED
            BY <1>1, <2>1, <4>1, <6>2 DEF Inv, TypeOK, s
        <5> QED
          BY <5>1, <5>2
      <4> QED
        BY <4>1, <4>2 DEF Unlink, Inv, TypeOK
    <3> QED
      BY <3>1, <3>2 DEF Inv, PointersAgree, At
  <2>2. CASE l = here
    <3>1. head[here] = At(s, 1) /\ tail[here] = At(s, Len(s))
      BY <1>1 DEF Inv, PointersAgree, s
    <3>2. \A j \in 1 .. Len(s) : next[s[j]] = At(s, j + 1)
      BY <1>1 DEF Inv, PointersAgree, s
    <3>3. msg_t = NULL <=> i = 1
      BY <1>1, <1>2, <1>3 DEF At
    <3>4. i # 1 => i - 1 \in 1 .. Len(s) /\ msg_t = s[i - 1]
      BY <1>1, <1>2, <1>3 DEF At
    <3>5. At(s, i + 1) = NULL <=> i = Len(s)
      <4>1. CASE i = Len(s)
        BY <1>1, <1>3, <4>1 DEF At
      <4>2. CASE i # Len(s)
        <5>1. i + 1 \in 1 .. Len(s)
          BY <1>9, <4>2
        <5> QED
          BY <1>1, <4>2, <5>1 DEF At
      <4> QED
        BY <4>1, <4>2
    <3>6. head'[here] = At(r, 1)
      <4>1. CASE i = 1
        <5>1. head'[here] = At(s, 2)
          BY <1>1, <1>8, <3>3, <4>1 DEF Unlink, Inv, TypeOK
        <5> QED
          BY <1>1, <1>3, <1>4, <1>5, <4>1, <5>1 DEF At
      <4>2. CASE i # 1
        <5>1. head'[here] = At(s, 1)
          BY <3>1, <3>3, <4>2 DEF Unlink
        <5> QED
          BY <1>1, <1>3, <1>4, <1>5, <4>2, <5>1 DEF At
      <4> QED
        BY <4>1, <4>2
    <3>7. tail'[here] = At(r, Len(r))
      <4>1. CASE i = Len(s)
        <5>1. tail'[here] = At(s, i - 1)
          BY <1>1, <1>2, <1>8, <3>5, <4>1 DEF Unlink, Inv, TypeOK
        <5> QED
          BY <1>1, <1>3, <1>4, <1>5, <4>1, <5>1 DEF At
      <4>2. CASE i # Len(s)
        <5>1. tail'[here] = At(s, Len(s))
          BY <1>8, <3>1, <3>5, <4>2 DEF Unlink
        <5>2. Len(s) - 1 \in 1 .. Len(s) - 1 /\ ~(Len(s) - 1 < i) /\ (Len(s) - 1) + 1 = Len(s)
          BY <1>9, <4>2
        <5>3. At(r, Len(r)) = s[Len(s)] /\ At(s, Len(s)) = s[Len(s)]
          BY <1>1, <1>3, <1>4, <1>5, <5>2 DEF At
        <5> QED
          BY <5>1, <5>3
      <4> QED
        BY <4>1, <4>2
    <3>8. ASSUME NEW j \in 1 .. Len(s) - 1
          PROVE  next'[r[j]] = At(r, j + 1)
      <4>1. CASE j = i - 1
        <5>1. r[j] = s[i - 1] /\ i # 1 /\ s[i - 1] \in Cells
          BY <1>1, <1>4, <4>1
        <5>2. next'[s[i - 1]] = At(s, i + 1)
          BY <1>8, <3>3, <3>4, <5>1 DEF Unlink, Inv, TypeOK
        <5> QED
          BY <1>1, <1>3, <1>4, <1>5, <4>1, <5>1, <5>2 DEF At
      <4>2. CASE j # i - 1
        <5>1. next'[r[j]] = next[r[j]]
          <6>1. PICK k \in 1 .. Len(s) : r[j] = s[k] /\ k # i - 1
            BY <1>1, <1>3, <1>4, <4>2
          <6>2. r[j] # msg_t \/ i = 1
            BY <1>1, <3>4, <6>1
          <6> QED
            BY <1>1, <3>3, <6>1, <6>2 DEF Unlink, Inv, TypeOK
        <5>2. CASE j < i
          <6>1. j + 1 < i /\ j \in 1 .. Len(s) /\ j + 1 \in 1 .. Len(s) - 1
            BY <1>1, <1>3, <4>2, <5>2
          <6>2. At(r, j + 1) = s[j + 1] /\ At(s, j + 1) = s[j + 1] /\ r[j] = s[j]
            BY <1>1, <1>4, <1>5, <5>2, <6>1 DEF At
          <6> QED
            BY <3>2, <5>1, <6>1, <6>2
        <5>3. CASE ~(j < i)
          <6>1. r[j] = s[j + 1] /\ j + 1 \in 1 .. Len(s)
            BY <1>1, <1>4, <5>3
          <6>2. next[s[j + 1]] = At(s, (j + 1) + 1)
            BY <3>2, <6>1
          <6>3. At(s, (j + 1) + 1) = At(r, j + 1)
            BY <1>1, <1>3, <1>4, <1>5, <5>3 DEF At
          <6> QED
            BY <5>1, <6>1, <6>2, <6>3
        <5> QED
          BY <5>2, <5>3
      <4> QED
        BY <4>1, <4>2
    <3> QED
      BY <1>5, <1>6, <2>2, <3>6, <3>7, <3>8
  <2> QED
    BY <2>1, <2>2
<1>12. ScanInOrder'
  BY DEF ScanInOrder, Unlink
<1> QED
  BY <1>10, <1>11, <1>12 DEF Inv, PointersAgree, At

\* The new entry c becomes the last of its list.
LEMMA LinkInv ==
  ASSUME Inv, NEW c \in Cells, Link(c)
  PROVE  Inv'
<1> DEFINE s == line[there]
           r == Append(s, c)
<1>1. /\ there \in Lists /\ s \in Seq(Cells) /\ IsInjective(s) /\ Len(s) \in Nat
      /\ DOMAIN s = 1 .. Len(s)
      /\ \A j \in 1 .. Len(s) : s[j] \in Cells /\ s[j] # NULL
      /\ \A j, k \in 1 .. Len(s) : s[j] = s[k] => j = k
  BY EntryIsCell DEF Inv, TypeOK, IsInjective
<1>2. \A l \in Lists : c \notin ToSet(line[l])
  BY DEF Link, Linked
<1>3. /\ r \in Seq(Cells) /\ Len(r) = Len(s) + 1 /\ DOMAIN r = 1 .. Len(s) + 1
      /\ \A j \in 1 .. Len(s) : r[j] = s[j]
      /\ r[Len(s) + 1] = c
  BY <1>1
<1>4. ToSet(r) = ToSet(s) \cup {c} /\ IsInjective(r)
  <2>1. c \notin ToSet(s)
    BY <1>1, <1>2
  <2>2. ToSet(r) = ToSet(s) \cup {c}
    BY <1>1, <1>3 DEF ToSet
  <2> QED
    BY <1>1, <1>3, <2>1, <2>2 DEF ToSet, IsInjective
<1>5. line' = [line EXCEPT ![there] = r] /\ line'[there] = r
  BY <1>1 DEF Link, Inv, TypeOK
<1>6. \A l \in Lists \ {there} : line'[l] = line[l]
  BY <1>5 DEF Inv, TypeOK
<1>7. head[there] = At(s, 1) /\ tail[there] = At(s, Len(s))
  BY <1>1 DEF Inv, PointersAgree
<1>8. \A j \in 1 .. Len(s) : next[s[j]] = At(s, j + 1) /\ s[j] \in ToSet(s)
  BY <1>1 DEF Inv, PointersAgree, ToSet
<1>9. /\ head[there] = NULL <=> Len(s) = 0
      /\ Len(s) # 0 => tail[there] = s[Len(s)] /\ Len(s) \in 1 .. Len(s)
  BY <1>1, <1>7 DEF At
<1>10. c # NULL
  BY LinksAssumption
<1> HIDE DEF s, r
<1>11. TypeOK'
  <2>1. line' \in [Lists -> Seq(Cells)]
    BY <1>3, <1>5 DEF Inv, TypeOK
  <2>2. \A l \in Lists : IsInjective(line'[l])
    BY <1>4, <1>5, <1>6 DEF Inv, TypeOK
  <2>3. \A l \in Lists : ToSet(line'[l]) = IF l = there THEN ToSet(line[l]) \cup {c} ELSE ToSet(line[l])
    BY <1>4, <1>5, <1>6 DEF s
  <2>4. ASSUME NEW l \in Lists, NEW m \in Lists, l # m
        PROVE  ToSet(line'[l]) \cap ToSet(line'[m]) = {}
    <3>1. ToSet(line[l]) \cap ToSet(line[m]) = {}
      BY <2>4 DEF Inv, TypeOK
    <3>2. c \notin ToSet(line[l]) /\ c \notin ToSet(line[m])
      BY <1>2
    <3>3. /\ ToSet(line'[l]) = IF l = there THEN ToSet(line[l]) \cup {c} ELSE ToSet(line[l])
          /\ ToSet(line'[m]) = IF m = there THEN ToSet(line[m]) \cup {c} ELSE ToSet(line[m])
      BY <2>3
    <3> QED
      BY <2>4, <3>1, <3>2, <3>3
  <2>5. /\ head' \in [Lists -> Cells \cup {NULL}] /\ tail' \in [Lists -> Cells \cup {NULL}]
        /\ next' \in [Cells -> Cells \cup {NULL}]
    BY DEF Inv, TypeOK, Link
  <2>6. UNCHANGED <<here, there, msg_p, msg_t>> /\ pc' = "user"
    BY DEF Link
  <2> QED
    BY <2>1, <2>2, <2>4, <2>5, <2>6 DEF Inv, TypeOK
<1>12. ASSUME NEW x \in Cells, x # c, head[there] = NULL \/ x # tail[there]
       PROVE  next'[x] = next[x]
  BY <1>12 DEF Link, Inv, TypeOK
<1>13. ASSUME NEW l \in Lists
       PROVE  /\ head'[l] = At(line'[l], 1)
              /\ tail'[l] = At(line'[l], Len(line'[l]))
              /\ \A j \in DOMAIN line'[l] : next'[line'[l][j]] = At(line'[l], j + 1)
  <2>1. CASE l # there
    <3>1. line'[l] = line[l] /\ head'[l] = head[l] /\ tail'[l] = tail[l]
      BY <1>6, <2>1 DEF Link, Inv, TypeOK
    <3>2. ASSUME NEW j \in DOMAIN line[l]
          PROVE  next'[line[l][j]] = next[line[l][j]]
      <4>1. line[l][j] \in ToSet(line[l]) /\ line[l][j] \in Cells /\ line[l][j] # c
        BY <1>2, EntryIsCell DEF ToSet, Inv
      <4>2. line[l][j] \notin ToSet(s)
        BY <1>1, <2>1, <4>1 DEF Inv, TypeOK, s
      <4> QED
        BY <1>8, <1>9, <1>12, <4>1, <4>2
    <3> QED
      BY <3>1, <3>2 DEF Inv, PointersAgree, At
  <2>2. CASE l = there
    <3>1. tail'[there] = c /\ At(r, Len(r)) = c
      BY <1>1, <1>3 DEF Link, Inv, TypeOK, At
    <3>2. head'[there] = At(r, 1)
      <4>1. CASE Len(s) = 0
        BY <1>1, <1>3, <1>9, <4>1 DEF Link, Inv, TypeOK, At
      <4>2. CASE Len(s) # 0
        BY <1>1, <1>3, <1>7, <1>9, <4>2 DEF Link, At
      <4> QED
        BY <4>1, <4>2
    <3>3. ASSUME NEW j \in 1 .. Len(s) + 1
          PROVE  next'[r[j]] = At(r, j + 1)
      <4>1. CASE j = Len(s) + 1
        <5>1. next'[c] = NULL
          <6>1. Len(s) # 0 => c # tail[there]
            BY <1>1, <1>2, <1>8, <1>9 DEF s
          <6> QED
            BY <1>9, <6>1 DEF Link, Inv, TypeOK
        <5>2. At(r, j + 1) = NULL /\ r[j] = c
          BY <1>1, <1>3, <4>1 DEF At
        <5> QED
          BY <5>1, <5>2
      <4>2. CASE j = Len(s) /\ j # 0
        <5>1. next'[s[j]] = c
          BY <1>1, <1>9, <4>2 DEF Link, Inv, TypeOK
        <5>2. At(r, j + 1) = c /\ r[j] = s[j]
          BY <1>1, <1>3, <4>2 DEF At
        <5> QED
          BY <5>1, <5>2
      <4>3. CASE j < Len(s)
        <5>1. j \in 1 .. Len(s) /\ j + 1 \in 1 .. Len(s) /\ r[j] = s[j] /\ s[j] \in Cells
          BY <1>1, <1>3, <4>3
        <5>2. s[j] # c /\ s[j] # tail[there]
          BY <1>1, <1>2, <1>8, <1>9, <4>3, <5>1 DEF s
        <5>3. next'[s[j]] = At(s, j + 1)
          BY <1>8, <1>12, <5>1, <5>2
        <5>4. At(s, j + 1) = s[j + 1] /\ At(r, j + 1) = s[j + 1]
          BY <1>1, <1>3, <5>1 DEF At
        <5> QED
          BY <5>1, <5>3, <5>4
      <4>4. j \in Nat /\ Len(s) \in Nat /\ 1 <= j /\ j <= Len(s) + 1
        BY <1>1
      <4>5. j = Len(s) + 1 \/ (j = Len(s) /\ j # 0) \/ j < Len(s)
        BY <4>4
      <4> QED
        BY <4>1, <4>2, <4>3, <4>5
    <3> QED
      BY <1>3, <1>5, <2>2, <3>1, <3>2, <3>3
  <2> QED
    BY <2>1, <2>2
<1>14. ScanInOrder'
  BY DEF ScanInOrder, Link
<1> QED
  BY <1>11, <1>13, <1>14 DEF Inv, PointersAgree, At

\* The memory of entries that are gone is not part of any list.
LEMMA ReuseInv ==
  ASSUME Inv, NEW c \in Cells, NEW x \in Cells \cup {NULL}, Reuse(c, x)
  PROVE  Inv'
<1>1. UNCHANGED <<head, tail, line, pc, here, there, msg_p, msg_t>>
  BY DEF Reuse, scanVars
<1>2. next' \in [Cells -> Cells \cup {NULL}] /\ \A y \in Cells \ {c} : next'[y] = next[y]
  BY DEF Reuse, Inv, TypeOK
<1>3. ASSUME NEW l \in Lists, NEW j \in DOMAIN line[l]
      PROVE  next'[line[l][j]] = next[line[l][j]]
  <2>1. line[l][j] \in ToSet(line[l]) /\ line[l][j] \in Cells
    BY EntryIsCell DEF ToSet, Inv
  <2> QED
    BY <1>2, <2>1 DEF Reuse, Linked
<1>4. TypeOK'
  BY <1>1, <1>2 DEF Inv, TypeOK
<1>5. PointersAgree'
  BY <1>1, <1>3 DEF Inv, PointersAgree, At
<1>6. ScanInOrder'
  BY <1>1 DEF Inv, ScanInOrder, At
<1> QED
  BY <1>4, <1>5, <1>6 DEF Inv

LEMMA RefuseInv ==
  ASSUME Inv, Refuse
  PROVE  Inv'
<1>1. UNCHANGED <<head, tail, next, line, here, there, msg_p, msg_t>> /\ pc' = "user"
  BY DEF Refuse, linkVars
<1> QED
  BY <1>1 DEF Inv, TypeOK, PointersAgree, ScanInOrder, At

LEMMA LinksNext == Inv /\ [Next]_vars => Inv'
<1> SUFFICES ASSUME Inv, [Next]_vars PROVE Inv'
  OBVIOUS
<1>1. CASE \E l, m \in Lists : Call(l, m)
  BY <1>1, CallInv
<1>2. CASE Advance
  BY <1>2, AdvanceInv
<1>3. CASE Unlink
  BY <1>3, UnlinkInv
<1>4. CASE Refuse
  BY <1>4, RefuseInv
<1>5. CASE \E c \in Cells : Link(c)
  BY <1>5, LinkInv
<1>6. CASE \E c \in Cells, x \in Cells \cup {NULL} : Reuse(c, x)
  BY <1>6, ReuseInv
<1>7. CASE UNCHANGED vars
  BY <1>7 DEF vars, linkVars, scanVars, Inv, TypeOK, PointersAgree, ScanInOrder, At
<1> QED
  BY <1>1, <1>2, <1>3, <1>4, <1>5, <1>6, <1>7 DEF Next

LEMMA LinksInvariant == Spec => []Inv
<1> QED
  BY LinksInit, LinksNext, PTL DEF Spec

-----------------------------------------------------------------------------
(* The theorems *)

\* An entry is in one list, once.
THEOREM LinksTyped == Spec => []TypeOK
<1>1. Inv => TypeOK
  BY DEF Inv
<1> QED
  BY <1>1, LinksInvariant, PTL

\* The lists that the pointers make up are the sequences that Messaging has in their
\* place, whatever becomes of the memory of entries that are gone.
THEOREM ListsAreSequences == Spec => []PointersAgree
<1>1. Inv => PointersAgree
  BY DEF Inv
<1> QED
  BY <1>1, LinksInvariant, PTL

\* A scan passes every entry in front of the one it takes, with its predecessor at
\* hand.
THEOREM ScansAreOrdered == Spec => []ScanInOrder
<1>1. Inv => ScanInOrder
  BY DEF Inv
<1> QED
  BY <1>1, LinksInvariant, PTL
=============================================================================
