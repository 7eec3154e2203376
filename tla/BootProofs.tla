----------------------------- MODULE BootProofs -----------------------------
(* Booting, for any machine and any date: every part arrives where it belongs  *)
(* and every read of the disk is possible; what is given to processes holds    *)
(* nothing else and has its entries in the table of pages; and the kernel      *)
(* starts with the right time until two digits of a year run                  *)
(* out. None of it needs the order of the three, which Boot's Next gives.      *)
EXTENDS Boot, FiniteSetTheorems, FunctionTheorems, SequenceTheorems, TLAPS

-----------------------------------------------------------------------------
(* Loading *)

\* Cylinder and side are those of the next sector.
OnTrack == head \in {0, 1} /\ track \in Nat /\ track * 2 + head = logic_sector \div SectorsPerTrack

\* What is being read: setup32 or one of the eight segments of the kernel.
Segment ==
    \/ part = "load_setup32" /\ es = 1280 /\ total = 88
    \/ part = "load_kernel" /\ total = 128 /\ \E j \in 1 .. 8 : es = 4096 * j

\* Past the sectors of setup, a sector goes 29 slots further than its number.
Aligned ==
    /\ readed \in 0 .. total
    /\ es = 32 * (logic_sector + 29 - readed)
    /\ bx = (readed * 512) % 65536

\* A read is within its track and its part.
Fitting ==
    /\ read_per_time \in 1 .. total - readed
    /\ sector = (logic_sector % SectorsPerTrack) + 1
    /\ sector + read_per_time - 1 <= SectorsPerTrack

\* Where the code is, and how far it got.
Stages ==
    /\ logic_sector \in Nat \ {0} /\ OnTrack
    /\ pc \in {"start", "load_setup"} => part = "load_setup" /\ logic_sector = 1 /\ readed = 0
    /\ pc = "load_setup32" => logic_sector = 11
    /\ pc = "go" => part # "load_setup" /\ Segment /\ Aligned
    /\ pc \in {"read_track", "update_orthl"} =>
         \/ /\ part = "load_setup" /\ es = 128 /\ bx = 0 /\ read_per_time = 10 /\ readed = 0
            /\ track = 0 /\ head = 0 /\ sector = 2 /\ logic_sector = 1
         \/ part # "load_setup" /\ Segment /\ Aligned /\ Fitting
    /\ pc = "load_kernel" =>
         part = "load_kernel" /\ \E j \in 0 .. 8 : es = 4096 * j /\ logic_sector = 99 + 128 * j
    /\ pc = "setup" => logic_sector = 1123

\* The sectors on the disk before this one are in memory, the first one when it has moved.
Reached == CASE pc = "start"        -> 0
             [] pc = "update_orthl" -> logic_sector + read_per_time
             [] OTHER               -> logic_sector

\* The content of a slot when the sectors before the n-th are loaded.
Content(s, n) ==
    CASE s = 3 /\ n > 0          -> 0
      [] s \in 4 .. 13 /\ n > 1  -> s - 3
      [] s \in 40 .. n + 28      -> s - 29
      [] s = 62 /\ 62 > n + 28   -> 0
      [] OTHER                   -> Empty

Filled == memory = [s \in Slots |-> Content(s, Reached)]

LoadInv == Stages /\ Filled

LEMMA LoadInitInv == LoadInit => LoadInv
<1> SUFFICES ASSUME LoadInit PROVE LoadInv
  OBVIOUS
<1> USE DEF LoadInit
<1>1. Stages
  BY DEF Stages, OnTrack, SectorsPerTrack
<1>2. Filled
  <2>1. Reached = 0
    BY DEF Reached
  <2>2. ASSUME NEW s \in Slots PROVE (IF s = 62 THEN 0 ELSE Empty) = Content(s, 0)
    BY DEF Slots, Content
  <2> QED
    BY <2>1, <2>2 DEF Filled
<1> QED
  BY <1>1, <1>2 DEF LoadInv

\* Where the next read starts, and that it is possible.
LEMMA ReadFits ==
  ASSUME Stages, pc = "read_track"
  PROVE  Allowed /\ read_per_time > 0 /\ ChsSector = logic_sector
         /\ Slot = IF part = "load_setup" THEN 4 ELSE logic_sector + 29
<1>1. CASE part = "load_setup"
  <2>1. es = 128 /\ bx = 0 /\ read_per_time = 10 /\ track = 0 /\ head = 0 /\ sector = 2
        /\ logic_sector = 1
    BY <1>1 DEF Stages
  <2>2. Slot = 4 /\ ChsSector = 1
    BY <2>1 DEF Slot, ChsSector, SectorsPerTrack
  <2>3. Allowed
    BY <2>1, <2>2 DEF Allowed, SectorsPerTrack, Tracks
  <2> QED
    BY <1>1, <2>1, <2>2, <2>3
<1>2. CASE part # "load_setup"
  <2>1. Segment /\ Aligned /\ Fitting /\ OnTrack /\ logic_sector \in Nat \ {0}
    BY <1>2 DEF Stages
  <2>2. total \in {88, 128} /\ readed \in 0 .. total /\ read_per_time \in 1 .. total - readed
    BY <2>1 DEF Segment, Aligned, Fitting
  <2>3. Slot = logic_sector + 29
    <3>1. bx = readed * 512 /\ es = 32 * (logic_sector + 29 - readed) /\ readed \in Nat
      BY <2>1, <2>2 DEF Aligned
    <3>2. es * 16 + bx = 512 * (logic_sector + 29)
      BY <2>1, <3>1
    <3> QED
      BY <2>1, <3>2 DEF Slot
  <2>4. ChsSector = logic_sector
    <3>1. track * 2 + head = logic_sector \div 18 /\ sector = (logic_sector % 18) + 1
      BY <2>1 DEF OnTrack, Fitting, SectorsPerTrack
    <3>2. ChsSector = (logic_sector \div 18) * 18 + (logic_sector % 18)
      BY <2>1, <3>1 DEF ChsSector, SectorsPerTrack, OnTrack
    <3> QED
      BY <2>1, <3>2
  <2>5. track < Tracks /\ Slot \div 128 = (Slot + read_per_time - 1) \div 128
    <3>1. CASE part = "load_setup32"
      <4>1. logic_sector = 11 + readed /\ total = 88
        BY <2>1, <3>1 DEF Segment, Aligned
      <4>2. track * 2 + head = logic_sector \div 18 /\ head \in {0, 1} /\ track \in Nat
        BY <2>1 DEF OnTrack, SectorsPerTrack
      <4> QED
        BY <2>2, <2>3, <4>1, <4>2 DEF Tracks
    <3>2. CASE part = "load_kernel"
      <4>1. PICK j \in 1 .. 8 : es = 4096 * j
        BY <2>1, <3>2 DEF Segment
      <4>2. logic_sector + 29 = 128 * j + readed /\ total = 128
        BY <2>1, <2>2, <3>2, <4>1 DEF Segment, Aligned
      <4>3. track * 2 + head = logic_sector \div 18 /\ head \in {0, 1} /\ track \in Nat
        BY <2>1 DEF OnTrack, SectorsPerTrack
      <4>4. logic_sector < 1200
        BY <2>1, <2>2, <4>2
      <4>5. track < 80
        BY <2>1, <4>3, <4>4
      <4> QED
        BY <2>2, <2>3, <4>2, <4>5 DEF Tracks
    <3> QED
      BY <2>1, <3>1, <3>2 DEF Segment
  <2>6. sector >= 1 /\ sector + read_per_time - 1 <= SectorsPerTrack
    BY <2>1 DEF Fitting, SectorsPerTrack
  <2> QED
    BY <1>2, <2>2, <2>3, <2>4, <2>5, <2>6 DEF Allowed
<1> QED
  BY <1>1, <1>2

-----------------------------------------------------------------------------
(* Every step of the boot sector keeps to the invariant *)

LEMMA StartStep ==
  ASSUME Stages, start PROVE Stages'
<1> USE DEF start, counts, disk
<1> QED
  BY DEF Stages, OnTrack, SectorsPerTrack

LEMMA LoadSetupStep ==
  ASSUME Stages, load_setup PROVE Stages'
<1> USE DEF load_setup, counts
<1> QED
  BY DEF Stages, OnTrack, SectorsPerTrack

LEMMA LoadSetup32Step ==
  ASSUME Stages, load_setup32 PROVE Stages'
<1>1. /\ pc = "load_setup32" /\ pc' = "go" /\ part' = "load_setup32" /\ es' = 1280 /\ bx' = 0
      /\ total' = 88 /\ readed' = 0 /\ logic_sector' = logic_sector /\ logic_sector = 11
  BY DEF Stages, load_setup32, disk
<1>2. Segment' /\ Aligned'
  BY <1>1 DEF Segment, Aligned
<1>3. OnTrack' /\ logic_sector' \in Nat \ {0}
  BY <1>1 DEF Stages, load_setup32, disk, OnTrack
<1> QED
  BY <1>1, <1>2, <1>3 DEF Stages

LEMMA LoadKernelStep ==
  ASSUME Stages, load_kernel PROVE Stages'
<1>1. pc = "load_kernel" /\ part' = part /\ part = "load_kernel" /\ logic_sector' = logic_sector
      /\ OnTrack' /\ logic_sector' \in Nat \ {0}
  BY DEF Stages, load_kernel, disk, OnTrack
<1>2. PICK j \in 0 .. 8 : es = 4096 * j /\ logic_sector = 99 + 128 * j
  BY <1>1 DEF Stages
<1>3. CASE es + 4096 >= 36864
  <2>1. pc' = "setup" /\ logic_sector' = 1123
    BY <1>1, <1>2, <1>3 DEF load_kernel
  <2> QED
    BY <1>1, <2>1 DEF Stages
<1>4. CASE ~(es + 4096 >= 36864)
  <2>1. pc' = "go" /\ es' = 4096 * (j + 1) /\ j + 1 \in 1 .. 8 /\ bx' = 0 /\ total' = 128
        /\ readed' = 0
    BY <1>1, <1>2, <1>4 DEF load_kernel
  <2>2. Segment'
    BY <1>1, <2>1 DEF Segment
  <2>3. Aligned'
    BY <1>1, <1>2, <2>1 DEF Aligned
  <2> QED
    BY <1>1, <2>1, <2>2, <2>3 DEF Stages
<1> QED
  BY <1>3, <1>4

LEMMA ReadMoreStep ==
  ASSUME Stages, read_more PROVE Stages'
<1>1. /\ pc = "go" /\ pc' = "read_track" /\ readed < total /\ part # "load_setup"
      /\ Segment /\ Aligned /\ OnTrack /\ logic_sector \in Nat \ {0}
  BY DEF Stages, read_more
<1>2. UNCHANGED <<part, es, bx, total, readed, track, head, logic_sector>>
  BY DEF read_more, counts
<1>3. Segment' /\ Aligned' /\ OnTrack'
  BY <1>1, <1>2 DEF Segment, Aligned, OnTrack
<1>4. Fitting'
  <2>1. total \in Nat /\ readed \in 0 .. total
    BY <1>1 DEF Segment, Aligned
  <2>2. sector' = (logic_sector % 18) + 1
        /\ read_per_time' = IF 18 - (logic_sector % 18) <= total - readed
                            THEN 18 - (logic_sector % 18) ELSE total - readed
    BY DEF read_more, SectorsPerTrack
  <2> QED
    BY <1>1, <1>2, <2>1, <2>2 DEF Fitting, SectorsPerTrack
<1> QED
  BY <1>1, <1>2, <1>3, <1>4 DEF Stages

LEMMA CompleteStep ==
  ASSUME Stages, complete PROVE Stages'
<1>1. /\ pc = "go" /\ readed >= total /\ part # "load_setup"
      /\ Segment /\ Aligned /\ OnTrack /\ logic_sector \in Nat \ {0}
  BY DEF Stages, complete
<1>2. logic_sector' = logic_sector /\ OnTrack' /\ part' = "load_kernel"
      /\ es' = IF part = "load_kernel" THEN es ELSE 0
  BY <1>1 DEF complete, disk, OnTrack
<1>3. readed = total /\ total \in {88, 128}
  BY <1>1 DEF Segment, Aligned
<1>4. pc' = "load_kernel"
  BY <1>3 DEF complete
<1>5. \E j \in 0 .. 8 : es' = 4096 * j /\ logic_sector' = 99 + 128 * j
  <2>1. CASE part = "load_setup32"
    <3>1. es' = 4096 * 0 /\ logic_sector' = 99 + 128 * 0
      BY <1>1, <1>2, <1>3, <2>1 DEF Segment, Aligned
    <3> QED
      BY <3>1
  <2>2. CASE part = "load_kernel"
    <3>1. PICK j \in 1 .. 8 : es = 4096 * j
      BY <1>1, <2>2 DEF Segment
    <3>2. total = 128 /\ es = 32 * (logic_sector + 29 - readed)
      BY <1>1, <2>2 DEF Segment, Aligned
    <3>3. es' = 4096 * j /\ logic_sector' = 99 + 128 * j
      BY <1>1, <1>2, <1>3, <2>2, <3>1, <3>2
    <3> QED
      BY <3>1, <3>3
  <2> QED
    BY <1>1, <2>1, <2>2 DEF Segment
<1> QED
  BY <1>1, <1>2, <1>4, <1>5 DEF Stages

LEMMA ReadTrackStep ==
  ASSUME Stages, read_track PROVE Stages'
<1>1. UNCHANGED <<part, es, bx, total, readed, read_per_time, sector, track, head, logic_sector>>
      /\ pc = "read_track" /\ pc' \in {"update_orthl", "load_setup_failed"}
  BY DEF read_track, counts, disk
<1>2. (Segment => Segment') /\ (Aligned => Aligned') /\ (Fitting => Fitting') /\ (OnTrack => OnTrack')
  BY <1>1 DEF Segment, Aligned, Fitting, OnTrack
<1> QED
  BY <1>1, <1>2 DEF Stages

\* The side changes, and after the second side the track, at the end of a track.
LEMMA UpdateOnTrack ==
  ASSUME OnTrack, logic_sector \in Nat \ {0}, update_orthl, read_per_time \in Nat,
         (logic_sector % 18) + read_per_time <= 18, read_per_time > 0
  PROVE  OnTrack' /\ logic_sector' \in Nat \ {0}
<1>1. logic_sector' = logic_sector + read_per_time
  BY DEF update_orthl
<1>2. head \in {0, 1} /\ track \in Nat /\ track * 2 + head = logic_sector \div 18
  BY DEF OnTrack, SectorsPerTrack
<1>3. CASE logic_sector' % 18 = 0
  <2>1. head' = 1 - head /\ track' = track + head
    BY <1>3 DEF update_orthl, SectorsPerTrack
  <2>2. logic_sector' \div 18 = logic_sector \div 18 + 1
    BY <1>1, <1>3
  <2> QED
    BY <1>1, <1>2, <2>1, <2>2 DEF OnTrack, SectorsPerTrack
<1>4. CASE logic_sector' % 18 # 0
  <2>1. head' = head /\ track' = track
    BY <1>4 DEF update_orthl, SectorsPerTrack
  <2>2. logic_sector' \div 18 = logic_sector \div 18
    BY <1>1, <1>4
  <2> QED
    BY <1>1, <1>2, <2>1, <2>2 DEF OnTrack, SectorsPerTrack
<1> QED
  BY <1>3, <1>4

LEMMA UpdateStep ==
  ASSUME Stages, update_orthl PROVE Stages'
<1>1. OnTrack /\ logic_sector \in Nat \ {0} /\ pc = "update_orthl" /\ part' = part
  BY DEF Stages, update_orthl
<1>2. CASE part = "load_setup"
  <2>1. logic_sector = 1 /\ read_per_time = 10
    BY <1>1, <1>2 DEF Stages
  <2>2. OnTrack' /\ logic_sector' \in Nat \ {0}
    BY <1>1, <2>1, UpdateOnTrack
  <2>3. pc' = "load_setup32" /\ logic_sector' = 11
    BY <1>2, <2>1 DEF update_orthl
  <2> QED
    BY <2>2, <2>3 DEF Stages
<1>3. CASE part # "load_setup"
  <2>1. Segment /\ Aligned /\ Fitting
    BY <1>1, <1>3 DEF Stages
  <2>2. total \in {88, 128} /\ readed \in 0 .. total /\ read_per_time \in 1 .. total - readed
    BY <2>1 DEF Segment, Aligned, Fitting
  <2>3. (logic_sector % 18) + read_per_time <= 18 /\ read_per_time \in Nat /\ read_per_time > 0
    BY <1>1, <2>1, <2>2 DEF Fitting, SectorsPerTrack
  <2>4. OnTrack' /\ logic_sector' \in Nat \ {0}
    BY <1>1, <2>3, UpdateOnTrack
  <2>5. pc' = "go" /\ es' = es /\ total' = total /\ logic_sector' = logic_sector + read_per_time
    BY <1>3 DEF update_orthl
  <2>6. readed' = readed + read_per_time
    <3>1. readed' = (readed \div 256) * 256 + ((readed + read_per_time) % 256)
      BY DEF update_orthl
    <3>2. readed \in Nat /\ readed < 256 /\ readed + read_per_time < 256
      BY <2>2, <2>3
    <3>3. readed \div 256 = 0
      BY <3>2
    <3>4. (readed + read_per_time) % 256 = readed + read_per_time
      BY <3>2, <2>3
    <3> QED
      BY <3>1, <3>3, <3>4, <2>3, <3>2
  <2>7. bx' = (readed' * 512) % 65536
    <3>1. bx' = (((readed * 512) % 65536) + read_per_time * 512) % 65536
      BY <2>1 DEF update_orthl, Aligned
    <3>2. readed \in 0 .. 128 /\ read_per_time \in 1 .. 128
      BY <2>2
    <3> QED
      BY <2>6, <3>1, <3>2
  <2>8. Segment'
    BY <1>1, <2>1, <2>5 DEF Segment
  <2>9. Aligned'
    BY <1>1, <2>1, <2>2, <2>5, <2>6, <2>7 DEF Aligned
  <2> QED
    BY <1>1, <1>3, <2>4, <2>5, <2>8, <2>9 DEF Stages
<1> QED
  BY <1>2, <1>3

-----------------------------------------------------------------------------
(* What is in memory follows from how far the code is *)

\* A read adds its sectors.
LEMMA ReadFills ==
  ASSUME Stages, Filled, pc = "read_track", NEW s \in Slots
  PROVE  (IF s \in Slot .. Slot + read_per_time - 1 THEN ChsSector + s - Slot ELSE memory[s])
         = Content(s, logic_sector + read_per_time)
<1>1. memory[s] = Content(s, logic_sector)
  BY DEF Filled, Reached
<1>2. ChsSector = logic_sector /\ s \in Nat
  BY ReadFits DEF Slots
<1>3. CASE part = "load_setup"
  <2>1. Slot = 4 /\ read_per_time = 10 /\ logic_sector = 1
    BY <1>3, ReadFits DEF Stages
  <2>2. CASE s \in 4 .. 13
    BY <1>2, <2>1, <2>2 DEF Content
  <2>3. CASE s \notin 4 .. 13
    BY <1>1, <1>2, <2>1, <2>3 DEF Content
  <2> QED
    BY <2>2, <2>3
<1>4. CASE part # "load_setup"
  <2>1. Segment /\ Aligned /\ Fitting /\ logic_sector \in Nat \ {0}
    BY <1>4 DEF Stages
  <2>2. logic_sector >= 11 /\ read_per_time \in Nat /\ read_per_time > 0
    <3>1. total \in {88, 128} /\ readed \in 0 .. total /\ read_per_time \in 1 .. total - readed
      BY <2>1 DEF Segment, Aligned, Fitting
    <3>2. es = 32 * (logic_sector + 29 - readed) /\ es >= 1280
      BY <2>1 DEF Segment, Aligned
    <3> QED
      BY <2>1, <3>1, <3>2
  <2>3. Slot = logic_sector + 29
    BY <1>4, ReadFits
  <2>4. CASE s \in logic_sector + 29 .. logic_sector + 28 + read_per_time
    BY <1>2, <2>1, <2>2, <2>3, <2>4 DEF Content
  <2>5. CASE s \notin logic_sector + 29 .. logic_sector + 28 + read_per_time
    <3>1. s \notin Slot .. Slot + read_per_time - 1
      BY <1>2, <2>1, <2>2, <2>3, <2>5
    <3>2. Content(s, logic_sector) = Content(s, logic_sector + read_per_time)
      BY <1>2, <2>1, <2>2, <2>5 DEF Content
    <3> QED
      BY <1>1, <3>1, <3>2
  <2> QED
    BY <2>4, <2>5
<1> QED
  BY <1>3, <1>4

LEMMA FilledStep ==
  ASSUME Stages, Filled, Load PROVE Filled'
<1>1. memory' = memory /\ Reached' = Reached => Filled'
  BY DEF Filled
<1>2. CASE start
  <2>1. pc = "start" /\ pc' = "load_setup" /\ logic_sector = 1 /\ logic_sector' = 1
        /\ memory' = [memory EXCEPT ![3] = memory[62]]
    BY <1>2 DEF Stages, start, disk
  <2>2. Reached = 0 /\ Reached' = 1
    BY <2>1 DEF Reached
  <2>3. memory = [s \in Slots |-> Content(s, 0)]
    BY <2>1, <2>2 DEF Filled
  <2>4. memory[62] = 0
    BY <2>3 DEF Content, Slots
  <2>6. ASSUME NEW s \in Slots PROVE [memory EXCEPT ![3] = 0][s] = Content(s, 1)
    <3>1. [memory EXCEPT ![3] = 0][s] = IF s = 3 THEN 0 ELSE Content(s, 0)
      <4>1. DOMAIN memory = Slots /\ memory[s] = Content(s, 0)
        BY <2>3
      <4> QED
        BY <4>1
    <3>2. (IF s = 3 THEN 0 ELSE Content(s, 0)) = Content(s, 1)
      BY DEF Content, Slots
    <3> QED
      BY <3>1, <3>2
  <2>5. memory' = [s \in Slots |-> Content(s, 1)]
    BY <2>1, <2>3, <2>4, <2>6
  <2> QED
    BY <2>1, <2>2, <2>5 DEF Filled
<1>3. CASE load_setup
  BY <1>1, <1>3 DEF load_setup, Reached
<1>4. CASE load_setup32
  BY <1>1, <1>4 DEF load_setup32, disk, Reached
<1>5. CASE load_kernel
  <2>1. memory' = memory /\ logic_sector' = logic_sector /\ pc = "load_kernel"
        /\ pc' \in {"setup", "go"}
    BY <1>5 DEF load_kernel, disk
  <2> QED
    BY <1>1, <2>1 DEF Reached
<1>6. CASE read_more
  BY <1>1, <1>6 DEF read_more, Reached
<1>7. CASE complete
  <2>1. memory' = memory /\ logic_sector' = logic_sector /\ pc = "go" /\ part # "load_setup"
        /\ Segment /\ Aligned
    BY <1>7 DEF Stages, complete, disk
  <2>2. readed = total /\ total \in {88, 128}
    <3>1. readed >= total
      BY <1>7 DEF complete
    <3>2. total \in {88, 128} /\ readed \in 0 .. total
      BY <2>1 DEF Segment, Aligned
    <3> QED
      BY <3>1, <3>2
  <2>3. pc' = "load_kernel"
    BY <1>7, <2>2 DEF complete
  <2> QED
    BY <1>1, <2>1, <2>3 DEF Reached
<1>8. CASE read_track
  <2>1. pc = "read_track" /\ logic_sector' = logic_sector /\ read_per_time' = read_per_time
    BY <1>8 DEF read_track, disk
  <2>2. CASE pc' = "load_setup_failed" /\ memory' = memory
    BY <1>1, <2>1, <2>2 DEF Reached
  <2>3. CASE /\ pc' = "update_orthl"
             /\ memory' = [s \in Slots |-> IF s \in Slot .. Slot + read_per_time - 1
                                           THEN ChsSector + s - Slot ELSE memory[s]]
    <3>1. memory' = [s \in Slots |-> Content(s, logic_sector + read_per_time)]
      BY <2>1, <2>3, ReadFills
    <3>2. Reached' = logic_sector + read_per_time
      BY <2>1, <2>3 DEF Reached
    <3> QED
      BY <2>3, <3>1, <3>2 DEF Filled
  <2> QED
    BY <1>8, <2>2, <2>3 DEF read_track
<1>9. CASE update_orthl
  <2>1. memory' = memory /\ logic_sector' = logic_sector + read_per_time /\ pc = "update_orthl"
        /\ pc' \in {"load_setup32", "go"}
    BY <1>9 DEF update_orthl
  <2>2. logic_sector' \in Nat \ {0}
    BY <1>9, UpdateStep DEF Stages
  <2>3. Reached = logic_sector + read_per_time /\ Reached' = logic_sector'
    BY <2>1, <2>2 DEF Reached
  <2> QED
    BY <1>1, <2>1, <2>3
<1> QED
  BY <1>2, <1>3, <1>4, <1>5, <1>6, <1>7, <1>8, <1>9 DEF Load

LEMMA LoadStepInv ==
  ASSUME LoadInv, [Load]_loadVars PROVE LoadInv'
<1>1. CASE Load
  <2>1. Stages'
    BY <1>1, StartStep, LoadSetupStep, LoadSetup32Step, LoadKernelStep, ReadMoreStep,
       CompleteStep, ReadTrackStep, UpdateStep DEF LoadInv, Load
  <2> QED
    BY <1>1, <2>1, FilledStep DEF LoadInv
<1>2. CASE UNCHANGED loadVars
  <2> USE <1>2 DEF loadVars, counts, disk
  <2>1. OnTrack' = OnTrack /\ Segment' = Segment /\ Aligned' = Aligned /\ Fitting' = Fitting
        /\ Reached' = Reached
    BY DEF OnTrack, Segment, Aligned, Fitting, Reached
  <2>2. Stages'
    BY <2>1 DEF LoadInv, Stages
  <2>3. Filled'
    BY <2>1 DEF LoadInv, Filled
  <2> QED
    BY <2>2, <2>3 DEF LoadInv
<1> QED
  BY <1>1, <1>2

LEMMA LoadInvImplies ==
  ASSUME LoadInv PROVE ReadsAllowed /\ LoadedWhole
<1> USE DEF LoadInv
<1>1. ReadsAllowed
  <2>1. pc = "go" => readed <= total
    BY DEF Stages, Segment, Aligned
  <2> QED
    BY <2>1, ReadFits DEF ReadsAllowed
<1>2. pc # "start" => memory[3] = 0
  <2>1. ASSUME pc = "update_orthl" PROVE read_per_time \in Nat
    <3>1. CASE part = "load_setup"
      BY <2>1, <3>1 DEF Stages
    <3>2. CASE part # "load_setup"
      <4>1. Segment /\ Aligned /\ Fitting
        BY <2>1, <3>2 DEF Stages
      <4>2. total \in {88, 128} /\ readed \in 0 .. total
        BY <4>1 DEF Segment, Aligned
      <4> QED
        BY <4>1, <4>2 DEF Fitting
    <3> QED
      BY <3>1, <3>2
  <2>2. ASSUME pc # "start" PROVE Reached > 0 /\ Reached \in Nat
    BY <2>1, <2>2 DEF Stages, Reached
  <2> QED
    BY <2>2 DEF Filled, Slots, Content
<1>3. ASSUME pc = "setup" PROVE memory = Parts
  <2>1. Reached = 1123
    BY <1>3 DEF Stages, Reached
  <2>2. memory = [s \in Slots |-> Content(s, 1123)]
    BY <2>1 DEF Filled
  <2>3. ASSUME NEW s \in Slots
        PROVE  Content(s, 1123) = CASE s = 3          -> 0
                                          [] s \in 4 .. 13   -> s - 3
                                          [] s \in 40 .. 127 -> s - 29
                                          [] s >= 128        -> s - 29
                                          [] OTHER           -> Empty
    BY DEF Content, Slots
  <2> QED
    BY <2>2, <2>3 DEF Parts
<1> QED
  BY <1>1, <1>2, <1>3 DEF LoadedWhole

LEMMA LoadSteps == [Next]_vars => [Load]_loadVars
BY DEF Next, vars, LoadStep, MemoryStep, ClockStep, ChipStep, loadVars

\* Every read is one that the drive can do, and it reads the sector that is due, whether
\* the calls before it ended a track, a side, a segment of 64 KB or a part.
THEOREM BootReadsAllowed == Spec => []ReadsAllowed
<1>1. Init => LoadInv
  BY LoadInitInv DEF Init
<1>2. LoadInv /\ [Next]_vars => LoadInv'
  BY LoadSteps, LoadStepInv
<1>3. LoadInv => ReadsAllowed
  BY LoadInvImplies
<1> QED
  BY <1>1, <1>2, <1>3, PTL DEF Spec

\* When setup begins, each part is whole and where it belongs, nothing else was written
\* to, and the boot sector that did it was never overwritten after its move.
THEOREM BootLoadedWhole == Spec => []LoadedWhole
<1>1. Init => LoadInv
  BY LoadInitInv DEF Init
<1>2. LoadInv /\ [Next]_vars => LoadInv'
  BY LoadSteps, LoadStepInv
<1>3. LoadInv => LoadedWhole
  BY LoadInvImplies
<1> QED
  BY <1>1, <1>2, <1>3, PTL DEF Spec

-----------------------------------------------------------------------------
(* The size of memory *)

\* What has been copied, stage by stage.
Copied ==
    /\ Len(ARDS) \in Nat /\ Len(ARDS) <= Len(map)
    /\ \A i \in 1 .. Len(ARDS) : ARDS[i] = map[i]

\* The sum is a number, and memory is divided by it.
Sizing ==
    /\ RAM_size \in Nat
    /\ stage # "off" => map \in Maps
    /\ stage = "off" => ARDS = <<>>
    /\ stage = "get_memory_size" => Copied /\ Len(ARDS) < Len(map)
    /\ stage = "display_memory_size" =>
         Copied /\ Len(ARDS) = Len(map) /\ cx \in 1 .. Len(map)
    /\ stage = "mem_init" =>
         memory_end = Usable(RAM_size) /\ buffer_memory_end = BufferEnd(memory_end)

\* Nothing is given away before mem_init(), and it starts from 1 MB at least.
Given ==
    /\ stage = "mem_init" => buffer_memory_end \in {Mb, 2 * Mb, 4 * Mb}
    /\ IF stage = "time_init" THEN unused[1] \in Nat /\ unused[1] >= 256 ELSE unused = <<0, 0>>

LEMMA BufferEnds == ASSUME NEW end PROVE BufferEnd(end) \in {Mb, 2 * Mb, 4 * Mb}
BY DEF BufferEnd

LEMMA GivenInit == LayoutInit => Given
BY DEF LayoutInit, Given

LEMMA GivenStep ==
  ASSUME Given, [SizeMemory]_layoutVars PROVE Given'
<1>1. CASE setup
  BY <1>1 DEF setup, Given
<1>2. CASE get_memory_size
  BY <1>2 DEF get_memory_size, Given
<1>3. CASE calculate_RAM_size
  BY <1>3 DEF calculate_RAM_size, Given
<1>4. CASE main
  <2>1. stage = "main" /\ stage' = "mem_init" /\ unused' = unused
        /\ buffer_memory_end' = BufferEnd(memory_end')
    BY <1>4 DEF main
  <2> QED
    BY <2>1, BufferEnds DEF Given
<1>5. CASE mem_init
  <2>1. stage = "mem_init" /\ stage' = "time_init"
    BY <1>5 DEF mem_init
  <2>2. unused'[1] = buffer_memory_end \div 4
    BY <1>5 DEF mem_init, Page
  <2>3. buffer_memory_end \in {1024, 2048, 4096}
    BY <2>1 DEF Given, Mb
  <2> QED
    BY <2>1, <2>2, <2>3 DEF Given
<1>6. CASE UNCHANGED layoutVars
  BY <1>6 DEF layoutVars, Given
<1> QED
  BY <1>1, <1>2, <1>3, <1>4, <1>5, <1>6 DEF SizeMemory

LEMMA SizeSteps == [Next]_vars => [SizeMemory]_layoutVars
BY DEF Next, vars, LoadStep, MemoryStep, ClockStep, ChipStep, layoutVars

\* No page given to processes is one that a part was loaded into, on any machine: not
\* even where there is less memory than the code takes for granted.
THEOREM BootNothingLoadedIsFree == Spec => []NothingLoadedIsFree
<1>1. Init => Given
  BY GivenInit DEF Init
<1>2. Given /\ [Next]_vars => Given'
  BY SizeSteps, GivenStep
<1>3. Given => NothingLoadedIsFree
  <2> SUFFICES ASSUME Given, NEW s \in Slots, Free(s \div 8)
               PROVE  FALSE
    BY DEF NothingLoadedIsFree
  <2>1. s \div 8 \in 0 .. 143
    BY DEF Slots
  <2> QED
    BY <2>1 DEF Given, Free
<1> QED
  BY <1>1, <1>2, <1>3, PTL DEF Spec

LEMMA SizingInit == LayoutInit => Sizing
BY DEF LayoutInit, Sizing

LEMMA MapFacts ==
  ASSUME NEW m \in Maps
  PROVE  /\ Len(m) \in Nat \ {0}
         /\ \A i \in 1 .. Len(m) : m[i] \in [base : Nat, length : Nat \ {0}, ram : BOOLEAN]
<1>1. m \in Seq([base : Nat, length : Nat \ {0}, ram : BOOLEAN]) /\ m # <<>>
  BY LayoutAssumption
<1>2. Len(m) \in Nat
  BY <1>1
<1>3. Len(m) # 0
  BY <1>1, EmptySeq
<1>4. ASSUME NEW i \in 1 .. Len(m)
      PROVE  m[i] \in [base : Nat, length : Nat \ {0}, ram : BOOLEAN]
  BY <1>1, ElementOfSeq
<1> QED
  BY <1>2, <1>3, <1>4

LEMMA SizingStep ==
  ASSUME Sizing, [SizeMemory]_layoutVars PROVE Sizing'
<1>1. CASE setup
  <2>1. stage' = "get_memory_size" /\ map' \in Maps /\ RAM_size' = RAM_size /\ ARDS' = <<>>
    BY <1>1 DEF setup, Sizing
  <2>2. Len(map') \in Nat \ {0}
    BY <2>1, MapFacts
  <2> QED
    BY <2>1, <2>2 DEF Sizing, Copied
<1>2. CASE get_memory_size
  <2>1. /\ stage = "get_memory_size" /\ map' = map /\ RAM_size' = RAM_size
        /\ Copied /\ Len(ARDS) < Len(map) /\ map \in Maps
    BY <1>2 DEF get_memory_size, Sizing
  <2>2. CASE stage' = "get_memory_failed"
    BY <2>1, <2>2 DEF Sizing
  <2>3. CASE /\ ARDS' = Append(ARDS, map[Len(ARDS) + 1])
             /\ stage' = IF Len(ARDS') = Len(map) THEN "display_memory_size" ELSE stage
             /\ cx' = Len(ARDS')
    <3>1. Len(ARDS') = Len(ARDS) + 1 /\ \A i \in 1 .. Len(ARDS') : ARDS'[i] = map[i]
      BY <2>1, <2>3 DEF Copied
    <3>2. Copied'
      BY <2>1, <3>1, MapFacts DEF Copied
    <3>3. CASE Len(ARDS') = Len(map)
      <4>1. stage' = "display_memory_size" /\ cx' \in 1 .. Len(map')
        BY <2>1, <2>3, <3>3, MapFacts
      <4> QED
        BY <2>1, <3>2, <3>3, <4>1 DEF Sizing
    <3>4. CASE Len(ARDS') # Len(map)
      <4>1. stage' = "get_memory_size" /\ Len(ARDS') < Len(map)
        BY <2>1, <2>3, <3>1, <3>4, MapFacts DEF Copied
      <4> QED
        BY <2>1, <3>2, <4>1 DEF Sizing
    <3> QED
      BY <3>3, <3>4
  <2> QED
    BY <1>2, <2>2, <2>3 DEF get_memory_size
<1>3. CASE calculate_RAM_size
  <2>1. /\ stage = "display_memory_size" /\ map' = map /\ ARDS' = ARDS /\ map \in Maps
        /\ Copied /\ Len(ARDS) = Len(map) /\ cx \in 1 .. Len(map) /\ RAM_size \in Nat
    BY <1>3 DEF calculate_RAM_size, Sizing
  <2>2. /\ RAM_size' = (RAM_size + ARDS[Len(ARDS) - cx + 1].length) % Kb32
        /\ cx' = cx - 1
        /\ stage' = IF cx' = 0 THEN "main" ELSE stage
    BY <1>3 DEF calculate_RAM_size
  <2>3. RAM_size' \in Nat
    <3> DEFINE k == Len(ARDS) - cx + 1
    <3>1. Len(map) \in Nat /\ k \in 1 .. Len(ARDS)
      BY <2>1, MapFacts
    <3>2. ARDS[k].length \in Nat
      BY <2>1, <3>1, MapFacts DEF Copied
    <3>3. ASSUME NEW a \in Nat PROVE a % Kb32 \in Nat
      BY SMT DEF Kb32
    <3> HIDE DEF k
    <3>4. RAM_size + ARDS[k].length \in Nat
      BY <2>1, <3>2
    <3> QED
      BY <2>2, <3>3, <3>4 DEF k
  <2>4. CASE cx' = 0
    BY <2>1, <2>2, <2>3, <2>4 DEF Sizing
  <2>5. CASE cx' # 0
    <3>1. stage' = "display_memory_size" /\ cx' \in 1 .. Len(map)
      BY <2>1, <2>2, <2>5, MapFacts
    <3>2. Copied'
      BY <2>1 DEF Copied
    <3> QED
      BY <2>1, <2>3, <3>1, <3>2 DEF Sizing
  <2> QED
    BY <2>4, <2>5
<1>4. CASE main
  BY <1>4 DEF main, Sizing
<1>5. CASE mem_init
  BY <1>5 DEF mem_init, Sizing
<1>6. CASE UNCHANGED layoutVars
  <2> USE <1>6 DEF layoutVars
  <2>1. Copied' = Copied
    BY DEF Copied
  <2> QED
    BY <2>1 DEF Sizing
<1> QED
  BY <1>1, <1>2, <1>3, <1>4, <1>5, <1>6 DEF SizeMemory

\* What mem_init marks lies between the end of the buffers and that of memory.
LEMMA MarkedInTable ==
  ASSUME Sizing, mem_init PROVE FreeInTable'
<1> SUFFICES ASSUME RAM_size >= Mb PROVE unused'[1] + unused'[2] <= PAGING_PAGES
  BY DEF FreeInTable, mem_init
<1>1. RAM_size \in Nat /\ RAM_size >= 1024 /\ memory_end = Usable(RAM_size)
      /\ buffer_memory_end = BufferEnd(memory_end)
  BY DEF mem_init, Sizing, Mb
<1>2. memory_end \in Nat /\ memory_end % 4 = 0 /\ 1024 <= memory_end /\ memory_end <= 65536
  <2> DEFINE whole == RAM_size - (RAM_size % 4)
  <2>1. whole \in Nat /\ whole % 4 = 0 /\ 1024 <= whole
    BY <1>1
  <2>2. memory_end = IF whole > 65536 THEN 65536 ELSE whole
    BY <1>1 DEF Usable, Page, Mb
  <2> HIDE DEF whole
  <2> QED
    BY <2>1, <2>2, SMT
<1>3. buffer_memory_end \in {1024, 2048, 4096} /\ buffer_memory_end <= memory_end
  BY <1>1, <1>2 DEF BufferEnd, Mb
<1>4. unused' = <<buffer_memory_end \div 4,
                 ((Kb32 + memory_end - buffer_memory_end) % Kb32) \div 4>>
  BY DEF mem_init, Page
<1>5. (Kb32 + memory_end - buffer_memory_end) % Kb32 = memory_end - buffer_memory_end
  BY <1>2, <1>3, SMT DEF Kb32
<1> QED
  BY <1>2, <1>3, <1>4, <1>5 DEF PAGING_PAGES

\* On any machine whose memory, as setup.asm counts it, is 1 MB or more, whatever its
\* map, the pages that mem_init marks have entries in mem_map.
THEOREM BootFreeInTable == Spec => []FreeInTable
<1> DEFINE Inv == Given /\ Sizing /\ FreeInTable
<1>1. Init => Inv
  <2>1. LayoutInit => FreeInTable
    BY DEF LayoutInit, FreeInTable
  <2> QED
    BY <2>1, GivenInit, SizingInit DEF Init
<1>2. Inv /\ [Next]_vars => Inv'
  <2> SUFFICES ASSUME Inv, [SizeMemory]_layoutVars PROVE Inv'
    BY SizeSteps
  <2>1. Given' /\ Sizing'
    BY GivenStep, SizingStep
  <2>2. CASE UNCHANGED layoutVars
    <3>1. FreeInTable' = FreeInTable
      BY <2>2 DEF layoutVars, FreeInTable
    <3> QED
      BY <2>1, <3>1
  <2>3. CASE mem_init
    BY <2>1, <2>3, MarkedInTable
  <2>4. CASE setup \/ get_memory_size \/ calculate_RAM_size \/ main
    <3>1. stage' # "time_init"
      BY <2>4 DEF setup, get_memory_size, calculate_RAM_size, main
    <3> QED
      BY <2>1, <3>1 DEF FreeInTable
  <2> QED
    BY <2>1, <2>2, <2>3, <2>4 DEF SizeMemory
<1>3. Inv => FreeInTable
  OBVIOUS
<1> QED
  BY <1>1, <1>2, <1>3, PTL DEF Spec

-----------------------------------------------------------------------------
(* The calendar: kernel_mktime agrees with it for a hundred years *)

Fields == {"year", "mon", "mday", "hour", "min", "sec"}

Date(t) ==
    /\ DOMAIN t = Fields
    /\ t.year \in 1970 .. 2069 /\ t.mon \in 1 .. 12
    /\ t.mday \in 1 .. DaysIn(t.year, t.mon)
    /\ t.hour \in 0 .. 23 /\ t.min \in 0 .. 59 /\ t.sec \in 0 .. 59

\* The last minute of 2069: what follows has the two digits of 1970.
LastMinute(t) ==
    t.year = 2069 /\ t.mon = 12 /\ t.mday = 31 /\ t.hour = 23 /\ t.min = 59

LeapYears(y) == {z \in 1970 .. y - 1 : Leap(z)}
DaysBefore(y, m) == {p \in (1 .. m - 1) \X (1 .. 31) : p[2] <= DaysIn(y, p[1])}

\* Until 2099 every fourth year is a leap year.
LEMMA LeapEveryFourth == ASSUME NEW z \in 1970 .. 2069 PROVE Leap(z) <=> z % 4 = 0
BY DEF Leap

\* n things, numbered.
LEMMA Counted ==
  ASSUME NEW S, NEW n \in Nat, NEW F \in [1 .. n -> S],
         \A i, j \in 1 .. n : F[i] = F[j] => i = j,
         \A s \in S : \E i \in 1 .. n : F[i] = s
  PROVE  IsFiniteSet(S) /\ Cardinality(S) = n
<1>1. F \in Bijection(1 .. n, S)
  BY Fun_IsBij
<1>2. ExistsBijection(1 .. n, S)
  BY <1>1, Fun_ExistsBij
<1>3. IsFiniteSet(1 .. n)
  BY FS_Interval
<1> QED
  BY <1>2, <1>3, FS_Bijection, FS_CountingElements

LEMMA CountLeapYears ==
  ASSUME NEW y
  PROVE  y \in 1970 .. 2069 => Cardinality(LeapYears(y)) = (y - 1969) \div 4
<1>0. SUFFICES ASSUME y \in 1970 .. 2069
               PROVE  Cardinality(LeapYears(y)) = (y - 1969) \div 4
  OBVIOUS
<1> DEFINE n == (y - 1969) \div 4
           F == [i \in 1 .. n |-> 1968 + 4 * i]
<1>1. n \in Nat
  BY <1>0
<1>2. ASSUME NEW i \in 1 .. n PROVE F[i] \in LeapYears(y)
  <2>1. F[i] = 1968 + 4 * i /\ 4 * i <= y - 1969 /\ i \in Nat /\ i >= 1
    BY <1>0, <1>1
  <2>2. F[i] \in 1970 .. y - 1 /\ F[i] % 4 = 0 /\ F[i] \in 1970 .. 2069
    BY <1>0, <2>1
  <2> QED
    BY <1>0, <2>2, LeapEveryFourth DEF LeapYears
<1>3. ASSUME NEW z \in LeapYears(y) PROVE \E i \in 1 .. n : F[i] = z
  <2>1. z \in 1970 .. y - 1 /\ z \in 1970 .. 2069 /\ Leap(z)
    BY <1>0 DEF LeapYears
  <2>2. z % 4 = 0
    BY <2>1, LeapEveryFourth
  <2>3. (z - 1968) \div 4 \in 1 .. n /\ 1968 + 4 * ((z - 1968) \div 4) = z
    BY <1>0, <2>1, <2>2
  <2> QED
    BY <2>3
<1>4. ASSUME NEW i \in 1 .. n, NEW j \in 1 .. n, F[i] = F[j] PROVE i = j
  BY <1>1, <1>4
<1>5. F \in [1 .. n -> LeapYears(y)]
  BY <1>0, <1>2
<1>6. (\A z \in LeapYears(y) : \E i \in 1 .. n : F[i] = z)
      /\ (\A i, j \in 1 .. n : F[i] = F[j] => i = j)
  BY <1>3, <1>4
<1> DEFINE L == LeapYears(y)
<1>7. Cardinality(L) = n
  <2>1. n \in Nat /\ F \in [1 .. n -> L] /\ (\A i, j \in 1 .. n : F[i] = F[j] => i = j)
        /\ (\A z \in L : \E i \in 1 .. n : F[i] = z)
    BY <1>1, <1>5, <1>6
  <2> HIDE DEF n, F, L
  <2> QED
    BY <2>1, Counted
<1> HIDE DEF n
<1> QED
  BY <1>7 DEF n

LEMMA DaysInRange == ASSUME NEW y, NEW m PROVE DaysIn(y, m) \in 28 .. 31
BY DEF DaysIn

LEMMA DaysInNat == ASSUME NEW y, NEW m PROVE DaysIn(y, m) \in Nat
BY DaysInRange

\* A month has its days.
LEMMA OneMonth ==
  ASSUME NEW m, NEW d \in Nat
  PROVE  IsFiniteSet({m} \X (1 .. d)) /\ Cardinality({m} \X (1 .. d)) = d
<1> DEFINE S == {m} \X (1 .. d)
           F == [i \in 1 .. d |-> <<m, i>>]
<1>1. F \in [1 .. d -> S] /\ \A i, j \in 1 .. d : F[i] = F[j] => i = j
  OBVIOUS
<1>2. \A s \in S : \E i \in 1 .. d : F[i] = s
  OBVIOUS
<1> HIDE DEF S, F
<1>3. IsFiniteSet(S) /\ Cardinality(S) = d
  BY <1>1, <1>2, Counted
<1> QED
  BY <1>3 DEF S

\* The days of the months before are finitely many.
LEMMA FiniteUpTo == ASSUME NEW b \in Int PROVE IsFiniteSet(1 .. b)
BY FS_Interval

LEMMA FiniteBefore == ASSUME NEW y, NEW m \in Int PROVE IsFiniteSet(DaysBefore(y, m))
<1> DEFINE A == 1 .. m - 1
           B == 1 .. 31
<1>1. IsFiniteSet(A) /\ IsFiniteSet(B)
  <2>1. m - 1 \in Int /\ 31 \in Int
    OBVIOUS
  <2> QED
    BY <2>1, FiniteUpTo, Zenon
<1>2. DaysBefore(y, m) \in SUBSET (A \X B)
  BY DEF DaysBefore
<1> HIDE DEF A, B
<1>3. IsFiniteSet(A \X B)
  BY <1>1, FS_Product
<1> QED
  BY <1>2, <1>3, FS_Subset

LEMMA DisjointUnion ==
  ASSUME NEW S, NEW T, IsFiniteSet(S), IsFiniteSet(T), S \cap T = {}
  PROVE  Cardinality(S \cup T) = Cardinality(S) + Cardinality(T) /\ Cardinality(S) \in Nat
<1>1. Cardinality(S) \in Nat /\ Cardinality(T) \in Nat /\ Cardinality({}) = 0
  BY FS_CardinalityType, FS_EmptySet
<1>2. Cardinality(S \cup T) = Cardinality(S) + Cardinality(T) - Cardinality(S \cap T)
  BY FS_Union, Zenon
<1>3. Cardinality(S \cap T) = 0
  BY <1>1, Zenon
<1> QED
  BY <1>1, <1>2, <1>3

LEMMA MonthByMonth ==
  ASSUME NEW y, NEW m \in 1 .. 11
  PROVE  Cardinality(DaysBefore(y, m + 1)) = Cardinality(DaysBefore(y, m)) + DaysIn(y, m)
         /\ Cardinality(DaysBefore(y, m)) \in Nat
<1> DEFINE S == DaysBefore(y, m)
           T == {m} \X (1 .. DaysIn(y, m))
<1>1. DaysIn(y, m) \in 28 .. 31
  BY DaysInRange
<1>2. IsFiniteSet(S)
  BY FiniteBefore
<1>3. IsFiniteSet(T) /\ Cardinality(T) = DaysIn(y, m)
  BY DaysInNat, OneMonth
<1>4. DaysBefore(y, m + 1) = S \cup T
  <2>1. ASSUME NEW p \in DaysBefore(y, m + 1) PROVE p \in S \cup T
    <3>1. p \in (1 .. m) \X (1 .. 31) /\ p[2] <= DaysIn(y, p[1])
      BY DEF DaysBefore
    <3>2. CASE p[1] = m
      BY <1>1, <3>1, <3>2
    <3>3. CASE p[1] # m
      BY <3>1, <3>3 DEF DaysBefore
    <3> QED
      BY <3>2, <3>3
  <2>2. ASSUME NEW p \in S PROVE p \in DaysBefore(y, m + 1)
    BY <2>2 DEF DaysBefore
  <2>3. ASSUME NEW p \in T PROVE p \in DaysBefore(y, m + 1)
    BY <1>1, <2>3 DEF DaysBefore
  <2> QED
    BY <2>1, <2>2, <2>3
<1>5. S \cap T = {}
  BY DEF DaysBefore
<1> HIDE DEF S, T
<1> QED
  BY <1>2, <1>3, <1>4, <1>5, DisjointUnion DEF S

\* month[], with the day that is taken off in years that are not leap years.
LEMMA CountDaysBefore ==
  ASSUME NEW y \in 1970 .. 2069, NEW m \in 1 .. 12
  PROVE  Cardinality(DaysBefore(y, m)) = MonthDays[m] - LeapAdjusted(y - 1970, m - 1)
<1> DEFINE D(k) == Cardinality(DaysBefore(y, k))
           feb == IF y % 4 = 0 THEN 29 ELSE 28
<1>1. D(1) = 0
  <2>1. DaysBefore(y, 1) = {}
    BY DEF DaysBefore
  <2> QED
    BY <2>1, FS_EmptySet
<1>2. \A k \in 1 .. 11 : D(k + 1) = D(k) + DaysIn(y, k) /\ D(k) \in Nat
  BY MonthByMonth
<1>3. /\ DaysIn(y, 1) = 31 /\ DaysIn(y, 2) = feb /\ DaysIn(y, 3) = 31 /\ DaysIn(y, 4) = 30
      /\ DaysIn(y, 5) = 31 /\ DaysIn(y, 6) = 30 /\ DaysIn(y, 7) = 31 /\ DaysIn(y, 8) = 31
      /\ DaysIn(y, 9) = 30 /\ DaysIn(y, 10) = 31 /\ DaysIn(y, 11) = 30
  BY LeapEveryFourth DEF DaysIn
<1>4. LeapAdjusted(y - 1970, m - 1) = IF m > 2 THEN 29 - feb ELSE 0
  <2>1. (y - 1970 + 2) % 4 = y % 4
    OBVIOUS
  <2> QED
    BY <2>1 DEF LeapAdjusted
<1>5. feb \in 28 .. 29
  OBVIOUS
<1> HIDE DEF D, feb
<1>6. D(2) = D(1) + 31 /\ D(3) = D(2) + feb /\ D(4) = D(3) + 31
  <2>1. D(1 + 1) = D(1) + DaysIn(y, 1) /\ D(2 + 1) = D(2) + DaysIn(y, 2)
        /\ D(3 + 1) = D(3) + DaysIn(y, 3)
    BY <1>2
  <2> QED
    BY <1>3, <2>1
<1>7. D(5) = D(4) + 30 /\ D(6) = D(5) + 31 /\ D(7) = D(6) + 30 /\ D(8) = D(7) + 31
  <2>1. D(4 + 1) = D(4) + DaysIn(y, 4) /\ D(5 + 1) = D(5) + DaysIn(y, 5)
        /\ D(6 + 1) = D(6) + DaysIn(y, 6) /\ D(7 + 1) = D(7) + DaysIn(y, 7)
    BY <1>2
  <2> QED
    BY <1>3, <2>1
<1>8. D(9) = D(8) + 31 /\ D(10) = D(9) + 30 /\ D(11) = D(10) + 31 /\ D(12) = D(11) + 30
  <2>1. D(8 + 1) = D(8) + DaysIn(y, 8) /\ D(9 + 1) = D(9) + DaysIn(y, 9)
        /\ D(10 + 1) = D(10) + DaysIn(y, 10) /\ D(11 + 1) = D(11) + DaysIn(y, 11)
    BY <1>2
  <2> QED
    BY <1>3, <2>1
<1>9. D(m) = MonthDays[m] - IF m > 2 THEN 29 - feb ELSE 0
  BY <1>1, <1>5, <1>6, <1>7, <1>8 DEF MonthDays
<1> QED
  BY <1>4, <1>9 DEF D

\* What kernel_mktime makes of the fields of a date, the year in two digits.
LEMMA MktimeRight ==
  ASSUME NEW t, Date(t)
  PROVE  KernelMktime(t.sec, t.min, t.hour, t.mday, t.mon - 1, t.year % 100)
         = Long(SecondsSince1970(t)[1], SecondsSince1970(t)[2])
<1> DEFINE y == t.year
           m == t.mon
           tm_year == y % 100
           year == (IF tm_year < 70 THEN tm_year + 100 ELSE tm_year) - 70
           days == 365 * year + (year + 1) \div 4 + MonthDays[t.mon - 1 + 1]
                   - LeapAdjusted(year, t.mon - 1) + (t.mday - 1)
<1>1. y \in 1970 .. 2069 /\ m \in 1 .. 12 /\ t.mday \in 1 .. 31
  BY DaysInRange DEF Date
<1>2. year = y - 1970
  BY <1>1
<1>3. m - 1 + 1 = m
  BY <1>1
<1>4. DaysSince1970(y, m, t.mday)
      = 365 * (y - 1970) + Cardinality(LeapYears(y)) + Cardinality(DaysBefore(y, m)) + (t.mday - 1)
  BY DEF DaysSince1970, LeapYears, DaysBefore
<1>5. Cardinality(LeapYears(y)) = (year + 1) \div 4
  <2>1. Cardinality(LeapYears(y)) = (y - 1969) \div 4
    BY <1>1, CountLeapYears
  <2>2. y - 1969 = year + 1
    BY <1>1, <1>2
  <2> QED
    BY <2>1, <2>2
<1>6. Cardinality(DaysBefore(y, m)) = MonthDays[m] - LeapAdjusted(year, m - 1)
  <2>1. Cardinality(DaysBefore(y, m)) = MonthDays[m] - LeapAdjusted(y - 1970, m - 1)
    <3> HIDE DEF y, m
    <3> QED
      BY <1>1, CountDaysBefore
  <2> HIDE DEF y, m, year
  <2> QED
    BY <1>2, <2>1
<1>7. MonthDays[m] \in Int /\ LeapAdjusted(year, m - 1) \in Int /\ (year + 1) \div 4 \in Int
      /\ year \in Int
  BY <1>1, <1>2 DEF MonthDays, LeapAdjusted
<1>8. days = DaysSince1970(y, m, t.mday)
  <2> DEFINE a == MonthDays[m]
             b == LeapAdjusted(year, m - 1)
             c == (year + 1) \div 4
             d == t.mday
  <2>1. days = 365 * year + c + a - b + (d - 1)
    BY <1>3
  <2>2. DaysSince1970(y, m, t.mday) = 365 * year + c + (a - b) + (d - 1)
    BY <1>2, <1>4, <1>5, <1>6
  <2>3. a \in Int /\ b \in Int /\ c \in Int /\ d \in Int /\ year \in Int
    BY <1>1, <1>7
  <2> HIDE DEF a, b, c, d, year, days
  <2> QED
    BY <2>1, <2>2, <2>3
<1>9. KernelMktime(t.sec, t.min, t.hour, t.mday, t.mon - 1, t.year % 100)
      = Long(days, 3600 * t.hour + 60 * t.min + t.sec)
  BY DEF KernelMktime
<1> HIDE DEF days
<1> QED
  BY <1>8, <1>9 DEF SecondsSince1970

-----------------------------------------------------------------------------
(* Reading the clock while it ticks *)

\* Any date of the hundred years that two digits tell apart, from which no tick of
\* time_init leads out of them.
DatesFit == \A t \in Starts : Date(t) /\ ~LastMinute(t)

\* k seconds passed since the seconds s were read; if none, what was read is what it is.
ReadAt(s, k) ==
    /\ tm[1] = Bcd(s)
    /\ now.sec = (s + k) % 60
    /\ k = 0 => \A i \in 1 .. at - 1 : tm[i] = Register(now)[i]

Reading ==
    /\ at \in 0 .. 8 /\ ticks \in 0 .. MaxTicks
    /\ at = 0 => tm = <<>> /\ ticks = 0
    /\ at # 0 => Date(now) /\ (LastMinute(now) => now.sec < ticks)
    /\ at \in 1 .. 7 => tm \in Seq(Nat) /\ Len(tm) = at - 1
    /\ at \in 2 .. 7 => \E s \in 0 .. 59, k \in 0 .. ticks : ReadAt(s, k)

LEMMA BcdFacts ==
  ASSUME NEW n \in 0 .. 99
  PROVE  Bcd(n) \in Nat /\ BcdToBin(Bcd(n)) = n
BY DEF Bcd, BcdToBin

LEMMA SecondsOf == ASSUME NEW t, Date(t) PROVE t.sec \in 0 .. 59
BY DEF Date

LEMMA TicksBelow == MaxTicks \in Nat /\ MaxTicks <= 59
BY TimeAssumption

\* The registers of a date.
LEMMA Registers ==
  ASSUME NEW t, Date(t)
  PROVE  /\ Register(t) \in [1 .. 6 -> Nat]
         /\ BcdToBin(Register(t)[1]) = t.sec /\ BcdToBin(Register(t)[2]) = t.min
         /\ BcdToBin(Register(t)[3]) = t.hour /\ BcdToBin(Register(t)[4]) = t.mday
         /\ BcdToBin(Register(t)[5]) = t.mon /\ BcdToBin(Register(t)[6]) = t.year % 100
         /\ Register(t)[1] = Bcd(t.sec)
<1>1. /\ t.sec \in 0 .. 99 /\ t.min \in 0 .. 99 /\ t.hour \in 0 .. 99 /\ t.mday \in 0 .. 99
      /\ t.mon \in 0 .. 99 /\ t.year % 100 \in 0 .. 99
  BY DaysInRange DEF Date
<1>2. /\ Bcd(t.sec) \in Nat /\ BcdToBin(Bcd(t.sec)) = t.sec
      /\ Bcd(t.min) \in Nat /\ BcdToBin(Bcd(t.min)) = t.min
      /\ Bcd(t.hour) \in Nat /\ BcdToBin(Bcd(t.hour)) = t.hour
      /\ Bcd(t.mday) \in Nat /\ BcdToBin(Bcd(t.mday)) = t.mday
      /\ Bcd(t.mon) \in Nat /\ BcdToBin(Bcd(t.mon)) = t.mon
      /\ Bcd(t.year % 100) \in Nat /\ BcdToBin(Bcd(t.year % 100)) = t.year % 100
  BY <1>1, BcdFacts
<1> QED
  BY <1>2 DEF Register

\* A second later it is a date again, unless the last minute of 2069 is over.
LEMMA NextDate ==
  ASSUME NEW t, Date(t), LastMinute(t) => t.sec < 59
  PROVE  /\ Date(NextSecond(t))
         /\ NextSecond(t).sec = (t.sec + 1) % 60
         /\ LastMinute(NextSecond(t)) =>
              \/ NextSecond(t).sec = 0
              \/ LastMinute(t) /\ NextSecond(t).sec = t.sec + 1
<1> DEFINE n == NextSecond(t)
           d == DaysIn(t.year, t.mon)
<1>1. /\ DOMAIN t = Fields /\ t.mday \in 1 .. d /\ d \in 28 .. 31
      /\ t.year \in 1970 .. 2069 /\ t.mon \in 1 .. 12
      /\ t.hour \in 0 .. 23 /\ t.min \in 0 .. 59 /\ t.sec \in 0 .. 59
  BY DaysInRange DEF Date
<1>2. CASE t.sec < 59
  <2>1. n = [t EXCEPT !.sec = @ + 1]
    BY <1>2 DEF NextSecond
  <2> HIDE DEF n
  <2>2. DOMAIN n = Fields /\ n.sec = t.sec + 1 /\ n.year = t.year /\ n.mon = t.mon
        /\ n.mday = t.mday /\ n.hour = t.hour /\ n.min = t.min
    BY <1>1, <2>1 DEF Fields
  <2>3. Date(n) /\ n.sec = (t.sec + 1) % 60 /\ (LastMinute(n) => LastMinute(t))
    BY <1>1, <1>2, <2>2 DEF Date, LastMinute
  <2> QED
    BY <2>2, <2>3 DEF n
<1>3. CASE t.sec = 59 /\ t.min < 59
  <2>1. n = [t EXCEPT !.sec = 0, !.min = @ + 1]
    BY <1>3 DEF NextSecond
  <2> HIDE DEF n
  <2>2. DOMAIN n = Fields /\ n.sec = 0 /\ n.year = t.year /\ n.mon = t.mon
        /\ n.mday = t.mday /\ n.hour = t.hour /\ n.min = t.min + 1
    BY <1>1, <2>1 DEF Fields
  <2>3. Date(n) /\ n.sec = (t.sec + 1) % 60
    BY <1>1, <1>3, <2>2 DEF Date
  <2> QED
    BY <2>2, <2>3 DEF n
<1>4. CASE t.sec = 59 /\ t.min = 59 /\ t.hour < 23
  <2>1. n = [t EXCEPT !.sec = 0, !.min = 0, !.hour = @ + 1]
    BY <1>4 DEF NextSecond
  <2> HIDE DEF n
  <2>2. DOMAIN n = Fields /\ n.sec = 0 /\ n.year = t.year /\ n.mon = t.mon
        /\ n.mday = t.mday /\ n.hour = t.hour + 1 /\ n.min = 0
    BY <1>1, <2>1 DEF Fields
  <2>3. Date(n) /\ n.sec = (t.sec + 1) % 60
    BY <1>1, <1>4, <2>2 DEF Date
  <2> QED
    BY <2>2, <2>3 DEF n
<1>5. CASE t.sec = 59 /\ t.min = 59 /\ t.hour = 23
  <2> DEFINE midnight == [t EXCEPT !.sec = 0, !.min = 0, !.hour = 0]
  <2>1. n = CASE t.mday < d -> [midnight EXCEPT !.mday = @ + 1]
              [] t.mday = d /\ t.mon < 12 -> [midnight EXCEPT !.mday = 1, !.mon = @ + 1]
              [] OTHER -> [midnight EXCEPT !.mday = 1, !.mon = 1, !.year = @ + 1]
    BY <1>5 DEF NextSecond
  <2>2. /\ DOMAIN midnight = Fields /\ midnight.sec = 0 /\ midnight.min = 0 /\ midnight.hour = 0
        /\ midnight.year = t.year /\ midnight.mon = t.mon /\ midnight.mday = t.mday
    BY <1>1 DEF Fields
  <2>3. 0 = (t.sec + 1) % 60
    BY <1>5
  <2> HIDE DEF midnight, d, n
  <2>4. CASE t.mday < d
    <3>1. n = [midnight EXCEPT !.mday = @ + 1]
      BY <1>1, <2>1, <2>4
    <3>2. DOMAIN n = Fields /\ n.sec = 0 /\ n.min = 0 /\ n.hour = 0 /\ n.year = t.year
          /\ n.mon = t.mon /\ n.mday = t.mday + 1
      BY <2>2, <3>1 DEF Fields
    <3>3. Date(n)
      BY <1>1, <2>4, <3>2 DEF Date, d
    <3> QED
      BY <2>3, <3>2, <3>3 DEF n
  <2>5. CASE t.mday = d /\ t.mon < 12
    <3>1. n = [midnight EXCEPT !.mday = 1, !.mon = @ + 1]
      BY <1>1, <2>1, <2>5
    <3>2. DOMAIN n = Fields /\ n.sec = 0 /\ n.min = 0 /\ n.hour = 0 /\ n.year = t.year
          /\ n.mon = t.mon + 1 /\ n.mday = 1
      BY <2>2, <3>1 DEF Fields
    <3>3. Date(n)
      BY <1>1, <2>5, <3>2, DaysInRange DEF Date
    <3> QED
      BY <2>3, <3>2, <3>3 DEF n
  <2>6. CASE t.mday = d /\ t.mon = 12
    <3>1. n = [midnight EXCEPT !.mday = 1, !.mon = 1, !.year = @ + 1]
      BY <1>1, <2>1, <2>6
    <3>2. t.year < 2069
      <4>1. d = 31
        BY <2>6 DEF d, DaysIn
      <4> QED
        BY <1>1, <1>5, <2>6, <4>1 DEF LastMinute
    <3>3. DOMAIN n = Fields /\ n.sec = 0 /\ n.min = 0 /\ n.hour = 0 /\ n.year = t.year + 1
          /\ n.mon = 1 /\ n.mday = 1
      BY <2>2, <3>1 DEF Fields
    <3>4. Date(n)
      BY <1>1, <3>2, <3>3, DaysInRange DEF Date
    <3> QED
      BY <2>3, <3>3, <3>4 DEF n
  <2> QED
    BY <1>1, <2>4, <2>5, <2>6
<1> QED
  BY <1>1, <1>2, <1>3, <1>4, <1>5

LEMMA ReadingInit == TimeInit => Reading
BY TicksBelow DEF TimeInit, Reading

LEMMA BeginStep ==
  ASSUME DatesFit, Reading, Begin PROVE Reading'
<1>1. at = 0 /\ at' = 1 /\ tm' = <<>> /\ ticks' = 0 /\ now' \in Starts
  BY DEF Begin, Reading
<1>2. Date(now)' /\ ~LastMinute(now)'
  BY <1>1 DEF DatesFit
<1>3. tm' \in Seq(Nat) /\ Len(tm') = 0
  BY <1>1, EmptySeq
<1> QED
  BY <1>1, <1>2, <1>3, TicksBelow DEF Reading

LEMMA ReadRegisterStep ==
  ASSUME Reading, ReadRegister PROVE Reading'
<1>1. /\ at \in 1 .. 6 /\ at' = at + 1 /\ now' = now /\ ticks' = ticks
      /\ tm' = Append(tm, Register(now)[at])
  BY DEF ReadRegister
<1>2. /\ tm \in Seq(Nat) /\ Len(tm) = at - 1 /\ ticks \in 0 .. MaxTicks
      /\ Date(now) /\ (LastMinute(now) => now.sec < ticks)
  BY <1>1 DEF Reading
<1>3. Register(now)[at] \in Nat
  BY <1>1, <1>2, Registers
<1>4. /\ tm' \in Seq(Nat) /\ Len(tm') = at' - 1
      /\ tm'[at] = Register(now)[at] /\ \A i \in 1 .. at - 1 : tm'[i] = tm[i]
  BY <1>1, <1>2, <1>3
<1>5. \E s \in 0 .. 59, k \in 0 .. ticks' : ReadAt(s, k)'
  <2>1. CASE at = 1
    <3>1. tm'[1] = Bcd(now.sec) /\ now.sec \in 0 .. 59
      <4>1. Register(now)[1] = Bcd(now.sec) /\ now.sec \in 0 .. 59
        BY <1>2, Registers, SecondsOf
      <4>2. tm'[1] = Register(now)[1]
        BY <1>4, <2>1
      <4> QED
        BY <4>1, <4>2
    <3>2. now'.sec = (now.sec + 0) % 60 /\ 0 \in 0 .. ticks'
      <4>1. now'.sec = now.sec /\ ticks' \in Nat
        BY <1>1, <1>2, TicksBelow
      <4>2. now.sec = (now.sec + 0) % 60
        BY <3>1
      <4> QED
        BY <4>1, <4>2
    <3>3. \A i \in 1 .. at' - 1 : tm'[i] = Register(now')[i]
      BY <1>1, <1>4, <2>1
    <3>4. ReadAt(now.sec, 0)'
      BY <1>1, <3>1, <3>2, <3>3 DEF ReadAt
    <3> QED
      BY <3>1, <3>2, <3>4
  <2>2. CASE at # 1
    <3>1. at \in 2 .. 7
      BY <1>1, <2>2
    <3>2. PICK s \in 0 .. 59, k \in 0 .. ticks : ReadAt(s, k)
      BY <3>1 DEF Reading
    <3>3. tm'[1] = tm[1]
      BY <1>4, <3>1
    <3>4. ASSUME k = 0 PROVE \A i \in 1 .. at' - 1 : tm'[i] = Register(now')[i]
      <4>1. \A i \in 1 .. at - 1 : tm[i] = Register(now)[i]
        BY <3>2, <3>4 DEF ReadAt
      <4> QED
        BY <1>1, <1>4, <4>1
    <3>5. ReadAt(s, k)'
      BY <1>1, <3>2, <3>3, <3>4 DEF ReadAt
    <3> QED
      BY <1>1, <3>5
  <2> QED
    BY <2>1, <2>2
<1>6. Date(now)' /\ (LastMinute(now)' => now'.sec < ticks')
  BY <1>1, <1>2
<1>7. at' \in 2 .. 7 /\ at' \in 0 .. 8 /\ ticks' \in 0 .. MaxTicks
  BY <1>1, <1>2
<1>8. tm' \in Seq(Nat) /\ Len(tm') = at' - 1
  BY <1>4
<1>9. at' # 0 /\ at' # 1
  BY <1>7
<1> DEFINE Found == \E s \in 0 .. 59, k \in 0 .. ticks' : ReadAt(s, k)'
<1>10. Found
  BY <1>5
<1> QED
  <2>1. Reading' <=>
          /\ at' \in 0 .. 8 /\ ticks' \in 0 .. MaxTicks
          /\ at' = 0 => tm' = <<>> /\ ticks' = 0
          /\ at' # 0 => Date(now') /\ (LastMinute(now') => now'.sec < ticks')
          /\ at' \in 1 .. 7 => tm' \in Seq(Nat) /\ Len(tm') = at' - 1
          /\ at' \in 2 .. 7 => Found
    BY DEF Reading
  <2> HIDE DEF Found
  <2> QED
    BY <1>6, <1>7, <1>8, <1>9, <1>10, <2>1

LEMMA RepeatStep ==
  ASSUME Reading, Repeat PROVE Reading'
<1>1. at = 7 /\ at' = 1 /\ tm' = <<>> /\ now' = now /\ ticks' = ticks
  BY DEF Repeat, ReadAgain
<1>2. ticks \in 0 .. MaxTicks /\ Date(now) /\ (LastMinute(now) => now.sec < ticks)
  BY <1>1 DEF Reading
<1>3. tm' \in Seq(Nat) /\ Len(tm') = 0
  BY <1>1, EmptySeq
<1>4. Date(now)' /\ (LastMinute(now)' => now'.sec < ticks')
  BY <1>1, <1>2
<1> QED
  BY <1>1, <1>2, <1>3, <1>4 DEF Reading

LEMMA TickStep ==
  ASSUME Reading, Tick PROVE Reading'
<1>1. at \in 1 .. 7 /\ at' = at /\ tm' = tm /\ ticks < MaxTicks /\ ticks' = ticks + 1
      /\ now' = NextSecond(now)
  BY DEF Tick
<1>2. /\ tm \in Seq(Nat) /\ Len(tm) = at - 1 /\ ticks \in 0 .. MaxTicks
      /\ Date(now) /\ (LastMinute(now) => now.sec < ticks)
  BY <1>1 DEF Reading
<1>3. now.sec \in 0 .. 59 /\ ticks \in Nat /\ ticks < 59
  BY <1>1, <1>2, TicksBelow, SecondsOf
<1>4. ASSUME LastMinute(now) PROVE now.sec < ticks /\ now.sec < 59
  <2>1. now.sec < ticks
    BY <1>2, <1>4
  <2> QED
    BY <1>3, <2>1
<1>5. /\ Date(now') /\ now'.sec = (now.sec + 1) % 60
      /\ LastMinute(now') => now'.sec = 0 \/ (LastMinute(now) /\ now'.sec = now.sec + 1)
  BY <1>1, <1>2, <1>4, NextDate
<1>6. ASSUME LastMinute(now') PROVE now'.sec < ticks'
  <2>1. CASE now'.sec = 0
    BY <1>1, <1>3, <2>1
  <2>2. CASE LastMinute(now) /\ now'.sec = now.sec + 1
    BY <1>1, <1>3, <1>4, <2>2
  <2> QED
    BY <1>5, <1>6, <2>1, <2>2
<1>7. ASSUME at \in 2 .. 7 PROVE \E s \in 0 .. 59, k \in 0 .. ticks' : ReadAt(s, k)'
  <2>1. PICK s \in 0 .. 59, k \in 0 .. ticks : ReadAt(s, k)
    BY <1>7 DEF Reading
  <2>2. tm'[1] = Bcd(s) /\ now.sec = (s + k) % 60 /\ k + 1 # 0
    BY <1>1, <1>3, <2>1 DEF ReadAt
  <2>3. now'.sec = (s + (k + 1)) % 60
    BY <1>3, <1>5, <2>2
  <2>4. ReadAt(s, k + 1)'
    BY <2>2, <2>3 DEF ReadAt
  <2>5. k + 1 \in 0 .. ticks'
    BY <1>1, <1>3
  <2> QED
    BY <2>4, <2>5
<1>8. ticks' \in 0 .. MaxTicks
  BY <1>1, <1>3, TicksBelow
<1> QED
  BY <1>1, <1>2, <1>5, <1>6, <1>7, <1>8 DEF Reading

\* The seconds are what they were: no second passed, for a minute did not.
LEMMA NoTick ==
  ASSUME Reading, at = 7, ~ReadAgain
  PROVE  Date(now) /\ \A i \in 1 .. 6 : tm[i] = Register(now)[i]
<1>1. PICK s \in 0 .. 59, k \in 0 .. ticks : ReadAt(s, k)
  BY DEF Reading
<1>2. Date(now) /\ ticks \in 0 .. MaxTicks
  BY DEF Reading
<1>3. now.sec \in 0 .. 59 /\ tm[1] = Bcd(now.sec)
  BY <1>2, Registers DEF ReadAgain, Date
<1>4. Bcd(s) = Bcd(now.sec)
  BY <1>1, <1>3 DEF ReadAt
<1>5. BcdToBin(Bcd(s)) = s /\ BcdToBin(Bcd(now.sec)) = now.sec
  BY <1>3, BcdFacts
<1>6. s = now.sec
  BY <1>4, <1>5
<1>7. s = (s + k) % 60 /\ k \in 0 .. 59
  BY <1>1, <1>2, <1>6, TicksBelow DEF ReadAt
<1>8. k = 0
  BY <1>7
<1> QED
  BY <1>1, <1>2, <1>8 DEF ReadAt

LEMMA FinishRight ==
  ASSUME Reading, Finish PROVE Reading' /\ StartsRight'
<1>1. at = 7 /\ at' = 8 /\ ~ReadAgain /\ now' = now /\ ticks' = ticks /\ seen' = now
  BY DEF Finish
<1>2. Date(now) /\ \A i \in 1 .. 6 : tm[i] = Register(now)[i]
  BY <1>1, NoTick
<1>3. /\ BcdToBin(tm[1]) = now.sec /\ BcdToBin(tm[2]) = now.min /\ BcdToBin(tm[3]) = now.hour
      /\ BcdToBin(tm[4]) = now.mday /\ BcdToBin(tm[5]) = now.mon
      /\ BcdToBin(tm[6]) = now.year % 100
  BY <1>2, Registers
<1>4. startup_time' = KernelMktime(BcdToBin(tm[1]), BcdToBin(tm[2]), BcdToBin(tm[3]),
                                   BcdToBin(tm[4]), BcdToBin(tm[5]) - 1, BcdToBin(tm[6]))
  BY DEF Finish
<1>5. startup_time' = Long(SecondsSince1970(now)[1], SecondsSince1970(now)[2])
  BY <1>2, <1>3, <1>4, MktimeRight
<1>6. StartsRight'
  BY <1>1, <1>5 DEF StartsRight
<1>7. ticks \in 0 .. MaxTicks /\ (LastMinute(now) => now.sec < ticks)
  BY <1>1 DEF Reading
<1>8. Date(now)' /\ (LastMinute(now)' => now'.sec < ticks')
  BY <1>1, <1>2, <1>7
<1> QED
  BY <1>1, <1>6, <1>7, <1>8 DEF Reading

LEMMA ClockSteps == [Next]_vars => [ReadClock \/ Tick]_timeVars
BY DEF Next, vars, LoadStep, MemoryStep, ClockStep, ChipStep, timeVars

\* From 1970 to the last minute of 2069, the kernel starts with the time at which the
\* loop ended, whatever ticks between the reads of the registers, if that takes less
\* than a minute; leap years, ends of months and the overflow of a long included.
THEOREM BootStartsRight == DatesFit => (Spec => []StartsRight)
<1> SUFFICES ASSUME DatesFit PROVE Spec => []StartsRight
  OBVIOUS
<1>1. Init => Reading /\ StartsRight
  BY ReadingInit DEF Init, TimeInit, StartsRight
<1>2. Reading /\ StartsRight /\ [Next]_vars => Reading' /\ StartsRight'
  <2> SUFFICES ASSUME Reading, StartsRight, [ReadClock \/ Tick]_timeVars
               PROVE  Reading' /\ StartsRight'
    BY ClockSteps
  <2>1. CASE Finish
    BY <2>1, FinishRight
  <2>2. CASE Begin \/ ReadRegister \/ Repeat \/ Tick
    <3>1. at' # 8
      BY <2>2 DEF Begin, ReadRegister, Repeat, Tick
    <3>2. Reading'
      BY <2>2, BeginStep, ReadRegisterStep, RepeatStep, TickStep
    <3> QED
      BY <3>1, <3>2 DEF StartsRight
  <2>3. CASE UNCHANGED timeVars
    <3>1. UNCHANGED <<now, tm, at, startup_time, seen, ticks>>
      BY <2>3 DEF timeVars
    <3>2. \A s, k : ReadAt(s, k)' = ReadAt(s, k)
      BY <3>1 DEF ReadAt
    <3>3. Reading'
      BY <3>1, <3>2 DEF Reading
    <3> QED
      BY <3>1, <3>3 DEF StartsRight
  <2> QED
    BY <2>1, <2>2, <2>3 DEF ReadClock
<1> QED
  BY <1>1, <1>2, PTL DEF Spec
=============================================================================
