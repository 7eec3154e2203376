---------------------------- MODULE MemoryProofs ----------------------------
(***************************************************************************)
(* Memory management, for any number of frames, tables and processes: as   *)
(* long as no reference count has reached the last of its values, counts   *)
(* cover the uses of their frames, what a process can write to is its own, *)
(* and every process sees the pages that PrivatePages gives it. Buffers of *)
(* messages may be anywhere but among the pages of the kernel.             *)
(***************************************************************************)
EXTENDS Memory, FiniteSetTheorems, WellFoundedInduction, TLAPS

\* Every count has a value left, 255 in the code: the frame is used by fewer pages. What
\* proc_init shares comes to 3 for a frame, far below.
CountsLeft == \A f \in Frames : mem.mem_map[f] < CountLimit - 1

MemState ==
    [mem_map : [Frames -> 0 .. CountLimit - 1],
     pg_dir  : [Tables -> Frames \cup {NoTable, BootTable}],
     entry   : [Pages -> [present : BOOLEAN, write : BOOLEAN, frame : Frames]],
     data    : [Frames -> Contents],
     hung    : BOOLEAN]

UsersOf(m, f) == {v \in UserPages : m.entry[v].present /\ m.entry[v].frame = f}
TablesOf(m, f) == {b \in Tables : m.pg_dir[b] = f}
Kernels(f) == IF f \in KernelFrames THEN 1 ELSE 0
Uses(m, f) == Cardinality(UsersOf(m, f)) + Cardinality(TablesOf(m, f)) + Kernels(f)

Covered(m) == \A f \in Frames : m.mem_map[f] >= Uses(m, f)

\* No count exceeds n + 1.
Bounded(m, n) == \A f \in Frames : m.mem_map[f] <= n + 1

\* Nothing behind the end of the RAM is ever free, or used by a process.
InRAM(m) ==
    /\ \A f \in Frames : f >= EndPage => m.mem_map[f] >= 1
    /\ \A v \in UserPages : m.entry[v].present => m.entry[v].frame < EndPage

\* The kernel's pages are the frames of the same number, its own all present.
Identity(m) ==
    /\ \A v \in Frames : m.entry[v].present => m.entry[v].frame = v
    /\ \A v \in KernelFrames : m.entry[v].present

Own(m, v) ==
    /\ m.entry[v].present
    /\ m.entry[v].frame \in StartPage .. EndPage - 1
    /\ UsersOf(m, m.entry[v].frame) = {v}
    /\ TablesOf(m, m.entry[v].frame) = {}
WritableOwn(m) == \A v \in UserPages : m.entry[v].write => Own(m, v)

\* What every handler preserves, with counts up to n + 1; sharing a page adds one.
Sound(m, n) ==
    /\ m \in MemState
    /\ Covered(m) /\ Bounded(m, n) /\ InRAM(m) /\ Identity(m) /\ WritableOwn(m)

\* A frame that was allocated and is not yet used.
Fresh(m, f) ==
    /\ f \in StartPage .. EndPage - 1
    /\ m.mem_map[f] = 1
    /\ UsersOf(m, f) = {} /\ TablesOf(m, f) = {}

\* Pages that are present stay as they are, and so do all those of processes.
Keeps(m, c) ==
    /\ \A v \in Pages : m.entry[v].present => c.entry[v] = m.entry[v]
    /\ \A v \in UserPages : c.entry[v] = m.entry[v]

-----------------------------------------------------------------------------
(* Numbers of pages, frames and tables                                      *)

LEMMA Numbers ==
    /\ Frames \subseteq Nat /\ UserPages \subseteq Nat
    /\ Frames \cap UserPages = {} /\ Frames \subseteq Pages /\ UserPages \subseteq Pages
    /\ \A v \in Pages : v < PAGING_PAGES <=> v \in Frames
    /\ KernelFrames = {f \in Frames : f < StartPage}
    /\ StartPage .. EndPage - 1 \subseteq Frames
    /\ 0 \in KernelFrames /\ 0 \in Frames
    /\ NoTable \notin Frames /\ BootTable \notin Frames /\ NoTable # BootTable
    /\ \A v \in Pages : TableOf(v) \in Tables
BY MemoryAssumption, SMTT(30) DEF Frames, Pages, KernelFrames, NoTable, BootTable, Tables

LEMMA TablesFinite == IsFiniteSet(Tables)
<1> DEFINE t == [v \in Pages |-> TableOf(v)]
<1>1. IsFiniteSet(Pages)
    <2>1. IsFiniteSet(Frames)
        BY MemoryAssumption, FS_Interval DEF Frames
    <2> QED
        BY <2>1, MemoryAssumption, FS_Union DEF Pages
<1>2. t \in Surjection(Pages, Tables)
    BY DEF Surjection, Tables
<1> QED
    BY <1>1, <1>2, FS_Surjection

\* The uses of a frame are finite sets.
LEMMA UsesFacts ==
    ASSUME NEW m, NEW f
    PROVE  /\ IsFiniteSet(UsersOf(m, f)) /\ Cardinality(UsersOf(m, f)) \in Nat
           /\ IsFiniteSet(TablesOf(m, f)) /\ Cardinality(TablesOf(m, f)) \in Nat
           /\ Kernels(f) \in {0, 1} /\ Uses(m, f) \in Nat
<1>1. UsersOf(m, f) \in SUBSET UserPages /\ TablesOf(m, f) \in SUBSET Tables
    BY DEF UsersOf, TablesOf
<1>2. IsFiniteSet(UsersOf(m, f)) /\ IsFiniteSet(TablesOf(m, f))
    BY <1>1, FS_Subset, TablesFinite, MemoryAssumption
<1>3. Cardinality(UsersOf(m, f)) \in Nat /\ Cardinality(TablesOf(m, f)) \in Nat
    BY <1>2, FS_CardinalityType
<1>4. Kernels(f) \in {0, 1}
    BY DEF Kernels
<1> QED
    BY <1>2, <1>3, <1>4 DEF Uses

\* Fewer users and tables, fewer uses.
LEMMA FewerUses ==
    ASSUME NEW m, NEW c, NEW f,
           UsersOf(c, f) \subseteq UsersOf(m, f), TablesOf(c, f) \subseteq TablesOf(m, f)
    PROVE  Uses(c, f) <= Uses(m, f)
<1>1. /\ Cardinality(UsersOf(c, f)) <= Cardinality(UsersOf(m, f))
      /\ Cardinality(TablesOf(c, f)) <= Cardinality(TablesOf(m, f))
    BY UsesFacts, FS_Subset
<1> QED
    BY <1>1, UsesFacts DEF Uses

\* A frame that is not used at all, and one with a single user or table.
LEMMA NoUses ==
    ASSUME NEW m, NEW f, f \notin KernelFrames
    PROVE  /\ Uses(m, f) = 0 => UsersOf(m, f) = {} /\ TablesOf(m, f) = {}
           /\ UsersOf(m, f) = {} /\ TablesOf(m, f) = {} => Uses(m, f) = 0
<1>1. Cardinality(UsersOf(m, f)) = 0 <=> UsersOf(m, f) = {}
    BY UsesFacts, FS_EmptySet
<1>2. Cardinality(TablesOf(m, f)) = 0 <=> TablesOf(m, f) = {}
    BY UsesFacts, FS_EmptySet
<1>3. Uses(m, f) = Cardinality(UsersOf(m, f)) + Cardinality(TablesOf(m, f))
    BY UsesFacts DEF Uses, Kernels
<1> QED
    BY <1>1, <1>2, <1>3, UsesFacts

LEMMA OneUse ==
    ASSUME NEW m, NEW f, f \notin KernelFrames,
           \/ \E v : UsersOf(m, f) \subseteq {v} /\ TablesOf(m, f) = {}
           \/ \E b : TablesOf(m, f) \subseteq {b} /\ UsersOf(m, f) = {}
    PROVE  Uses(m, f) <= 1
<1>1. \A x : Cardinality({x}) = 1 /\ IsFiniteSet({x}) /\ Cardinality({}) = 0
    BY FS_Singleton, FS_EmptySet
<1>2. Uses(m, f) = Cardinality(UsersOf(m, f)) + Cardinality(TablesOf(m, f))
    BY UsesFacts DEF Uses, Kernels
<1>3. CASE \E v : UsersOf(m, f) \subseteq {v} /\ TablesOf(m, f) = {}
    <2>1. PICK v : UsersOf(m, f) \subseteq {v} /\ TablesOf(m, f) = {}
        BY <1>3
    <2>2. UsersOf(m, f) = {v} \/ UsersOf(m, f) = {}
        BY <2>1
    <2>3. Cardinality(UsersOf(m, f)) = 1 \/ Cardinality(UsersOf(m, f)) = 0
        BY <1>1, <2>2
    <2>4. Cardinality(TablesOf(m, f)) = 0
        BY <1>1, <2>1
    <2> QED
        BY <1>2, <2>3, <2>4
<1>4. CASE \E b : TablesOf(m, f) \subseteq {b} /\ UsersOf(m, f) = {}
    <2>1. PICK b : TablesOf(m, f) \subseteq {b} /\ UsersOf(m, f) = {}
        BY <1>4
    <2>2. TablesOf(m, f) = {b} \/ TablesOf(m, f) = {}
        BY <2>1
    <2>3. Cardinality(TablesOf(m, f)) = 1 \/ Cardinality(TablesOf(m, f)) = 0
        BY <1>1, <2>2
    <2>4. Cardinality(UsersOf(m, f)) = 0
        BY <1>1, <2>1
    <2> QED
        BY <1>2, <2>3, <2>4
<1> QED
    BY <1>3, <1>4

\* A count of 1 that covers a user has no other use to cover.
LEMMA SoleUser ==
    ASSUME NEW m, NEW f, NEW v \in UsersOf(m, f), Uses(m, f) <= 1
    PROVE  UsersOf(m, f) = {v} /\ TablesOf(m, f) = {} /\ f \notin KernelFrames
<1>1. UsersOf(m, f) \ {v} = {} <=> Cardinality(UsersOf(m, f) \ {v}) = 0
    BY UsesFacts, FS_RemoveElement, FS_EmptySet
<1>2. Cardinality(UsersOf(m, f) \ {v}) = Cardinality(UsersOf(m, f)) - 1
    BY UsesFacts, FS_RemoveElement
<1>3. Cardinality(UsersOf(m, f) \ {v}) \in Nat
    BY UsesFacts, FS_RemoveElement, FS_CardinalityType
<1>4. /\ Cardinality(UsersOf(m, f)) = 1 /\ Cardinality(TablesOf(m, f)) = 0
      /\ Kernels(f) = 0
    BY <1>2, <1>3, UsesFacts DEF Uses
<1>5. TablesOf(m, f) = {}
    BY <1>4, UsesFacts, FS_EmptySet
<1>6. f \notin KernelFrames
    BY <1>4 DEF Kernels
<1> QED
    BY <1>1, <1>2, <1>4, <1>5, <1>6

\* One user less, or at most one more.
LEMMA UsesWithout ==
    ASSUME NEW m, NEW c, NEW f, NEW v \in UsersOf(m, f),
           UsersOf(c, f) = UsersOf(m, f) \ {v}, TablesOf(c, f) = TablesOf(m, f)
    PROVE  Uses(c, f) = Uses(m, f) - 1
<1>1. Cardinality(UsersOf(c, f)) = Cardinality(UsersOf(m, f)) - 1
    BY UsesFacts, FS_RemoveElement
<1> QED
    BY <1>1, UsesFacts DEF Uses

LEMMA UsesWith ==
    ASSUME NEW m, NEW c, NEW f, NEW v,
           UsersOf(c, f) \subseteq UsersOf(m, f) \cup {v}, TablesOf(c, f) = TablesOf(m, f)
    PROVE  Uses(c, f) <= Uses(m, f) + 1
<1>1. /\ IsFiniteSet(UsersOf(m, f) \cup {v})
      /\ Cardinality(UsersOf(m, f) \cup {v}) <= Cardinality(UsersOf(m, f)) + 1
    <2> DEFINE S == UsersOf(m, f)
    <2>1. IsFiniteSet(S) /\ Cardinality(S) \in Nat
        BY UsesFacts
    <2> HIDE DEF S
    <2>2. /\ IsFiniteSet(S \cup {v})
          /\ Cardinality(S \cup {v}) = IF v \in S THEN Cardinality(S) ELSE Cardinality(S) + 1
        BY <2>1, FS_AddElement
    <2>3. Cardinality(S \cup {v}) <= Cardinality(S) + 1
        BY <2>1, <2>2
    <2> QED
        BY <2>2, <2>3 DEF S
<1>2. Cardinality(UsersOf(c, f)) <= Cardinality(UsersOf(m, f) \cup {v})
    BY <1>1, FS_Subset
<1>3. Cardinality(UsersOf(m, f) \cup {v}) \in Nat
    BY <1>1, FS_CardinalityType
<1> QED
    BY <1>1, <1>2, <1>3, UsesFacts DEF Uses

-----------------------------------------------------------------------------
(* Allocation                                                               *)

\* A kernel that hangs has the same memory.
LEMMA HangSound ==
    ASSUME NEW n \in Nat, NEW m, Sound(m, n), NEW h \in BOOLEAN
    PROVE  /\ Sound([m EXCEPT !.hung = h], n)
           /\ Keeps(m, [m EXCEPT !.hung = h])
           /\ [m EXCEPT !.hung = h].hung = h
<1> DEFINE c == [m EXCEPT !.hung = h]
<1>1. m \in MemState
    BY DEF Sound
<1>2. /\ c \in MemState /\ c.mem_map = m.mem_map /\ c.pg_dir = m.pg_dir
      /\ c.entry = m.entry /\ c.hung = h
    BY <1>1 DEF MemState
<1> HIDE DEF c
<1>3. \A f : UsersOf(c, f) = UsersOf(m, f) /\ TablesOf(c, f) = TablesOf(m, f)
    BY <1>2 DEF UsersOf, TablesOf
<1>4. \A f : Uses(c, f) = Uses(m, f)
    BY <1>3 DEF Uses
<1>5. Covered(c) /\ Bounded(c, n)
    BY <1>2, <1>4 DEF Sound, Covered, Bounded
<1>6. InRAM(c) /\ Identity(c)
    BY <1>2 DEF Sound, InRAM, Identity
<1>7. WritableOwn(c)
    BY <1>2, <1>3 DEF Sound, WritableOwn, Own
<1>8. Keeps(m, c)
    BY <1>2 DEF Keeps
<1> QED
    BY <1>2, <1>5, <1>6, <1>7, <1>8 DEF Sound, c

LEMMA KeepsTrans ==
    ASSUME NEW m, NEW c, NEW d, Keeps(m, c), Keeps(c, d)
    PROVE  Keeps(m, d)
<1>1. \A v \in Pages : m.entry[v].present => c.entry[v] = m.entry[v]
    BY DEF Keeps
<1>2. \A v \in Pages : c.entry[v].present => d.entry[v] = c.entry[v]
    BY DEF Keeps
<1>3. \A v \in UserPages : c.entry[v] = m.entry[v] /\ d.entry[v] = c.entry[v]
    BY DEF Keeps
<1> QED
    BY <1>1, <1>2, <1>3 DEF Keeps

\* A frame that looks free is in the RAM and is used by nobody.
LEMMA FreeFrameUnused ==
    ASSUME NEW n \in Nat, NEW m, Sound(m, n), NEW f \in Frames, m.mem_map[f] = 0
    PROVE  /\ f \in StartPage .. EndPage - 1 /\ f \notin KernelFrames
           /\ UsersOf(m, f) = {} /\ TablesOf(m, f) = {}
<1>1. Uses(m, f) = 0
    BY UsesFacts DEF Sound, Covered
<1>2. f \notin KernelFrames
    BY <1>1, UsesFacts DEF Uses, Kernels
<1>3. f < EndPage
    BY Numbers, MemoryAssumption DEF Sound, InRAM
<1>4. f \in StartPage .. EndPage - 1
    BY <1>2, <1>3, Numbers, MemoryAssumption
<1> QED
    BY <1>1, <1>2, <1>4, NoUses

LEMMA ClaimFields ==
    ASSUME NEW m \in MemState, NEW f \in Frames, m.pg_dir[TableOf(f)] # NoTable
    PROVE  LET c == Claim(m, f) IN
           /\ c \in MemState /\ c.hung = m.hung /\ c.pg_dir = m.pg_dir
           /\ c.mem_map = [m.mem_map EXCEPT ![f] = 1]
           /\ c.entry = [m.entry EXCEPT ![f] = IF m.entry[f].present THEN m.entry[f]
                                              ELSE Entry(f, TRUE)]
<1> DEFINE e == IF m.entry[f].present THEN m.entry[f] ELSE Entry(f, TRUE)
           c == [m EXCEPT !.mem_map[f] = 1, !.data[f] = Zero, !.entry[f] = e]
<1>1. f \in Pages /\ m.entry[f] \in [present : BOOLEAN, write : BOOLEAN, frame : Frames]
    BY Numbers DEF MemState
<1>2. e \in [present : BOOLEAN, write : BOOLEAN, frame : Frames]
    BY <1>1 DEF Entry
<1>3. Claim(m, f) = c
    BY DEF Claim
<1> HIDE DEF e
<1>4. 1 \in 0 .. CountLimit - 1 /\ Zero \in Contents
    BY MemoryAssumption DEF Contents
<1>5. /\ c.hung = m.hung /\ c.pg_dir = m.pg_dir
      /\ c.mem_map = [m.mem_map EXCEPT ![f] = 1]
      /\ c.entry = [m.entry EXCEPT ![f] = e]
    BY DEF MemState
<1>6. c \in MemState
    BY <1>1, <1>2, <1>4 DEF MemState
<1> QED
    BY <1>3, <1>5, <1>6 DEF e

LEMMA ClaimSound ==
    ASSUME NEW n \in Nat, NEW m, Sound(m, n), NEW f \in Frames, m.mem_map[f] = 0
    PROVE  LET c == Claim(m, f) IN
           /\ Sound(c, n) /\ Keeps(m, c)
           /\ ~c.hung => /\ Fresh(c, f) /\ ~m.hung
                         /\ c.mem_map = [m.mem_map EXCEPT ![f] = 1]
<1>1. m \in MemState
    BY DEF Sound
<1>2. CASE m.pg_dir[TableOf(f)] = NoTable
    <2>1. Claim(m, f) = [m EXCEPT !.hung = TRUE]
        BY <1>2 DEF Claim
    <2> QED
        BY <2>1, HangSound
<1>3. CASE m.pg_dir[TableOf(f)] # NoTable
    <2> DEFINE c == Claim(m, f)
    <2>1. /\ c \in MemState /\ c.hung = m.hung /\ c.pg_dir = m.pg_dir
          /\ c.mem_map = [m.mem_map EXCEPT ![f] = 1]
          /\ c.entry = [m.entry EXCEPT ![f] = IF m.entry[f].present THEN m.entry[f]
                                             ELSE Entry(f, TRUE)]
        BY <1>1, <1>3, ClaimFields
    <2> HIDE DEF c
    <2>2. /\ f \in StartPage .. EndPage - 1 /\ f \notin KernelFrames
          /\ UsersOf(m, f) = {} /\ TablesOf(m, f) = {}
        BY FreeFrameUnused
    <2>3. /\ \A v \in UserPages : c.entry[v] = m.entry[v]
          /\ \A v \in Pages : v # f => c.entry[v] = m.entry[v]
          /\ m.entry[f].present => c.entry[f] = m.entry[f]
          /\ c.entry[f].present /\ (~m.entry[f].present => c.entry[f].frame = f)
        BY <1>1, <2>1, Numbers DEF MemState, Entry
    <2>4. /\ c.mem_map[f] = 1 /\ \A g \in Frames : g # f => c.mem_map[g] = m.mem_map[g]
        BY <1>1, <2>1 DEF MemState
    <2>5. \A g : UsersOf(c, g) = UsersOf(m, g) /\ TablesOf(c, g) = TablesOf(m, g)
        <3>1. c.pg_dir = m.pg_dir /\ \A v \in UserPages : c.entry[v] = m.entry[v]
            BY <2>1, <2>3
        <3> QED
            BY <3>1 DEF UsersOf, TablesOf
    <2>6. \A g : Uses(c, g) = Uses(m, g)
        BY <2>5 DEF Uses
    <2>7. \A g \in Frames : m.mem_map[g] >= Uses(m, g) /\ m.mem_map[g] <= n + 1
                              /\ m.mem_map[g] \in Nat
        BY <1>1 DEF Sound, Covered, Bounded, MemState
    <2>8. Covered(c) /\ Bounded(c, n)
        <3>1. ASSUME NEW g \in Frames PROVE c.mem_map[g] >= Uses(c, g) /\ c.mem_map[g] <= n + 1
            <4>1. CASE g = f
                <5>1. Uses(c, f) = 0
                    BY <2>2, <2>6, NoUses
                <5> QED
                    BY <2>4, <4>1, <5>1
            <4>2. CASE g # f
                BY <2>4, <2>6, <2>7, <4>2
            <4> QED
                BY <4>1, <4>2
        <3> QED
            BY <3>1 DEF Covered, Bounded
    <2>9. InRAM(c)
        <3>1. InRAM(m)
            BY DEF Sound
        <3> QED
            BY <2>3, <2>4, <3>1 DEF InRAM
    <2>10. Identity(c)
        <3>1. Identity(m)
            BY DEF Sound
        <3> QED
            BY <2>2, <2>3, <3>1, Numbers DEF Identity
    <2>11. WritableOwn(c)
        <3>1. WritableOwn(m)
            BY DEF Sound
        <3> QED
            BY <2>3, <2>5, <3>1 DEF WritableOwn, Own
    <2>12. Keeps(m, c)
        BY <2>3 DEF Keeps
    <2>13. Fresh(c, f)
        BY <2>2, <2>4, <2>5 DEF Fresh
    <2> QED
        BY <2>1, <2>8, <2>9, <2>10, <2>11, <2>12, <2>13 DEF Sound, c
<1> QED
    BY <1>2, <1>3

\* A fresh frame becomes a page table.
LEMMA DirSound ==
    ASSUME NEW n \in Nat, NEW m, Sound(m, n), NEW g, Fresh(m, g), NEW b
    PROVE  LET c == [m EXCEPT !.pg_dir[b] = g] IN
           /\ Sound(c, n) /\ Keeps(m, c)
           /\ c.mem_map = m.mem_map /\ c.hung = m.hung
<1> DEFINE c == [m EXCEPT !.pg_dir[b] = g]
<1>1. m \in MemState /\ g \in Frames
    BY Numbers DEF Sound, Fresh
<1>2. /\ c \in MemState /\ c.mem_map = m.mem_map /\ c.hung = m.hung
      /\ c.entry = m.entry /\ c.pg_dir = [m.pg_dir EXCEPT ![b] = g]
    BY <1>1 DEF MemState
<1> HIDE DEF c
<1>3. \A f : UsersOf(c, f) = UsersOf(m, f)
    BY <1>2 DEF UsersOf
<1>4. /\ \A f : f # g => TablesOf(c, f) \subseteq TablesOf(m, f)
      /\ TablesOf(c, g) \subseteq {b} /\ UsersOf(m, g) = {}
    BY <1>1, <1>2 DEF TablesOf, Fresh, MemState
<1>5. g \notin KernelFrames /\ m.mem_map[g] = 1
    BY Numbers, MemoryAssumption DEF Fresh
<1>6. \A f \in Frames : m.mem_map[f] \in Nat /\ m.mem_map[f] >= Uses(m, f)
    BY <1>1 DEF Sound, Covered, MemState
<1>7. Covered(c)
    <2> SUFFICES ASSUME NEW f \in Frames PROVE c.mem_map[f] >= Uses(c, f)
        BY DEF Covered
    <2>1. CASE f = g
        <3>1. Uses(c, g) <= 1
            BY <1>3, <1>4, <1>5, OneUse
        <3> QED
            BY <1>2, <1>5, <2>1, <3>1, UsesFacts
    <2>2. CASE f # g
        <3>1. Uses(c, f) <= Uses(m, f)
            BY <1>3, <1>4, <2>2, FewerUses
        <3> QED
            BY <1>2, <1>6, <3>1, UsesFacts
    <2> QED
        BY <2>1, <2>2
<1>8. Bounded(c, n) /\ InRAM(c) /\ Identity(c)
    BY <1>2 DEF Sound, Bounded, InRAM, Identity
<1>9. WritableOwn(c)
    <2> SUFFICES ASSUME NEW v \in UserPages, c.entry[v].write PROVE Own(c, v)
        BY DEF WritableOwn
    <2>1. Own(m, v)
        BY <1>2 DEF Sound, WritableOwn
    <2>2. m.entry[v].frame # g
        BY <1>4, <2>1 DEF Own
    <2> QED
        BY <1>2, <1>3, <1>4, <2>1, <2>2 DEF Own
<1>10. Keeps(m, c)
    BY <1>2 DEF Keeps
<1> QED
    BY <1>2, <1>7, <1>8, <1>9, <1>10 DEF Sound, c

LEMMA LeastFacts ==
    ASSUME NEW S \in SUBSET Nat, S # {}
    PROVE  Least(S) \in S
<1> DEFINE R == OpToRel(<, Nat)
<1>1. \A x, y \in Nat : x < y => <<x, y>> \in R
    BY DEF OpToRel
<1>2. IsWellFoundedOn(R, Nat)
    BY NatLessThanWellFounded
<1> HIDE DEF R
<1>3. PICK x \in S : \A y \in S : ~(<<y, x>> \in R)
    BY <1>2, WFMin
<1>4. \A y \in S : x <= y
    <2> SUFFICES ASSUME NEW y \in S PROVE x <= y
        OBVIOUS
    <2>1. x \in Nat /\ y \in Nat
        OBVIOUS
    <2>2. ~(y < x)
        BY <1>1, <1>3, <2>1
    <2> QED
        BY <2>1, <2>2
<1>5. \E f \in S : \A g \in S : f <= g
    BY <1>4
<1> QED
    BY <1>5 DEF Least

\* What get_free_page returns: nothing, or a frame that nobody uses.
GotSound(m, got, n) ==
    /\ Sound(got.mem, n) /\ Keeps(m, got.mem)
    /\ ~Failed(got) => got.frame \in Frames /\ Fresh(got.mem, got.frame)

LEMMA SameKept ==
    ASSUME NEW m
    PROVE  Keeps(m, m)
BY DEF Keeps

LEMMA NoneSound ==
    ASSUME NEW n, NEW m, NEW c, Sound(c, n), Keeps(m, c)
    PROVE  GotSound(m, None(c), n)
<1>1. None(c).mem = c /\ None(c).frame = 0
    BY DEF None
<1> QED
    BY <1>1 DEF GotSound, Failed

LEMMA TakeSound ==
    ASSUME NEW n \in Nat, NEW m, NEW c, Sound(c, n), Keeps(m, c),
           NEW f \in Frames, c.mem_map[f] = 0
    PROVE  GotSound(m, TakeFrame(c, f), n)
<1> DEFINE d == Claim(c, f)
<1>1. TakeFrame(c, f).mem = d /\ TakeFrame(c, f).frame = f
    BY DEF TakeFrame
<1>2. Sound(d, n) /\ Keeps(c, d) /\ (~d.hung => Fresh(d, f))
    BY ClaimSound
<1> HIDE DEF d
<1>3. Keeps(m, d)
    BY <1>2, KeepsTrans
<1> QED
    BY <1>1, <1>2, <1>3 DEF GotSound, Failed

LEMMA GetSound ==
    ASSUME NEW n \in Nat, NEW m, Sound(m, n)
    PROVE  GotSound(m, GetFreePage(m), n)
<1> DEFINE f == Least(FreeFrames(m))
           others == FreeFrames(m) \ {f}
           g == Least(others)
<1>1. /\ FreeFrames(m) \in SUBSET Nat /\ others \in SUBSET Nat
      /\ \A h \in FreeFrames(m) : h \in Frames /\ m.mem_map[h] = 0
    BY Numbers DEF FreeFrames
<1>2. FreeFrames(m) # {} => f \in FreeFrames(m)
    BY <1>1, LeastFacts
<1>3. others # {} => g \in FreeFrames(m) /\ g # f
    BY <1>1, LeastFacts
<1>4. GetFreePage(m) = IF FreeFrames(m) = {} THEN None(m)
                       ELSE IF ~LacksAhead(m, f) THEN TakeFrame(m, f)
                       ELSE IF others = {} THEN None(m)
                       ELSE TakeWithTable(m, f, g)
    BY DEF GetFreePage
<1> HIDE DEF f, others, g
<1>5. GotSound(m, None(m), n)
    BY NoneSound, SameKept
<1>6. CASE FreeFrames(m) # {} /\ ~LacksAhead(m, f)
    <2>1. GotSound(m, TakeFrame(m, f), n)
        BY <1>1, <1>2, <1>6, SameKept, TakeSound
    <2> QED
        BY <1>4, <1>6, <2>1
<1>7. CASE FreeFrames(m) # {} /\ LacksAhead(m, f) /\ others # {}
    <2> DEFINE c == Claim(m, g)
               b == TableOf(f + 2)
               d == [c EXCEPT !.pg_dir[b] = g]
    <2>1. /\ f \in Frames /\ g \in Frames /\ f # g
          /\ m.mem_map[f] = 0 /\ m.mem_map[g] = 0
        BY <1>1, <1>2, <1>3, <1>7
    <2>2. TakeWithTable(m, f, g) = IF c.hung THEN None(c) ELSE TakeFrame(d, f)
        BY DEF TakeWithTable
    <2>3. /\ Sound(c, n) /\ Keeps(m, c)
          /\ ~c.hung => Fresh(c, g) /\ c.mem_map = [m.mem_map EXCEPT ![g] = 1]
        BY <2>1, ClaimSound
    <2>4. m \in MemState
        BY DEF Sound
    <2> HIDE DEF c, b
    <2>5. CASE c.hung
        <3>1. GotSound(m, None(c), n)
            BY <2>3, NoneSound
        <3> QED
            BY <1>4, <1>7, <2>2, <2>5, <3>1
    <2>6. CASE ~c.hung
        <3>1. Fresh(c, g) /\ c.mem_map[f] = 0
            BY <2>1, <2>3, <2>4, <2>6 DEF MemState
        <3>2. Sound(d, n) /\ Keeps(c, d) /\ d.mem_map = c.mem_map
            BY SMTT(30), <2>3, <3>1, DirSound
        <3> HIDE DEF d
        <3>3. Keeps(m, d)
            BY <2>3, <3>2, KeepsTrans
        <3>4. GotSound(m, TakeFrame(d, f), n)
            BY <2>1, <3>1, <3>2, <3>3, TakeSound
        <3> QED
            BY <1>4, <1>7, <2>2, <2>6, <3>4
    <2> QED
        BY <2>5, <2>6
<1> QED
    BY <1>4, <1>5, <1>6, <1>7

\* create_page_table, and the loops around it.
LEMMA CreateSound ==
    ASSUME NEW n \in Nat, NEW m, Sound(m, n), NEW v
    PROVE  Sound(CreatePageTable(m, v), n) /\ Keeps(m, CreatePageTable(m, v))
<1> DEFINE got == GetFreePage(m)
           b == TableOf(v)
<1>1. GotSound(m, got, n)
    BY GetSound
<1>2. /\ CreatePageTable(m, v) = IF m.hung \/ m.pg_dir[b] # NoTable THEN m ELSE SetTable(got, v)
      /\ SetTable(got, v) = IF Failed(got) THEN got.mem
                            ELSE [got.mem EXCEPT !.pg_dir[b] = got.frame]
    BY DEF CreatePageTable, SetTable
<1> HIDE DEF got, b
<1>3. CASE m.hung \/ m.pg_dir[b] # NoTable
    BY <1>2, <1>3, SameKept
<1>4. CASE ~(m.hung \/ m.pg_dir[b] # NoTable) /\ Failed(got)
    BY <1>1, <1>2, <1>4 DEF GotSound
<1>5. CASE ~(m.hung \/ m.pg_dir[b] # NoTable) /\ ~Failed(got)
    <2> DEFINE c == [got.mem EXCEPT !.pg_dir[b] = got.frame]
    <2>1. Sound(got.mem, n) /\ Keeps(m, got.mem) /\ Fresh(got.mem, got.frame)
        BY <1>1, <1>5 DEF GotSound
    <2>2. Sound(c, n) /\ Keeps(got.mem, c)
        BY <2>1, DirSound
    <2>3. CreatePageTable(m, v) = c
        BY <1>2, <1>5
    <2> HIDE DEF c
    <2>4. Keeps(m, c)
        BY <2>1, <2>2, KeepsTrans
    <2> QED
        BY <2>2, <2>3, <2>4
<1> QED
    BY <1>3, <1>4, <1>5

LEMMA WithTableSound ==
    ASSUME NEW n \in Nat, NEW m, Sound(m, n), NEW v
    PROVE  /\ Sound(WithTable(m, v), n) /\ Keeps(m, WithTable(m, v))
           /\ m.hung => WithTable(m, v).hung
<1> DEFINE c == CreatePageTable(m, v)
           h == c.hung \/ c.pg_dir[TableOf(v)] = NoTable
           d == [c EXCEPT !.hung = h]
<1>1. Sound(c, n) /\ Keeps(m, c)
    BY CreateSound
<1>2. c \in MemState /\ h \in BOOLEAN
    BY <1>1 DEF Sound, MemState
<1>3. WithTable(m, v) = d
    BY DEF WithTable, LoopUnlessTable
<1> HIDE DEF c, h
<1>4. Sound(d, n) /\ Keeps(c, d) /\ d.hung = h
    BY <1>1, <1>2, HangSound
<1>5. m.hung => h
    BY DEF h, c, CreatePageTable
<1> HIDE DEF d
<1>6. Keeps(m, d)
    BY <1>1, <1>4, KeepsTrans
<1> QED
    BY <1>3, <1>4, <1>5, <1>6

-----------------------------------------------------------------------------
(* The fault handlers                                                       *)

\* c is m with the page v at the frame f, which is its own; the frame that v had
\* may lose a reference.
IsMoved(m, c, v, f) ==
    /\ c \in MemState /\ c.pg_dir = m.pg_dir
    /\ c.entry = [m.entry EXCEPT ![v] = Entry(f, TRUE)]
    /\ \A g \in Frames :
          \/ c.mem_map[g] = m.mem_map[g]
          \/ v \in UsersOf(m, g) /\ c.mem_map[g] = m.mem_map[g] - 1

LEMMA MovedSound ==
    ASSUME NEW n \in Nat, NEW m, Sound(m, n), NEW f, Fresh(m, f), NEW v \in UserPages,
           NEW c, IsMoved(m, c, v, f)
    PROVE  Sound(c, n)
<1>1. /\ m \in MemState /\ c \in MemState /\ f \in Frames /\ v \in Pages /\ v \notin Frames
      /\ c.pg_dir = m.pg_dir
    BY Numbers DEF Sound, Fresh, IsMoved
<1>2. /\ c.entry[v].present /\ c.entry[v].frame = f
      /\ \A u \in Pages : u # v => c.entry[u] = m.entry[u]
    BY <1>1 DEF IsMoved, MemState, Entry
<1>3. \A g \in Frames : \/ c.mem_map[g] = m.mem_map[g]
                        \/ v \in UsersOf(m, g) /\ c.mem_map[g] = m.mem_map[g] - 1
    BY DEF IsMoved
<1>4. /\ f \in StartPage .. EndPage - 1 /\ f \notin KernelFrames /\ m.mem_map[f] = 1
      /\ UsersOf(m, f) = {} /\ TablesOf(m, f) = {}
    BY Numbers, MemoryAssumption DEF Fresh
<1>5. \A g : TablesOf(c, g) = TablesOf(m, g)
    BY <1>1 DEF TablesOf
<1>6. UsersOf(c, f) = {v}
    BY <1>2, <1>4, Numbers DEF UsersOf
<1>7. \A g : g # f => UsersOf(c, g) = UsersOf(m, g) \ {v}
    BY <1>2, Numbers DEF UsersOf
<1>8. \A g \in Frames : /\ m.mem_map[g] >= Uses(m, g) /\ m.mem_map[g] <= n + 1
                        /\ m.mem_map[g] \in Nat /\ c.mem_map[g] \in Nat
    BY <1>1 DEF Sound, Covered, Bounded, MemState
<1>9. Covered(c)
    <2> SUFFICES ASSUME NEW g \in Frames PROVE c.mem_map[g] >= Uses(c, g)
        BY DEF Covered
    <2>1. CASE g = f
        <3>1. c.mem_map[f] = 1
            BY <1>1, <1>3, <1>4
        <3>2. Uses(c, f) <= 1
            BY <1>4, <1>5, <1>6, OneUse
        <3> QED
            BY <2>1, <3>1, <3>2, UsesFacts
    <2>2. CASE g # f /\ c.mem_map[g] = m.mem_map[g]
        <3>1. Uses(c, g) <= Uses(m, g)
            BY <1>5, <1>7, <2>2, FewerUses
        <3> QED
            BY <1>8, <2>2, <3>1, UsesFacts
    <2>3. CASE g # f /\ v \in UsersOf(m, g) /\ c.mem_map[g] = m.mem_map[g] - 1
        <3>1. Uses(c, g) = Uses(m, g) - 1
            BY <1>5, <1>7, <2>3, UsesWithout
        <3> QED
            BY <1>8, <2>3, <3>1, UsesFacts
    <2> QED
        BY <1>3, <2>1, <2>2, <2>3
<1>10. Bounded(c, n)
    BY <1>3, <1>8 DEF Bounded
<1>11. InRAM(c)
    <2>1. InRAM(m)
        BY DEF Sound
    <2>2. ASSUME NEW g \in Frames, g >= EndPage PROVE c.mem_map[g] >= 1
        <3>1. v \notin UsersOf(m, g)
            BY <2>1, <2>2, Numbers, MemoryAssumption DEF InRAM, UsersOf
        <3> QED
            BY <1>3, <2>1, <2>2, <3>1 DEF InRAM
    <2>3. ASSUME NEW u \in UserPages, c.entry[u].present PROVE c.entry[u].frame < EndPage
        <3>1. CASE u = v
            BY <1>2, <1>4, <3>1, MemoryAssumption
        <3>2. CASE u # v
            BY <1>2, <2>1, <2>3, <3>2, Numbers DEF InRAM
        <3> QED
            BY <3>1, <3>2
    <2> QED
        BY <2>2, <2>3 DEF InRAM
<1>12. Identity(c)
    <2>1. \A u \in Frames : c.entry[u] = m.entry[u]
        BY <1>1, <1>2, Numbers
    <2> QED
        BY <2>1, Numbers DEF Sound, Identity
<1>13. WritableOwn(c)
    <2> SUFFICES ASSUME NEW u \in UserPages, c.entry[u].write PROVE Own(c, u)
        BY DEF WritableOwn
    <2>1. CASE u = v
        BY <1>2, <1>4, <1>5, <1>6, <2>1 DEF Own
    <2>2. CASE u # v
        <3>1. c.entry[u] = m.entry[u]
            BY <1>2, <2>2, Numbers
        <3>2. Own(m, u)
            BY <2>2, <3>1 DEF Sound, WritableOwn
        <3>3. m.entry[u].frame # f
            BY <1>4, <3>2 DEF Own
        <3>4. UsersOf(c, m.entry[u].frame) = {u}
            BY <1>7, <2>2, <3>2, <3>3 DEF Own
        <3> QED
            BY <1>5, <3>1, <3>2, <3>4 DEF Own
    <2> QED
        BY <2>1, <2>2
<1> QED
    BY <1>1, <1>9, <1>10, <1>11, <1>12, <1>13 DEF Sound

\* A page of a process gets a new frame.
LEMMA SetPageSound ==
    ASSUME NEW n \in Nat, NEW m, Sound(m, n), NEW v \in UserPages
    PROVE  Sound(SetPage(GetFreePage(m), v), n)
<1> DEFINE got == GetFreePage(m)
           c == [got.mem EXCEPT !.entry[v] = Entry(got.frame, TRUE)]
<1>1. GotSound(m, got, n)
    BY GetSound
<1>2. SetPage(got, v) = IF Failed(got) THEN got.mem ELSE c
    BY DEF SetPage
<1> HIDE DEF got
<1>3. CASE Failed(got)
    BY <1>1, <1>2, <1>3 DEF GotSound, got
<1>4. CASE ~Failed(got)
    <2>1. /\ Sound(got.mem, n) /\ Fresh(got.mem, got.frame)
          /\ got.frame \in Frames /\ got.mem \in MemState
        BY <1>1, <1>4 DEF GotSound, Sound
    <2>2. v \in Pages
        BY Numbers
    <2>3. IsMoved(got.mem, c, v, got.frame)
        BY <2>1, <2>2 DEF IsMoved, MemState, Entry
    <2>4. Sound(c, n)
        BY <2>1, <2>3, MovedSound
    <2> QED
        BY <1>2, <1>4, <2>4 DEF got
<1> QED
    BY <1>3, <1>4

\* Within their bounds counts do not wrap.
LEMMA CountsWrap ==
    ASSUME NEW k \in 0 .. CountLimit - 1
    PROVE  /\ k >= 1 => Dropped(k) = k - 1
           /\ k + 1 < CountLimit => (k + 1) % CountLimit = k + 1
<1>1. CountLimit \in Nat \ {0}
    BY MemoryAssumption
<1>2. \A j \in 0 .. CountLimit - 1 : j % CountLimit = j /\ (j + CountLimit) % CountLimit = j
    BY <1>1
<1>3. ASSUME k >= 1 PROVE Dropped(k) = k - 1
    <2>1. k - 1 \in 0 .. CountLimit - 1 /\ k + CountLimit - 1 = (k - 1) + CountLimit
        BY <1>1, <1>3
    <2> QED
        BY <1>2, <2>1 DEF Dropped
<1> QED
    BY <1>1, <1>2, <1>3

\* A page that is shared is copied.
LEMMA CopySound ==
    ASSUME NEW n \in Nat, NEW m, Sound(m, n), NEW v \in UserPages, m.entry[v].present
    PROVE  Sound(Copy(GetFreePage(m), v), n)
<1> DEFINE got == GetFreePage(m)
           f == got.frame
           old == got.mem.entry[v].frame
           c == [got.mem EXCEPT !.mem_map[old] = Dropped(@),
                                !.data[f] = got.mem.data[old],
                                !.entry[v] = Entry(f, TRUE)]
<1>1. GotSound(m, got, n)
    BY GetSound
<1>2. Copy(got, v) = IF Failed(got) THEN got.mem ELSE c
    BY DEF Copy
<1> HIDE DEF got
<1>3. CASE Failed(got)
    BY <1>1, <1>2, <1>3 DEF GotSound, got
<1>4. CASE ~Failed(got)
    <2> DEFINE d == got.mem
    <2>1. Sound(d, n) /\ Fresh(d, f) /\ f \in Frames /\ d \in MemState /\ Keeps(m, d)
        BY <1>1, <1>4 DEF GotSound, Sound
    <2>2. v \in Pages /\ d.entry[v] = m.entry[v] /\ d.entry[v].present
        BY <2>1, Numbers DEF Keeps
    <2>3. old \in Frames /\ v \in UsersOf(d, old)
        BY <2>1, <2>2 DEF MemState, UsersOf
    <2>4. d.mem_map[old] \in 0 .. CountLimit - 1 /\ d.mem_map[old] >= 1
        <3>1. d.mem_map[old] >= Uses(d, old) /\ d.mem_map[old] \in 0 .. CountLimit - 1
            BY <2>1, <2>3 DEF Sound, Covered, MemState
        <3>2. UsersOf(d, old) # {}
            BY <2>3
        <3>3. Cardinality(UsersOf(d, old)) # 0
            BY <3>2, UsesFacts, FS_EmptySet
        <3>4. Uses(d, old) >= 1
            BY <3>3, UsesFacts DEF Uses
        <3> QED
            BY SMTT(30), <3>1, <3>4, UsesFacts, MemoryAssumption
    <2>5. Dropped(d.mem_map[old]) = d.mem_map[old] - 1
        BY <2>4, CountsWrap
    <2>6. d.mem_map[old] - 1 \in 0 .. CountLimit - 1
        <3>1. \A k \in 0 .. CountLimit - 1 : k >= 1 => k - 1 \in 0 .. CountLimit - 1
            BY MemoryAssumption
        <3> HIDE DEF d, old
        <3> QED
            BY <2>4, <3>1
    <2> HIDE DEF d
    <2>7. c = [d EXCEPT !.mem_map[old] = d.mem_map[old] - 1,
                        !.data[f] = d.data[old], !.entry[v] = Entry(f, TRUE)]
        BY <2>5 DEF d
    <2> HIDE DEF c, old, f
    <2>8. /\ c.pg_dir = d.pg_dir /\ c.entry = [d.entry EXCEPT ![v] = Entry(f, TRUE)]
          /\ c.mem_map = [d.mem_map EXCEPT ![old] = d.mem_map[old] - 1]
        BY <2>1, <2>7 DEF MemState
    <2>9. Entry(f, TRUE) \in [present : BOOLEAN, write : BOOLEAN, frame : Frames]
        BY <2>1 DEF Entry
    <2>10. c \in MemState
        BY <2>1, <2>2, <2>3, <2>6, <2>7, <2>9 DEF MemState
    <2>11. IsMoved(d, c, v, f)
        BY <2>1, <2>3, <2>8, <2>10 DEF IsMoved, MemState
    <2>12. Sound(c, n)
        BY <2>1, <2>11, MovedSound
    <2> QED
        BY <1>2, <1>4, <2>12 DEF got
<1> QED
    BY <1>3, <1>4

\* The sole user of a frame may write to it.
LEMMA GiveBackSound ==
    ASSUME NEW n \in Nat, NEW m, Sound(m, n), NEW v \in UserPages, m.entry[v].present,
           m.mem_map[m.entry[v].frame] = 1
    PROVE  Sound([m EXCEPT !.entry[v].write = TRUE], n)
<1> DEFINE c == [m EXCEPT !.entry[v].write = TRUE]
           f == m.entry[v].frame
<1>1. m \in MemState /\ v \in Pages /\ v \notin Frames
    BY Numbers DEF Sound
<1>2. m.entry[v] \in [present : BOOLEAN, write : BOOLEAN, frame : Frames]
    BY <1>1 DEF MemState
<1>3. [m.entry[v] EXCEPT !.write = TRUE] \in [present : BOOLEAN, write : BOOLEAN, frame : Frames]
    BY <1>2
<1>4. /\ c \in MemState /\ c.pg_dir = m.pg_dir /\ c.mem_map = m.mem_map
      /\ c.entry = [m.entry EXCEPT ![v] = [m.entry[v] EXCEPT !.write = TRUE]]
    BY <1>1, <1>3 DEF MemState
<1>5. /\ \A u \in Pages : u # v => c.entry[u] = m.entry[u]
      /\ c.entry[v] = [m.entry[v] EXCEPT !.write = TRUE]
    BY <1>1, <1>4 DEF MemState
<1> HIDE DEF c
<1>6. c.entry[v].present = m.entry[v].present /\ c.entry[v].frame = f
    BY <1>2, <1>5
<1> HIDE DEF f
<1>7. f \in Frames /\ v \in UsersOf(m, f)
    BY <1>2 DEF UsersOf, f
<1>8. \A g : UsersOf(c, g) = UsersOf(m, g) /\ TablesOf(c, g) = TablesOf(m, g)
    <2>1. \A u \in UserPages : c.entry[u].present = m.entry[u].present
                               /\ c.entry[u].frame = m.entry[u].frame
        BY <1>5, <1>6, Numbers DEF f
    <2> QED
        BY <1>4, <2>1 DEF UsersOf, TablesOf
<1>9. \A g : Uses(c, g) = Uses(m, g)
    BY <1>8 DEF Uses
<1>10. Covered(c) /\ Bounded(c, n)
    BY <1>4, <1>9 DEF Sound, Covered, Bounded
<1>11. InRAM(c)
    <2>1. InRAM(m)
        BY DEF Sound
    <2>2. ASSUME NEW u \in UserPages, c.entry[u].present PROVE c.entry[u].frame < EndPage
        BY <1>5, <1>6, <2>1, <2>2, Numbers DEF InRAM, f
    <2> QED
        BY <1>4, <2>1, <2>2 DEF InRAM
<1>12. Identity(c)
    <2>1. \A u \in Frames : c.entry[u] = m.entry[u]
        BY <1>1, <1>5, Numbers
    <2> QED
        BY <2>1, Numbers DEF Sound, Identity
<1>13. WritableOwn(c)
    <2> SUFFICES ASSUME NEW u \in UserPages, c.entry[u].write PROVE Own(c, u)
        BY DEF WritableOwn
    <2>1. CASE u = v
        <3>1. m.mem_map[f] = 1 /\ m.mem_map[f] >= Uses(m, f)
            BY <1>7 DEF Sound, Covered, f
        <3>2. UsersOf(m, f) = {v} /\ TablesOf(m, f) = {} /\ f \notin KernelFrames
            BY <1>7, <3>1, SoleUser, UsesFacts
        <3>3. f < EndPage
            BY DEF Sound, InRAM, f
        <3>4. f \in StartPage .. EndPage - 1
            BY <1>7, <3>2, <3>3, Numbers, MemoryAssumption
        <3> QED
            BY <1>6, <1>8, <2>1, <3>2, <3>4 DEF Own
    <2>2. CASE u # v
        <3>1. c.entry[u] = m.entry[u] /\ Own(m, u)
            BY <1>5, <2>2, Numbers DEF Sound, WritableOwn
        <3> QED
            BY <1>8, <3>1 DEF Own
    <2> QED
        BY <2>1, <2>2
<1> QED
    BY <1>4, <1>10, <1>11, <1>12, <1>13 DEF Sound, c

LEMMA DoWpSound ==
    ASSUME NEW n \in Nat, NEW m, Sound(m, n), NEW v \in UserPages, m.entry[v].present
    PROVE  Sound(DoWpPage(m, v), n)
BY CopySound, GiveBackSound DEF DoWpPage

LEMMA MapPageSound ==
    ASSUME NEW n \in Nat, NEW m, Sound(m, n), NEW v \in Pages
    PROVE  Sound(MapPage(m, v), n)
<1>1. CASE m.hung
    BY <1>1 DEF MapPage
<1>2. CASE ~m.hung /\ v \notin Frames
    <2>1. MapPage(m, v) = SetPage(GetFreePage(m), v) /\ v \in UserPages
        BY <1>2, Numbers DEF MapPage, Pages
    <2> QED
        BY <2>1, SetPageSound
<1>3. CASE ~m.hung /\ v \in Frames
    <2> DEFINE c == [m EXCEPT !.entry[v] = Entry(v, TRUE)]
    <2>1. m \in MemState /\ v \notin UserPages
        BY <1>3, Numbers DEF Sound
    <2>2. Entry(v, TRUE) \in [present : BOOLEAN, write : BOOLEAN, frame : Frames]
        BY <1>3 DEF Entry
    <2>3. /\ c \in MemState /\ c.pg_dir = m.pg_dir /\ c.mem_map = m.mem_map
          /\ c.entry = [m.entry EXCEPT ![v] = Entry(v, TRUE)]
        BY <2>1, <2>2 DEF MemState
    <2>4. MapPage(m, v) = c
        BY <1>3, Numbers DEF MapPage
    <2> HIDE DEF c
    <2>5. /\ \A u \in Pages : u # v => c.entry[u] = m.entry[u]
          /\ c.entry[v].present /\ c.entry[v].frame = v
        BY <2>1, <2>3 DEF MemState, Entry
    <2>6. \A u \in UserPages : c.entry[u] = m.entry[u]
        BY <2>1, <2>5, Numbers
    <2>7. \A g : UsersOf(c, g) = UsersOf(m, g) /\ TablesOf(c, g) = TablesOf(m, g)
        BY <2>3, <2>6 DEF UsersOf, TablesOf
    <2>8. \A g : Uses(c, g) = Uses(m, g)
        BY <2>7 DEF Uses
    <2>9. Covered(c) /\ Bounded(c, n) /\ InRAM(c)
        BY <2>3, <2>6, <2>8 DEF Sound, Covered, Bounded, InRAM
    <2>10. Identity(c)
        BY <2>5, Numbers DEF Sound, Identity
    <2>11. WritableOwn(c)
        BY <2>6, <2>7 DEF Sound, WritableOwn, Own
    <2> QED
        BY <2>3, <2>4, <2>9, <2>10, <2>11 DEF Sound
<1> QED
    BY <1>1, <1>2, <1>3

LEMMA DoNoPageSound ==
    ASSUME NEW n \in Nat, NEW m, Sound(m, n), NEW v \in Pages
    PROVE  Sound(DoNoPage(m, v), n)
BY WithTableSound, MapPageSound DEF DoNoPage

-----------------------------------------------------------------------------
(* share_page                                                               *)

LEMMA WithPageSound ==
    ASSUME NEW n \in Nat, NEW m, Sound(m, n), NEW v \in Pages
    PROVE  /\ Sound(WithPage(m, v), n)
           /\ WithPage(m, v).hung \/ WithPage(m, v).entry[v].present
<1> DEFINE c == DoNoPage(m, v)
           h == c.hung \/ ~c.entry[v].present
           d == [c EXCEPT !.hung = h]
<1>1. CASE m.entry[v].present
    BY <1>1 DEF WithPage
<1>2. CASE ~m.entry[v].present
    <2>1. Sound(c, n)
        BY DoNoPageSound
    <2>2. c \in MemState
        BY <2>1 DEF Sound
    <2>3. WithPage(m, v) = d
        BY <1>2 DEF WithPage, LoopUnlessPage
    <2> HIDE DEF c
    <2>4. c.entry[v].present \in BOOLEAN /\ h \in BOOLEAN
        BY <2>2 DEF MemState
    <2>5. Sound(d, n) /\ d.hung = h
        BY <2>1, <2>4, HangSound
    <2>6. d.entry = c.entry
        BY <2>2 DEF MemState
    <2>7. d.hung \/ d.entry[v].present
        BY <2>5, <2>6
    <2> QED
        BY <2>3, <2>5, <2>7
<1> QED
    BY <1>1, <1>2

\* c is m with one more reference to the frame f, at the page `to'; the page `from',
\* which has f, is protected as well unless it is the kernel's.
IsShared(m, c, from, to, f) ==
    /\ c \in MemState /\ c.pg_dir = m.pg_dir
    /\ c.mem_map = [m.mem_map EXCEPT ![f] = m.mem_map[f] + 1]
    /\ c.entry[to] = Entry(f, FALSE)
    /\ from \in UserPages => c.entry[from] = Entry(f, FALSE)
    /\ \A u \in Pages : u # to /\ (u # from \/ from \in Frames) => c.entry[u] = m.entry[u]

LEMMA SharedSound ==
    ASSUME NEW n \in Nat, NEW m, Sound(m, n),
           NEW from \in KernelFrames \cup UserPages, NEW to \in UserPages,
           NEW f, m.entry[from].present, f = m.entry[from].frame,
           NEW c, IsShared(m, c, from, to, f)
    PROVE  Sound(c, n + 1)
<1>1. /\ m \in MemState /\ c \in MemState /\ from \in Pages /\ to \in Pages /\ to \notin Frames
      /\ c.pg_dir = m.pg_dir
      /\ from \in UserPages <=> from \notin Frames
    BY Numbers DEF Sound, IsShared, Pages
<1>2. /\ f \in Frames
      /\ from \in KernelFrames => f = from /\ f < StartPage
    <2>1. from \in KernelFrames => from \in Frames /\ from < StartPage
        BY Numbers
    <2>2. \A u \in Frames : m.entry[u].present => m.entry[u].frame = u
        BY DEF Sound, Identity
    <2> QED
        BY <1>1, <2>1, <2>2 DEF MemState
<1>3. /\ c.entry[to].present /\ ~c.entry[to].write /\ c.entry[to].frame = f
      /\ from \in UserPages => /\ c.entry[from].present /\ ~c.entry[from].write
                               /\ c.entry[from].frame = f
      /\ \A u \in Pages : u # to /\ (u # from \/ from \in Frames) => c.entry[u] = m.entry[u]
    BY DEF IsShared, Entry
<1>4. /\ c.mem_map[f] = m.mem_map[f] + 1
      /\ \A g \in Frames : g # f => c.mem_map[g] = m.mem_map[g]
    BY <1>1, <1>2 DEF IsShared, MemState
<1>5. \A g \in Frames : /\ m.mem_map[g] >= Uses(m, g) /\ m.mem_map[g] <= n + 1
                        /\ m.mem_map[g] \in Nat /\ c.mem_map[g] \in Nat
    BY <1>1 DEF Sound, Covered, Bounded, MemState
<1>6. \A g : TablesOf(c, g) = TablesOf(m, g)
    BY <1>1 DEF TablesOf
<1>7. \A u \in UserPages : u # to /\ c.entry[u].present =>
          m.entry[u].present /\ m.entry[u].frame = c.entry[u].frame
    BY <1>1, <1>3, Numbers
<1>8. UsersOf(c, f) \subseteq UsersOf(m, f) \cup {to}
    BY <1>7 DEF UsersOf
<1>9. \A g : g # f => UsersOf(c, g) \subseteq UsersOf(m, g)
    BY <1>3, <1>7 DEF UsersOf
<1>10. Covered(c)
    <2> SUFFICES ASSUME NEW g \in Frames PROVE c.mem_map[g] >= Uses(c, g)
        BY DEF Covered
    <2>1. CASE g = f
        <3>1. Uses(c, f) <= Uses(m, f) + 1
            BY <1>6, <1>8, UsesWith
        <3> QED
            BY <1>2, <1>4, <1>5, <2>1, <3>1, UsesFacts
    <2>2. CASE g # f
        <3>1. Uses(c, g) <= Uses(m, g)
            BY <1>6, <1>9, <2>2, FewerUses
        <3> QED
            BY <1>4, <1>5, <2>2, <3>1, UsesFacts
    <2> QED
        BY <2>1, <2>2
<1>11. Bounded(c, n + 1)
    BY <1>2, <1>4, <1>5 DEF Bounded
<1>12. InRAM(c)
    <2>1. InRAM(m)
        BY DEF Sound
    <2>2. f < EndPage
        <3>1. CASE from \in UserPages
            BY <2>1, <3>1 DEF InRAM
        <3>2. CASE from \in KernelFrames
            BY <1>2, <3>2, Numbers, MemoryAssumption
        <3> QED
            BY <3>1, <3>2
    <2>3. ASSUME NEW g \in Frames, g >= EndPage PROVE c.mem_map[g] >= 1
        <3>1. m.mem_map[g] >= 1
            BY <2>1, <2>3 DEF InRAM
        <3>2. c.mem_map[g] = m.mem_map[g] \/ c.mem_map[g] = m.mem_map[g] + 1
            BY <1>4
        <3> QED
            BY <1>5, <3>1, <3>2
    <2>4. ASSUME NEW u \in UserPages, c.entry[u].present PROVE c.entry[u].frame < EndPage
        BY <1>3, <1>7, <2>1, <2>2, <2>4 DEF InRAM
    <2> QED
        BY <2>3, <2>4 DEF InRAM
<1>13. Identity(c)
    <2>1. \A u \in Frames : c.entry[u] = m.entry[u]
        BY <1>1, <1>3, Numbers
    <2> QED
        BY <2>1, Numbers DEF Sound, Identity
<1>14. WritableOwn(c)
    <2> SUFFICES ASSUME NEW u \in UserPages, c.entry[u].write PROVE Own(c, u)
        BY DEF WritableOwn
    <2>1. u # to /\ (u # from \/ from \in Frames)
        BY <1>1, <1>3
    <2>2. c.entry[u] = m.entry[u] /\ Own(m, u)
        BY <1>3, <2>1, Numbers DEF Sound, WritableOwn
    <2>3. m.entry[u].frame # f
        <3>1. CASE from \in UserPages
            <4>1. from \in UsersOf(m, f) /\ u # from
                BY <1>1, <2>1, <3>1 DEF UsersOf
            <4> QED
                BY <2>2, <4>1 DEF Own
        <3>2. CASE from \in KernelFrames
            BY <1>2, <2>2, <3>2, MemoryAssumption, Numbers DEF Own
        <3> QED
            BY <3>1, <3>2
    <2>4. u \in UsersOf(c, m.entry[u].frame)
        BY <2>2 DEF Own, UsersOf
    <2>5. UsersOf(c, m.entry[u].frame) = {u}
        BY <1>9, <2>2, <2>3, <2>4 DEF Own
    <2> QED
        BY <1>6, <2>2, <2>5 DEF Own
<1> QED
    BY <1>1, <1>10, <1>11, <1>12, <1>13, <1>14 DEF Sound

\* Sharing that does not return leaves all counts as they are.
LEMMA MoreShares ==
    ASSUME NEW n \in Nat, NEW m, Sound(m, n)
    PROVE  Sound(m, n + 1)
<1>1. \A f \in Frames : m.mem_map[f] \in Nat /\ m.mem_map[f] <= n + 1
    BY DEF Sound, MemState, Bounded
<1>2. Bounded(m, n + 1)
    BY <1>1 DEF Bounded
<1> QED
    BY <1>2 DEF Sound

LEMMA MapBothSound ==
    ASSUME NEW n \in Nat, n + 2 < CountLimit, NEW m, Sound(m, n),
           NEW from \in KernelFrames \cup UserPages, NEW to \in UserPages,
           m.hung \/ m.entry[from].present
    PROVE  Sound(MapBoth(m, from, to), n + 1)
<1> DEFINE f == m.entry[from].frame
           e == Entry(f, FALSE)
           r == IF from >= PAGING_PAGES THEN e ELSE m.entry[from]
           k == m.mem_map[f] + 1
           c == [m EXCEPT !.mem_map[f] = k, !.entry[to] = e, !.entry[from] = r]
<1>1. CASE m.hung
    <2>1. MapBoth(m, from, to) = m
        BY <1>1 DEF MapBoth
    <2> QED
        BY <2>1, MoreShares
<1>2. CASE ~m.hung
    <2>1. m \in MemState /\ from \in Pages /\ to \in Pages
        BY Numbers DEF Sound, Pages
    <2>2. f \in Frames /\ m.mem_map[f] \in 0 .. CountLimit - 1 /\ m.mem_map[f] <= n + 1
        BY <2>1 DEF MemState, Sound, Bounded
    <2>3. k \in 0 .. CountLimit - 1
        BY <2>2, MemoryAssumption
    <2>4. k % CountLimit = k
        <3>1. m.mem_map[f] + 1 < CountLimit
            <4> DEFINE count == m.mem_map[f]
            <4>1. count \in Nat /\ count <= n + 1 /\ CountLimit \in Nat
                BY <2>2, MemoryAssumption
            <4> HIDE DEF count
            <4>2. count + 1 < CountLimit
                BY <4>1
            <4> QED
                BY <4>2 DEF count
        <3>2. \A j \in 0 .. CountLimit - 1 : j + 1 < CountLimit => (j + 1) % CountLimit = j + 1
            BY CountsWrap
        <3> QED
            BY <2>2, <3>1, <3>2
    <2>5. MapBoth(m, from, to) = c
        BY <1>2, <2>4 DEF MapBoth
    <2>6. e \in [present : BOOLEAN, write : BOOLEAN, frame : Frames]
        BY <2>2 DEF Entry
    <2>7. r \in [present : BOOLEAN, write : BOOLEAN, frame : Frames]
        BY <2>1, <2>6 DEF MemState
    <2>8. from \in UserPages <=> from >= PAGING_PAGES
        BY <2>1, MemoryAssumption, Numbers DEF Pages, Frames
    <2>9. (from \in UserPages => r = e) /\ (from \in Frames => r = m.entry[from] /\ from # to)
        BY <2>8, Numbers
    <2> HIDE DEF e, r, k
    <2>10. /\ c.pg_dir = m.pg_dir
           /\ c.mem_map = [m.mem_map EXCEPT ![f] = k]
           /\ c.entry = [[m.entry EXCEPT ![to] = e] EXCEPT ![from] = r]
        BY <2>1 DEF MemState
    <2>11. c \in MemState
        BY <2>1, <2>2, <2>3, <2>6, <2>7 DEF MemState
    <2> HIDE DEF c
    <2>12. from \in Frames \/ from \in UserPages
        BY <2>1 DEF Pages
    <2>13. /\ c.entry[to] = e
           /\ from \in UserPages => c.entry[from] = e
           /\ \A u \in Pages : u # to /\ (u # from \/ from \in Frames) => c.entry[u] = m.entry[u]
        BY <2>1, <2>9, <2>10, <2>12 DEF MemState
    <2>14. IsShared(m, c, from, to, f)
        BY <2>10, <2>11, <2>13 DEF IsShared, e, k
    <2>15. Sound(c, n + 1)
        BY <1>2, <2>14, SharedSound
    <2> QED
        BY <2>5, <2>15
<1> QED
    BY <1>1, <1>2

LEMMA SharePageSound ==
    ASSUME NEW n \in Nat, n + 2 < CountLimit, NEW m, Sound(m, n),
           NEW from \in KernelFrames \cup UserPages, NEW to \in UserPages
    PROVE  Sound(SharePage(m, from, to), n + 1)
<1> DEFINE c == WithPage(m, from)
           d == WithTable(c, to)
<1>1. from \in Pages
    BY Numbers DEF Pages
<1>2. Sound(c, n) /\ (c.hung \/ c.entry[from].present)
    BY <1>1, WithPageSound
<1>3. SharePage(m, from, to) = MapBoth(d, from, to)
    BY DEF SharePage
<1> HIDE DEF c
<1>4. Sound(d, n) /\ Keeps(c, d) /\ (c.hung => d.hung)
    BY <1>2, WithTableSound
<1> HIDE DEF d
<1>5. d.hung \/ d.entry[from].present
    BY <1>1, <1>2, <1>4 DEF Keeps
<1> QED
    BY <1>3, <1>4, <1>5, MapBothSound

-----------------------------------------------------------------------------
(* The actions                                                              *)

\* Counts may be any that the type has.
MemoryInv ==
    /\ Sound(mem, CountLimit - 2)
    /\ boot \in Seq(KernelFrames \X UserPages)
    /\ shares \in 0 .. MaxShares

\* While all have a value left, one more reference does not wrap any.
LEMMA CountsFacts ==
    ASSUME MemoryInv
    PROVE  /\ CountLimit - 2 \in Nat /\ CountLimit - 3 \in Nat /\ mem \in MemState
           /\ CountsLeft => Sound(mem, CountLimit - 3)
<1>1. CountLimit \in Nat /\ CountLimit >= 3 /\ mem \in MemState
    BY MemoryAssumption DEF MemoryInv, Sound
<1>2. ASSUME CountsLeft PROVE Bounded(mem, CountLimit - 3)
    <2> SUFFICES ASSUME NEW f \in Frames PROVE mem.mem_map[f] <= (CountLimit - 3) + 1
        BY DEF Bounded
    <2>1. mem.mem_map[f] \in 0 .. CountLimit - 1 /\ mem.mem_map[f] < CountLimit - 1
        BY <1>1, <1>2 DEF CountsLeft, MemState
    <2> QED
        BY <1>1, <2>1
<1> QED
    BY <1>1, <1>2 DEF MemoryInv, Sound

LEMMA ShareSound ==
    ASSUME MemoryInv, CountsLeft,
           NEW from \in KernelFrames \cup UserPages, NEW to \in UserPages
    PROVE  Sound(SharePage(mem, from, to), CountLimit - 2)
<1> DEFINE n == CountLimit - 3
<1>1. n \in Nat /\ n + 2 < CountLimit /\ n + 1 = CountLimit - 2 /\ Sound(mem, n)
    BY CountsFacts, MemoryAssumption
<1> HIDE DEF n
<1>2. Sound(SharePage(mem, from, to), n + 1)
    BY <1>1, SharePageSound
<1> QED
    BY <1>1, <1>2

\* A page is below a bound if its table is.
LEMMA DivideLess ==
    ASSUME NEW T \in Nat \ {0}, NEW B \in Nat, NEW v \in Nat
    PROVE  v < B * T <=> v \div T < B
<1> DEFINE q == v \div T
<1>1. q \in Nat /\ v = T * q + (v % T) /\ v % T \in 0 .. T - 1
    OBVIOUS
<1> HIDE DEF q
<1>2. CASE q < B
    <2>1. q + 1 <= B
        BY <1>1, <1>2
    <2>2. T * (q + 1) <= T * B
        BY <1>1, <2>1
    <2>3. T * (q + 1) = T * q + T /\ T * B = B * T
        BY <1>1
    <2> QED
        BY <1>1, <1>2, <2>2, <2>3 DEF q
<1>3. CASE ~(q < B)
    <2>1. B <= q
        BY <1>1, <1>3
    <2>2. T * B <= T * q
        BY <1>1, <2>1
    <2>3. T * B = B * T
        OBVIOUS
    <2> QED
        BY <1>1, <1>3, <2>2, <2>3 DEF q
<1> QED
    BY <1>2, <1>3

\* The second page after the last but two of a table is in the same table.
LEMMA SameTable ==
    ASSUME NEW T \in Nat \ {0}, NEW v \in Nat, v % T = T - 3
    PROVE  (v + 2) \div T = v \div T
<1> DEFINE q == v \div T
           r == (v + 2) \div T
<1>1. q \in Nat /\ v = T * q + (v % T)
    OBVIOUS
<1>2. r \in Nat
    OBVIOUS
<1>3. \A B \in Nat : v + 2 < B * T <=> r < B
    BY DivideLess
<1> HIDE DEF q, r
<1>4. v + 2 = T * q + (T - 1)
    BY <1>1
<1>5. T * (q + 1) = T * q + T /\ (q + 1) * T = T * (q + 1) /\ q * T = T * q
    BY <1>1
<1>6. v + 2 < (q + 1) * T /\ ~(v + 2 < q * T)
    BY <1>1, <1>4, <1>5
<1>7. r < q + 1 /\ ~(r < q)
    BY <1>1, <1>3, <1>6
<1>8. r = q
    BY <1>1, <1>2, <1>7
<1> QED
    BY <1>8 DEF q, r

\* The tables of setup32.asm map the kernel and no process.
LEMMA BootTablesMap ==
    /\ \A v \in Nat : v < BootTables * TablePages <=> TableOf(v) < BootTables
    /\ \A v \in KernelFrames : TableOf(v) < BootTables
    /\ \A v \in UserPages : ~(TableOf(v) < BootTables)
<1>1. \A v \in Nat : v < BootTables * TablePages <=> TableOf(v) < BootTables
    BY DivideLess, MemoryAssumption DEF TableOf
<1>2. /\ \A v \in KernelFrames : v \in Nat /\ v < BootTables * TablePages
      /\ \A v \in UserPages : v \in Nat /\ ~(v < BootTables * TablePages)
    BY MemoryAssumption DEF KernelFrames
<1> QED
    BY <1>1, <1>2

LEMMA MemoryInit ==
    ASSUME Init
    PROVE  MemoryInv
<1> DEFINE Types == [present : BOOLEAN, write : BOOLEAN, frame : Frames]
<1>1. mem = [mem_map |-> [f \in Frames |-> IF f \in StartPage .. EndPage - 1 THEN 0 ELSE 1],
             pg_dir  |-> [b \in Tables |-> IF b < BootTables THEN BootTable ELSE NoTable],
             entry   |-> [v \in Pages |-> IF TableOf(v) < BootTables THEN Entry(v, TRUE) ELSE Absent],
             data    |-> [f \in Frames |-> Zero],
             hung    |-> FALSE]
    BY DEF Init
<1>2. /\ \A v \in UserPages : mem.entry[v] = Absent
      /\ \A v \in KernelFrames : mem.entry[v] = Entry(v, TRUE)
      /\ \A v \in Frames : mem.entry[v] = Entry(v, TRUE) \/ mem.entry[v] = Absent
    BY <1>1, BootTablesMap, Numbers
<1>3. \A v \in Frames : Entry(v, TRUE) \in Types /\ Absent \in Types
    BY Numbers DEF Entry, Absent
<1>4. mem \in MemState
    <2>1. [v \in Pages |-> IF TableOf(v) < BootTables THEN Entry(v, TRUE) ELSE Absent] \in [Pages -> Types]
        <3> SUFFICES ASSUME NEW v \in Pages
                     PROVE  (IF TableOf(v) < BootTables THEN Entry(v, TRUE) ELSE Absent) \in Types
            OBVIOUS
        <3>1. CASE v \in Frames
            BY <1>3, <3>1
        <3>2. CASE v \in UserPages
            BY <1>3, <3>2, BootTablesMap, Numbers
        <3> QED
            BY <3>1, <3>2 DEF Pages
    <2>2. [f \in Frames |-> IF f \in StartPage .. EndPage - 1 THEN 0 ELSE 1]
             \in [Frames -> 0 .. CountLimit - 1]
        BY MemoryAssumption
    <2>3. [f \in Frames |-> Zero] \in [Frames -> Contents]
        BY DEF Contents
    <2> QED
        BY <1>1, <2>1, <2>2, <2>3 DEF MemState
<1>5. \A f \in Frames : mem.mem_map[f] = IF f \in StartPage .. EndPage - 1 THEN 0 ELSE 1
    BY <1>1
<1>6. \A v \in UserPages : ~mem.entry[v].present /\ ~mem.entry[v].write
    BY <1>2 DEF Absent
<1>7. \A f \in Frames : UsersOf(mem, f) = {} /\ TablesOf(mem, f) = {}
    <2>1. \A b \in Tables : mem.pg_dir[b] \notin Frames
        BY <1>1, Numbers
    <2> QED
        BY <1>6, <2>1 DEF UsersOf, TablesOf
<1>8. Covered(mem)
    <2> SUFFICES ASSUME NEW f \in Frames PROVE mem.mem_map[f] >= Uses(mem, f)
        BY DEF Covered
    <2>1. CASE f \in KernelFrames
        <3>1. Uses(mem, f) = 1
            BY <1>7, <2>1, FS_EmptySet DEF Uses, Kernels
        <3>2. f \notin StartPage .. EndPage - 1
            BY <2>1, Numbers, MemoryAssumption
        <3> QED
            BY <1>5, <3>1, <3>2
    <2>2. CASE f \notin KernelFrames
        <3>1. Uses(mem, f) = 0
            BY <1>7, <2>2, NoUses
        <3> QED
            BY <1>5, <3>1
    <2> QED
        BY <2>1, <2>2
<1>9. shares = 0
    BY DEF Init
<1>10. Bounded(mem, CountLimit - 2)
    BY <1>5, MemoryAssumption DEF Bounded
<1>11. InRAM(mem)
    BY <1>5, <1>6, Numbers, MemoryAssumption DEF InRAM
<1>12. Identity(mem)
    <2>1. \A v : Entry(v, TRUE).present /\ Entry(v, TRUE).frame = v /\ ~Absent.present
        BY DEF Entry, Absent
    <2>2. ASSUME NEW v \in KernelFrames PROVE mem.entry[v].present
        <3>1. mem.entry[v] = Entry(v, TRUE)
            BY <1>2
        <3> QED
            BY <2>1, <3>1
    <2>3. ASSUME NEW v \in Frames, mem.entry[v].present PROVE mem.entry[v].frame = v
        <3>1. mem.entry[v] = Entry(v, TRUE)
            BY <1>2, <2>1, <2>3
        <3> QED
            BY <2>1, <3>1
    <2> QED
        BY <2>2, <2>3 DEF Identity
<1>13. WritableOwn(mem)
    BY <1>6 DEF WritableOwn
<1>14. Sound(mem, CountLimit - 2)
    BY <1>4, <1>8, <1>10, <1>11, <1>12, <1>13 DEF Sound
<1>15. boot \in Seq(KernelFrames \X UserPages)
    BY MemoryAssumption DEF Init, KernelFrames
<1> QED
    BY <1>9, <1>14, <1>15, MemoryAssumption DEF MemoryInv

LEMMA ShareAtBootInv ==
    ASSUME CountsLeft, MemoryInv, ShareAtBoot
    PROVE  MemoryInv'
<1> DEFINE from == Head(boot)[1]
           to == Head(boot)[2]
<1>1. /\ boot # <<>> /\ mem' = SharePage(mem, from, to) /\ boot' = Tail(boot) /\ shares' = shares
      /\ boot \in Seq(KernelFrames \X UserPages)
    BY DEF ShareAtBoot, MemoryInv
<1>2. Head(boot) \in KernelFrames \X UserPages
    BY <1>1
<1>3. from \in KernelFrames \cup UserPages /\ to \in UserPages
    BY <1>2
<1>4. Tail(boot) \in Seq(KernelFrames \X UserPages)
    BY <1>1
<1> HIDE DEF from, to
<1>5. Sound(mem', CountLimit - 2)
    BY <1>1, <1>3, ShareSound
<1> QED
    BY <1>1, <1>4, <1>5 DEF MemoryInv

\* Buffers above the kernel are pages of processes, whoever's.
LEMMA Buffered ==
    ASSUME BuffersAboveKernel, NEW sent \in Pointers, NEW received \in Pointers,
           BigMessage(sent, received)
    PROVE  \E from, to \in UserPages : mem' = SharePage(mem, from, to)
BY DEF BuffersAboveKernel, BigMessage

LEMMA BigMessageInv ==
    ASSUME BuffersAboveKernel, CountsLeft, MemoryInv,
           NEW sent \in Pointers, NEW received \in Pointers, BigMessage(sent, received)
    PROVE  MemoryInv'
<1>1. PICK from \in UserPages, to \in UserPages : mem' = SharePage(mem, from, to)
    BY Buffered
<1>2. Sound(mem', CountLimit - 2)
    BY <1>1, ShareSound
<1>3. boot' = boot /\ shares' = shares + 1 /\ shares < MaxShares
    BY DEF BigMessage
<1>4. shares' \in 0 .. MaxShares
    BY <1>3, MemoryAssumption DEF MemoryInv
<1> QED
    BY <1>2, <1>3, <1>4 DEF MemoryInv

LEMMA WriteSound ==
    ASSUME NEW n \in Nat, NEW m, Sound(m, n), NEW f \in Frames, NEW x \in Contents
    PROVE  Sound([m EXCEPT !.data[f] = x], n)
<1> DEFINE c == [m EXCEPT !.data[f] = x]
<1>1. m \in MemState
    BY DEF Sound
<1>2. /\ c \in MemState /\ c.mem_map = m.mem_map /\ c.pg_dir = m.pg_dir
      /\ c.entry = m.entry
    BY <1>1 DEF MemState
<1> HIDE DEF c
<1>3. \A g : UsersOf(c, g) = UsersOf(m, g) /\ TablesOf(c, g) = TablesOf(m, g)
    BY <1>2 DEF UsersOf, TablesOf
<1>4. \A g : Uses(c, g) = Uses(m, g)
    BY <1>3 DEF Uses
<1>5. Covered(c) /\ Bounded(c, n)
    BY <1>2, <1>4 DEF Sound, Covered, Bounded
<1>6. InRAM(c) /\ Identity(c)
    BY <1>2 DEF Sound, InRAM, Identity
<1>7. WritableOwn(c)
    BY <1>2, <1>3 DEF Sound, WritableOwn, Own
<1> QED
    BY <1>2, <1>5, <1>6, <1>7 DEF Sound, c

\* The other actions share nothing.
LEMMA QuietInv ==
    ASSUME MemoryInv, Sound(mem', CountLimit - 2), boot' = boot, shares' = shares
    PROVE  MemoryInv'
BY DEF MemoryInv

LEMMA MemoryNext ==
    ASSUME BuffersAboveKernel, CountsLeft, MemoryInv, [Next]_vars
    PROVE  MemoryInv'
<1>1. Sound(mem, CountLimit - 2) /\ CountLimit - 2 \in Nat /\ mem \in MemState
    BY CountsFacts DEF MemoryInv
<1>2. CASE ShareAtBoot
    BY <1>2, ShareAtBootInv
<1>3. ASSUME NEW v \in UserPages, NotPresentFault(v) PROVE MemoryInv'
    <2>1. mem' = DoNoPage(mem, v) /\ boot' = boot /\ shares' = shares /\ v \in Pages
        BY <1>3, Numbers DEF NotPresentFault
    <2>2. Sound(mem', CountLimit - 2)
        BY <1>1, <2>1, DoNoPageSound
    <2> QED
        BY <2>1, <2>2, QuietInv
<1>4. ASSUME NEW v \in UserPages, WriteFault(v) PROVE MemoryInv'
    <2>1. mem' = DoWpPage(mem, v) /\ boot' = boot /\ shares' = shares /\ mem.entry[v].present
        BY <1>4 DEF WriteFault
    <2>2. Sound(mem', CountLimit - 2)
        BY <1>1, <2>1, DoWpSound
    <2> QED
        BY <2>1, <2>2, QuietInv
<1>5. ASSUME NEW v \in UserPages \cup KernelFrames, NEW x \in Versions, Write(v, x)
      PROVE  MemoryInv'
    <2>1. /\ mem' = [mem EXCEPT !.data[mem.entry[v].frame] = <<v, x>>]
          /\ boot' = boot /\ shares' = shares
        BY <1>5 DEF Write
    <2>2. v \in Pages
        BY Numbers DEF Pages
    <2>3. mem.entry[v].frame \in Frames /\ <<v, x>> \in Contents
        BY <1>1, <2>2 DEF MemState, Contents
    <2>4. Sound(mem', CountLimit - 2)
        BY <1>1, <2>1, <2>3, WriteSound
    <2> QED
        BY <2>1, <2>4, QuietInv
<1>6. ASSUME NEW sent \in Pointers, NEW received \in Pointers, BigMessage(sent, received)
      PROVE  MemoryInv'
    BY <1>6, BigMessageInv
<1>7. CASE UNCHANGED vars
    <2>1. mem' = mem /\ boot' = boot /\ shares' = shares
        BY <1>7 DEF vars
    <2> QED
        BY <1>1, <2>1, QuietInv
<1>8. CASE Next
    BY <1>2, <1>3, <1>4, <1>5, <1>6, <1>7, <1>8 DEF Next, Read, Spin
<1> QED
    BY <1>7, <1>8

-----------------------------------------------------------------------------
(* The theorems                                                             *)

\* Page faults, shared pages and allocations keep memory sound: the inductive
\* invariant of the module, as long as each count (unsigned char mem_map[]) is wide
\* enough for the uses of its frame.
THEOREM MemoryInvariant ==
    ASSUME BuffersAboveKernel
    PROVE  Spec /\ []CountsLeft => []MemoryInv
<1>1. Init => MemoryInv
    BY MemoryInit
<1>2. CountsLeft /\ MemoryInv /\ [Next]_vars => MemoryInv'
    BY MemoryNext
<1> QED
    BY <1>1, <1>2, PTL DEF Spec

\* Counts, entries and tables keep their types through all handlers of memory.c.
THEOREM MemoryTypes ==
    ASSUME BuffersAboveKernel
    PROVE  Spec /\ []CountsLeft => []MemTypeOK
<1>1. MemoryInv => MemTypeOK
    BY DEF MemoryInv, Sound, MemState, MemTypeOK, KernelFrames
<1> QED
    BY <1>1, MemoryInvariant, PTL

\* get_free_page never hands out a frame in use, and do_wp_page never takes a frame
\* for its user's alone too early: mem_map[] covers all uses.
THEOREM CountsCoverUses ==
    ASSUME BuffersAboveKernel
    PROVE  Spec /\ []CountsLeft => []CountsCover
<1>1. MemoryInv => CountsCover
    BY DEF MemoryInv, Sound, Covered, Uses, UsersOf, TablesOf, Kernels,
           CountsCover, Users, TablesIn
<1> QED
    BY <1>1, MemoryInvariant, PTL

\* Copy on write: what a process can write to belongs to no other page of a process,
\* no page table and not to the kernel.
THEOREM WritablePagesPrivate ==
    ASSUME BuffersAboveKernel
    PROVE  Spec /\ []CountsLeft => []WritableIsPrivate
<1>1. MemoryInv => WritableIsPrivate
    BY DEF MemoryInv, Sound, WritableOwn, Own, UsersOf, TablesOf,
           WritableIsPrivate, Users, TablesIn
<1> QED
    BY <1>1, MemoryInvariant, PTL

-----------------------------------------------------------------------------
(* Endless loops.  If setup32.asm maps all of the RAM, which is so up to 32 *)
(* MB, a frame that is free can be cleared, and the kernel never has to     *)
(* wait for one that it has.                                                *)

AllMapped == EndPage <= BootTables * TablePages

LoopsEnd(m) ==
    /\ m.hung => FreeFrames(m) = {}
    /\ \A b \in Tables : b < BootTables => m.pg_dir[b] # NoTable

\* What goes on for long enough looks at free frames that are mapped, and the
\* look-ahead has nothing to do.
LEMMA FreeIsMapped ==
    ASSUME AllMapped, NEW n \in Nat, NEW m, Sound(m, n), LoopsEnd(m), NEW f \in FreeFrames(m)
    PROVE  m.pg_dir[TableOf(f)] # NoTable /\ ~LacksAhead(m, f) /\ f # 0
<1>1. f \in Frames /\ m.mem_map[f] = 0 /\ f \in Nat /\ f \in Pages
    BY Numbers DEF FreeFrames
<1>2. f \in StartPage .. EndPage - 1
    BY <1>1, FreeFrameUnused
<1>3. f < BootTables * TablePages /\ f # 0
    BY <1>1, <1>2, MemoryAssumption DEF AllMapped
<1>4. TableOf(f) < BootTables /\ TableOf(f) \in Tables
    BY <1>1, <1>3, BootTablesMap, Numbers
<1>5. m.pg_dir[TableOf(f)] # NoTable
    BY <1>4 DEF LoopsEnd
<1>6. ASSUME f % TablePages = TablePages - 3 PROVE TableOf(f + 2) = TableOf(f)
    BY <1>1, <1>6, SameTable, MemoryAssumption DEF TableOf
<1>7. ~LacksAhead(m, f)
    BY <1>5, <1>6 DEF LacksAhead
<1> QED
    BY <1>3, <1>5, <1>7

\* get_free_page finds a frame unless there is none.
LEMMA GetFinds ==
    ASSUME AllMapped, NEW n \in Nat, NEW m, Sound(m, n), LoopsEnd(m)
    PROVE  LET got == GetFreePage(m) IN
           \/ FreeFrames(m) = {} /\ Failed(got) /\ got.mem = m
           \/ /\ ~Failed(got) /\ ~got.mem.hung /\ got.mem \in MemState
              /\ got.frame \in Frames /\ got.mem.pg_dir = m.pg_dir
<1>1. CASE FreeFrames(m) = {}
    <2>1. GetFreePage(m) = None(m)
        BY <1>1 DEF GetFreePage
    <2> QED
        BY <1>1, <2>1 DEF None, Failed
<1>2. CASE FreeFrames(m) # {}
    <2> DEFINE f == Least(FreeFrames(m))
               c == Claim(m, f)
    <2>1. FreeFrames(m) \in SUBSET Nat /\ FreeFrames(m) \subseteq Frames
        BY Numbers DEF FreeFrames
    <2>2. f \in FreeFrames(m)
        BY <1>2, <2>1, LeastFacts
    <2> HIDE DEF f
    <2>3. m.pg_dir[TableOf(f)] # NoTable /\ ~LacksAhead(m, f) /\ f # 0
        BY <2>2, FreeIsMapped
    <2>4. GetFreePage(m) = TakeFrame(m, f)
        BY <1>2, <2>3 DEF GetFreePage, f
    <2>5. m \in MemState /\ ~m.hung
        BY <1>2 DEF Sound, LoopsEnd
    <2>6. c \in MemState /\ c.hung = m.hung /\ c.pg_dir = m.pg_dir
        BY <2>1, <2>2, <2>3, <2>5, ClaimFields
    <2>7. TakeFrame(m, f).frame = f /\ TakeFrame(m, f).mem = c
        BY DEF TakeFrame
    <2> QED
        BY <2>1, <2>2, <2>3, <2>4, <2>5, <2>6, <2>7 DEF Failed
<1> QED
    BY <1>1, <1>2

\* Nothing but the hang and the directory matters to it.
LEMMA LoopsEndSame ==
    ASSUME NEW m, NEW c, LoopsEnd(m), ~c.hung, c.pg_dir = m.pg_dir
    PROVE  LoopsEnd(c)
BY DEF LoopsEnd

LEMMA WithTableEnds ==
    ASSUME AllMapped, NEW n \in Nat, NEW m, Sound(m, n), LoopsEnd(m), NEW v \in Pages
    PROVE  LoopsEnd(WithTable(m, v))
<1> DEFINE got == GetFreePage(m)
           b == TableOf(v)
           c == CreatePageTable(m, v)
           d == [c EXCEPT !.hung = @ \/ c.pg_dir[b] = NoTable]
<1>1. Sound(c, n) /\ c \in MemState /\ b \in Tables
    BY CreateSound, Numbers DEF Sound
<1>2. WithTable(m, v) = d
    BY DEF WithTable, LoopUnlessTable
<1>3. LoopsEnd(c) /\ (c.pg_dir[b] = NoTable => FreeFrames(c) = {})
    <2>1. CASE m.hung \/ m.pg_dir[b] # NoTable
        <3>1. c = m
            BY <2>1 DEF CreatePageTable
        <3> QED
            BY <2>1, <3>1 DEF LoopsEnd
    <2>2. CASE ~m.hung /\ m.pg_dir[b] = NoTable
        <3>1. c = SetTable(got, v)
            BY <2>2 DEF CreatePageTable
        <3> HIDE DEF got
        <3>2. CASE FreeFrames(m) = {} /\ Failed(got) /\ got.mem = m
            <4>1. c = m
                BY <3>1, <3>2 DEF SetTable
            <4> QED
                BY <3>2, <4>1
        <3>3. CASE /\ ~Failed(got) /\ ~got.mem.hung /\ got.mem \in MemState
                   /\ got.frame \in Frames /\ got.mem.pg_dir = m.pg_dir
            <4>1. c = [got.mem EXCEPT !.pg_dir[b] = got.frame]
                BY <3>1, <3>3 DEF SetTable
            <4> HIDE DEF c
            <4>2. ~c.hung /\ c.pg_dir = [m.pg_dir EXCEPT ![b] = got.frame]
                BY <3>3, <4>1 DEF MemState
            <4>3. m.pg_dir \in [Tables -> Frames \cup {NoTable, BootTable}]
                BY <3>3 DEF MemState
            <4>4. \A a \in Tables : c.pg_dir[a] = IF a = b THEN got.frame ELSE m.pg_dir[a]
                BY <1>1, <4>2, <4>3
            <4>5. got.frame # NoTable
                BY <3>3, Numbers
            <4> QED
                BY <1>1, <4>2, <4>4, <4>5 DEF LoopsEnd
        <3> QED
            BY <3>2, <3>3, GetFinds DEF got
    <2> QED
        BY <2>1, <2>2
<1> HIDE DEF c
<1>4. d.mem_map = c.mem_map /\ d.pg_dir = c.pg_dir /\ d.hung = (c.hung \/ c.pg_dir[b] = NoTable)
    BY <1>1 DEF MemState
<1>5. FreeFrames(d) = FreeFrames(c)
    BY <1>4 DEF FreeFrames
<1>6. LoopsEnd(d)
    BY <1>3, <1>4, <1>5 DEF LoopsEnd
<1> QED
    BY <1>2, <1>6

\* do_no_page makes the page present unless memory is full.
LEMMA MapPageEnds ==
    ASSUME AllMapped, NEW n \in Nat, NEW m, Sound(m, n), LoopsEnd(m), NEW v \in Pages
    PROVE  LET c == MapPage(m, v) IN
           LoopsEnd(c) /\ (c.entry[v].present \/ FreeFrames(c) = {})
<1> DEFINE got == GetFreePage(m)
           c == MapPage(m, v)
<1>1. m \in MemState
    BY DEF Sound
<1>2. CASE m.hung
    <2>1. c = m
        BY <1>2 DEF MapPage
    <2> QED
        BY <1>2, <2>1 DEF LoopsEnd
<1>3. CASE ~m.hung /\ v < PAGING_PAGES
    <2>1. c = [m EXCEPT !.entry[v] = Entry(v, TRUE)]
        BY <1>3 DEF MapPage
    <2> HIDE DEF c
    <2>2. ~c.hung /\ c.pg_dir = m.pg_dir /\ c.entry[v].present
        BY <1>1, <1>3, <2>1 DEF MemState, Entry
    <2> QED
        BY <2>2, LoopsEndSame DEF c
<1>4. CASE ~m.hung /\ ~(v < PAGING_PAGES)
    <2>1. c = SetPage(got, v)
        BY <1>4 DEF MapPage
    <2> HIDE DEF got
    <2>2. CASE FreeFrames(m) = {} /\ Failed(got) /\ got.mem = m
        <3>1. c = m
            BY <2>1, <2>2 DEF SetPage
        <3> QED
            BY <2>2, <3>1
    <2>3. CASE /\ ~Failed(got) /\ ~got.mem.hung /\ got.mem \in MemState
               /\ got.frame \in Frames /\ got.mem.pg_dir = m.pg_dir
        <3>1. c = [got.mem EXCEPT !.entry[v] = Entry(got.frame, TRUE)]
            BY <2>1, <2>3 DEF SetPage
        <3> HIDE DEF c
        <3>2. ~c.hung /\ c.pg_dir = m.pg_dir /\ c.entry[v].present
            BY <2>3, <3>1 DEF MemState, Entry
        <3> QED
            BY <3>2, LoopsEndSame DEF c
    <2> QED
        BY <2>2, <2>3, GetFinds DEF got
<1> QED
    BY <1>2, <1>3, <1>4

LEMMA DoNoPageEnds ==
    ASSUME AllMapped, NEW n \in Nat, NEW m, Sound(m, n), LoopsEnd(m), NEW v \in Pages
    PROVE  LET c == DoNoPage(m, v) IN
           LoopsEnd(c) /\ (c.entry[v].present \/ FreeFrames(c) = {})
<1>1. Sound(WithTable(m, v), n) /\ LoopsEnd(WithTable(m, v))
    BY WithTableSound, WithTableEnds
<1> QED
    BY <1>1, MapPageEnds DEF DoNoPage

LEMMA DoWpEnds ==
    ASSUME AllMapped, NEW n \in Nat, NEW m, Sound(m, n), LoopsEnd(m), ~m.hung,
           NEW v \in UserPages
    PROVE  LoopsEnd(DoWpPage(m, v))
<1> DEFINE got == GetFreePage(m)
           c == DoWpPage(m, v)
           old == got.mem.entry[v].frame
<1>1. m \in MemState
    BY DEF Sound
<1>2. CASE m.mem_map[m.entry[v].frame] = 1
    <2>1. c = [m EXCEPT !.entry[v].write = TRUE]
        BY <1>2 DEF DoWpPage
    <2> HIDE DEF c
    <2>2. c.hung = m.hung /\ c.pg_dir = m.pg_dir
        BY <1>1, <2>1 DEF MemState
    <2> QED
        BY <2>2, LoopsEndSame DEF c
<1>3. CASE m.mem_map[m.entry[v].frame] # 1
    <2>1. c = Copy(got, v)
        BY <1>3 DEF DoWpPage
    <2> HIDE DEF got
    <2>2. CASE FreeFrames(m) = {} /\ Failed(got) /\ got.mem = m
        <3>1. c = m
            BY <2>1, <2>2 DEF Copy
        <3> QED
            BY <3>1
    <2>3. CASE /\ ~Failed(got) /\ ~got.mem.hung /\ got.mem \in MemState
               /\ got.frame \in Frames /\ got.mem.pg_dir = m.pg_dir
        <3>1. c = [got.mem EXCEPT !.mem_map[old] = Dropped(@),
                                  !.data[got.frame] = got.mem.data[old],
                                  !.entry[v] = Entry(got.frame, TRUE)]
            BY <2>1, <2>3 DEF Copy
        <3> HIDE DEF c, old
        <3>2. ~c.hung /\ c.pg_dir = m.pg_dir
            BY <2>3, <3>1 DEF MemState
        <3> QED
            BY <3>2, LoopsEndSame DEF c
    <2> QED
        BY <2>2, <2>3, GetFinds DEF got
<1> QED
    BY <1>2, <1>3

LEMMA WithPageEnds ==
    ASSUME AllMapped, NEW n \in Nat, NEW m, Sound(m, n), LoopsEnd(m), NEW v \in Pages
    PROVE  LoopsEnd(WithPage(m, v))
<1> DEFINE c == DoNoPage(m, v)
           d == [c EXCEPT !.hung = @ \/ ~c.entry[v].present]
<1>1. CASE m.entry[v].present
    BY <1>1 DEF WithPage
<1>2. CASE ~m.entry[v].present
    <2>1. Sound(c, n) /\ c \in MemState
        BY DoNoPageSound DEF Sound
    <2>2. LoopsEnd(c) /\ (c.entry[v].present \/ FreeFrames(c) = {})
        BY DoNoPageEnds
    <2>3. WithPage(m, v) = d
        BY <1>2 DEF WithPage, LoopUnlessPage
    <2> HIDE DEF c
    <2>4. d.mem_map = c.mem_map /\ d.pg_dir = c.pg_dir /\ d.hung = (c.hung \/ ~c.entry[v].present)
        BY <2>1 DEF MemState
    <2>5. FreeFrames(d) = FreeFrames(c)
        BY <2>4 DEF FreeFrames
    <2>6. LoopsEnd(d)
        BY <2>2, <2>4, <2>5 DEF LoopsEnd
    <2> QED
        BY <2>3, <2>6
<1> QED
    BY <1>1, <1>2

LEMMA SharePageEnds ==
    ASSUME AllMapped, NEW n \in Nat, NEW m, Sound(m, n), LoopsEnd(m),
           NEW from \in KernelFrames \cup UserPages, NEW to \in UserPages
    PROVE  LoopsEnd(SharePage(m, from, to))
<1> DEFINE d == WithTable(WithPage(m, from), to)
           f == d.entry[from].frame
           c == MapBoth(d, from, to)
<1>1. from \in Pages /\ to \in Pages
    BY Numbers DEF Pages
<1>2. Sound(WithPage(m, from), n) /\ LoopsEnd(WithPage(m, from))
    BY <1>1, WithPageSound, WithPageEnds
<1>3. Sound(d, n) /\ LoopsEnd(d) /\ d \in MemState
    BY <1>1, <1>2, WithTableSound, WithTableEnds DEF Sound
<1>4. SharePage(m, from, to) = c
    BY DEF SharePage
<1> HIDE DEF d
<1>5. CASE d.hung
    <2>1. c = d
        BY <1>5 DEF MapBoth
    <2> QED
        BY <1>3, <1>4, <2>1
<1>6. CASE ~d.hung
    <2> DEFINE r == IF from >= PAGING_PAGES THEN Entry(f, FALSE) ELSE d.entry[from]
    <2>1. c = [d EXCEPT !.mem_map[f] = (@ + 1) % CountLimit,
                        !.entry[to] = Entry(f, FALSE), !.entry[from] = r]
        BY <1>6 DEF MapBoth
    <2> HIDE DEF c, f, r
    <2>2. c.hung = d.hung /\ c.pg_dir = d.pg_dir
        BY <1>3, <2>1 DEF MemState
    <2>3. LoopsEnd(c)
        BY <1>3, <1>6, <2>2, LoopsEndSame
    <2> QED
        BY <1>4, <2>3
<1> QED
    BY <1>5, <1>6

LEMMA LoopsEndNext ==
    ASSUME BuffersAboveKernel, AllMapped, MemoryInv, LoopsEnd(mem), [Next]_vars
    PROVE  LoopsEnd(mem')
<1>1. Sound(mem, CountLimit - 2) /\ CountLimit - 2 \in Nat /\ mem \in MemState
    BY CountsFacts DEF MemoryInv
<1>2. CASE ShareAtBoot
    <2>1. mem' = SharePage(mem, Head(boot)[1], Head(boot)[2]) /\ boot # <<>>
        BY <1>2 DEF ShareAtBoot
    <2>2. boot \in Seq(KernelFrames \X UserPages)
        BY DEF MemoryInv
    <2>3. Head(boot) \in KernelFrames \X UserPages
        BY <2>1, <2>2
    <2>4. Head(boot)[1] \in KernelFrames \cup UserPages /\ Head(boot)[2] \in UserPages
        BY <2>3
    <2> QED
        BY <1>1, <2>1, <2>4, SharePageEnds
<1>3. ASSUME NEW v \in UserPages, NotPresentFault(v) PROVE LoopsEnd(mem')
    <2>1. mem' = DoNoPage(mem, v) /\ v \in Pages
        BY <1>3, Numbers DEF NotPresentFault
    <2> QED
        BY <1>1, <2>1, DoNoPageEnds
<1>4. ASSUME NEW v \in UserPages, WriteFault(v) PROVE LoopsEnd(mem')
    <2>1. mem' = DoWpPage(mem, v) /\ ~mem.hung
        BY <1>4 DEF WriteFault, Running
    <2> QED
        BY <1>1, <2>1, DoWpEnds
<1>5. ASSUME NEW v \in UserPages \cup KernelFrames, NEW x \in Versions, Write(v, x)
      PROVE  LoopsEnd(mem')
    <2>1. mem' = [mem EXCEPT !.data[mem.entry[v].frame] = <<v, x>>] /\ ~mem.hung
        BY <1>5 DEF Write, Running
    <2>2. mem'.hung = mem.hung /\ mem'.pg_dir = mem.pg_dir
        BY <1>1, <2>1 DEF MemState
    <2> QED
        BY <2>1, <2>2, LoopsEndSame
<1>6. ASSUME NEW sent \in Pointers, NEW received \in Pointers, BigMessage(sent, received)
      PROVE  LoopsEnd(mem')
    <2>1. PICK from \in UserPages, to \in UserPages : mem' = SharePage(mem, from, to)
        BY <1>6, Buffered
    <2> QED
        BY <1>1, <2>1, SharePageEnds
<1>7. CASE UNCHANGED vars
    <2>1. mem' = mem
        BY <1>7 DEF vars
    <2> QED
        BY <2>1
<1>8. CASE Next
    BY <1>2, <1>3, <1>4, <1>5, <1>6, <1>7, <1>8 DEF Next, Read, Spin
<1> QED
    BY <1>7, <1>8

\* On a machine whose RAM setup32.asm maps as a whole, the loops around
\* create_page_table and do_no_page go on for ever only when no frame is left: the
\* allocator never needs a table for the frame that it clears.
THEOREM LoopsEndUnlessFull ==
    ASSUME BuffersAboveKernel, AllMapped
    PROVE  Spec /\ []CountsLeft => []HangsOnlyWhenFull
<1>1. Init => LoopsEnd(mem)
    <2> SUFFICES ASSUME Init PROVE LoopsEnd(mem)
        OBVIOUS
    <2>1. ~mem.hung
        BY DEF Init
    <2>2. ASSUME NEW b \in Tables, b < BootTables PROVE mem.pg_dir[b] # NoTable
        <3>1. mem.pg_dir[b] = BootTable
            BY <2>2 DEF Init
        <3> QED
            BY <3>1, Numbers
    <2> QED
        BY <2>1, <2>2 DEF LoopsEnd
<1>2. MemoryInv /\ LoopsEnd(mem) /\ [Next]_vars => LoopsEnd(mem)'
    BY LoopsEndNext
<1>3. LoopsEnd(mem) => HangsOnlyWhenFull
    BY DEF LoopsEnd, HangsOnlyWhenFull, FreeFrames, Full
<1> QED
    BY <1>1, <1>2, <1>3, MemoryInvariant, PTL DEF Spec

-----------------------------------------------------------------------------
(* Memory management implements PrivatePages: faults, allocations, shared    *)
(* pages and copies move contents among frames, and the processes see none   *)
(* of it, for any number of frames, tables, pages and contents.              *)

\* What the user of a page sees, and the kernel's page that it shows.
View(m, v) == IF m.entry[v].present THEN m.data[m.entry[v].frame] ELSE Zero
Mirror(m, v) ==
    IF m.entry[v].present /\ m.entry[v].frame \in KernelFrames
    THEN m.entry[v].frame ELSE NoTable

SameView(m, c) ==
    /\ \A v \in UserPages \cup KernelFrames : View(c, v) = View(m, v)
    /\ \A v \in UserPages : Mirror(c, v) = Mirror(m, v)

LEMMA SameViewTrans ==
    ASSUME NEW m, NEW c, NEW d, SameView(m, c), SameView(c, d)
    PROVE  SameView(m, d)
<1>1. /\ \A v \in UserPages \cup KernelFrames : View(c, v) = View(m, v) /\ View(d, v) = View(c, v)
      /\ \A v \in UserPages : Mirror(c, v) = Mirror(m, v) /\ Mirror(d, v) = Mirror(c, v)
    BY DEF SameView
<1> QED
    BY <1>1 DEF SameView

LEMMA SameViewSelf ==
    ASSUME NEW m
    PROVE  SameView(m, m)
BY DEF SameView

\* A frame that some page shows is counted.
LEMMA SeenIsCounted ==
    ASSUME NEW n \in Nat, NEW m, Sound(m, n), NEW v \in UserPages \cup KernelFrames,
           m.entry[v].present
    PROVE  m.entry[v].frame \in Frames /\ m.mem_map[m.entry[v].frame] # 0
<1> DEFINE f == m.entry[v].frame
<1>1. m \in MemState /\ v \in Pages
    BY Numbers DEF Sound, Pages
<1>2. f \in Frames
    BY <1>1 DEF MemState
<1>3. m.mem_map[f] \in Nat /\ m.mem_map[f] >= Uses(m, f)
    BY <1>1, <1>2 DEF Sound, Covered, MemState
<1>4. CASE v \in UserPages
    <2>1. v \in UsersOf(m, f)
        BY <1>4 DEF UsersOf
    <2>2. Cardinality(UsersOf(m, f)) # 0
        BY <2>1, UsesFacts, FS_EmptySet
    <2>3. Uses(m, f) # 0
        BY <2>2, UsesFacts DEF Uses
    <2> QED
        BY <1>2, <1>3, <2>3, UsesFacts
<1>5. CASE v \in KernelFrames
    <2>1. f = v
        BY <1>5, Numbers DEF Sound, Identity
    <2>2. Uses(m, f) # 0
        BY <1>5, <2>1, UsesFacts DEF Uses, Kernels
    <2> QED
        BY <1>2, <1>3, <2>2, UsesFacts
<1> QED
    BY <1>4, <1>5

\* Nothing is seen of a memory whose present pages and counted frames are kept.
LEMMA KeepsView ==
    ASSUME NEW n \in Nat, NEW m, Sound(m, n), NEW c, Keeps(m, c),
           \A g \in Frames : m.mem_map[g] # 0 => c.data[g] = m.data[g]
    PROVE  SameView(m, c)
<1>1. \A v \in UserPages : c.entry[v] = m.entry[v]
    BY DEF Keeps
<1>2. \A v \in KernelFrames : c.entry[v] = m.entry[v] /\ m.entry[v].present
    <2>1. \A v \in KernelFrames : m.entry[v].present /\ v \in Pages
        BY Numbers DEF Sound, Identity
    <2> QED
        BY <2>1 DEF Keeps
<1>3. ASSUME NEW v \in UserPages \cup KernelFrames PROVE View(c, v) = View(m, v)
    <2>1. c.entry[v] = m.entry[v]
        BY <1>1, <1>2
    <2>2. CASE m.entry[v].present
        <3>1. c.data[m.entry[v].frame] = m.data[m.entry[v].frame]
            BY <2>2, SeenIsCounted
        <3> QED
            BY <2>1, <2>2, <3>1 DEF View
    <2>3. CASE ~m.entry[v].present
        BY <2>1, <2>3 DEF View
    <2> QED
        BY <2>2, <2>3
<1> QED
    BY <1>1, <1>3 DEF SameView, Mirror

-----------------------------------------------------------------------------
(* Allocation                                                               *)

LEMMA HangView ==
    ASSUME NEW m \in MemState, NEW h
    PROVE  SameView(m, [m EXCEPT !.hung = h])
<1> DEFINE c == [m EXCEPT !.hung = h]
<1>1. c.entry = m.entry /\ c.data = m.data
    BY DEF MemState
<1> HIDE DEF c
<1>2. SameView(m, c)
    BY <1>1 DEF SameView, View, Mirror
<1> QED
    BY <1>2 DEF c

LEMMA DirView ==
    ASSUME NEW m \in MemState, NEW b, NEW g
    PROVE  SameView(m, [m EXCEPT !.pg_dir[b] = g])
<1> DEFINE c == [m EXCEPT !.pg_dir[b] = g]
<1>1. c.entry = m.entry /\ c.data = m.data
    BY DEF MemState
<1> HIDE DEF c
<1>2. SameView(m, c)
    BY <1>1 DEF SameView, View, Mirror
<1> QED
    BY <1>2 DEF c

LEMMA ClaimView ==
    ASSUME NEW n \in Nat, NEW m, Sound(m, n), NEW f \in Frames, m.mem_map[f] = 0
    PROVE  LET c == Claim(m, f) IN
           SameView(m, c) /\ (~c.hung => c.data[f] = Zero)
<1>1. m \in MemState
    BY DEF Sound
<1>2. CASE m.pg_dir[TableOf(f)] = NoTable
    <2>1. Claim(m, f) = [m EXCEPT !.hung = TRUE]
        BY <1>2 DEF Claim
    <2>2. Claim(m, f).hung
        BY <1>1, <2>1 DEF MemState
    <2> QED
        BY <1>1, <2>1, <2>2, HangView
<1>3. CASE m.pg_dir[TableOf(f)] # NoTable
    <2> DEFINE c == Claim(m, f)
               e == IF m.entry[f].present THEN m.entry[f] ELSE Entry(f, TRUE)
    <2>1. c = [m EXCEPT !.mem_map[f] = 1, !.data[f] = Zero, !.entry[f] = e]
        BY <1>3 DEF Claim
    <2>2. Keeps(m, c)
        BY ClaimSound
    <2> HIDE DEF c, e
    <2>3. c.data = [m.data EXCEPT ![f] = Zero]
        BY <1>1, <2>1 DEF MemState
    <2>4. c.data[f] = Zero /\ \A g \in Frames : g # f => c.data[g] = m.data[g]
        BY <1>1, <2>3 DEF MemState
    <2>5. SameView(m, c)
        BY <2>2, <2>4, KeepsView
    <2> QED
        BY <2>4, <2>5 DEF c
<1> QED
    BY <1>2, <1>3

\* Nothing is seen of an allocation, and the frame that it gives is clear.
GotUnseen(m, got) ==
    /\ SameView(m, got.mem)
    /\ ~Failed(got) => got.mem.data[got.frame] = Zero

LEMMA TakeView ==
    ASSUME NEW n \in Nat, NEW m, NEW c, Sound(c, n), SameView(m, c),
           NEW f \in Frames, c.mem_map[f] = 0
    PROVE  GotUnseen(m, TakeFrame(c, f))
<1> DEFINE d == Claim(c, f)
<1>1. TakeFrame(c, f).mem = d /\ TakeFrame(c, f).frame = f
    BY DEF TakeFrame
<1>2. SameView(c, d) /\ (~d.hung => d.data[f] = Zero)
    BY ClaimView
<1> HIDE DEF d
<1>3. SameView(m, d)
    BY <1>2, SameViewTrans
<1> QED
    BY <1>1, <1>2, <1>3 DEF GotUnseen, Failed

LEMMA NoneView ==
    ASSUME NEW m, NEW c, SameView(m, c)
    PROVE  GotUnseen(m, None(c))
<1>1. None(c).mem = c /\ None(c).frame = 0
    BY DEF None
<1> QED
    BY <1>1 DEF GotUnseen, Failed

LEMMA GetView ==
    ASSUME NEW n \in Nat, NEW m, Sound(m, n)
    PROVE  GotUnseen(m, GetFreePage(m))
<1> DEFINE f == Least(FreeFrames(m))
           others == FreeFrames(m) \ {f}
           g == Least(others)
<1>1. /\ FreeFrames(m) \in SUBSET Nat /\ others \in SUBSET Nat
      /\ \A h \in FreeFrames(m) : h \in Frames /\ m.mem_map[h] = 0
    BY Numbers DEF FreeFrames
<1>2. FreeFrames(m) # {} => f \in FreeFrames(m)
    BY <1>1, LeastFacts
<1>3. others # {} => g \in FreeFrames(m) /\ g # f
    BY <1>1, LeastFacts
<1>4. GetFreePage(m) = IF FreeFrames(m) = {} THEN None(m)
                       ELSE IF ~LacksAhead(m, f) THEN TakeFrame(m, f)
                       ELSE IF others = {} THEN None(m)
                       ELSE TakeWithTable(m, f, g)
    BY DEF GetFreePage
<1> HIDE DEF f, others, g
<1>5. GotUnseen(m, None(m))
    BY NoneView, SameViewSelf
<1>6. CASE FreeFrames(m) # {} /\ ~LacksAhead(m, f)
    <2>1. GotUnseen(m, TakeFrame(m, f))
        BY <1>1, <1>2, <1>6, SameViewSelf, TakeView
    <2> QED
        BY <1>4, <1>6, <2>1
<1>7. CASE FreeFrames(m) # {} /\ LacksAhead(m, f) /\ others # {}
    <2> DEFINE c == Claim(m, g)
               b == TableOf(f + 2)
               d == [c EXCEPT !.pg_dir[b] = g]
    <2>1. /\ f \in Frames /\ g \in Frames /\ f # g
          /\ m.mem_map[f] = 0 /\ m.mem_map[g] = 0
        BY <1>1, <1>2, <1>3, <1>7
    <2>2. TakeWithTable(m, f, g) = IF c.hung THEN None(c) ELSE TakeFrame(d, f)
        BY DEF TakeWithTable
    <2>3. /\ Sound(c, n) /\ SameView(m, c) /\ c \in MemState
          /\ ~c.hung => Fresh(c, g) /\ c.mem_map = [m.mem_map EXCEPT ![g] = 1]
        BY <2>1, ClaimSound, ClaimView DEF Sound
    <2>4. m \in MemState
        BY DEF Sound
    <2> HIDE DEF c, b
    <2>5. CASE c.hung
        <3>1. GotUnseen(m, None(c))
            BY <2>3, NoneView
        <3> QED
            BY <1>4, <1>7, <2>2, <2>5, <3>1
    <2>6. CASE ~c.hung
        <3>1. Fresh(c, g) /\ c.mem_map[f] = 0
            BY <2>1, <2>3, <2>4, <2>6 DEF MemState
        <3>2. Sound(d, n) /\ SameView(c, d) /\ d.mem_map = c.mem_map
            <4>1. Sound(c, n) /\ Fresh(c, g)
                BY <2>3, <3>1
            <4> HIDE DEF d
            <4>3. Sound(d, n) /\ Keeps(c, d) /\ d.mem_map = c.mem_map
                BY <4>1, DirSound DEF d
            <4>2. SameView(c, d)
                BY <2>3, DirView DEF d
            <4> QED
                BY <4>3, <4>2
        <3> HIDE DEF d
        <3>3. SameView(m, d)
            BY <2>3, <3>2, SameViewTrans
        <3>4. GotUnseen(m, TakeFrame(d, f))
            BY <2>1, <3>1, <3>2, <3>3, TakeView
        <3> QED
            BY <1>4, <1>7, <2>2, <2>6, <3>4
    <2> QED
        BY <2>5, <2>6
<1> QED
    BY <1>4, <1>5, <1>6, <1>7

LEMMA CreateView ==
    ASSUME NEW n \in Nat, NEW m, Sound(m, n), NEW v
    PROVE  SameView(m, CreatePageTable(m, v))
<1> DEFINE got == GetFreePage(m)
           c == [got.mem EXCEPT !.pg_dir[TableOf(v)] = got.frame]
<1>1. SameView(m, got.mem) /\ got.mem \in MemState
    BY GetView, GetSound DEF GotUnseen, GotSound, Sound
<1>2. \/ CreatePageTable(m, v) = m \/ CreatePageTable(m, v) = got.mem
      \/ CreatePageTable(m, v) = c
    BY DEF CreatePageTable, SetTable
<1> HIDE DEF got
<1>3. SameView(got.mem, c)
    BY <1>1, DirView
<1> HIDE DEF c
<1>4. SameView(m, c)
    BY <1>1, <1>3, SameViewTrans
<1> QED
    BY <1>1, <1>2, <1>4, SameViewSelf

LEMMA WithTableView ==
    ASSUME NEW n \in Nat, NEW m, Sound(m, n), NEW v
    PROVE  SameView(m, WithTable(m, v))
<1> DEFINE c == CreatePageTable(m, v)
           h == c.hung \/ c.pg_dir[TableOf(v)] = NoTable
           d == [c EXCEPT !.hung = h]
<1>1. SameView(m, c) /\ c \in MemState
    BY CreateView, CreateSound DEF Sound
<1>2. WithTable(m, v) = d
    BY DEF WithTable, LoopUnlessTable
<1> HIDE DEF c, h
<1>3. SameView(c, d)
    BY <1>1, HangView
<1> HIDE DEF d
<1> QED
    BY <1>1, <1>2, <1>3, SameViewTrans

-----------------------------------------------------------------------------
(* The fault handlers                                                       *)

\* The frames of the other pages are not written to.
Untouched(m, c, v) ==
    \A u \in UserPages \cup KernelFrames :
       u # v /\ m.entry[u].present => c.data[m.entry[u].frame] = m.data[m.entry[u].frame]

LEMMA SameDataUntouched ==
    ASSUME NEW m, NEW c, NEW v, c.data = m.data
    PROVE  Untouched(m, c, v)
BY DEF Untouched

\* Whoever looks at another page sees what was there.
OthersSame(m, c, v) ==
    /\ \A u \in UserPages \cup KernelFrames : u # v => View(c, u) = View(m, u)
    /\ \A u \in UserPages : u # v => Mirror(c, u) = Mirror(m, u)

\* One page of a process is put at another frame.
LEMMA EntryView ==
    ASSUME NEW m \in MemState, NEW c \in MemState, NEW v \in UserPages, NEW e,
           c.entry = [m.entry EXCEPT ![v] = e], Untouched(m, c, v)
    PROVE  OthersSame(m, c, v) /\ c.entry[v] = e
<1>1. /\ \A u \in Pages : u # v => c.entry[u] = m.entry[u]
      /\ c.entry[v] = e
    BY Numbers DEF MemState
<1>2. UserPages \cup KernelFrames \subseteq Pages
    BY Numbers DEF Pages
<1>3. \A u \in UserPages \cup KernelFrames : u # v => c.entry[u] = m.entry[u]
    BY <1>1, <1>2
<1>4. ASSUME NEW u \in UserPages \cup KernelFrames, u # v PROVE View(c, u) = View(m, u)
    <2>1. c.entry[u] = m.entry[u]
        BY <1>3, <1>4
    <2>2. m.entry[u].present => c.data[m.entry[u].frame] = m.data[m.entry[u].frame]
        BY <1>4 DEF Untouched
    <2> QED
        BY <2>1, <2>2 DEF View
<1>5. \A u \in UserPages : u # v => Mirror(c, u) = Mirror(m, u)
    BY <1>3 DEF Mirror
<1> QED
    BY <1>1, <1>4, <1>5 DEF OthersSame

\* A page that is not present shows nothing, and still does on a clear frame.
LEMMA SetPageView ==
    ASSUME NEW n \in Nat, NEW m, Sound(m, n), NEW v \in UserPages, ~m.entry[v].present
    PROVE  SameView(m, SetPage(GetFreePage(m), v))
<1> DEFINE got == GetFreePage(m)
           d == got.mem
           c == [d EXCEPT !.entry[v] = Entry(got.frame, TRUE)]
<1>1. GotSound(m, got, n) /\ GotUnseen(m, got)
    BY GetSound, GetView
<1>2. SetPage(got, v) = IF Failed(got) THEN d ELSE c
    BY DEF SetPage
<1> HIDE DEF got
<1>3. SameView(m, d) /\ Keeps(m, d) /\ d \in MemState
    BY <1>1 DEF GotSound, GotUnseen, Sound
<1>4. CASE Failed(got)
    BY <1>2, <1>3, <1>4 DEF got
<1>5. CASE ~Failed(got)
    <2> DEFINE f == got.frame
               e == Entry(f, TRUE)
    <2>1. f \in Frames /\ Fresh(d, f) /\ d.data[f] = Zero
        BY <1>1, <1>5 DEF GotSound, GotUnseen
    <2>2. e \in [present : BOOLEAN, write : BOOLEAN, frame : Frames] /\ e.present /\ e.frame = f
        BY <2>1 DEF Entry
    <2> HIDE DEF d, e
    <2>3. v \in Pages /\ d.entry[v] = m.entry[v]
        BY <1>3, Numbers DEF Keeps
    <2>4. c \in MemState /\ c.entry = [d.entry EXCEPT ![v] = e] /\ c.data = d.data
        BY <1>3, <2>2, <2>3 DEF MemState, e
    <2> HIDE DEF c
    <2>5. OthersSame(d, c, v) /\ c.entry[v] = e
        BY <1>3, <2>4, SameDataUntouched, EntryView
    <2>6. View(c, v) = Zero /\ View(d, v) = Zero
        BY <2>1, <2>2, <2>3, <2>4, <2>5 DEF View
    <2>7. f \notin KernelFrames
        BY <2>1, Numbers, MemoryAssumption DEF Fresh
    <2>8. Mirror(c, v) = NoTable /\ Mirror(d, v) = NoTable
        BY <2>2, <2>3, <2>5, <2>7 DEF Mirror
    <2>9. SameView(d, c)
        BY <2>5, <2>6, <2>8 DEF SameView, OthersSame
    <2>10. SameView(m, c)
        BY <1>3, <2>9, SameViewTrans
    <2> QED
        BY <1>2, <1>5, <2>10 DEF c, e, d, got
<1> QED
    BY <1>4, <1>5

LEMMA MapPageView ==
    ASSUME NEW n \in Nat, NEW m, Sound(m, n), NEW v \in Pages, ~m.entry[v].present
    PROVE  SameView(m, MapPage(m, v))
<1>1. CASE m.hung
    BY <1>1, SameViewSelf DEF MapPage
<1>2. CASE ~m.hung /\ v \notin Frames
    <2>1. MapPage(m, v) = SetPage(GetFreePage(m), v) /\ v \in UserPages
        BY <1>2, Numbers DEF MapPage, Pages
    <2> QED
        BY <2>1, SetPageView
<1>3. CASE ~m.hung /\ v \in Frames
    <2> DEFINE c == [m EXCEPT !.entry[v] = Entry(v, TRUE)]
    <2>1. m \in MemState
        BY DEF Sound
    <2>2. MapPage(m, v) = c
        BY <1>3, Numbers DEF MapPage
    <2>3. c.entry = [m.entry EXCEPT ![v] = Entry(v, TRUE)] /\ c.data = m.data
        BY <2>1 DEF MemState
    <2> HIDE DEF c
    <2>4. \A u \in Pages : u # v => c.entry[u] = m.entry[u]
        BY <2>1, <2>3 DEF MemState
    <2>5. \A u \in UserPages \cup KernelFrames : u \in Pages /\ u # v
        BY <1>3, Numbers DEF Sound, Identity, Pages
    <2>6. SameView(m, c)
        BY <2>3, <2>4, <2>5 DEF SameView, View, Mirror
    <2> QED
        BY <2>2, <2>6
<1> QED
    BY <1>1, <1>2, <1>3

\* Tables add pages of the kernel only.
LEMMA StillAbsent ==
    ASSUME NEW n \in Nat, NEW m, Sound(m, n), NEW v \in UserPages, NEW w
    PROVE  WithTable(m, w).entry[v] = m.entry[v]
BY WithTableSound DEF Keeps

LEMMA DoNoPageView ==
    ASSUME NEW n \in Nat, NEW m, Sound(m, n), NEW v \in UserPages, ~m.entry[v].present
    PROVE  SameView(m, DoNoPage(m, v))
<1> DEFINE c == WithTable(m, v)
           d == MapPage(c, v)
<1>1. Sound(c, n) /\ SameView(m, c) /\ ~c.entry[v].present
    BY WithTableSound, WithTableView, StillAbsent
<1>2. DoNoPage(m, v) = d
    BY DEF DoNoPage
<1> HIDE DEF c
<1>3. v \in Pages
    BY Numbers
<1>4. SameView(c, d)
    BY <1>1, <1>3, MapPageView
<1> HIDE DEF d
<1> QED
    BY <1>1, <1>2, <1>4, SameViewTrans

\* The page v gets a content of its own, the same; nobody else notices.
Detached(m, c, v) ==
    /\ \A u \in UserPages \cup KernelFrames : View(c, u) = View(m, u)
    /\ \A u \in UserPages : Mirror(c, u) = IF u = v THEN NoTable ELSE Mirror(m, u)

LEMMA CopyView ==
    ASSUME NEW n \in Nat, NEW m, Sound(m, n), NEW v \in UserPages, m.entry[v].present
    PROVE  LET c == Copy(GetFreePage(m), v) IN SameView(m, c) \/ Detached(m, c, v)
<1> DEFINE got == GetFreePage(m)
           d == got.mem
           f == got.frame
           old == d.entry[v].frame
           c == [d EXCEPT !.mem_map[old] = Dropped(@),
                          !.data[f] = d.data[old],
                          !.entry[v] = Entry(f, TRUE)]
<1>1. GotSound(m, got, n) /\ GotUnseen(m, got)
    BY GetSound, GetView
<1>2. Copy(got, v) = IF Failed(got) THEN d ELSE c
    BY DEF Copy
<1>3. Sound(Copy(got, v), n)
    BY CopySound
<1> HIDE DEF got
<1>4. SameView(m, d) /\ Keeps(m, d) /\ d \in MemState /\ Sound(d, n)
    BY <1>1 DEF GotSound, GotUnseen, Sound
<1>5. CASE Failed(got)
    BY <1>2, <1>4, <1>5 DEF got
<1>6. CASE ~Failed(got)
    <2>1. f \in Frames /\ Fresh(d, f)
        BY <1>1, <1>6 DEF GotSound
    <2>2. c \in MemState
        BY <1>2, <1>3, <1>6 DEF Sound
    <2> DEFINE e == Entry(f, TRUE)
    <2>3. e.present /\ e.frame = f
        BY DEF Entry
    <2> HIDE DEF d, e, f
    <2>4. v \in Pages /\ d.entry[v] = m.entry[v] /\ d.entry[v].present
        BY <1>4, Numbers DEF Keeps
    <2>5. old \in Frames
        BY <1>4, <2>4 DEF MemState
    <2> HIDE DEF old
    <2>6. c.entry = [d.entry EXCEPT ![v] = e] /\ c.data = [d.data EXCEPT ![f] = d.data[old]]
        BY <1>4 DEF MemState, e
    <2> HIDE DEF c
    <2>7. c.data[f] = d.data[old] /\ \A g \in Frames : g # f => c.data[g] = d.data[g]
        BY <1>4, <2>1, <2>6 DEF MemState
    <2>8. ASSUME NEW u \in UserPages \cup KernelFrames, d.entry[u].present
          PROVE  d.entry[u].frame \in Frames /\ d.entry[u].frame # f
        <3>1. d.entry[u].frame \in Frames
            BY <1>4, <2>8, SeenIsCounted
        <3>2. CASE u \in UserPages
            <4>1. u \in UsersOf(d, d.entry[u].frame) /\ UsersOf(d, f) = {}
                BY <2>1, <2>8, <3>2 DEF UsersOf, Fresh
            <4> QED
                BY <3>1, <4>1
        <3>3. CASE u \in KernelFrames
            <4>1. d.entry[u].frame = u
                BY <1>4, <2>8, <3>3, Numbers DEF Sound, Identity
            <4>2. f \notin KernelFrames
                BY <2>1, Numbers, MemoryAssumption DEF Fresh
            <4> QED
                BY <3>1, <3>3, <4>1, <4>2
        <3> QED
            BY <3>2, <3>3
    <2>9. Untouched(d, c, v)
        BY <2>7, <2>8 DEF Untouched
    <2>10. OthersSame(d, c, v) /\ c.entry[v] = e
        <3>1. d \in MemState /\ c \in MemState /\ c.entry = [d.entry EXCEPT ![v] = e]
            BY <1>4, <2>2, <2>6
        <3> QED
            BY <2>9, <3>1, EntryView
    <2>11. View(c, v) = View(d, v)
        BY <2>3, <2>4, <2>7, <2>10 DEF View, old
    <2>12. Mirror(c, v) = NoTable
        <3>1. f \notin KernelFrames
            BY <2>1, Numbers, MemoryAssumption DEF Fresh
        <3> QED
            BY <2>3, <2>10, <3>1 DEF Mirror
    <2>13. Detached(m, c, v)
        BY <1>4, <2>10, <2>11, <2>12 DEF Detached, SameView, OthersSame
    <2> QED
        BY <1>2, <1>6, <2>13 DEF c, e, old, d, f, got
<1> QED
    BY <1>5, <1>6

LEMMA DoWpView ==
    ASSUME NEW n \in Nat, NEW m, Sound(m, n), NEW v \in UserPages, m.entry[v].present
    PROVE  LET c == DoWpPage(m, v) IN SameView(m, c) \/ Detached(m, c, v)
<1>1. CASE m.mem_map[m.entry[v].frame] = 1
    <2> DEFINE c == [m EXCEPT !.entry[v].write = TRUE]
               e == [m.entry[v] EXCEPT !.write = TRUE]
    <2>1. m \in MemState /\ c \in MemState
        BY <1>1, GiveBackSound DEF Sound
    <2>2. DoWpPage(m, v) = c
        BY <1>1 DEF DoWpPage
    <2>3. v \in Pages /\ m.entry[v] \in [present : BOOLEAN, write : BOOLEAN, frame : Frames]
        BY <2>1, Numbers DEF MemState
    <2>4. e.present = m.entry[v].present /\ e.frame = m.entry[v].frame
        BY <2>3
    <2>5. c.entry = [m.entry EXCEPT ![v] = e] /\ c.data = m.data
        BY <2>1 DEF MemState
    <2> HIDE DEF c, e
    <2>6. OthersSame(m, c, v) /\ c.entry[v] = e
        BY <2>1, <2>5, SameDataUntouched, EntryView
    <2>7. View(c, v) = View(m, v) /\ Mirror(c, v) = Mirror(m, v)
        BY <2>4, <2>5, <2>6 DEF View, Mirror
    <2>8. SameView(m, c)
        BY <2>6, <2>7 DEF SameView, OthersSame
    <2> QED
        BY <2>2, <2>8
<1>2. CASE m.mem_map[m.entry[v].frame] # 1
    <2>1. DoWpPage(m, v) = Copy(GetFreePage(m), v)
        BY <1>2 DEF DoWpPage
    <2> QED
        BY <2>1, CopyView
<1> QED
    BY <1>1, <1>2
-----------------------------------------------------------------------------
(* share_page                                                               *)

LEMMA WithPageView ==
    ASSUME NEW n \in Nat, NEW m, Sound(m, n), NEW v \in UserPages \cup KernelFrames
    PROVE  SameView(m, WithPage(m, v))
<1> DEFINE c == DoNoPage(m, v)
           h == c.hung \/ ~c.entry[v].present
           d == [c EXCEPT !.hung = h]
<1>1. CASE m.entry[v].present
    BY <1>1, SameViewSelf DEF WithPage
<1>2. CASE ~m.entry[v].present
    <2>1. v \in UserPages /\ v \in Pages
        BY <1>2, Numbers DEF Sound, Identity
    <2>2. SameView(m, c) /\ c \in MemState
        BY <1>2, <2>1, DoNoPageView, DoNoPageSound DEF Sound
    <2>3. WithPage(m, v) = d
        BY <1>2 DEF WithPage, LoopUnlessPage
    <2> HIDE DEF c, h
    <2>4. SameView(c, d)
        BY <2>2, HangView
    <2> HIDE DEF d
    <2> QED
        BY <2>2, <2>3, <2>4, SameViewTrans
<1> QED
    BY <1>1, <1>2

\* The page `to' shows what `from' does, the kernel's page included.
SharedView(m, c, from, to) ==
    /\ \A u \in UserPages \cup KernelFrames :
          View(c, u) = IF u = to THEN View(m, from) ELSE View(m, u)
    /\ \A u \in UserPages :
          Mirror(c, u) = IF u # to THEN Mirror(m, u)
                         ELSE IF from \in KernelFrames THEN from ELSE Mirror(m, from)

LEMMA MapBothView ==
    ASSUME NEW n \in Nat, NEW m, Sound(m, n), ~m.hung,
           NEW from \in UserPages \cup KernelFrames, NEW to \in UserPages,
           m.entry[from].present
    PROVE  SharedView(m, MapBoth(m, from, to), from, to)
<1> DEFINE f == m.entry[from].frame
           e == Entry(f, FALSE)
           r == IF from >= PAGING_PAGES THEN e ELSE m.entry[from]
           k == (m.mem_map[f] + 1) % CountLimit
           c == [m EXCEPT !.mem_map[f] = k, !.entry[to] = e, !.entry[from] = r]
<1>1. m \in MemState /\ from \in Pages /\ to \in Pages
    BY Numbers DEF Sound, Pages
<1>2. MapBoth(m, from, to) = c
    BY DEF MapBoth
<1>3. /\ e.present /\ e.frame = f
      /\ r.present /\ r.frame = f
    BY DEF Entry
<1>4. from \in KernelFrames => f = from
    BY Numbers DEF Sound, Identity
<1> HIDE DEF e, r, k
<1>5. c.data = m.data /\ c.entry = [[m.entry EXCEPT ![to] = e] EXCEPT ![from] = r]
    BY <1>1 DEF MemState
<1> HIDE DEF c
<1>6. /\ c.entry[to] = e /\ c.entry[from] = r
      /\ \A u \in Pages : u # to /\ u # from => c.entry[u] = m.entry[u]
    BY <1>1, <1>5 DEF MemState
<1>7. c.entry[to].present /\ c.entry[to].frame = f
    BY <1>3, <1>6
<1>8. ASSUME NEW u \in UserPages \cup KernelFrames, u # to
      PROVE  c.entry[u].present = m.entry[u].present /\ c.entry[u].frame = m.entry[u].frame
    <2>1. u \in Pages
        BY Numbers
    <2>2. CASE u = from
        BY <1>3, <1>6, <2>2
    <2>3. CASE u # from
        BY <1>6, <1>8, <2>1, <2>3
    <2> QED
        BY <2>2, <2>3
<1> HIDE DEF f
<1>9. \A u \in UserPages \cup KernelFrames :
         View(c, u) = IF u = to THEN View(m, from) ELSE View(m, u)
    <2>1. View(c, to) = View(m, from)
        BY <1>5, <1>7 DEF View, f
    <2>2. \A u \in UserPages \cup KernelFrames : u # to => View(c, u) = View(m, u)
        BY <1>5, <1>8 DEF View
    <2> QED
        BY <2>1, <2>2
<1>10. \A u \in UserPages : u # to => Mirror(c, u) = Mirror(m, u)
    BY <1>8 DEF Mirror
<1>11. Mirror(c, to) = IF from \in KernelFrames THEN from ELSE Mirror(m, from)
    BY <1>4, <1>7 DEF Mirror, f
<1> QED
    BY <1>2, <1>9, <1>10, <1>11 DEF SharedView

LEMMA ShareView ==
    ASSUME NEW n \in Nat, NEW m, Sound(m, n),
           NEW from \in UserPages \cup KernelFrames, NEW to \in UserPages
    PROVE  LET c == SharePage(m, from, to) IN SameView(m, c) \/ SharedView(m, c, from, to)
<1> DEFINE p == WithPage(m, from)
           d == WithTable(p, to)
           c == MapBoth(d, from, to)
<1>1. from \in Pages
    BY Numbers DEF Pages
<1>2. Sound(p, n) /\ (p.hung \/ p.entry[from].present)
    BY <1>1, WithPageSound
<1>3. SameView(m, p)
    BY WithPageView
<1>4. SharePage(m, from, to) = c
    BY DEF SharePage
<1> HIDE DEF p
<1>5. Sound(d, n) /\ Keeps(p, d) /\ (p.hung => d.hung)
    BY <1>2, WithTableSound
<1>6. SameView(p, d)
    BY <1>2, WithTableView
<1> HIDE DEF d
<1>7. d.hung \/ d.entry[from].present
    BY <1>1, <1>2, <1>5 DEF Keeps
<1>8. SameView(m, d)
    BY <1>3, <1>6, SameViewTrans
<1>9. CASE d.hung
    <2>1. c = d
        BY <1>9 DEF MapBoth
    <2> QED
        BY <1>4, <1>8, <2>1
<1>10. CASE ~d.hung
    <2>1. SharedView(d, c, from, to)
        BY <1>5, <1>7, <1>10, MapBothView
    <2> HIDE DEF c
    <2>2. SharedView(m, c, from, to)
        BY <1>8, <2>1 DEF SharedView, SameView
    <2> QED
        BY <1>4, <2>2
<1> QED
    BY <1>9, <1>10

-----------------------------------------------------------------------------
(* Writing                                                                  *)

\* c is m with the content x in the frame f.
IsWritten(m, c, f, x) == c.entry = m.entry /\ c.data = [m.data EXCEPT ![f] = x]

LEMMA DataFields ==
    ASSUME NEW m \in MemState, NEW f, NEW x, NEW c, c = [m EXCEPT !.data[f] = x]
    PROVE  IsWritten(m, c, f, x)
BY DEF MemState, IsWritten

LEMMA DataView ==
    ASSUME NEW n \in Nat, NEW m, Sound(m, n), NEW f \in Frames, NEW x,
           NEW c, IsWritten(m, c, f, x), NEW u \in UserPages \cup KernelFrames
    PROVE  View(c, u) = IF m.entry[u].present /\ m.entry[u].frame = f THEN x ELSE View(m, u)
<1>1. m \in MemState /\ u \in Pages
    BY Numbers DEF Sound, Pages
<1>2. c.entry = m.entry /\ c.data = [m.data EXCEPT ![f] = x]
    BY DEF IsWritten
<1>3. c.data[f] = x /\ \A g \in Frames : g # f => c.data[g] = m.data[g]
    BY <1>1, <1>2 DEF MemState
<1>4. m.entry[u].frame \in Frames
    BY <1>1 DEF MemState
<1> QED
    BY <1>2, <1>3, <1>4 DEF View

\* What a process writes, it alone sees, in a page that does not show the kernel's.
WrittenView(m, c, v, x) ==
    /\ \A u \in UserPages \cup KernelFrames : View(c, u) = IF u = v THEN x ELSE View(m, u)
    /\ \A u \in UserPages : Mirror(c, u) = IF u = v THEN NoTable ELSE Mirror(m, u)

LEMMA WriteView ==
    ASSUME NEW n \in Nat, NEW m, Sound(m, n), NEW v \in UserPages, m.entry[v].write,
           NEW x, NEW c, IsWritten(m, c, m.entry[v].frame, x)
    PROVE  WrittenView(m, c, v, x)
<1> DEFINE f == m.entry[v].frame
<1>1. /\ m.entry[v].present /\ f \in StartPage .. EndPage - 1
      /\ UsersOf(m, f) = {v}
    BY DEF Sound, WritableOwn, Own
<1>2. f \in Frames /\ f \notin KernelFrames /\ IsWritten(m, c, f, x)
    BY <1>1, Numbers, MemoryAssumption
<1> HIDE DEF f
<1>3. ASSUME NEW u \in UserPages \cup KernelFrames
      PROVE  m.entry[u].present /\ m.entry[u].frame = f <=> u = v
    <2>1. CASE u \in UserPages
        BY <1>1, <2>1 DEF UsersOf, f
    <2>2. CASE u \in KernelFrames
        <3>1. u # v
            BY <2>2, Numbers
        <3>2. m.entry[u].frame = u
            BY <2>2, Numbers DEF Sound, Identity
        <3> QED
            BY <1>2, <2>2, <3>1, <3>2
    <2> QED
        BY <2>1, <2>2
<1>4. \A u \in UserPages \cup KernelFrames : View(c, u) = IF u = v THEN x ELSE View(m, u)
    <2> TAKE u \in UserPages \cup KernelFrames
    <2>1. View(c, u) = IF m.entry[u].present /\ m.entry[u].frame = f THEN x ELSE View(m, u)
        BY <1>2, DataView
    <2> QED
        BY <1>3, <2>1
<1>5. c.entry = m.entry
    BY DEF IsWritten
<1>6. \A u \in UserPages : Mirror(c, u) = IF u = v THEN NoTable ELSE Mirror(m, u)
    <2>1. \A u \in UserPages : Mirror(c, u) = Mirror(m, u)
        BY <1>5 DEF Mirror
    <2>2. Mirror(m, v) = NoTable
        BY <1>2 DEF Mirror, f
    <2> QED
        BY <2>1, <2>2
<1> QED
    BY <1>4, <1>6 DEF WrittenView

\* What the kernel writes to its own page, those see who still show it.
KernelWrittenView(m, c, v, x) ==
    /\ \A u \in UserPages \cup KernelFrames :
          View(c, u) = IF u = v \/ (u \in UserPages /\ Mirror(m, u) = v) THEN x ELSE View(m, u)
    /\ \A u \in UserPages : Mirror(c, u) = Mirror(m, u)

LEMMA KernelWriteView ==
    ASSUME NEW n \in Nat, NEW m, Sound(m, n), NEW v \in KernelFrames,
           NEW x, NEW c, IsWritten(m, c, m.entry[v].frame, x)
    PROVE  KernelWrittenView(m, c, v, x)
<1>1. v \in Frames /\ m.entry[v].frame = v /\ NoTable # v
    BY Numbers DEF Sound, Identity
<1>2. IsWritten(m, c, v, x)
    BY <1>1
<1>3. ASSUME NEW u \in UserPages \cup KernelFrames
      PROVE  m.entry[u].present /\ m.entry[u].frame = v
             <=> u = v \/ (u \in UserPages /\ Mirror(m, u) = v)
    <2>1. CASE u \in UserPages
        <3>1. u # v
            BY <2>1, Numbers
        <3> QED
            BY <1>1, <2>1, <3>1 DEF Mirror
    <2>2. CASE u \in KernelFrames
        <3>1. m.entry[u].present /\ m.entry[u].frame = u /\ u \notin UserPages
            BY <2>2, Numbers DEF Sound, Identity
        <3> QED
            BY <3>1
    <2> QED
        BY <2>1, <2>2
<1>4. \A u \in UserPages \cup KernelFrames :
         View(c, u) = IF u = v \/ (u \in UserPages /\ Mirror(m, u) = v) THEN x ELSE View(m, u)
    <2> TAKE u \in UserPages \cup KernelFrames
    <2>1. View(c, u) = IF m.entry[u].present /\ m.entry[u].frame = v THEN x ELSE View(m, u)
        BY <1>1, <1>2, DataView
    <2> QED
        BY <1>3, <2>1
<1>5. c.entry = m.entry
    BY DEF IsWritten
<1>6. \A u \in UserPages : Mirror(c, u) = Mirror(m, u)
    BY <1>5 DEF Mirror
<1> QED
    BY <1>4, <1>6 DEF KernelWrittenView

-----------------------------------------------------------------------------
(* The refinement                                                           *)

\* What the refinement mapping shows of the state, and of the next one.
LEMMA MappedState ==
    \A v : /\ Content(v) = View(mem, v) /\ Mirrored(v) = Mirror(mem, v)
           /\ Content(v)' = View(mem', v) /\ Mirrored(v)' = Mirror(mem', v)
BY DEF Content, Mirrored, View, Mirror

LEMMA Stutters ==
    ASSUME SameView(mem, mem')
    PROVE  UNCHANGED Private!vars
<1>1. /\ \A v \in UserPages \cup KernelFrames : Content(v)' = Content(v)
      /\ \A v \in UserPages : Mirrored(v)' = Mirrored(v)
    BY MappedState DEF SameView
<1> QED
    BY <1>1 DEF Private!vars

LEMMA Detaches ==
    ASSUME NEW v \in UserPages, Detached(mem, mem', v)
    PROVE  Private!Detach(v)
<1>1. /\ \A u \in UserPages \cup KernelFrames : Content(u)' = Content(u)
      /\ \A u \in UserPages : Mirrored(u)' = IF u = v THEN NoTable ELSE Mirrored(u)
    BY MappedState DEF Detached
<1> QED
    BY <1>1 DEF Private!Detach

LEMMA Shares ==
    ASSUME NEW from \in UserPages \cup KernelFrames, NEW to \in UserPages,
           SharedView(mem, mem', from, to)
    PROVE  Private!Share(from, to)
<1>1. /\ \A u \in UserPages \cup KernelFrames :
            Content(u)' = IF u = to THEN Content(from) ELSE Content(u)
      /\ \A u \in UserPages :
            Mirrored(u)' = IF u # to THEN Mirrored(u)
                           ELSE IF from \in KernelFrames THEN from ELSE Mirrored(from)
    BY MappedState DEF SharedView
<1> QED
    BY <1>1 DEF Private!Share

LEMMA RefinesInit ==
    ASSUME Init
    PROVE  Private!Init
<1>1. \A v \in UserPages : v \in Pages /\ ~(TableOf(v) < BootTables)
    BY BootTablesMap, Numbers
<1>2. \A v \in UserPages : ~mem.entry[v].present
    BY <1>1 DEF Init, Absent
<1>3. \A v \in KernelFrames : mem.entry[v].present => mem.entry[v].frame = v
    BY Numbers DEF Init, Entry, Absent
<1>4. \A f \in Frames : mem.data[f] = Zero
    BY DEF Init
<1>5. KernelFrames \subseteq Frames
    BY Numbers
<1>6. \A v \in UserPages \cup KernelFrames : Content(v) = Zero
    BY <1>2, <1>3, <1>4, <1>5 DEF Content
<1>7. \A v \in UserPages : Mirrored(v) = NoTable
    BY <1>2 DEF Mirrored
<1> QED
    BY <1>6, <1>7 DEF Private!Init

LEMMA RefinesShare ==
    ASSUME NEW n \in Nat, Sound(mem, n), NEW from \in UserPages \cup KernelFrames,
           NEW to \in UserPages, mem' = SharePage(mem, from, to)
    PROVE  [Private!Next]_(Private!vars)
<1>1. CASE SameView(mem, mem')
    BY <1>1, Stutters
<1>2. CASE SharedView(mem, mem', from, to)
    <2>1. Private!Share(from, to)
        BY <1>2, Shares
    <2> QED
        BY <2>1 DEF Private!Next
<1>3. SameView(mem, mem') \/ SharedView(mem, mem', from, to)
    BY ShareView
<1> QED
    BY <1>1, <1>2, <1>3

LEMMA RefinesWrite ==
    ASSUME NEW n \in Nat, Sound(mem, n), NEW v \in UserPages \cup KernelFrames,
           NEW x \in Versions, Write(v, x)
    PROVE  [Private!Next]_(Private!vars)
<1>1. IsWritten(mem, mem', mem.entry[v].frame, <<v, x>>) /\ mem.entry[v].write
    <2>1. mem' = [mem EXCEPT !.data[mem.entry[v].frame] = <<v, x>>] /\ mem.entry[v].write
        BY DEF Write
    <2>2. mem \in MemState
        BY DEF Sound
    <2> QED
        BY <2>1, <2>2, DataFields
<1>2. CASE v \in UserPages
    <2>1. WrittenView(mem, mem', v, <<v, x>>)
        BY <1>1, <1>2, WriteView
    <2>2. /\ \A u \in UserPages \cup KernelFrames :
                Content(u)' = IF u = v THEN <<v, x>> ELSE Content(u)
          /\ \A u \in UserPages : Mirrored(u)' = IF u = v THEN NoTable ELSE Mirrored(u)
        BY <2>1, MappedState DEF WrittenView
    <2>3. Private!Write(v, x)
        BY <1>2, <2>2 DEF Private!Write
    <2> QED
        BY <1>2, <2>3 DEF Private!Next
<1>3. CASE v \in KernelFrames
    <2>1. KernelWrittenView(mem, mem', v, <<v, x>>)
        BY <1>1, <1>3, KernelWriteView
    <2>2. /\ \A u \in UserPages \cup KernelFrames :
                Content(u)' = IF u = v \/ (u \in UserPages /\ Mirrored(u) = v)
                              THEN <<v, x>> ELSE Content(u)
          /\ \A u \in UserPages : Mirrored(u)' = Mirrored(u)
        BY <2>1, MappedState DEF KernelWrittenView
    <2>3. Private!KernelWrite(v, x)
        BY <1>3, <2>2 DEF Private!KernelWrite
    <2> QED
        BY <1>3, <2>3 DEF Private!Next
<1> QED
    BY <1>2, <1>3

LEMMA RefinesNext ==
    ASSUME BuffersAboveKernel, MemoryInv, [Next]_vars
    PROVE  [Private!Next]_(Private!vars)
<1>1. Sound(mem, CountLimit - 2) /\ CountLimit - 2 \in Nat
    BY CountsFacts DEF MemoryInv
<1>2. CASE ShareAtBoot
    <2>1. mem' = SharePage(mem, Head(boot)[1], Head(boot)[2]) /\ boot # <<>>
        BY <1>2 DEF ShareAtBoot
    <2>2. boot \in Seq(KernelFrames \X UserPages)
        BY DEF MemoryInv
    <2>3. Head(boot) \in KernelFrames \X UserPages
        BY <2>1, <2>2
    <2>4. Head(boot)[1] \in UserPages \cup KernelFrames /\ Head(boot)[2] \in UserPages
        BY <2>3
    <2> QED
        BY <1>1, <2>1, <2>4, RefinesShare
<1>3. ASSUME NEW v \in UserPages, NotPresentFault(v) PROVE [Private!Next]_(Private!vars)
    <2>1. mem' = DoNoPage(mem, v) /\ ~mem.entry[v].present
        BY <1>3 DEF NotPresentFault
    <2>2. SameView(mem, mem')
        BY <1>1, <2>1, DoNoPageView
    <2> QED
        BY <2>2, Stutters
<1>4. ASSUME NEW v \in UserPages, WriteFault(v) PROVE [Private!Next]_(Private!vars)
    <2>1. mem' = DoWpPage(mem, v) /\ mem.entry[v].present
        BY <1>4 DEF WriteFault
    <2>2. SameView(mem, mem') \/ Detached(mem, mem', v)
        BY <1>1, <2>1, DoWpView
    <2>3. CASE SameView(mem, mem')
        BY <2>3, Stutters
    <2>4. CASE Detached(mem, mem', v)
        BY <2>4, Detaches DEF Private!Next
    <2> QED
        BY <2>2, <2>3, <2>4
<1>5. ASSUME NEW v \in UserPages \cup KernelFrames, NEW x \in Versions, Write(v, x)
      PROVE  [Private!Next]_(Private!vars)
    BY <1>1, <1>5, RefinesWrite
<1>6. ASSUME NEW sent \in Pointers, NEW received \in Pointers, BigMessage(sent, received)
      PROVE  [Private!Next]_(Private!vars)
    <2>1. PICK from \in UserPages, to \in UserPages : mem' = SharePage(mem, from, to)
        BY <1>6, Buffered
    <2> QED
        BY <1>1, <2>1, RefinesShare
<1>7. CASE UNCHANGED vars
    <2>1. SameView(mem, mem')
        BY <1>7, SameViewSelf DEF vars
    <2> QED
        BY <2>1, Stutters
<1>8. CASE Next
    BY <1>2, <1>3, <1>4, <1>5, <1>6, <1>7, <1>8 DEF Next, Read, Spin
<1> QED
    BY <1>7, <1>8

\* Whatever faults, allocations and shared pages memory.c goes through, each process
\* sees pages of its own, as if every page shared with it had been copied at once.
THEOREM MemoryImplementsPrivatePages ==
    ASSUME BuffersAboveKernel
    PROVE  Spec /\ []CountsLeft => ImplementsPrivatePages
<1>1. Init => Private!Init
    BY RefinesInit
<1>2. MemoryInv /\ [Next]_vars => [Private!Next]_(Private!vars)
    BY RefinesNext
<1> QED
    BY <1>1, <1>2, MemoryInvariant, PTL DEF Spec, Private!Spec, ImplementsPrivatePages
=============================================================================
