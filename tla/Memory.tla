------------------------------- MODULE Memory -------------------------------
(***************************************************************************)
(* Memory management (kernel/memory.c): page frames with reference counts, *)
(* page tables, sharing of pages and copy on write.                        *)
(*                                                                         *)
(* Linear memory is numbered by pages.  The first PAGING_PAGES of them are *)
(* the kernel's and the idle process' and are mapped to the frames of the  *)
(* same number; process i has the pages from i * PAGING_PAGES on           *)
(* (proc.c:81).  A handler runs in the kernel, where no tick switches      *)
(* processes, so it is one step, and what it does to memory is an operator *)
(* from one state of memory to the next, in the order of its calls.        *)
(*                                                                         *)
(* Some loops of the code are left only when an allocation succeeds.       *)
(* Nothing ever gives a frame back, so a loop whose allocation fails runs  *)
(* for ever: the memory is then `hung', and so is the kernel.              *)
(***************************************************************************)
EXTENDS Integers, Sequences, FiniteSets

CONSTANTS PAGING_PAGES,  \* frames with a reference count (16384)
          TablePages,    \* entries of a page table (1024)
          BootTables,    \* tables set up by setup32.asm (8)
          StartPage,     \* MAP_NR(start_mem): the first frame not the kernel's
          EndPage,       \* MAP_NR(end_mem): the end of the RAM
          CountLimit,    \* values of a reference count (256: unsigned char)
          UserPages,     \* the pages that the processes use
          InitialShares, \* pairs of pages that proc_init shares, in its order
          LinearPages,   \* pages that 32 bits can address (2^20)
          Pointers,      \* to buffers of messages: whose, and how many pages from
                         \* the beginning of its segment
          Versions,      \* what the user of a page can write to it
          MaxShares      \* bound: big messages

ASSUME MemoryAssumption ==
    /\ PAGING_PAGES \in Nat /\ TablePages \in Nat \ {0} /\ BootTables \in Nat
    /\ StartPage \in Nat \ {0} /\ EndPage \in StartPage .. PAGING_PAGES
    /\ BootTables * TablePages \in StartPage .. PAGING_PAGES
    /\ CountLimit \in Nat \ {0, 1, 2}
    /\ UserPages \subseteq Nat \ (0 .. PAGING_PAGES - 1) /\ IsFiniteSet(UserPages)
    /\ InitialShares \in Seq((0 .. StartPage - 1) \X UserPages)
    /\ LinearPages \in Nat \ {0} /\ Pointers \subseteq Nat \X Nat
    /\ MaxShares \in Nat

VARIABLES
    mem,    \* memory: reference counts, page directory, entries, contents
    boot,   \* what proc_init still has to share
    shares  \* big messages so far

vars == <<mem, boot, shares>>

Frames == 0 .. PAGING_PAGES - 1
KernelFrames == 0 .. StartPage - 1
Pages == Frames \cup UserPages
TableOf(v) == v \div TablePages
Tables == {TableOf(v) : v \in Pages}

\* The page that do_intr_msg takes for a buffer: the next one to begin, in the segment of
\* the caller. The sum is one of 32 bits, and nothing compares it with the segment.
BufferPage(ptr) == (ptr[1] * PAGING_PAGES + ptr[2] + 1) % LinearPages

ASSUME BufferAssumption == \A ptr \in Pointers : BufferPage(ptr) \in Pages

\* No buffer is among the pages of the kernel. So it is for every struct Msg (message.h)
\* in the caller's segment, as the second of its two pages is in there; the code relies
\* on it.
BuffersAboveKernel == \A ptr \in Pointers : BufferPage(ptr) \in UserPages

\* The content of a page tells which page it was written to: nothing, in a cleared
\* frame, or what its user put there.
Zero == <<>>
Contents == {Zero} \cup (Pages \X Versions)

\* Entries of the page directory other than a frame.
NoTable == -1
BootTable == -2

Absent == [present |-> FALSE, write |-> FALSE, frame |-> 0]
Entry(f, w) == [present |-> TRUE, write |-> w, frame |-> f]

-----------------------------------------------------------------------------
(* get_free_page and create_page_table *)

\* Faulty variant: the last frame of the RAM is not looked at.
FreeFramesShort(m) == {f \in Frames : m.mem_map[f] = 0 /\ f < EndPage - 1}

FreeFrames(m) == {f \in Frames : m.mem_map[f] = 0}

Least(S) == CHOOSE f \in S : \A g \in S : f <= g

\* A frame is cleared through the page of the same number, and only then counted.
\* Without an entry for that page the kernel faults, do_no_page makes one; but
\* without a table it first allocates one, and finds the same frame to be free.
Claim(m, f) ==
    IF m.pg_dir[TableOf(f)] = NoTable
    THEN [m EXCEPT !.hung = TRUE]
    ELSE [m EXCEPT !.mem_map[f] = 1, !.data[f] = Zero,
                   !.entry[f] = IF @.present THEN @ ELSE Entry(f, TRUE)]

\* The table looked for ahead of time, when f is the last frame but two of those
\* that a table maps (memory.c:138).
LacksAhead(m, f) ==
    f % TablePages = TablePages - 3 /\ m.pg_dir[TableOf(f + 2)] = NoTable

\* The frame that get_free_page found, 0 if there is none, and the memory it left.
None(m) == [frame |-> 0, mem |-> m]

TakeFrame(m, f) == [frame |-> f, mem |-> Claim(m, f)]

\* f is kept from the allocation of the table, which may not return.
TakeWithTable(m, f, g) ==
    IF Claim(m, g).hung THEN None(Claim(m, g))
    ELSE TakeFrame([Claim(m, g) EXCEPT !.pg_dir[TableOf(f + 2)] = g], f)

GetFreePage(m) ==
    LET f == Least(FreeFrames(m))
        others == FreeFrames(m) \ {f}
    IN  IF FreeFrames(m) = {} THEN None(m)
        ELSE IF ~LacksAhead(m, f) THEN TakeFrame(m, f)
        ELSE IF others = {} THEN None(m)
        ELSE TakeWithTable(m, f, Least(others))

\* No frame, or no return: the caller changes nothing.
Failed(got) == got.frame = 0 \/ got.mem.hung

\* Faulty variant: the attribute bits (|= 7) stay in the number of the frame.
SetTableFlagged(got, v) ==
    IF Failed(got) THEN got.mem
    ELSE [got.mem EXCEPT !.pg_dir[TableOf(v)] = got.frame + 7]

SetTable(got, v) ==
    IF Failed(got) THEN got.mem
    ELSE [got.mem EXCEPT !.pg_dir[TableOf(v)] = got.frame]

CreatePageTable(m, v) ==
    IF m.hung \/ m.pg_dir[TableOf(v)] # NoTable THEN m ELSE SetTable(GetFreePage(m), v)

\* The loops around create_page_table (memory.c:70, 195).
LoopUnlessTable(m, v) == [m EXCEPT !.hung = @ \/ m.pg_dir[TableOf(v)] = NoTable]
WithTable(m, v) == LoopUnlessTable(CreatePageTable(m, v), v)

-----------------------------------------------------------------------------
(* The fault handlers and share_page *)

SetPage(got, v) ==
    IF Failed(got) THEN got.mem
    ELSE [got.mem EXCEPT !.entry[v] = Entry(got.frame, TRUE)]

\* The kernel's pages are the frames of the same number.
MapPage(m, v) ==
    IF m.hung THEN m
    ELSE IF v < PAGING_PAGES THEN [m EXCEPT !.entry[v] = Entry(v, TRUE)]
    ELSE SetPage(GetFreePage(m), v)

DoNoPage(m, v) == MapPage(WithTable(m, v), v)

Dropped(c) == (c + CountLimit - 1) % CountLimit

\* Faulty variant: the page is not copied (memory.c:107).
CopyUncopied(got, v) ==
    LET old == got.mem.entry[v].frame
    IN  IF Failed(got) THEN got.mem
        ELSE [got.mem EXCEPT !.mem_map[old] = Dropped(@), !.entry[v] = Entry(got.frame, TRUE)]

\* The frame found becomes a copy of the one that v has, and takes its place.
Copy(got, v) ==
    LET old == got.mem.entry[v].frame
    IN  IF Failed(got) THEN got.mem
        ELSE [got.mem EXCEPT !.mem_map[old] = Dropped(@),
                             !.data[got.frame] = got.mem.data[old],
                             !.entry[v] = Entry(got.frame, TRUE)]

\* Faulty variant: the reference is given back before a frame is found.
DoWpPageEarly(m, v) ==
    IF m.mem_map[m.entry[v].frame] = 1
    THEN [m EXCEPT !.entry[v].write = TRUE]
    ELSE SetPage(GetFreePage([m EXCEPT !.mem_map[m.entry[v].frame] = Dropped(@)]), v)

\* Faulty variant: the sole user of a frame is not given it back (memory.c:101).
DoWpPageKept(m, v) ==
    IF m.mem_map[m.entry[v].frame] = 1 THEN m ELSE Copy(GetFreePage(m), v)

\* The sole user of a frame gets it back; otherwise the page is copied.
DoWpPage(m, v) ==
    IF m.mem_map[m.entry[v].frame] = 1
    THEN [m EXCEPT !.entry[v].write = TRUE]
    ELSE Copy(GetFreePage(m), v)

\* The first two loops of share_page: the page is made present.
LoopUnlessPage(m, v) == [m EXCEPT !.hung = @ \/ ~m.entry[v].present]
WithPage(m, v) == IF m.entry[v].present THEN m ELSE LoopUnlessPage(DoNoPage(m, v), v)

\* Faulty variant: the sender may still write (memory.c:206).
MapBothWritable(m, from, to) ==
    LET f == m.entry[from].frame
    IN  IF m.hung THEN m
        ELSE [m EXCEPT !.mem_map[f] = (@ + 1) % CountLimit,
                       !.entry[to] = Entry(f, FALSE)]

\* The frame that was at `to' keeps its count.
MapBoth(m, from, to) ==
    LET f == m.entry[from].frame
    IN  IF m.hung THEN m
        ELSE [m EXCEPT !.mem_map[f] = (@ + 1) % CountLimit,
                       !.entry[to] = Entry(f, FALSE),
                       !.entry[from] = IF from >= PAGING_PAGES THEN Entry(f, FALSE)
                                        ELSE m.entry[from]]

SharePage(m, from, to) == MapBoth(WithTable(WithPage(m, from), to), from, to)

-----------------------------------------------------------------------------
(* mem_init, on the tables of setup32.asm *)

Init ==
    /\ mem = [mem_map |-> [f \in Frames |-> IF f \in StartPage .. EndPage - 1 THEN 0 ELSE 1],
              pg_dir  |-> [b \in Tables |-> IF b < BootTables THEN BootTable ELSE NoTable],
              entry   |-> [v \in Pages |-> IF TableOf(v) < BootTables THEN Entry(v, TRUE) ELSE Absent],
              data    |-> [f \in Frames |-> Zero],
              hung    |-> FALSE]
    /\ boot = InitialShares
    /\ shares = 0

-----------------------------------------------------------------------------
(* Processes *)

\* One turn of share_multi_pages, called by proc_init before any process runs.
ShareAtBoot ==
    /\ boot # <<>> /\ ~mem.hung
    /\ mem' = SharePage(mem, Head(boot)[1], Head(boot)[2])
    /\ boot' = Tail(boot)
    /\ UNCHANGED shares

Running == boot = <<>> /\ ~mem.hung

NotPresentFault(v) ==
    /\ Running /\ ~mem.entry[v].present
    /\ mem' = DoNoPage(mem, v)
    /\ UNCHANGED <<boot, shares>>

WriteFault(v) ==
    /\ Running /\ mem.entry[v].present /\ ~mem.entry[v].write
    /\ mem' = DoWpPage(mem, v)
    /\ UNCHANGED <<boot, shares>>

\* Reading a page that is present changes nothing.
Read(v) == Running /\ mem.entry[v].present /\ UNCHANGED vars

\* The processor lets a process write, or the kernel, which ignores protection.
Write(v, n) ==
    /\ Running /\ mem.entry[v].present /\ mem.entry[v].write
    /\ mem' = [mem EXCEPT !.data[mem.entry[v].frame] = <<v, n>>]
    /\ UNCHANGED <<boot, shares>>

\* big_send and big_receive share the sender's buffer with the receiver's.
BigMessage(sent, received) ==
    /\ Running /\ shares < MaxShares
    /\ sent[1] # received[1]
    /\ mem' = SharePage(mem, BufferPage(sent), BufferPage(received))
    /\ shares' = shares + 1
    /\ UNCHANGED boot

\* An endless loop in the kernel.
Spin == mem.hung /\ UNCHANGED vars

Next ==
    \/ ShareAtBoot
    \/ \E v \in UserPages : NotPresentFault(v) \/ WriteFault(v) \/ Read(v)
    \/ \E v \in UserPages \cup KernelFrames, n \in Versions : Write(v, n)
    \/ \E sent, received \in Pointers : BigMessage(sent, received)
    \/ Spin

\* Processes go on writing to their pages, and repeat an access that faulted.
Spec ==
    /\ Init /\ [][Next]_vars
    /\ WF_vars(ShareAtBoot)
    /\ \A v \in UserPages : WF_vars(NotPresentFault(v)) /\ WF_vars(WriteFault(v))

-----------------------------------------------------------------------------
(* Properties *)

MemTypeOK ==
    /\ mem.mem_map \in [Frames -> 0 .. CountLimit - 1]
    /\ mem.pg_dir \in [Tables -> Frames \cup {NoTable, BootTable}]
    /\ mem.entry \in [Pages -> [present : BOOLEAN, write : BOOLEAN, frame : Frames]]
    /\ mem.data \in [Frames -> Contents]
    /\ mem.hung \in BOOLEAN
    /\ boot \in Seq((0 .. StartPage - 1) \X UserPages)
    /\ shares \in 0 .. MaxShares

Users(f) == {v \in UserPages : mem.entry[v].present /\ mem.entry[v].frame = f}
TablesIn(f) == {b \in Tables : mem.pg_dir[b] = f}
Full == \A f \in Frames : mem.mem_map[f] # 0

\* A reference count is never below the number of uses of its frame, by pages of
\* processes, as a page table or by the kernel: no fault, shared page or failed
\* allocation makes a frame look free, or its user the only one, too early.
CountsCover ==
    \A f \in Frames :
        mem.mem_map[f] >= Cardinality(Users(f)) + Cardinality(TablesIn(f))
                            + (IF f \in KernelFrames THEN 1 ELSE 0)

\* A process can only write to a frame that no other page of a process, no page
\* table and not the kernel uses: copy on write separates them first.
WritableIsPrivate ==
    \A v \in UserPages : mem.entry[v].write =>
        LET f == mem.entry[v].frame
        IN  f \in StartPage .. EndPage - 1 /\ Users(f) = {v} /\ TablesIn(f) = {}

\* The loops of the kernel around its allocations, and the allocations themselves
\* (memory.c:70, 136, 190, 195), end as long as a frame is free.
HangsOnlyWhenFull == mem.hung => Full

\* A process that goes on writing to a page gets it, by whatever faults that
\* takes, unless the memory runs out.
WritesSucceed ==
    \A v \in UserPages : <>[]mem.entry[v].write \/ <>[]Full

\* Through all faults and shared pages, each process sees the pages that it would
\* have if every shared page had been copied at once.
Content(v) ==
    IF mem.entry[v].present THEN mem.data[mem.entry[v].frame] ELSE Zero
Mirrored(v) ==
    IF mem.entry[v].present /\ mem.entry[v].frame \in KernelFrames
    THEN mem.entry[v].frame ELSE NoTable

Private == INSTANCE PrivatePages WITH
    NoFrame <- NoTable,
    content <- [v \in UserPages \cup KernelFrames |-> Content(v)],
    mirrors <- [v \in UserPages |-> Mirrored(v)]

ImplementsPrivatePages == Private!Spec
=============================================================================
