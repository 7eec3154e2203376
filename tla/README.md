# Verification of MKS

MKS is a small message-passing kernel for the 80386: about 3,500 lines of C and
assembler, no tests, few comments. This directory holds TLA+ modules of its
core, the TLC configurations that check them on small instances, and proofs
checked by TLAPS. `PROJECT.json` maps every definition to the lines it stands for.

## The system

| component | state | operations | interacts with |
|---|---|---|---|
| scheduler (`kernel/proc.c`) | `proc[]`, `proc_current`, the queues `task_*`, `server_*`, `user_*`, a `counter` per process | `proc_init`, `add_running_proc`, `schedule`, `switch_to` | called by the clock and by every message call |
| clock (`kernel/time.c`) | `jiffies`, `counter`, `utime`, `stime` | `do_intr_clock`, `time_init`, `kernel_mktime` | calls `schedule` when a tick arrives in user mode and the slice is used up |
| message passing (`kernel/messaging.c`) | four linked lists (small/big, send/receive) of entries that live on the sleepers' kernel stacks; `msg_hardware[]` for interrupt handlers | `small_send`, `small_receive`, `big_send`, `big_receive`, dispatched by `do_intr_msg` (int 0x80) | changes process states, writes the saved registers of sleepers, `share_page`, `schedule` |
| message library (`lib/message.c`) | none | wrappers that load and read registers | int 0x80 |
| system task (`system_task/system.c`), init, idle | none | a receive loop; empty loops | message library |
| memory (`kernel/memory.c`) | `mem_map[]` (one-byte reference counts), page directory and tables | `do_no_page`, `do_wp_page`, `get_free_page`, `create_page_table`, `share_page` | page faults; big messages |
| interrupts (`kernel/interrupt.c`, `kernel/asm.s`) | IDT, `intr_table[]`, masks of the 8259A | `intr_init`, entry code, `do_intr_*` | all handlers |
| keyboard (`driver/character/keyboard.c`) | a buffer of shift presses | `do_intr_keyboard`, `enqueue`, `dequeue`, `headqueue` | console |
| console (`kernel/printk.c`) | `x`, `y`, `pos`, video memory | `write_char`, `println`, `printchar`, ... | kernel output, keyboard interrupt |
| boot (`boot/*.asm`, `kernel/main.c`) | registers, sectors read; the memory map | loading, mode switch, memory sizes | BIOS, then `main`, `mem_init` and the other `*_init` |

What is hard about it:

* **Order.** A send and the receive that matches it come in either order, among
  other calls with names and wildcards; the second must find the first.
* **Writes into sleepers.** A receive entry points to registers saved on the
  receiver's stack; they are written while it sleeps, by another process' call.
* **Waiting.** Calls block without time limit. Two processes must not wait for
  each other; clients of a server must be released.
* **Scheduling.** `schedule` is called from inside the message calls and from
  the clock, with the caller in any state, and moves processes among queues that
  are brought up to date only there.
* **Limits.** The pool of hardware messages, one-byte page counts, the shift
  buffer, page tables allocated by the allocator itself, sectors and segments
  that carry into each other.
* **Interrupts.** All gates but that of page faults leave interrupts enabled, so
  handlers nest on the stack of whatever process runs; the keyboard handler prints
  through the cursor that kernel output is working with.
* **Devices that go on.** The clock chip ticks while its registers are read, the
  keyboard repeats keys.

There is no preemption in the kernel: the gates leave interrupts enabled, but a
tick in kernel mode returns before `schedule` (`time.c:131`). A message call up
to its `schedule` is therefore one step; a tick may only shorten the slice
meanwhile. Nothing is stored, so there are no crashes to recover from.

## Modules

| module | what it is |
|---|---|
| `Proc` | scheduler and clock tick; who blocks and wakes is left open |
| `Messaging` | EXTENDS `Proc`: the calls of `messaging.c`, which decide it |
| `Rendezvous` | abstract specification of message passing: what callers are promised |
| `Links` | the linked lists of `messaging.c`, pointer by pointer |
| `System` | EXTENDS `Messaging`: the system task runs its own program |
| `Memory` | frames, reference counts, page tables, sharing, copy on write |
| `PrivatePages` | abstract specification of memory: pages of one's own |
| `Interrupt` | gates, interrupt controller, nested handlers, process switches |
| `Keyboard` | the keyboard driver and a keyboard |
| `Console` | kernel output, interrupted by the echo of keys |
| `Bootsect`, `Layout`, `Time` | loading; the size of memory; the calendar |
| `Boot` | EXTENDS these three: what happens from the boot sector to `time_init` |
| `MCProc`, `MCMessaging`, `MCSystem`, `MCMemory`, `MCLinks`, `MCInterrupt`, `MCKeyboard`, `MCConsole`, `MCBoot` | constants for TLC |
| `ProcProofs`, `MessagingProofs`, `LinksProofs`, `MemoryProofs`, `InterruptProofs`, `KeyboardProofs`, `ConsoleProofs`, `BootProofs` | the theorems |

Definitions whose comment begins with "Faulty variant" are no part of a model: each
is a definition as a plausible mistake would have it, and stands before the one it
varies. Every property that a run passes is violated by one of them.

### Proc

`state`, `proc_current` and `ready[t]` are the code's variables; a queue is the
sequence of pids from head to tail. `counter` is the counter of `proc_current`:
`schedule` overwrites that of any other process before it runs. `jiffies`,
`utime` and `stime` are written and never read, and are left out.

`Schedule(st)` is all of `schedule()`, called when the states have become `st`.
`AddRunningProc` appends to each queue the processes that can run and are not in
it, by pid. `Flag` and `Eligible` are the choice of a queue, and `KeepCurrent`,
`RunIdle` and `SwitchTo` its three ends. `Requeue` is the insertion of the
preempted process, with the removal of the head that goes with it
(`proc.c:192`). The actions are the callers: `Tick`, `KernelTick`, and `Block`,
`Wake`, `Yield` for what message calls do to the scheduler.

### Messaging

The lists are sequences. A send entry copies its operands; a receive entry is
the receiver's pid and stands for pointers to its saved `ebx` (whom it receives
from, replaced by the sender found) and `ecx` (the message). Each call has one
action per outcome: `...Fails` (result -1), `...Meets` (the peer sleeps in a
matching call), `...Waits`, and for hardware messages `...Drains`, `...Queues`.
Operands range over every pid, the names `MSG_ANY` and `MSG_HARDWARE`, and values
out of range on both sides; pids without a process are among them.

A function number other than 1 to 4 only returns -1 and is not modelled apart.
`big_send` compares a pointer where it means a pid, so `BigSendRefused` is FALSE.
`share_page` makes the receiver's page hold what the sender's holds.

`small_send(MSG_HARDWARE, ...)` has no caller in the repository. It is modelled as
an interrupt handler that interrupts user mode would call it. Called from one
that interrupts another message call it would race with it on the lists.

### Rendezvous

A set of posted calls and the callers' results: a send and a receive that accept
each other complete in one step. It does not say which of several matches is
taken, nor who runs. `Messaging` implements it under the mapping `Posted`.

### System

Process 2 makes only the call of `system_task`, again and again; the others make
any call. No handler sends messages, as in the repository.

### Memory

`mem` is the state of memory: `mem_map`, the page directory `pg_dir`, the page
table entries, the contents of frames, and `hung`. Handlers are operators from
one such state to the next (`DoNoPage`, `DoWpPage`, `SharePage`, and the
allocation `GetFreePage` and `CreatePageTable` below them), since they call each
other and a handler is one step. The actions are a fault on an absent page, a
write fault, a write, a big message, and the kernel's pages that `proc_init`
shares one by one. Linear pages, tables and counts are the code's, scaled:
`TablePages` is 1024 there, `PAGING_PAGES` 16384, `CountLimit` 256, `LinearPages` 2^20.

Four things in the code need explanation.

* `do_intr_msg` makes an address of a buffer out of a number the caller gave it: the
  next page to begin, plus the base of the caller's segment, in 32 bits, and nothing is
  checked (`messaging.c:397-410`). `BufferPage` is that sum, and `Pointers` are the
  numbers. A buffer may so be a page of another process, and sender and receiver may
  share a page with itself; both are in the run. It may also be a page of the kernel,
  below 64 MB, whose entries `share_page` would replace or leave writable. That is
  excluded, by an assumption: `BuffersAboveKernel`. Every `struct Msg` (two pages,
  `include/kernel/message.h`) that lies in its process' segment meets it, because its
  second page does too; the code relies on its callers there. The run evaluates it for
  its pointers, and the theorems name it.

* Nothing gives a frame back. A count only goes down when a shared page is
  copied, so counts are upper bounds of the uses of a frame.
* Loops such as `while(!((*table) & 1)) create_page_table(addr)` end only when an
  allocation succeeds. If it fails once it fails always, and `hung` is set.
* `get_free_page` clears a frame through the linear page of the same number, and
  may fault on it. The fault is harmless if the table exists. If not, the
  handler allocates one and gets the same frame, which is not yet counted: `hung`.
  The look-ahead (`LacksAhead`) should prevent it and asks for the wrong page: the
  frame of the table that it allocates has to be cleared too, and that may fault and
  not return either (`TakeWithTable`). It is modelled one level deep; a look-ahead
  inside a look-ahead needs a table that is missing below a frame already in use.

Of the kernel's own writes to its pages only the content matters, because the
processes see it until they have a copy. The processor's cached translations are
left out: a handler that changes an entry in use ends with `invalidate`.

### PrivatePages

Every page of every process has its content; writing changes one page, sharing
copies. Contents tell which page they were written to, so a step of `Memory`
that moves the wrong content cannot pass for a write. `mirrors` records the pages that still show a page of the kernel.

### Links

`Messaging` has sequences where the code has pointers. `Links` is about nothing but
the pointers: `head`, `tail` and `next`, the two pointers `msg_p` and `msg_t` of a
scan, the removal of the entry at which it stops (`Unlink`, the same six lines in all
four calls) and the insertion at the tail (`Link`). The sequence is kept beside them
as a history variable. What an entry says is left out, so a scan may stop anywhere.
Entries live on the stacks of sleeping calls: `Reuse` lets the memory of an entry
that is in no list change.

### Interrupt

`stack[p]` is the kernel stack of process `p`: the activities on it, innermost last,
each with its kind, how far it is and whether it interrupted user mode (`cpl`). A
handler has a step wherever another interrupt may come between two things it does
that matter here: ending its interrupt, its work, `schedule`. `irr` and `isr` are
registers of the interrupt controller, which setup.asm does not put into automatic
end-of-interrupt mode. `Candidates` is whatever `schedule` may choose,
the process that runs included if it can go on; `Proc` says which.

Two assumptions keep stacks finite: a handler of the clock is through before the next
tick (`TicksApart`), and a key does not follow another while the handler of one is at
its very end (`KeysApart`). `MaxNest` bounds nested page faults. Masked lines, the
numeric error and reserved vectors have handlers that print; none of them is raised.
Exceptions and kernel calls are one activity that prints.

### Keyboard

`buf`, `head`, `tail` are the fields of `kbd`. `Press`, `Repeat` and `Release` are the
scan codes of a keyboard with two shift keys, each an interrupt and one step
(`Interrupt` shows that the handler is not entered twice). Whether the keyboard
repeats is chosen at the start. What is printed is the index of the keymap entry.

### Console

The kernel's output is cut into loads into a register, stores and tests, as an
unoptimised build makes them, and `PrintChar`, the echo of a key, may come between
any two. It is one step, because no kernel output runs inside the keyboard handler,
nor another key's. Loops that clear cells count as one store. `con_init` prints a banner through `write_char`, so calls of
`printk` nest: `k.left` has what each has left to print. Cells are numbers of video
memory, with one row below the screen. Attributes, and what `update_cursor` tells the
display, are left out.

### Bootsect, Layout, Time and Boot

`Bootsect` has the numbers of the code: registers, counters and sectors are real, and
`memory` says which sector of the disk each 512 bytes hold. A BIOS read that a drive
cannot do, or one that just fails, stops the boot. `Layout` has sizes in KB: the
BIOS' map of a machine, the sum setup.asm makes of it, the limits of main() and the
pages that mem_init marks. Where the map cannot be read setup.asm stands still without
a message (`MemoryFailed`); the boot sector prints one (`LoadFailed`). `Time` has the registers of the clock chip, which goes on
ticking while they are read, `kernel_mktime`, and the calendar as it is (`Leap`,
`DaysSince1970`) for reference. Seconds since 1970 are pairs of days and seconds.
`Boot` puts them in order, one after the other, with a machine and a date chosen when
they are first looked at.

## Runs

| run | instance | what it shows |
|---|---|---|
| `proc_mixed` | idle, 3 users, 2 servers, 1 task, COUNTER 2 | the queues hold the right processes once; no process waits behind a less urgent one; at most one is dropped; the processor is not idle with work to do; two processes of a class share it |
| `messaging_calls` | idle, init and the task, a pid without a process, 2 messages, pool of 1 | types; the pool is exact; sleepers and entries correspond; one entry each; no missed rendezvous; the call that closes a circle of two is a `big_send`; every step is one of `Proc`, with its fairness; refinement of `Rendezvous` |
| `messaging_deadlock` (violation) | idle and 3 processes | `NoMutualWait` fails: `big_send` to a process that receives from the sender |
| `system_serve` | idle, 2 clients, the system task, COUNTER 2 | each client is released; the task is never refused |
| `memory_counts` | 8 frames of which 6 free, tables of 4 entries, two processes with 1 and 2 pages, 4 pointers to buffers, 3 big messages | counts cover uses; writable pages are private; the kernel hangs only when memory is full; writes succeed unless it is; refinement of `PrivatePages` |
| `memory_ahead` (violation) | only half of the frames mapped at boot | `HangsOnlyWhenFull` fails: the look-ahead does not work |
| `links_order` | two lists, three entries | the pointers describe the sequence of entries; scans miss none |
| `interrupt_nest` | idle and two processes, 4 activities on a stack | processes are switched from the outermost level only and with no line in service; lines in service have their handler; the keyboard handler is not re-entered; the clock and keys go on |
| `keyboard_shift` | two shift keys, a letter, buffer of 5, with and without repeat | shift follows the keys without repeat; with it, it comes off again and again |
| `console_echo` | screen of 3 by 3, banner of 2, strings of 0, 1 and 4, two keys during a printk | the text stands, the next row is blank, nothing is written outside while no key interrupts; however keys interrupt, no more than a row is overrun and the page is turned once |
| `boot_kernel` | the real disk; PCs of 2 MB to 4 GB; 44 moments from 1970 to 2068 | the parts arrive whole, every read is possible; pages given away have entries in `mem_map` and hold nothing loaded; the calendar is right; each part of the boot ends, in the next or where it failed |
| `boot_rom` (violation) | a PC of 32 MB with a ROM of 256 KB, ACPI tables of 128 KB | `FreeIsRam` fails: reserved ranges are counted as memory |

**Bounds.** Three processes of a class are the fewest for which the queue is not
empty when the preempted one is put back; seven processes give every class a
queue. COUNTER 2 separates a tick inside a slice from the last; where slices do
not matter it is 1. A pool of one entry is full after one message; two processes with
two messages tell apart who gets which, and a process and an interrupt handler make
lists in which the match is not the head. Each process has at most one entry, so no
list needs another bound. Lists of more processes are beyond the time a run has: the
invariants and the refinement are proved for any number (`MessagingProofs`), and
`system_serve` has a third process. In `Memory` two tables, three pages and a leak
use up the free frames, so that allocation fails at every place where it is called.
`MaxShares` bounds the messages; with it counts stay below 7, and no count wraps. Three
are needed: two leak a frame each, and the third finds the memory full and one of its
pages absent. There is a buffer in either segment, and process 2 has two pointers past
the end of its own that wrap around, to the other process' page and to a page of its own.
Three entries make a first, a middle and a last of a list. A shift buffer of 5 can be
full with both keys up, and emptied in every order. A screen of 3 by 3 has a first,
a last and an inner row and column; strings of 4 wrap, and the banner fits in a row as
the real one does (68 of 80). Two seconds before the turn of a month, with up to three
ticks, every register changes at every place of the loop. The machines are on both sides
of each limit in `main()`, and one has a sum that wraps; all have more than 1 MB, which
is less than any PC this kernel was written for has.

**Fairness.** `WF(Tick)`: the clock keeps ticking and hits user mode, so no
process stays in the kernel for ever. `WF(Serve)`: once it has the processor, the
task, whose program is only that loop, makes its next call. In `Memory`, a process goes
on writing to its pages and a faulting instruction is repeated: `WF` of the faults.
In `Interrupt` the processor goes on, the clock ticks on, a handler of clock or keyboard
that gets to run again and again makes a step, and a request let through again and
again is taken: keys and faults are not so dense that nothing else happens. In
`Keyboard` someone goes on typing: no shift key stays down or up for ever. In `Boot`
the processor goes on; the chip need not tick.
Deadlock is checked in every run; a system that is idle has its tick, a boot that has
failed its endless loop.

**What the violations mean.** *Mutual wait.* `*dest` for `dest` in
`messaging.c:264, 272, 280` would give `big_send` the check of the other calls.
*Look-ahead.* With more than 32 MB the kernel's stack overflows when the first 32 MB
have been used; a look-ahead at the last page but one of a table, or `i+3`, would
allocate the next table in time.
*Memory size.* With the test of `setup.asm:150-151` put back and the upper halves of the
lengths looked at, this violation would go; what remains then is that ranges are
added up at all, holes or not.

**Limits met while modelling.** The properties above are as strong as the code allows;
this is where it stops.

* *Dropped processes.* A process dropped by `Requeue` is appended again by the next
  `schedule`, behind the one that was preempted. With three processes of a class the
  same one can lose its place each time; with two, a task that keeps preempting has
  the same effect. `AtMostOneDropped` and `SharesProcessor` state what remains.
* *Wrapped counts.* `share_page` increments a byte without a test (`memory.c:202`), and
  the page it replaces gives no reference back: a page sent 253 times or more without
  being written to has a count of 0 and looks free (`memory.c:15`), and `CountsCover`
  fails. The properties of memory are checked and proved for counts that have not got
  there. `share_page` would have to copy, or to refuse, at a count of 255.
* *Keys in the middle of output.* A key echoed after output has chosen its cell is
  overwritten, and one echoed between `x++` and the wrap, or at the end of `println`,
  is written behind the screen. `OnScreen`, `FreshLine` and `TextStands` are about
  output that no key disturbed; `OverrunBounded` says how far it goes if one did.
* *Shift.* When the tail of the shift buffer is at its end, presses are refused, also
  when the buffer is empty (`keyboard.c:53`); a repeated shift key piles up presses.
* *Keymap.* It ends at scan code 58; a function key prints what lies behind it.
* *Cursor.* `update_cursor` gives the display an address for the number of a cell.
* *Calendar.* From 2038 on seconds since 1970 are negative, and 2070 is taken for
  1970, although the comment (`time.c:63-64`) has the code last until 2100.
  `StartsRight` says what a long holds; it is true up to 2069.
* *Memory size.* All ranges of the BIOS' map are added, memory or not, in 32 bits
  (`setup.asm:150-153`): pages behind the end of memory may be given away (`boot_rom`),
  and the sum may wrap to less than 1 MB (192 KB on a PC of 4 GB with a ROM of 512 KB),
  which `main.c:39` excludes; the number of pages, a difference of unsigned numbers, is
  then beyond all bounds.
  `FreeInTable` holds where at least 1 MB is counted.
* *Comment.* `bootsect.asm:112` has the kernel begin at sector 126; it is 99.

## Theorems

Each of the modules named `...Proofs` proves an inductive invariant of its component
and draws from it the properties that the runs check. Assumptions are those of the
modules' constants, and what is named below.

`ProcProofs` proves, for any finite set of pids with 0 among them, any types
(idle being a user process) and any COUNTER > 0: `ProcTypeOK`, `QueueSound`,
`TopPriority`, `AtMostOneDropped` are invariants and `WorkConserving` holds.
The inductive invariant `SchedInv` is the conjunction of the four. `QueueSound` is
needed for the others: only because queued processes can run, wait and are of
their queue's class do the three queues after `AddRunningProc` hold exactly the
processes that wait (`AddRunningProcElements`). From there `ScheduleInv` follows,
one case per end of `schedule`, without any assumption on what the queues were
missing before. Each action then only has to show that the states it hands to
`schedule` keep queued processes runnable (`HandlersMayRun`): a process sleeps only
while it is running, hence not queued.

`MessagingProofs` is about any processes with pids below `NR_PROCS`, any pool of
hardware messages and any messages. Every step is a step of `Proc` (`StepsOfProc`), so
`SchedInv` holds here too. The inductive invariant `MsgInv` adds `CallsSound`: types, no
list with two entries of one process, the pool exact, and `ListsSound`, which sees the
lists as sets of entries. Its parts are `Placed` (the four lists are disjoint and hold
the sleepers), `NoMiss` (no entry of a send list has its receiver waiting) and the bound
on mutual waits (two wait for each other only if one is in `big_send`). The theorem says
more: the call that closes the circle is one, since the other three look for the entry
that would close it before they wait (`WaitsNext`, `ClosedByBig`). They depend on each other: an action that takes an entry wakes one process, which is
right only if that process has no second entry, and a caller adds an entry, which is
right only if it had none, for which `SchedInv` must say that the process that runs is
not asleep. One lemma per action states what it does to the sets, and one per part that
the part survives.

From the same invariant `MessagingImplementsRendezvous` follows: every step of the code
is one of `Rendezvous` or leaves what callers see alone. `Posted` and the results are
read off the lists, so the work is to say how each action changes that reading: a call
that waits posts, one that fails changes nothing, and one that meets completes the two
calls of one sender and one receiver, which are the only ones that the change of the
lists and of the states takes away, because each has one entry (`Placed`).

The next section turns to `System`: whatever the clients do, the
call of `system_task` is not refused (`TaskIsNeverRefused`), because the pid it waits
for is `MSG_ANY`, which no entry has as its source; it assumes that the task exists.

`LinksProofs` proves, for any lists and any set of entries, that `TypeOK`,
`PointersAgree` and `ScanInOrder` are invariants of `Links`; their conjunction is
inductive. A scan needs `PointersAgree` to stay in order, and an entry can only be
unlinked right because the scan is in order. That no entry is twice in the lists
(`TypeOK`) makes the pointers of the others survive. `TakenOutFacts` and `WithoutFacts`
say what is at each place of a sequence from which an entry is taken.

`MemoryProofs` is about any number of frames, tables, pages and contents, and any
pointers. It makes two assumptions beyond those of the module. `BuffersAboveKernel` is
explained above. `CountsLeft` says of a state that no frame's count has reached its last
value, 255, and the theorems are of the form `Spec /\ []CountsLeft => ...`: as long as that
is so. After the 320 pages that `proc_init` shares the counts are 3 at most. `Sound(m, n)`
is what a memory m is whose counts are at most n + 1, and every handler has a lemma that
it keeps it; sharing a page may add one. The counts cover the uses (`Covered`) only
because frames that look free are in the RAM (`InRAM`), and no count exceeds `n + 1`
(`Bounded`), so that the next reference does not wrap it; a page is writable only while
it has its frame alone (`WritableOwn`), which a handler that copies, shares or gives back
must find to be so from the count of 1. `Identity` (the kernel's pages are the frames of
their numbers) is needed where a frame is cleared through its page. `LoopsEndUnlessFull`
also assumes that setup32.asm maps all of the RAM (`AllMapped`, up to 32 MB): beyond that
the property is false, as `memory_ahead` shows.

Its last part proves, under the same two assumptions, that `Memory` implements `PrivatePages`.
What a process sees of a memory is `View` and `Mirror`; each handler has a lemma that it
changes neither (`SameView`), or just as `Detach` and `Share` say. Allocation is
unseen because a frame that is shown is counted (`SeenIsCounted`), which is why a count
must never be too low; a write is seen by one process because of `WritableOwn`.

`InterruptProofs` is about any finite set of processes and any bound of page faults.
`InterruptInv` says how activities lie on the stack in use (`StackSound`): the outermost
alone interrupted user mode, a tick not yet ended is on top, one key at most is at
work, a line is in service if and only if an activity holds it; and that all other stacks
are parked in one activity about to return (`StackParked`). The second half makes
the first survive a switch.

`KeyboardProofs` is about a buffer of any length and any shift keys. Its invariant is
what is to be proved and that the keys held are finitely many.

`ConsoleProofs` is about screens, banners and strings of any size, as far as a banner
fits in a row. Output is cut so finely that the invariants are about the middle of things.
`Bounds` says for each place in the code how far `x`, `y`, `pos` and the registers may be
beyond the screen; with it `OverrunBounded` holds however keys interrupt. `TurnsOnce`
needs `Behind`: while con_init prints its banner from the top, the cursor is at most a row
further down for every key. It holds for fewer keys than rows (`KeysFit`), and that is no
accident of the proof: as many keys as rows drive the banner to the end of the page, the
page is turned inside the banner, and TLC finds `TurnsOnce` violated on screens of 2
by 2 and 2 by 3. The real screen has 25 rows. `MaxKeys` bounds the keys
of any single printk; between two, any number may come. `OnScreen`,
`FreshLine` and `TextStands` are about output that no key disturbed. They rest on `Alone`,
what the registers and the rows hold at each place then, and for the text on `Printing`:
the characters taken so far are in their cells, and the next goes behind them.

`BootProofs` is about any memory maps and any dates, and the real disk. For loading,
`Stages` relates the four ways in which the boot sector counts: past setup, a sector
belongs 29 slots further than its number, whatever `es`, `bx`, `readed`, cylinder and
side say, and what is in memory is then a function of one number (`Filled`). Hence
`ReadsAllowed` and `LoadedWhole`. `NothingLoadedIsFree` holds for every machine, because
`mem_init` never begins below 1 MB. `FreeInTable` does for every map, and for every sum
of 1 MB or more that setup.asm may make of it: the limit of 64 MB is what keeps it, and
`Sizing` carries the sum to where main() divides memory. `BootStartsRight` says that the calendar is right for every
date from 1970 on, up to the last minute of 2069, and every interleaving of the
chip's ticks (`DatesFit`): a pass of the loop that ends with the seconds it began
with was not interrupted by a tick (`Reading`), because all ticks together take less than a
minute; and `kernel_mktime` agrees with the days that lie between
(`MktimeRight`), for which leap years and the days of months are counted.

**Only model-checked.** Liveness (`SharesProcessor`, `ClientsServed`, `WritesSucceed`,
and those of interrupts, keyboard and boot) is out of the prover's reach, and with it
the fairness in `ImplementsProc`, whose steps are proved. Every invariant that a run
passes is also the subject of a theorem. The properties that are violated stay with TLC.

## Plan

Modelled first was what the rest stands on, scheduler and messages, then memory, then
the drivers and the boot sequence. What is left, in the order of its use:

1. `Memory` composed with `Messaging`: the page of a big message is shared while its
   sender sleeps, with faults of others in between;
2. the pointers of the ready queues (`next_ready`), as `Links` has those of
   the message lists.

## Not modelled

* *Mode switches, descriptors, page tables of setup32.asm, saving of registers*
  (`setup.asm`, `kernel_start.asm`, `asm/system.h`, `asm.s`, most of `proc.h`): data
  for the processor, with no control of their own. What follows from them is in the
  constants: which gates leave interrupts enabled, which tables exist.
* *Handlers of masked lines, of the numeric error and of reserved vectors*
  (`interrupt.c`): they print and return, or are never raised.
* *Contents of the keymap, the E0 prefix, attributes and number formats* (`keyboard.h`,
  `printa`, `printbin`, `printhex`): what is printed, not when or where.
* *`fork` and `errno`* (`lib/`): a system call that nothing answers, and a variable.
* *The processor's cache of translations*: see Memory.
* *Build rules.*
