------------------------------- MODULE Layout -------------------------------
(* How much memory there is: setup.asm asks the BIOS for the machine's map and  *)
(* adds up what is in it, main() decides where pages for processes begin, and   *)
(* mem_init() marks them unused. Sizes and addresses are in KB, in 32 bits.     *)
EXTENDS Naturals, Sequences

CONSTANT Maps   \* memory maps: sequences of ranges [base, length, ram]

ASSUME LayoutAssumption ==
  Maps \subseteq Seq([base : Nat, length : Nat \ {0}, ram : BOOLEAN]) \ {<<>>}

Kb32 == 4194304   \* 2^32 bytes
Mb == 1024
Page == 4
PAGING_PAGES == 16384

VARIABLES
  map,          \* the machine's
  stage,        \* "off", or where the code is
  ARDS,         \* ranges copied to 0x90000
  cx,           \* ranges still to be added
  RAM_size,     \* at 0x90000 when main() begins
  memory_end, buffer_memory_end,
  unused        \* pages marked UNUSED in mem_map: the first, and how many

layoutVars == <<map, stage, ARDS, cx, RAM_size, memory_end, buffer_memory_end, unused>>

LayoutInit ==
  /\ map = <<>>
  /\ stage = "off" /\ ARDS = <<>> /\ cx = 0 /\ RAM_size = 0
  /\ memory_end = 0 /\ buffer_memory_end = 0 /\ unused = <<0, 0>>

\* setup begins. What machine it is did not matter until here.
setup ==
  /\ stage = "off" /\ stage' = "get_memory_size"
  /\ map' \in Maps
  /\ UNCHANGED <<ARDS, cx, RAM_size, memory_end, buffer_memory_end, unused>>

\* One call of the BIOS, int 0x15: the next range, or a failure, on which setup stands
\* still without a word.
get_memory_size ==
  /\ stage = "get_memory_size"
  /\ \/ /\ ARDS' = Append(ARDS, map[Len(ARDS) + 1])
        /\ stage' = IF Len(ARDS') = Len(map) THEN "display_memory_size" ELSE stage
        /\ cx' = Len(ARDS')
     \/ /\ stage' = "get_memory_failed" /\ UNCHANGED <<ARDS, cx>>
  /\ UNCHANGED <<map, RAM_size, memory_end, buffer_memory_end, unused>>

\* The lengths, of which only the lower 32 bits count, are added whatever kind of
\* memory it is: the test of the type is commented out.
calculate_RAM_size ==
  /\ stage = "display_memory_size"
  /\ RAM_size' = (RAM_size + ARDS[Len(ARDS) - cx + 1].length) % Kb32
  /\ cx' = cx - 1
  /\ stage' = IF cx' = 0 THEN "main" ELSE stage
  /\ UNCHANGED <<map, ARDS, memory_end, buffer_memory_end, unused>>

\* Faulty variant: without the limit of 64 MB.
UsableAll(size) == size - (size % Page)
\* Whole pages, and at most 64 MB.
Usable(size) ==
  LET whole == size - (size % Page) IN IF whole > 64 * Mb THEN 64 * Mb ELSE whole

\* Faulty variant: small machines give everything above the first 512 KB to processes.
BufferEndLow(end) ==
  CASE end > 12 * Mb -> 4 * Mb
    [] end > 6 * Mb /\ end <= 12 * Mb -> 2 * Mb
    [] OTHER -> Mb \div 2
BufferEnd(end) ==
  CASE end > 12 * Mb -> 4 * Mb
    [] end > 6 * Mb /\ end <= 12 * Mb -> 2 * Mb
    [] OTHER -> Mb

main ==
  /\ stage = "main"
  /\ memory_end' = Usable(RAM_size)
  /\ buffer_memory_end' = BufferEnd(memory_end')
  /\ stage' = "mem_init"
  /\ UNCHANGED <<map, ARDS, cx, RAM_size, unused>>

\* The difference is unsigned.
mem_init ==
  /\ stage = "mem_init"
  /\ LET first == buffer_memory_end \div Page
         mem_size == ((Kb32 + memory_end - buffer_memory_end) % Kb32) \div Page
     IN unused' = <<first, mem_size>>
  /\ stage' = "time_init"
  /\ UNCHANGED <<map, ARDS, cx, RAM_size, memory_end, buffer_memory_end>>

\* The machine stands still; unlike the boot sector, setup does not say why.
MemoryFailed == stage = "get_memory_failed"

SizeMemory == setup \/ get_memory_size \/ calculate_RAM_size \/ main \/ mem_init

-----------------------------------------------------------------------------
(* Properties *)

Free(page) == unused[1] <= page /\ page < unused[1] + unused[2]

\* On a machine with 1 MB or more, pages given to processes have an entry in mem_map:
\* mem_init() marks nothing beyond its end, although it counts with unsigned numbers.
FreeInTable ==
  stage = "time_init" /\ RAM_size >= Mb => unused[1] + unused[2] <= PAGING_PAGES

\* Pages given to processes are memory: main.c calls memory_end the physical memory the
\* machine has. They are not always: setup.asm counts what the firmware keeps as well.
FreeIsRam ==
  unused[2] > 0 =>
    \E i \in 1 .. Len(map) : LET r == map[i] IN
      /\ r.ram
      /\ r.base <= unused[1] * Page
      /\ (unused[1] + unused[2]) * Page <= r.base + r.length
=============================================================================
