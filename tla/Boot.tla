-------------------------------- MODULE Boot --------------------------------
(* From the boot sector to a kernel that is initialised: loading (Bootsect), the *)
(* memory's size and the table of its pages (Layout), the calendar (Time). One   *)
(* follows the other. The boot sector ends in an endless loop with a message when  *)
(* a read fails, setup in one without a message when the BIOS has no map.         *)
EXTENDS Bootsect, Layout, Time

vars == <<loadVars, layoutVars, timeVars>>

Init == LoadInit /\ LayoutInit /\ TimeInit

\* bootsect jumps to setup, setup through setup32 to main(), which calls mem_init()
\* and then time_init().
LoadStep == Load /\ UNCHANGED <<layoutVars, timeVars>>
MemoryStep == pc = "setup" /\ SizeMemory /\ UNCHANGED <<loadVars, timeVars>>
ClockStep == stage = "time_init" /\ ReadClock /\ UNCHANGED <<loadVars, layoutVars>>
ChipStep == Tick /\ UNCHANGED <<loadVars, layoutVars>>

\* The machine stands still, or the kernel is initialised.
Over == LoadFailed \/ MemoryFailed \/ at = 8

Next ==
  \/ LoadStep \/ MemoryStep \/ ClockStep \/ ChipStep
  \/ Over /\ UNCHANGED vars

\* The processor goes on, and the BIOS answers.
Spec == Init /\ [][Next]_vars /\ WF_vars(LoadStep \/ MemoryStep \/ ClockStep)

-----------------------------------------------------------------------------
(* Properties *)

\* Every part of the boot comes to its end, which depends on where it failed: the boot
\* sector hands over to setup or stands still with its message, setup hands over to the
\* kernel or stands still without one, and the kernel's reading of the clock, which the
\* chip may spoil again and again, succeeds.
BootEnds ==
  /\ <>(pc = "setup" \/ LoadFailed)
  /\ pc = "setup" ~> stage = "time_init" \/ MemoryFailed
  /\ stage = "time_init" ~> at = 8

\* Pages given to processes hold nothing of what was loaded: neither setup32, whose
\* page tables are in use, nor the kernel, which stays where the boot sector put it.
NothingLoadedIsFree ==
  \A s \in Slots : Free(s \div 8) => memory[s] = Empty
=============================================================================
