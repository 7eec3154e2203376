------------------------------- MODULE MCBoot -------------------------------
(* Machines and dates for TLC.                                                *)
EXTENDS Boot

Range(base, length, ram) == [base |-> base, length |-> length, ram |-> ram]

\* A PC with memory up to top, the last part of which, acpi, is the firmware's, and
\* with a ROM below 4 GB; 320 KB below 1 MB are in no range.
Pc(top, acpi, rom) ==
  << Range(0, 639, TRUE), Range(639, 1, FALSE), Range(960, 64, FALSE),
     Range(Mb, top - Mb - acpi, TRUE), Range(top - acpi, acpi, FALSE),
     Range(Kb32 - rom, rom, FALSE) >>

\* 4 GB, a part of it above the ROM. With a ROM of 512 KB the lengths add up to 4 GB
\* and 192 KB.
Pc4Gb(rom) == Append(Pc(3584 * Mb, 64, rom), Range(Kb32, 512 * Mb, TRUE))

\* Machines of every size that main() tells apart, and one whose sum wraps.
Machines ==
  {Pc(top * Mb, 64, 192) : top \in {2, 6, 7, 12, 13, 64, 65}}
  \cup {Pc(3 * Mb, 128, 128), Pc(32 * Mb, 128, 256), Pc(60 * Mb, 512, 4096), Pc4Gb(512)}

\* For the run that shows what goes wrong.
LargeRoms == {Pc(32 * Mb, 128, 256)}

\* The last seconds before a month, a leap day or a year begins.
Eves(years) ==
  {[year |-> y, mon |-> d[1], mday |-> d[2], hour |-> 23, min |-> 59, sec |-> 58] :
    y \in years, d \in {<<1, 31>>, <<2, 28>>, <<7, 31>>, <<12, 31>>}}
  \cup {[year |-> y, mon |-> 2, mday |-> 29, hour |-> 23, min |-> 59, sec |-> 58] :
    y \in {z \in years : Leap(z)}}

\* Ordinary and leap years, the turn of the century, the overflow of January 2038,
\* and years before 2070, which the code takes for 1970.
Dates == Eves({1970, 1971, 1972, 1999, 2000, 2001, 2037, 2038, 2067, 2068})
OneDate == Eves({2011})
=============================================================================
