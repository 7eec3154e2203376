-------------------------------- MODULE Time --------------------------------
(* The calendar, kernel/time.c: time_init reads the registers of the clock     *)
(* chip one by one until the seconds did not change meanwhile, and             *)
(* kernel_mktime turns them into seconds since 1970. The chip goes on ticking. *)
(* A number of seconds is a pair <<days, seconds of the day>>, which keeps the *)
(* model's numbers small; a long of 32 bits holds the pairs below Overflow.    *)
EXTENDS Integers, Sequences, FiniteSets

CONSTANTS
  Starts,    \* dates and times at which time_init may begin
  MaxTicks   \* seconds that time_init takes, at most; fewer than a minute

ASSUME TimeAssumption == Starts # {} /\ MaxTicks \in 0 .. 59

VARIABLES
  now,          \* the date and time it is, year with all its digits
  tm,           \* the fields read so far, in BCD
  at,           \* the number of the register read next; 0 not begun, 7 the seconds
                \* again, 8 done
  startup_time,
  seen,         \* the time at which the loop ended
  ticks

timeVars == <<now, tm, at, startup_time, seen, ticks>>

-----------------------------------------------------------------------------
(* The calendar as it is *)

Leap(y) == (y % 4 = 0 /\ y % 100 # 0) \/ y % 400 = 0
DaysIn(y, m) == CASE m \in {4, 6, 9, 11} -> 30
                  [] m = 2 -> IF Leap(y) THEN 29 ELSE 28
                  [] OTHER -> 31

\* Days from 1 January 1970 to a date: the days that lie between.
DaysSince1970(y, m, d) ==
  365 * (y - 1970) + Cardinality({z \in 1970 .. y - 1 : Leap(z)})
  + Cardinality({p \in (1 .. m - 1) \X (1 .. 31) : p[2] <= DaysIn(y, p[1])})
  + (d - 1)

SecondsSince1970(t) ==
  <<DaysSince1970(t.year, t.mon, t.mday), 3600 * t.hour + 60 * t.min + t.sec>>

NextSecond(t) ==
  CASE t.sec < 59 -> [t EXCEPT !.sec = @ + 1]
    [] t.sec = 59 /\ t.min < 59 -> [t EXCEPT !.sec = 0, !.min = @ + 1]
    [] t.sec = 59 /\ t.min = 59 /\ t.hour < 23 -> [t EXCEPT !.sec = 0, !.min = 0, !.hour = @ + 1]
    [] OTHER ->
       LET midnight == [t EXCEPT !.sec = 0, !.min = 0, !.hour = 0] IN
       CASE t.mday < DaysIn(t.year, t.mon) -> [midnight EXCEPT !.mday = @ + 1]
         [] t.mday = DaysIn(t.year, t.mon) /\ t.mon < 12 -> [midnight EXCEPT !.mday = 1, !.mon = @ + 1]
         [] OTHER -> [midnight EXCEPT !.mday = 1, !.mon = 1, !.year = @ + 1]

\* The registers of the chip: two digits each, in BCD.
Bcd(n) == 16 * (n \div 10) + (n % 10)
Register(t) == <<Bcd(t.sec), Bcd(t.min), Bcd(t.hour), Bcd(t.mday), Bcd(t.mon), Bcd(t.year % 100)>>

-----------------------------------------------------------------------------
(* kernel_mktime *)

\* Days of a leap year before each month, month[] / DAY.
MonthDays == <<0, 31, 60, 91, 121, 152, 182, 213, 244, 274, 305, 335>>

\* Faulty variant: the leap day counts from the first day of the leap year.
LeapAdjustedFromStart(year, mon) == IF (year + 2) % 4 # 0 \/ mon <= 1 THEN 1 ELSE 0
LeapAdjusted(year, mon) == IF mon > 1 /\ (year + 2) % 4 # 0 THEN 1 ELSE 0

\* 2^31 seconds, and 2^32.
Overflow == <<24855, 11648>>
Modulus == <<49710, 23296>>

\* What a signed 32-bit long makes of a number of seconds below 2^32.
Long(days, secs) ==
  IF days > Overflow[1] \/ (days = Overflow[1] /\ secs >= Overflow[2])
  THEN <<days - Modulus[1], secs - Modulus[2]>>
  ELSE <<days, secs>>

KernelMktime(sec, min, hour, mday, mon, tm_year) ==
  LET year == (IF tm_year < 70 THEN tm_year + 100 ELSE tm_year) - 70
      days == 365 * year + (year + 1) \div 4 + MonthDays[mon + 1]
              - LeapAdjusted(year, mon) + (mday - 1)
  IN  Long(days, 3600 * hour + 60 * min + sec)

-----------------------------------------------------------------------------
(* time_init *)

BcdToBin(val) == (val % 16) + (val \div 16) * 10

TimeInit ==
  /\ now = CHOOSE t \in Starts : TRUE
  /\ tm = <<>> /\ at = 0
  /\ startup_time = <<0, 0>> /\ seen = now
  /\ ticks = 0

\* What time it is did not matter until here.
Begin ==
  /\ at = 0 /\ at' = 1
  /\ now' \in Starts
  /\ UNCHANGED <<tm, startup_time, seen, ticks>>

ReadRegister ==
  /\ at \in 1 .. 6
  /\ tm' = Append(tm, Register(now)[at])
  /\ at' = at + 1
  /\ UNCHANGED <<now, startup_time, seen, ticks>>

\* Faulty variant: the register read again is that of the minutes.
ReadAgainMinute == at = 7 /\ tm[1] # Register(now)[2]
ReadAgain == at = 7 /\ tm[1] # Register(now)[1]

Repeat ==
  /\ ReadAgain
  /\ tm' = <<>> /\ at' = 1
  /\ UNCHANGED <<now, startup_time, seen, ticks>>

Finish ==
  /\ at = 7 /\ ~ReadAgain
  /\ at' = 8
  /\ LET b == [i \in 1 .. 6 |-> BcdToBin(tm[i])] IN
     startup_time' = KernelMktime(b[1], b[2], b[3], b[4], b[5] - 1, b[6])
  /\ seen' = now
  /\ UNCHANGED <<now, tm, ticks>>

Tick ==
  /\ at \in 1 .. 7 /\ ticks < MaxTicks
  /\ now' = NextSecond(now)
  /\ ticks' = ticks + 1
  /\ UNCHANGED <<tm, at, startup_time, seen>>

ReadClock == Begin \/ ReadRegister \/ Repeat \/ Finish

-----------------------------------------------------------------------------
(* Properties *)

\* startup_time is the time at which the loop ended, in seconds since 1970 as a long
\* holds them, even if a day or a year passed between the reads of the registers.
\* From January 2038 on a long makes a negative number of them.
StartsRight ==
  at = 8 => LET t == SecondsSince1970(seen) IN startup_time = Long(t[1], t[2])
=============================================================================
