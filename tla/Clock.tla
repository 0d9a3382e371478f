---------------------------------- MODULE Clock --------------------------------
(****************************************************************************)
(* The time of kernel/dev/time.c: time_read_bcd, which reads the registers  *)
(* of the real-time clock (external) while it goes on, and the two          *)
(* calendars: sys_mktime, which makes seconds of what was read, and         *)
(* fml_stamp_to_time, which makes a date of seconds.                        *)
(*                                                                          *)
(* The first machine reads a clock of three registers; the second walks     *)
(* over the days of some years.                                             *)
(****************************************************************************)
EXTENDS Integers

CONSTANTS
  Radix,  \* values of a register of the clock that is read
  Years   \* the years to walk over

ASSUME ClockAssumption == Radix \in Nat \ {0, 1} /\ Years \subseteq 1970..2037

VARIABLES
  now,      \* the clock: seconds since it was set
  tm,       \* what time_read_bcd has read of it
  register, \* the next register it reads; "again" is the comparison
  since,    \* history: seconds since it read the first
  date,     \* the day of the walk: [year, mon, mday]
  days      \* days since 1970

readvars == <<now, tm, register, since>>
walkvars == <<date, days>>
clockvars == <<readvars, walkvars>>

-----------------------------------------------------------------------------
Registers(n) == [sec |-> n % Radix, min |-> (n \div Radix) % Radix, hour |-> n \div (Radix * Radix)]

ReadInit ==
  /\ now \in 0..(Radix * Radix * Radix - 1)
  /\ tm = Registers(0) /\ register = "sec" /\ since = 0

\* The clock's step.  A pass over the registers takes no minute, and the clock
\* stops in the last hour of the model.
Second ==
  /\ since < Radix - 1 /\ now < Radix * Radix * Radix - 1
  /\ now' = now + 1 /\ since' = since + 1
  /\ UNCHANGED <<tm, register>>

cmos_read ==
  /\ register \in {"sec", "min", "hour"}
  /\ tm' = [tm EXCEPT ![register] = Registers(now)[register]]
  /\ register' = CASE register = "sec" -> "min" [] register = "min" -> "hour"
                   [] register = "hour" -> "again"
  /\ since' = IF register = "sec" THEN 0 ELSE since
  /\ UNCHANGED now

\* MUTANT of Unchanged: what was read is taken as it is.
Unchanged_Trusted == TRUE

\* The second is still the one that was read first.
Unchanged == tm.sec = Registers(now).sec

\* The end of the loop, or of time_read_bcd.
ReadAgain ==
  /\ register = "again"
  /\ register' = IF Unchanged THEN "done" ELSE "sec"
  /\ UNCHANGED <<now, tm, since>>

\* The caller has the time; the next call of time_read.
ReadNext ==
  /\ register = "done"
  /\ register' = "sec"
  /\ UNCHANGED <<now, tm, since>>

-----------------------------------------------------------------------------
\* The Gregorian calendar, as the reference.
Leap(y)        == y % 4 = 0 /\ (y % 100 # 0 \/ y % 400 = 0)
MonthDays(y)   == <<31, IF Leap(y) THEN 29 ELSE 28, 31, 30, 31, 30, 31, 31, 30, 31, 30, 31>>
DaysBefore(y)  == 365 * (y - 1970) + (y - 1969) \div 4

WalkInit == \E y \in Years : /\ date = [year |-> y, mon |-> 1, mday |-> 1]
                             /\ days = DaysBefore(y)

NextDay ==
  /\ \/ /\ date.mday < MonthDays(date.year)[date.mon]
        /\ date' = [date EXCEPT !.mday = @ + 1]
     \/ /\ date.mday = MonthDays(date.year)[date.mon] /\ date.mon < 12
        /\ date' = [date EXCEPT !.mon = @ + 1, !.mday = 1]
  /\ days' = days + 1

\* The last day of the year ends the walk.
EndOfYear == date.mon = 12 /\ date.mday = 31 /\ UNCHANGED walkvars

-----------------------------------------------------------------------------
\* month[]: the days before each month in a leap year.
month == <<0, 31, 60, 91, 121, 152, 182, 213, 244, 274, 305, 335>>

\* The years since 1970, of the two digits that the clock has.
SinceEpoch(yy) == IF yy >= 70 THEN yy - 70 ELSE yy + 30

\* MUTANT of sys_mktime: the leap day is not taken off a common year.
sys_mktime_Leap(d) ==
  LET year == SinceEpoch(d.year % 100)
  IN 365 * year + (year + 1) \div 4 + month[d.mon] + d.mday - 1

\* In days: the time of the day is added to it.
sys_mktime(d) ==
  LET year == SinceEpoch(d.year % 100)
  IN 365 * year + (year + 1) \div 4 + month[d.mon]
       - (IF d.mon > 2 /\ (year + 2) % 4 # 0 THEN 1 ELSE 0) + d.mday - 1

get_yday(d) ==
  LET year == SinceEpoch(d.year % 100)
  IN month[d.mon] + d.mday - (IF d.mon > 2 /\ (year + 2) % 4 # 0 THEN 1 ELSE 0)

YearDays(y) == IF Leap(y) THEN 366 ELSE 365

\* A round of the loop of fml_stamp_to_time over the years; d.left of the days are left.
YearRound(d) ==
  IF d.left < YearDays(d.year) THEN d
  ELSE [year |-> d.year + 1, mon |-> d.mon, left |-> d.left - YearDays(d.year)]

\* One of the loop over the months: && binds more than ||, and every month of
\* the year 2000 has 29 days.
MonthRound(d) ==
  LET y     == d.year
      mdays == IF (d.mon = 1 /\ y % 4 = 0 /\ y % 100 # 0) \/ y % 400 = 0 THEN 29
               ELSE MonthDays(1970)[d.mon + 1]
  IN IF d.mon = 12 \/ d.left < mdays THEN d
     ELSE [year |-> y, mon |-> d.mon + 1, left |-> d.left - mdays]

\* So many rounds at most: a loop that has ended stays as it is.
fml_stamp_to_time(n) ==
  LET years == n \div 365
      round[k \in 0..(years + 12)] ==
        IF k = 0 THEN [year |-> 1970, mon |-> 0, left |-> n]
        ELSE IF k <= years THEN YearRound(round[k - 1])
        ELSE MonthRound(round[k - 1])
      end == round[years + 12]
  IN [year |-> end.year, mon |-> end.mon + 1, mday |-> end.left + 1]

ClockInit == ReadInit /\ WalkInit

ReadClock == Second \/ cmos_read \/ ReadAgain \/ ReadNext
Walk      == NextDay \/ EndOfYear

\* The two machines side by side.
ClockNext == (ReadClock /\ UNCHANGED walkvars) \/ (Walk /\ UNCHANGED readvars)

ClockSpec == ClockInit /\ [][ClockNext]_clockvars

-----------------------------------------------------------------------------
\* What time_read_bcd returns is the time of one instant between its first and
\* its last look at the clock, though the registers change while it reads
\* them; and for every day until 2038 sys_mktime counts the days since 1970,
\* and fml_stamp_to_time makes the day of them, in every year but 2000.
ClocksAgree ==
  /\ register = "done" => \E s \in 0..since : tm = Registers(now - s)
  /\ sys_mktime(date) = days
  /\ get_yday(date) = days - DaysBefore(date.year) + 1
  /\ date.year # 2000 => fml_stamp_to_time(days) = date
=============================================================================
