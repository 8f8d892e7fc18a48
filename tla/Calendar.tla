------------------------------ MODULE Calendar ------------------------------
(***************************************************************************)
(* The calendar of scheduled payments (src/bank/schedule.js): which day a  *)
(* repeat comes round to, and which day a payment due on a weekend runs.   *)
(*                                                                         *)
(* A date is [y, m, d], as the code takes "YYYY-MM-DD" apart; a day is the *)
(* number of days since 1970-01-01, which was a Thursday.                  *)
(***************************************************************************)
EXTENDS Integers

Leap(y) == (y % 4 = 0 /\ y % 100 # 0) \/ y % 400 = 0

\* How many days month m of year y has.
DaysInMonth(y, m) ==
  CASE m = 2 -> IF Leap(y) THEN 29 ELSE 28
    [] m \in {4, 6, 9, 11} -> 30
    [] OTHER -> 31

LeapDaysBefore(y) ==
  ((y - 1) \div 4) - ((y - 1) \div 100) + ((y - 1) \div 400)

DaysBeforeMonth(y, m) ==
  LET start == <<0, 31, 59, 90, 120, 151, 181, 212, 243, 273, 304, 334>>
  IN start[m] + IF m > 2 /\ Leap(y) THEN 1 ELSE 0

\* Date.UTC: the day of a date.  A d beyond the end of its month rolls over
\* into the months after it.
DayOf(date) ==
  365 * (date.y - 1970) + LeapDaysBefore(date.y) - LeapDaysBefore(1970)
    + DaysBeforeMonth(date.y, date.m) + date.d - 1

\* Mutant: days of the month counted from zero.
DateOfZero(day) ==
  LET y == CHOOSE y \in 1970..2200 :
             /\ DayOf([y |-> y, m |-> 1, d |-> 1]) <= day
             /\ day < DayOf([y |-> y + 1, m |-> 1, d |-> 1])
      m == CHOOSE m \in 1..12 :
             day - DayOf([y |-> y, m |-> m, d |-> 1]) \in 0..(DaysInMonth(y, m) - 1)
  IN [y |-> y, m |-> m, d |-> day - DayOf([y |-> y, m |-> m, d |-> 1])]

DateOf(day) ==
  LET y == CHOOSE y \in (1969 + day \div 366)..(1970 + day \div 365) :
             /\ DayOf([y |-> y, m |-> 1, d |-> 1]) <= day
             /\ day < DayOf([y |-> y + 1, m |-> 1, d |-> 1])
      m == CHOOSE m \in 1..12 :
             day - DayOf([y |-> y, m |-> m, d |-> 1]) \in 0..(DaysInMonth(y, m) - 1)
  IN [y |-> y, m |-> m, d |-> day - DayOf([y |-> y, m |-> m, d |-> 1]) + 1]

\* 0 is Sunday.
DayOfWeek(day) == (day + 4) % 7

\* Mutant: Saturday's payment is moved by one day only.
BusinessDayShort(day) == IF DayOfWeek(day) \in {0, 6} THEN day + 1 ELSE day

\* A payment due on a Saturday or a Sunday runs on the Monday after.
BusinessDay(day) ==
  CASE DayOfWeek(day) = 6 -> day + 2
    [] DayOfWeek(day) = 0 -> day + 1
    [] OTHER -> day

\* Mutant: the next month keeps the day of this one, not the schedule's.
MonthAfterDrift(date, anchor, overflow) ==
  LET y == IF date.m = 12 THEN date.y + 1 ELSE date.y
      m == IF date.m = 12 THEN 1 ELSE date.m + 1
      last == DaysInMonth(y, m)
  IN DayOf([y |-> y, m |-> m, d |-> IF date.d <= last THEN date.d ELSE last])

\* Mutant: the day is not clamped to the month.
MonthAfterRolls(date, anchor, overflow) ==
  DayOf([y |-> IF date.m = 12 THEN date.y + 1 ELSE date.y,
         m |-> IF date.m = 12 THEN 1 ELSE date.m + 1, d |-> anchor])

\* The month after date's, keeping the day the schedule was made for where
\* that month has one.  With the planted fault bankMonthlyRepeatOverflow the
\* day is not clamped and rolls over.
MonthAfter(date, anchor, overflow) ==
  LET y == IF date.m = 12 THEN date.y + 1 ELSE date.y
      m == IF date.m = 12 THEN 1 ELSE date.m + 1
      last == DaysInMonth(y, m)
  IN DayOf([y |-> y, m |-> m,
            d |-> IF overflow \/ anchor <= last THEN anchor ELSE last])

\* The day after `day` for a repeat that comes again.
NextDue(day, repeat, anchor, overflow) ==
  IF repeat = "weekly" THEN day + 7 ELSE MonthAfter(DateOf(day), anchor, overflow)
=============================================================================
