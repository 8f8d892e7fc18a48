---------------------------- MODULE RepeatDates -----------------------------
(***************************************************************************)
(* The due dates of one repeating payment (nextDue and businessDay in      *)
(* src/bank/schedule.js), one after the other.                             *)
(***************************************************************************)
EXTENDS Calendar

CONSTANTS FirstDays,  \* days a schedule may start on
          LastDue,    \* bound: no due date is followed past this day
          Overflow    \* the planted fault bankMonthlyRepeatOverflow is armed

ASSUME DatesAssumption == FirstDays \subseteq Nat /\ Overflow \in BOOLEAN

VARIABLES repeat, anchor, nextDue

dueVars == <<repeat, anchor, nextDue>>

\* Mutant: the day of the week is kept for the day of the month.
FirstDueWeekday ==
  /\ repeat \in {"weekly", "monthly"}
  /\ nextDue \in FirstDays
  /\ anchor = DayOfWeek(nextDue)

\* A new schedule keeps the day of the month of its first date.
FirstDue ==
  /\ repeat \in {"weekly", "monthly"}
  /\ nextDue \in FirstDays
  /\ anchor = DateOf(nextDue).d

Advance ==
  /\ nextDue <= LastDue
  /\ nextDue' = NextDue(nextDue, repeat, anchor, Overflow)
  /\ UNCHANGED <<repeat, anchor>>

-----------------------------------------------------------------------------
Months(day) == 12 * DateOf(day).y + DateOf(day).m

\* Taking a day apart and putting it together gives the day, and the date is one
\* the calendar has: what Date and toISOString promise the code.
DateIsReal ==
  LET date == DateOf(nextDue) IN
  /\ DayOf(date) = nextDue
  /\ date.m \in 1..12
  /\ date.d \in 1..DaysInMonth(date.y, date.m)

\* A monthly payment made for the 31st is due on the 31st of every month that
\* has one and on the last day of every other: a short month never moves the
\* months after it.
KeepsItsDay ==
  repeat = "monthly" =>
    LET date == DateOf(nextDue)
        last == DaysInMonth(date.y, date.m)
    IN date.d = IF anchor <= last THEN anchor ELSE last

\* Every month is paid once, none twice and none left out, over year ends and
\* leap years; every week on the weekday it started on.
NextPeriod ==
  IF repeat = "monthly"
    THEN Months(nextDue') = Months(nextDue) + 1
    ELSE DayOfWeek(nextDue') = DayOfWeek(nextDue) /\ nextDue' = nextDue + 7

\* A payment runs on a weekday, at most two days late, and two periods of one
\* schedule never fall on the same run day or run out of order.
RunsInOrder ==
  /\ DayOfWeek(BusinessDay(nextDue)) \in 1..5
  /\ BusinessDay(nextDue) \in nextDue..(nextDue + 2)
  /\ BusinessDay(nextDue) < nextDue'
  /\ BusinessDay(nextDue) < BusinessDay(nextDue')

\* One due date follows the other as the four say, however many follow.
NoneSkipped ==
  [][nextDue' # nextDue => DateIsReal /\ KeepsItsDay' /\ NextPeriod /\ RunsInOrder]_dueVars
=============================================================================
