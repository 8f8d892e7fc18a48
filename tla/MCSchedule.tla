----------------------------- MODULE MCSchedule -----------------------------
(***************************************************************************)
(* A weekly payment that falls on Saturdays and a one-time payment due on  *)
(* the Sunday in between (day 9 is Saturday 1970-01-10); and the dates of  *)
(* one payment, from every first day of a winter over the end of a century *)
(* that has no leap day.  A behaviour follows one of the two.  The customer*)
(* comes on day 17, a Sunday, with one period due and the next one not yet;*)
(* a clock eight days later makes three due, so a sweep after one that     *)
(* failed stops at MaxRuns = 2 of them.                                    *)
(***************************************************************************)
EXTENDS ScheduledPayments, RepeatDates, TLC

CONSTANTS rent, gift, r1, r2

MCDueOn ==
  [s \in Schedule |-> [k \in Period |-> 7 * k + IF s = rent THEN 2 ELSE 3]]
MCAmount == [s \in Schedule |-> IF s = rent THEN 1 ELSE 2]
MCCreated == [s \in Schedule |-> IF s = rent THEN 1 ELSE 2]
MCFirstDays == DayOf([y |-> 2095, m |-> 12, d |-> 20])..DayOf([y |-> 2096, m |-> 3, d |-> 31])
MCLastDue == DayOf([y |-> 2105, m |-> 3, d |-> 1])
Symmetry == Permutations(Request)

VARIABLE follows  \* "dates" or "sweep"

FollowsSweep ==
  follows = "sweep" /\ repeat = "weekly" /\ anchor = 1
    /\ nextDue = CHOOSE day \in FirstDays : TRUE
LiveInit == Init /\ FollowsSweep
MCInit == LiveInit \/ (Init /\ follows = "dates" /\ FirstDue)

\* The dates end where the bound is.
DatesEnd == nextDue > LastDue /\ UNCHANGED dueVars

SweepStep == Next /\ UNCHANGED <<follows, dueVars>>
MCNext ==
  \/ follows = "dates" /\ (Advance \/ DatesEnd) /\ UNCHANGED <<follows, vars>>
  \/ follows = "sweep" /\ SweepStep

MCSpec == MCInit /\ [][MCNext]_<<follows, dueVars, vars>>

\* The sweep alone, and fair.
LiveSpec == LiveInit /\ [][SweepStep]_<<follows, dueVars, vars>> /\ Fairness
=============================================================================
