-------------------------- MODULE ScheduledPayments -------------------------
(***************************************************************************)
(* Scheduled bill payments (src/bank/schedule.js) and the sweep that pays  *)
(* them (the top of route in src/bank/routes.js).                          *)
(*                                                                         *)
(* Nothing runs in the background.  Every request of the customer first    *)
(* pays what is due on the customer's own clock, and several requests of   *)
(* the customer can be under way at once.  A request takes one step per    *)
(* SQL statement, and one for the transaction of payBill, which BankMoney  *)
(* shows to be atomic.  Any statement may fail, and the server may stop.   *)
(*                                                                         *)
(* The k-th due date of a schedule is DueOn[s][k]; RepeatDates is about    *)
(* how the dates follow each other.                                        *)
(***************************************************************************)
EXTENDS Sequences, FiniteSets, Calendar

CONSTANTS
  Schedule,
  Once,         \* the schedules that do not repeat
  Periods,      \* bound: how many due dates of a schedule are given
  DueOn,        \* [Schedule -> [1..Periods -> day]]
  Amount,       \* [Schedule -> cents]
  Created,      \* [Schedule -> Nat]: created_at, which settles equal due dates
  Standing,     \* the schedules that exist at the start
  Request,      \* the customer's requests; each may be made again
  Advances,     \* days the customer moves the clock by
  MaxOffset,    \* MAX_OFFSET_DAYS
  MaxRuns,      \* MAX_RUNS_PER_SWEEP
  FirstDay,     \* the real date at the start
  LastDay,      \* bound: the real date stops here
  OpeningBalance, MaxBalance,  \* bound: no deposit goes past MaxBalance
  MaxFailures   \* bound: statements that fail and server stops

Period == 1..Periods

ASSUME ScheduleAssumption ==
  /\ IsFiniteSet(Schedule)
  /\ Periods \in Nat \ {0}
  /\ Once \subseteq Schedule
  /\ DueOn \in [Schedule -> [Period -> Nat]]
  /\ Amount \in [Schedule -> Nat \ {0}]
  /\ Created \in [Schedule -> Nat]
  /\ Standing \subseteq Schedule
  /\ Advances \subseteq Nat \ {0}
  /\ MaxOffset \in Nat
  /\ MaxRuns \in Nat \ {0}
  /\ FirstDay \in Nat /\ LastDay \in Nat
  /\ OpeningBalance \in Nat /\ MaxBalance \in Nat /\ MaxFailures \in Nat

VARIABLES
  schedule,  \* bank_scheduled_payments: status, period of next_due, runs,
             \* last_result
  paid,      \* how often each period of each schedule was paid
  balance,   \* the account all schedules pay from
  told,      \* the notifications written: <<schedule, period, result>>
  realDay,   \* the real date
  offset,    \* bank_clocks.offset_days
  request,   \* what each request is doing
  failures   \* bound: failures so far

vars == <<schedule, paid, balance, told, realDay, offset, request, failures>>
rows == <<schedule, paid, balance, told>>
clock == <<realDay, offset>>

Idle == [pc |-> "idle", today |-> 0, queue |-> << >>, steps |-> 0,
         result |-> "none", offset |-> 0, swept |-> FALSE]

Init ==
  /\ schedule = [s \in Schedule |->
       [status |-> IF s \in Standing THEN "active" ELSE "new",
        due |-> 1, runs |-> 0, result |-> "none"]]
  /\ paid = [s \in Schedule |-> [k \in Period |-> 0]]
  /\ balance = OpeningBalance
  /\ told = {}
  /\ realDay = FirstDay
  /\ offset = 0
  /\ request = [r \in Request |-> Idle]
  /\ failures = 0

Today == realDay + offset

At(r, pc) == request[r].pc = pc

\* Request r goes on from the local state q.
Now(r, q) == request' = [request EXCEPT ![r] = q]

Goto(r, pc) == Now(r, [request[r] EXCEPT !.pc = pc])

\* What the sweep of r is looking at.
Current(r) == Head(request[r].queue)

\* Mutant: the weekend is forgotten.
DueByUnshifted(s, k, day) == k \in Period /\ DueOn[s][k] <= day

\* A schedule whose given dates have run out is not due.
DueBy(s, k, day) == k \in Period /\ BusinessDay(DueOn[s][k]) <= day

\* Where a sweep goes on once it is over: to what the customer asked for, or,
\* after the second sweep of a clock move, to the answer.
AfterSweep(q) ==
  IF q.swept THEN Idle ELSE [Idle EXCEPT !.pc = "act", !.swept = TRUE]

\* ... and once it is done with the schedule in hand.
NextRow(q) ==
  LET rest == Tail(q.queue)
  IN IF rest = << >> THEN AfterSweep(q)
     ELSE [q EXCEPT !.pc = "lookup", !.queue = rest, !.steps = 1,
                       !.result = "none"]

-----------------------------------------------------------------------------
\* A request arrives, or the clock has moved: the sweep reads the customer's
\* clock.
ReadClock(r) ==
  /\ request[r].pc \in {"idle", "clock"}
  /\ Now(r, [request[r] EXCEPT !.pc = "select", !.today = Today])
  /\ UNCHANGED <<rows, clock, failures>>

\* ORDER BY next_due, created_at.
Sooner(a, b) ==
  \/ DueOn[a.s][a.k] < DueOn[b.s][b.k]
  \/ DueOn[a.s][a.k] = DueOn[b.s][b.k] /\ Created[a.s] < Created[b.s]

InOrder(S) ==
  {q \in [1..Cardinality(S) -> S] :
     \A i, j \in 1..Cardinality(S) : i < j => Sooner(q[i], q[j])}

\* The active schedules whose run day has come, as they are now: the sweep
\* works on these copies.
Due(day) ==
  {[s |-> s, k |-> schedule[s].due] :
     s \in {x \in Schedule : /\ schedule[x].status = "active"
                             /\ DueBy(x, schedule[x].due, day)}}

Select(r) ==
  /\ At(r, "select")
  /\ \E queue \in InOrder(Due(request[r].today)) :
       Now(r, IF queue = << >> THEN AfterSweep(request[r])
              ELSE [request[r] EXCEPT !.pc = "lookup", !.queue = queue, !.steps = 1])
  /\ UNCHANGED <<rows, clock, failures>>

\* Mutant: a period already paid is left as it is.
LookUpSkips(r) ==
  LET c == Current(r) IN
  /\ At(r, "lookup")
  /\ Now(r, IF paid[c.s][c.k] > 0 THEN NextRow(request[r])
                                  ELSE [request[r] EXCEPT !.pc = "pay"])
  /\ UNCHANGED <<rows, clock, failures>>

\* payBill: findPaymentByKey, with the key "scheduled:<schedule>:<due date>".
LookUp(r) ==
  LET c == Current(r) IN
  /\ At(r, "lookup")
  /\ Now(r, IF paid[c.s][c.k] > 0
              THEN [request[r] EXCEPT !.pc = "notify", !.result = "paid"]
              ELSE [request[r] EXCEPT !.pc = "pay"])
  /\ UNCHANGED <<rows, clock, failures>>

\* Mutant: the debit does not ask whether the balance covers it.
PayUncovered(r) ==
  LET c == Current(r) IN
  /\ At(r, "pay")
  /\ paid' = [paid EXCEPT ![c.s][c.k] = 1]
  /\ balance' = balance - Amount[c.s]
  /\ Now(r, [request[r] EXCEPT !.pc = "notify", !.result = "paid"])
  /\ UNCHANGED <<schedule, told, clock, failures>>

\* Mutant: the payment carries no key.
PayUnkeyed(r) ==
  LET c == Current(r)
      short == balance < Amount[c.s]
  IN
  /\ At(r, "pay")
  /\ IF short
       THEN UNCHANGED <<paid, balance>>
       ELSE /\ paid' = [paid EXCEPT ![c.s][c.k] = @ + 1]
            /\ balance' = balance - Amount[c.s]
  /\ Now(r, [request[r] EXCEPT !.pc = "notify",
                               !.result = IF short THEN "failed" ELSE "paid"])
  /\ UNCHANGED <<schedule, told, clock, failures>>

\* Mutant: too little money is not noticed by the sweep.
PayHopeful(r) ==
  LET c == Current(r) IN
  /\ At(r, "pay")
  /\ IF balance < Amount[c.s] \/ paid[c.s][c.k] > 0
       THEN UNCHANGED <<paid, balance>>
       ELSE /\ paid' = [paid EXCEPT ![c.s][c.k] = @ + 1]
            /\ balance' = balance - Amount[c.s]
  /\ Now(r, [request[r] EXCEPT !.pc = "notify", !.result = "paid"])
  /\ UNCHANGED <<schedule, told, clock, failures>>

\* payBill's transaction: the debit asks for the money first, then the unique
\* key decides whether the payment is a replay.
Pay(r) ==
  LET c == Current(r)
      short == balance < Amount[c.s]
      replay == ~short /\ paid[c.s][c.k] > 0
  IN
  /\ At(r, "pay")
  /\ IF short \/ replay
       THEN UNCHANGED <<paid, balance>>
       ELSE /\ paid' = [paid EXCEPT ![c.s][c.k] = @ + 1]
            /\ balance' = balance - Amount[c.s]
  /\ Now(r, [request[r] EXCEPT !.pc = "notify",
                               !.result = IF short THEN "failed" ELSE "paid"])
  /\ UNCHANGED <<schedule, told, clock, failures>>

Notify(r) ==
  /\ At(r, "notify")
  /\ told' = told \cup {<<Current(r).s, Current(r).k, request[r].result>>}
  /\ Goto(r, "move")
  /\ UNCHANGED <<schedule, paid, balance, clock, failures>>

\* Mutant: the result is written as paid whatever it was.
MovedOnPaid(s, result) ==
  [status |-> IF s \notin Once THEN "active" ELSE "done",
   due |-> IF s \in Once THEN schedule[s].due ELSE schedule[s].due + 1,
   runs |-> schedule[s].runs + 1,
   result |-> "paid"]

\* The schedule after the period it stood at: a one-time payment is over, a
\* repeat goes on to its next date.
MovedOn(s, result) ==
  [status |-> IF s \notin Once THEN "active"
              ELSE IF result = "paid" THEN "done" ELSE "failed",
   due |-> IF s \in Once THEN schedule[s].due ELSE schedule[s].due + 1,
   runs |-> schedule[s].runs + 1,
   result |-> result]

\* Mutant: the due date is not compared.
StillActive(c) == schedule[c.s].status = "active"

\* Mutant: the status is not compared.
StillDue(c) == schedule[c.s].due = c.k

\* The compare-and-set on status and due date.  If it applies and the next
\* date has come too, the loop goes on, at most MaxRuns times; if another
\* sweep has been here, the loop ends.
StillHere(c) == schedule[c.s].status = "active" /\ schedule[c.s].due = c.k

Move(r) ==
  LET q == request[r]
      c == Current(r)
      again == /\ c.s \notin Once
               /\ DueBy(c.s, c.k + 1, q.today)
               /\ q.steps < MaxRuns
  IN
  /\ At(r, "move")
  /\ IF StillHere(c)
       THEN /\ schedule' = [schedule EXCEPT ![c.s] = MovedOn(c.s, q.result)]
            /\ Now(r, IF again
                        THEN [q EXCEPT !.pc = "lookup", !.steps = @ + 1,
                                       !.result = "none",
                                       !.queue = <<[c EXCEPT !.k = @ + 1]>> \o Tail(@)]
                        ELSE NextRow(q))
       ELSE UNCHANGED schedule /\ Now(r, NextRow(q))
  /\ UNCHANGED <<paid, balance, told, clock, failures>>

Sweeping == {"select", "lookup", "pay", "notify", "move"}

\* A statement of the sweep fails: the whole run ends there, schedules behind
\* the one in hand included.  Before the route's own work the error is logged
\* and the request goes on.  A connection lost at COMMIT may have paid.
SweepFails(r) ==
  LET c == Current(r) IN
  /\ request[r].pc \in Sweeping
  /\ failures < MaxFailures
  /\ failures' = failures + 1
  /\ Now(r, AfterSweep(request[r]))
  /\ \/ UNCHANGED <<paid, balance>>
     \/ /\ At(r, "pay")
        /\ balance >= Amount[c.s]
        /\ paid[c.s][c.k] = 0
        /\ paid' = [paid EXCEPT ![c.s][c.k] = 1]
        /\ balance' = balance - Amount[c.s]
  /\ UNCHANGED <<schedule, told, clock>>

\* The server stops: no request gets an answer.
ServerStops ==
  /\ failures < MaxFailures
  /\ failures' = failures + 1
  /\ \E r \in Request : ~At(r, "idle")
  /\ request' = [r \in Request |-> Idle]
  /\ UNCHANGED <<rows, clock>>

-----------------------------------------------------------------------------
(* What the request came for, after its sweep.                             *)

Visit(r) ==
  /\ At(r, "act")
  /\ Now(r, Idle)
  /\ UNCHANGED <<rows, clock, failures>>

\* Money comes in.
Deposit(r) ==
  /\ At(r, "act")
  /\ balance' = IF balance < MaxBalance THEN balance + 1 ELSE balance
  /\ Now(r, Idle)
  /\ UNCHANGED <<schedule, paid, told, clock, failures>>

Cancel(r, s) ==
  /\ At(r, "act")
  /\ schedule' = IF schedule[s].status = "active"
                   THEN [schedule EXCEPT ![s].status = "cancelled"]
                   ELSE schedule
  /\ Now(r, Idle)
  /\ UNCHANGED <<paid, balance, told, clock, failures>>

\* A schedule may start today or later: today is read here and the schedule is
\* saved later.
ReadToday(r) ==
  /\ At(r, "act")
  /\ Now(r, [request[r] EXCEPT !.pc = "create", !.today = Today])
  /\ UNCHANGED <<rows, clock, failures>>

Create(r, s) ==
  /\ At(r, "create")
  /\ schedule' = IF schedule[s].status = "new" /\ DueOn[s][1] >= request[r].today
                   THEN [schedule EXCEPT ![s].status = "active"]
                   ELSE schedule
  /\ Now(r, Idle)
  /\ UNCHANGED <<paid, balance, told, clock, failures>>

\* advanceClock reads the offset, compares it with the limit, and adds the
\* days in another statement; then what has come due is paid.
ReadOffset(r) ==
  /\ At(r, "act")
  /\ Now(r, [request[r] EXCEPT !.pc = "advance", !.offset = offset])
  /\ UNCHANGED <<rows, clock, failures>>

MoveClock(r) ==
  /\ At(r, "advance")
  /\ \E days \in Advances :
       IF request[r].offset + days > MaxOffset
         THEN Now(r, Idle) /\ UNCHANGED offset
         ELSE /\ offset' = offset + days
              /\ Now(r, [Idle EXCEPT !.pc = "clock", !.swept = TRUE])
  /\ UNCHANGED <<rows, realDay, failures>>

ResetClock(r) ==
  /\ At(r, "act")
  /\ offset' = 0
  /\ Now(r, Idle)
  /\ UNCHANGED <<rows, realDay, failures>>

Midnight ==
  /\ realDay < LastDay
  /\ realDay' = realDay + 1
  /\ UNCHANGED <<rows, offset, request, failures>>

Sweep(r) ==
  \/ ReadClock(r)
  \/ Select(r)
  \/ LookUp(r)
  \/ Pay(r)
  \/ Notify(r)
  \/ Move(r)

Act(r) ==
  \/ Visit(r)
  \/ Deposit(r)
  \/ ReadToday(r)
  \/ \E s \in Schedule : Cancel(r, s) \/ Create(r, s)
  \/ ReadOffset(r)
  \/ MoveClock(r)
  \/ ResetClock(r)

Next ==
  \/ \E r \in Request :
       \/ Sweep(r)
       \/ Act(r)
       \/ SweepFails(r)
  \/ ServerStops
  \/ Midnight

\* The customer keeps coming back, and a request under way goes on.
Fairness ==
  \A r \in Request : WF_vars(Sweep(r)) /\ WF_vars(Act(r))

Spec == Init /\ [][Next]_vars
FairSpec == Spec /\ Fairness

-----------------------------------------------------------------------------
Statuses == {"new", "active", "done", "failed", "cancelled"}
Results == {"none", "paid", "failed"}
Copy == [s : Schedule, k : Period]
PCs == {"idle", "clock", "act", "advance", "create"} \cup Sweeping
Requests == [pc : PCs, today : Nat, queue : Seq(Copy), steps : Nat,
             result : Results, offset : Nat, swept : BOOLEAN]

TypeOK ==
  /\ schedule \in [Schedule -> [status : Statuses, due : 1..(Periods + 1),
                               runs : Nat, result : Results]]
  /\ paid \in [Schedule -> [Period -> Nat]]
  /\ balance \in Nat
  /\ told \subseteq Schedule \X Period \X Results
  /\ realDay \in Nat
  /\ offset \in Nat
  /\ request \in [Request -> Requests]
  /\ failures \in Nat

\* The periods a schedule has left behind.
Passed(s) ==
  IF s \in Once THEN IF schedule[s].status \in {"done", "failed"} THEN {1} ELSE {}
  ELSE 1..(schedule[s].due - 1)

Told(s, k, result) == <<s, k, result>> \in told

\* However many requests sweep at once, fail on the way or come again, a
\* period is paid at most once, never ahead of the schedule, and never told as
\* paid when it was not.
PaidAtMostOnce ==
  \A s \in Schedule, k \in Period :
    /\ paid[s][k] <= 1
    /\ paid[s][k] > 0 \/ Told(s, k, "failed") => k <= schedule[s].due
    /\ Told(s, k, "paid") => paid[s][k] > 0

\* No period is passed over in silence: a schedule only leaves a due date
\* behind after the customer was told how it went, and it counts each one; the
\* result it shows for its last period is one the customer was told, and "paid"
\* there means paid.
EveryPeriodIsTold ==
  \A s \in Schedule :
    LET last == IF s \in Once THEN 1 ELSE schedule[s].due - 1
        result == schedule[s].result
    IN /\ schedule[s].runs = Cardinality(Passed(s))
       /\ \A k \in Passed(s) : Told(s, k, "paid") \/ Told(s, k, "failed")
       /\ result # "none" => /\ Told(s, last, result)
                             /\ result = "paid" => paid[s][last] = 1

\* What a sweep has in hand: copies of schedules that were at that date or
\* have gone past it, due on the day it read; a result it has told or will tell;
\* one that says "paid" is of a period that is paid.
CopyOK(c, today) ==
  c.k <= schedule[c.s].due /\ BusinessDay(DueOn[c.s][c.k]) <= today

SweepOK(q) ==
  /\ q.pc \in {"lookup", "pay", "notify", "move"} =>
       /\ q.queue # << >>
       /\ \A i \in 1..Len(q.queue) : CopyOK(q.queue[i], q.today)
  /\ q.pc \in {"notify", "move"} =>
       /\ q.result \in {"paid", "failed"}
       /\ q.result = "paid" => paid[q.queue[1].s][q.queue[1].k] > 0
  /\ q.pc = "move" => Told(q.queue[1].s, q.queue[1].k, q.result)

\* A one-time payment is over after its only date, a repeat never; runs counts
\* the dates left behind.
StandsRight(s) ==
  LET over == schedule[s].status \in {"done", "failed"} IN
  /\ s \in Once => schedule[s].due = 1 /\ schedule[s].runs = IF over THEN 1 ELSE 0
  /\ s \notin Once => ~over /\ schedule[s].runs = schedule[s].due - 1

\* The two of a period together: it is paid once and told, whatever the number
\* of requests that sweep (runDue, runOne).
PaidOnceAndTold == PaidAtMostOnce /\ EveryPeriodIsTold

\* The inductive invariant: what each sweep still holds is true of the rows as
\* they are by now, which carries PaidOnceAndTold from one statement to the next.
IInv ==
  /\ TypeOK
  /\ \A r \in Request : SweepOK(request[r])
  /\ \A s \in Schedule : StandsRight(s)

\* A schedule that changes was active or is saved, and goes on by one period or
\* stands still.
GoesOn(s) ==
  LET old == schedule[s]
      new == schedule'[s]
  IN old # new =>
       /\ old.status \in {"new", "active"}
       /\ new.due \in {old.due, old.due + 1}
       /\ new.runs \in {old.runs, old.runs + 1}
       /\ new.status = "cancelled" => new.due = old.due

PaidInTime(s, k) ==
  paid[s][k] # paid'[s][k] =>
    \E r \in Request : /\ request[r] # request'[r]
                       /\ BusinessDay(DueOn[s][k]) <= request[r].today

\* What a schedule is no more it never is again, and it moves by one period at
\* a time, forward: two sweeps cannot move it twice for one period, and a
\* sweep that started before a cancellation cannot bring it back.  Nothing is
\* paid before its day: a sweep that catches up on several periods stops at the
\* day it read, however the clock is moved meanwhile.
MovesForward ==
  [][\A s \in Schedule : GoesOn(s) /\ \A k \in Period : PaidInTime(s, k)]_vars

\* A payment that has come due on the customer's clock is dealt with as long
\* as the customer keeps coming back, unless it is cancelled or the clock put
\* back first.
DueIsHandled ==
  \A s \in Schedule, k \in Period :
    schedule[s].status = "active" /\ schedule[s].due = k /\ DueBy(s, k, Today)
      ~> \/ schedule[s].due # k
         \/ schedule[s].status # "active"
         \/ ~DueBy(s, k, Today)
=============================================================================
