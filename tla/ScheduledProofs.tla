--------------------------- MODULE ScheduledProofs ---------------------------
(***************************************************************************)
(* Theorems about ScheduledPayments, for any schedules, dates, amounts and *)
(* number of requests that sweep at once.                                  *)
(***************************************************************************)
EXTENDS ScheduledPayments, FiniteSetTheorems, TLAPS

-----------------------------------------------------------------------------
(* The records of requests.                                                *)

InHand == {"lookup", "pay", "notify", "move"}

LEMMA IdleType == Idle \in Requests /\ Idle.pc = "idle"
<1>1. << >> \in Seq(Copy)  OBVIOUS
<1> QED  BY <1>1 DEF Idle, Requests, PCs, Sweeping, Results

LEMMA AfterSweepType ==
  ASSUME NEW q \in Requests
  PROVE  /\ AfterSweep(q) \in Requests
         /\ AfterSweep(q).pc \in {"idle", "act"}
<1>1. << >> \in Seq(Copy)  OBVIOUS
<1> QED  BY <1>1 DEF AfterSweep, Idle, Requests, PCs, Sweeping, Results

\* A sweep turns to the first of the rows that are left.
TurnsTo(q, rest, n) ==
  [q EXCEPT !.pc = "lookup", !.queue = rest, !.steps = n, !.result = "none"]

LEMMA TurnsToType ==
  ASSUME NEW q \in Requests, NEW rest \in Seq(Copy), NEW n \in Nat
  PROVE  /\ TurnsTo(q, rest, n) \in Requests
         /\ TurnsTo(q, rest, n).pc = "lookup"
         /\ TurnsTo(q, rest, n).today = q.today /\ TurnsTo(q, rest, n).queue = rest
BY DEF TurnsTo, Requests, PCs, Sweeping, Results

LEMMA NextRowType ==
  ASSUME NEW q \in Requests, q.queue # << >>
  PROVE  /\ NextRow(q) \in Requests
         /\ \/ NextRow(q).pc \in {"idle", "act"}
            \/ /\ NextRow(q).pc = "lookup"
               /\ NextRow(q).today = q.today
               /\ NextRow(q).queue # << >>
               /\ Len(NextRow(q).queue) = Len(q.queue) - 1
               /\ \A i \in 1..Len(NextRow(q).queue) : NextRow(q).queue[i] = q.queue[i + 1]
<1>1. CASE Tail(q.queue) = << >>
  BY <1>1, AfterSweepType DEF NextRow
<1>2. CASE Tail(q.queue) # << >>
  <2>1. NextRow(q) = TurnsTo(q, Tail(q.queue), 1)
    BY <1>2 DEF NextRow, TurnsTo
  <2>2. /\ q.queue \in Seq(Copy) /\ Tail(q.queue) \in Seq(Copy)
        /\ Len(Tail(q.queue)) = Len(q.queue) - 1
        /\ \A i \in 1..Len(Tail(q.queue)) : Tail(q.queue)[i] = q.queue[i + 1]
    BY DEF Requests
  <2>3. /\ NextRow(q) \in Requests
        /\ NextRow(q).pc = "lookup" /\ NextRow(q).today = q.today
        /\ NextRow(q).queue = Tail(q.queue)
    <3>1. Tail(q.queue) \in Seq(Copy) /\ 1 \in Nat  BY <2>2
    <3>2. /\ TurnsTo(q, Tail(q.queue), 1) \in Requests
          /\ TurnsTo(q, Tail(q.queue), 1).pc = "lookup"
          /\ TurnsTo(q, Tail(q.queue), 1).today = q.today
          /\ TurnsTo(q, Tail(q.queue), 1).queue = Tail(q.queue)
      BY <3>1, TurnsToType
    <3> QED  BY <2>1, <3>2
  <2> QED  BY <1>2, <2>2, <2>3
<1> QED  BY <1>1, <1>2

\* A record that has nothing in hand is all right whatever the rows are.
LEMMA NothingInHand ==
  ASSUME NEW q \in Requests, q.pc \notin InHand
  PROVE  SweepOK(q) /\ SweepOK(q)'
BY DEF SweepOK, InHand

\* The types of everything but the requests.
RowsOK ==
  /\ schedule \in [Schedule -> [status : Statuses, due : 1..(Periods + 1),
                               runs : Nat, result : Results]]
  /\ paid \in [Schedule -> [Period -> Nat]]
  /\ balance \in Nat
  /\ told \subseteq Schedule \X Period \X Results
  /\ realDay \in Nat /\ offset \in Nat /\ failures \in Nat

\* Rows only grow: dates go on, payments and notifications stay.
Grows ==
  /\ \A s \in Schedule : schedule[s].due <= schedule'[s].due
  /\ \A s \in Schedule, k \in Period : paid[s][k] > 0 => paid'[s][k] > 0
  /\ told \subseteq told'

LEMMA HeadOf ==
  ASSUME NEW q \in Requests, q.queue # << >>
  PROVE  /\ Head(q.queue) = q.queue[1] /\ 1 \in 1..Len(q.queue)
         /\ q.queue[1] \in Copy /\ q.queue[1].s \in Schedule /\ q.queue[1].k \in Period
<1>1. q.queue \in Seq(Copy)  BY DEF Requests
<1>2. Head(q.queue) = q.queue[1] /\ 1 \in 1..Len(q.queue) /\ q.queue[1] \in Copy
  BY <1>1
<1> QED  BY <1>2 DEF Copy

LEMMA DueType ==
  ASSUME RowsOK, RowsOK', NEW s \in Schedule
  PROVE  /\ schedule[s].due \in Int /\ schedule'[s].due \in Int
BY ScheduleAssumption DEF RowsOK, ScheduleAssumption

\* What a sweep holds stays true while the rows grow, ...
LEMMA CopiesStay ==
  ASSUME RowsOK, RowsOK', Grows, NEW q \in Requests, SweepOK(q), q.pc \in InHand
  PROVE  q.queue # << >> /\ \A i \in 1..Len(q.queue) : CopyOK(q.queue[i], q.today)'
<1>1. q.queue # << >>  BY DEF SweepOK, InHand
<1>2. ASSUME NEW i \in 1..Len(q.queue)  PROVE CopyOK(q.queue[i], q.today)'
  <2>1. CopyOK(q.queue[i], q.today)  BY DEF SweepOK, InHand
  <2>2. q.queue[i] \in Copy  BY DEF Requests
  <2>3. q.queue[i].s \in Schedule /\ q.queue[i].k \in Nat
    BY <2>2 DEF Copy, Period
  <2>4. schedule[q.queue[i].s].due \in Int /\ schedule'[q.queue[i].s].due \in Int
    BY <2>3, DueType
  <2>5. schedule[q.queue[i].s].due <= schedule'[q.queue[i].s].due
    BY <2>3 DEF Grows
  <2> QED  BY <2>1, <2>3, <2>4, <2>5 DEF CopyOK
<1> QED  BY <1>1, <1>2

\* ... and from one statement to the next about the same row.
LEMMA Carries ==
  ASSUME RowsOK, RowsOK', Grows, NEW q \in Requests, SweepOK(q), q.pc \in InHand,
         NEW t \in Requests, t.queue = q.queue, t.today = q.today,
         t.pc \in {"notify", "move"} =>
           /\ t.result \in {"paid", "failed"}
           /\ t.result = "paid" => paid'[q.queue[1].s][q.queue[1].k] > 0,
         t.pc = "move" => Told(t.queue[1].s, t.queue[1].k, t.result)'
  PROVE  SweepOK(t)'
<1>1. q.queue # << >> /\ \A i \in 1..Len(q.queue) : CopyOK(q.queue[i], q.today)'
  BY CopiesStay
<1> QED  BY <1>1 DEF SweepOK

LEMMA StaysTrue ==
  ASSUME RowsOK, RowsOK', Grows, NEW q \in Requests, SweepOK(q)
  PROVE  SweepOK(q)'
<1>1. CASE q.pc \notin InHand  BY <1>1, NothingInHand
<1>2. CASE q.pc \in InHand
  <2>1. q.queue # << >>  BY <1>2 DEF SweepOK, InHand
  <2>2. q.queue[1].s \in Schedule /\ q.queue[1].k \in Period  BY <2>1, HeadOf
  <2>3. q.pc \in {"notify", "move"} =>
          /\ q.result \in {"paid", "failed"}
          /\ q.result = "paid" => paid'[q.queue[1].s][q.queue[1].k] > 0
    BY <2>2 DEF SweepOK, Grows
  <2>4. q.pc = "move" => Told(q.queue[1].s, q.queue[1].k, q.result)'
    BY DEF SweepOK, Told, Grows
  <2> QED  BY <1>2, <2>3, <2>4, Carries
<1> QED  BY <1>1, <1>2

-----------------------------------------------------------------------------
(* Each action keeps the invariant.                                        *)

LEMMA IInvParts ==
  /\ IInv => RowsOK /\ \A r \in Request : request[r] \in Requests
BY DEF IInv, TypeOK, RowsOK

\* One request goes on to q, and the rows with it.
LEMMA OneMoves ==
  ASSUME IInv, NEW r \in Request, NEW q \in Requests, Now(r, q), SweepOK(q)',
         RowsOK', Grows, \A s \in Schedule : StandsRight(s)'
  PROVE  IInv'
<1>1. request' \in [Request -> Requests]  BY DEF IInv, TypeOK, Now
<1>2. TypeOK'  BY <1>1 DEF RowsOK, TypeOK
<1>3. ASSUME NEW x \in Request  PROVE SweepOK(request[x])'
  <2>1. CASE x = r
    <3>1. request'[x] = q  BY <2>1 DEF Now, IInv, TypeOK
    <3> QED  BY <3>1 DEF SweepOK, CopyOK, Told
  <2>2. CASE x # r
    <3>1. request'[x] = request[x]  BY <2>2 DEF Now, IInv, TypeOK
    <3>2. SweepOK(request[x]) /\ request[x] \in Requests /\ RowsOK
      BY IInvParts DEF IInv
    <3>3. \A y \in Requests : SweepOK(y) => SweepOK(y)'
      BY <3>2, StaysTrue
    <3> QED  BY <3>1, <3>2, <3>3 DEF SweepOK, CopyOK, Told
  <2> QED  BY <2>1, <2>2
<1> QED  BY <1>2, <1>3 DEF IInv

\* The rows are left alone.
LEMMA RowsKept ==
  ASSUME IInv, UNCHANGED rows, offset' \in Nat, realDay' \in Nat, failures' \in Nat
  PROVE  RowsOK' /\ Grows /\ \A s \in Schedule : StandsRight(s)'
<1>1. RowsOK  BY IInvParts
<1>2. schedule' = schedule /\ paid' = paid /\ balance' = balance /\ told' = told
  BY DEF rows
<1>3. RowsOK'  BY <1>1, <1>2 DEF RowsOK
<1>4. Grows  BY <1>1, <1>2, <1>3, DueType DEF Grows
<1>5. \A s \in Schedule : StandsRight(s)'  BY <1>2 DEF IInv, StandsRight
<1> QED  BY <1>3, <1>4, <1>5

\* The record of a request and the clock are of their types.
LEMMA RequestType ==
  ASSUME IInv, NEW r \in Request
  PROVE  /\ request[r] \in Requests /\ SweepOK(request[r])
         /\ Today \in Nat /\ offset \in Nat /\ realDay \in Nat /\ failures \in Nat
BY DEF IInv, TypeOK, Today

\* A request that has nothing in hand afterwards, and leaves the rows alone.
LEMMA NothingDone ==
  ASSUME IInv, NEW r \in Request, NEW q \in Requests, Now(r, q), q.pc \notin InHand,
         UNCHANGED rows, offset' \in Nat, realDay' \in Nat, failures' \in Nat
  PROVE  IInv'
BY RowsKept, NothingInHand, OneMoves

LEMMA ReadClockKeeps ==
  ASSUME IInv, NEW r \in Request, ReadClock(r)  PROVE IInv'
<1> DEFINE q == [request[r] EXCEPT !.pc = "select", !.today = Today]
<1>1. q \in Requests /\ q.pc = "select"
  BY RequestType DEF Requests, PCs, Sweeping
<1>2. Now(r, q) /\ UNCHANGED rows /\ UNCHANGED <<offset, realDay, failures>>
  BY DEF ReadClock, clock
<1> HIDE DEF q
<1> QED  BY <1>1, <1>2, RequestType, NothingDone DEF InHand

\* A queue in order is made of what is due.
LEMMA DueInOrder ==
  ASSUME IInv, NEW day \in Nat, NEW queue \in InOrder(Due(day))
  PROVE  /\ queue \in Seq(Copy)
         /\ \A i \in 1..Len(queue) : CopyOK(queue[i], day)
<1>1. \A c \in Due(day) : c \in Copy /\ CopyOK(c, day)
  <2>1. RowsOK  BY IInvParts
  <2>2. ASSUME NEW s \in Schedule, DueBy(s, schedule[s].due, day)
        PROVE  [s |-> s, k |-> schedule[s].due] \in Copy
               /\ CopyOK([s |-> s, k |-> schedule[s].due], day)
    <3>1. schedule[s].due \in Period /\ BusinessDay(DueOn[s][schedule[s].due]) <= day
      BY <2>2 DEF DueBy
    <3>2. schedule[s].due \in Int
      BY <2>1, ScheduleAssumption DEF RowsOK, ScheduleAssumption
    <3> QED  BY <3>1, <3>2 DEF Copy, CopyOK
  <2> QED  BY <2>2 DEF Due
<1>2. IsFiniteSet(Due(day))
  <2> DEFINE S == {x \in Schedule : /\ schedule[x].status = "active"
                                    /\ DueBy(x, schedule[x].due, day)}
             f == [s \in S |-> [s |-> s, k |-> schedule[s].due]]
  <2>1. IsFiniteSet(S)  BY FS_Subset, ScheduleAssumption DEF ScheduleAssumption
  <2>2. Due(day) = {f[s] : s \in S}  BY DEF Due
  <2>3. f \in Surjection(S, Due(day))  BY <2>2 DEF Surjection
  <2> HIDE DEF f, S
  <2> QED  BY <2>1, <2>3, FS_Surjection
<1>3. Cardinality(Due(day)) \in Nat  BY <1>2, FS_CardinalityType
<1>4. queue \in [1..Cardinality(Due(day)) -> Due(day)]  BY DEF InOrder
<1>5. queue \in [1..Cardinality(Due(day)) -> Copy]  BY <1>1, <1>4
<1>6. queue \in Seq(Copy) /\ Len(queue) = Cardinality(Due(day))  BY <1>3, <1>5
<1> QED  BY <1>1, <1>4, <1>6

LEMMA SelectKeeps ==
  ASSUME IInv, NEW r \in Request, Select(r)  PROVE IInv'
<1>1. request[r] \in Requests /\ request[r].today \in Nat
  BY RequestType DEF Requests
<1>2. PICK queue \in InOrder(Due(request[r].today)) :
        Now(r, IF queue = << >> THEN AfterSweep(request[r])
               ELSE [request[r] EXCEPT !.pc = "lookup", !.queue = queue, !.steps = 1])
  BY DEF Select
<1>3. UNCHANGED rows /\ UNCHANGED <<offset, realDay, failures>>  BY DEF Select, clock
<1>4. CASE queue = << >>
  BY <1>1, <1>2, <1>3, <1>4, RequestType, AfterSweepType, NothingDone DEF InHand
<1>5. CASE queue # << >>
  <2>1. queue \in Seq(Copy) /\ \A i \in 1..Len(queue) : CopyOK(queue[i], request[r].today)
    BY <1>1, DueInOrder
  <2>2. [request[r] EXCEPT !.pc = "lookup", !.queue = queue, !.steps = 1] \in Requests
    BY <1>1, <2>1 DEF Requests, PCs, Sweeping
  <2>3. PICK q \in Requests :
          q = [request[r] EXCEPT !.pc = "lookup", !.queue = queue, !.steps = 1]
    BY <2>2
  <2>4. Now(r, q)  BY <1>2, <1>5, <2>3
  <2>5. SweepOK(q)'
    <3>1. q.pc = "lookup" /\ q.queue = queue /\ q.today = request[r].today
      BY <1>1, <2>3 DEF Requests
    <3>2. \A i \in 1..Len(queue) : CopyOK(queue[i], q.today)'
      BY <1>3, <2>1, <3>1 DEF CopyOK, rows
    <3> QED  BY <1>5, <3>1, <3>2 DEF SweepOK
  <2>6. RowsOK' /\ Grows /\ \A s \in Schedule : StandsRight(s)'
    BY <1>3, RequestType, RowsKept
  <2> QED  BY <2>4, <2>5, <2>6, OneMoves
<1> QED  BY <1>4, <1>5

\* The row in hand.
LEMMA InHandType ==
  ASSUME IInv, NEW r \in Request, request[r].pc \in InHand
  PROVE  /\ request[r] \in Requests /\ SweepOK(request[r])
         /\ request[r].queue # << >>
         /\ Current(r) = request[r].queue[1]
         /\ Current(r) \in Copy /\ Current(r).s \in Schedule /\ Current(r).k \in Period
<1>1. request[r] \in Requests /\ SweepOK(request[r])  BY RequestType
<1>2. request[r].queue # << >>  BY <1>1 DEF SweepOK, InHand
<1> QED  BY <1>1, <1>2, HeadOf DEF Current

LEMMA LookUpKeeps ==
  ASSUME IInv, NEW r \in Request, LookUp(r)  PROVE IInv'
<1> DEFINE c == Current(r)
<1>1. request[r].pc = "lookup"  BY DEF LookUp, At
<1>2. /\ request[r] \in Requests /\ SweepOK(request[r])
      /\ c = request[r].queue[1] /\ c.s \in Schedule /\ c.k \in Period
  BY <1>1, InHandType DEF InHand
<1>3. UNCHANGED rows /\ UNCHANGED <<offset, realDay, failures>>  BY DEF LookUp, clock
<1>4. RowsOK /\ RowsOK' /\ Grows /\ \A s \in Schedule : StandsRight(s)'
  BY <1>3, IInvParts, RequestType, RowsKept
<1>5. CASE paid[c.s][c.k] > 0
  <2>1. [request[r] EXCEPT !.pc = "notify", !.result = "paid"] \in Requests
    BY <1>2 DEF Requests, PCs, Sweeping, Results
  <2>2. PICK q \in Requests : q = [request[r] EXCEPT !.pc = "notify", !.result = "paid"]
    BY <2>1
  <2>3. Now(r, q)  BY <1>5, <2>2 DEF LookUp
  <2>4. /\ q.queue = request[r].queue /\ q.today = request[r].today
        /\ q.pc = "notify" /\ q.result = "paid"
    BY <1>2, <2>2 DEF Requests
  <2>5. paid'[request[r].queue[1].s][request[r].queue[1].k] > 0
    BY <1>2, <1>3, <1>5 DEF rows
  <2>6. SweepOK(q)'  BY <1>1, <1>2, <1>4, <2>4, <2>5, Carries DEF InHand
  <2> QED  BY <1>4, <2>3, <2>6, OneMoves
<1>6. CASE ~(paid[c.s][c.k] > 0)
  <2>1. [request[r] EXCEPT !.pc = "pay"] \in Requests
    BY <1>2 DEF Requests, PCs, Sweeping
  <2>2. PICK q \in Requests : q = [request[r] EXCEPT !.pc = "pay"]
    BY <2>1
  <2>3. Now(r, q)  BY <1>6, <2>2 DEF LookUp
  <2>4. q.queue = request[r].queue /\ q.today = request[r].today /\ q.pc = "pay"
    BY <1>2, <2>2 DEF Requests
  <2>5. SweepOK(q)'  BY <1>1, <1>2, <1>4, <2>4, Carries DEF InHand
  <2> QED  BY <1>4, <2>3, <2>5, OneMoves
<1> QED  BY <1>5, <1>6

\* A payment: the period is paid once more out of a balance that covers it.
Pays(s, k) ==
  /\ balance >= Amount[s] /\ paid[s][k] = 0
  /\ paid' = [paid EXCEPT ![s][k] = 1]
  /\ balance' = balance - Amount[s]

LEMMA PayingKeepsRows ==
  ASSUME IInv, NEW s \in Schedule, NEW k \in Period,
         Pays(s, k) \/ UNCHANGED <<paid, balance>>,
         UNCHANGED <<schedule, told, clock>>, failures' \in Nat
  PROVE  /\ RowsOK' /\ Grows /\ \A x \in Schedule : StandsRight(x)'
         /\ Pays(s, k) => paid'[s][k] = 1
<1>1. RowsOK  BY IInvParts
<1>2. Amount[s] \in Nat  BY ScheduleAssumption DEF ScheduleAssumption
<1>3. CASE UNCHANGED <<paid, balance>>
  <2>1. RowsOK' /\ Grows /\ \A x \in Schedule : StandsRight(x)'
    BY <1>3, RowsKept, RequestType DEF rows, clock, IInv, TypeOK
  <2> QED  BY <1>1, <1>3, <2>1 DEF Pays, RowsOK
<1>4. CASE Pays(s, k)
  <2>1. paid' \in [Schedule -> [Period -> Nat]] /\ balance' \in Nat
    BY <1>1, <1>2, <1>4 DEF Pays, RowsOK
  <2>2. RowsOK'  BY <1>1, <2>1 DEF RowsOK, clock
  <2>3. \A x \in Schedule, y \in Period : paid[x][y] > 0 => paid'[x][y] > 0
    BY <1>1, <1>4 DEF Pays, RowsOK
  <2>4. Grows  BY <1>1, <2>2, <2>3, DueType DEF Grows
  <2>5. paid'[s][k] = 1  BY <1>1, <1>4 DEF Pays, RowsOK
  <2>6. \A x \in Schedule : StandsRight(x)'  BY DEF IInv, StandsRight
  <2> QED  BY <2>2, <2>4, <2>5, <2>6
<1> QED  BY <1>3, <1>4

LEMMA PayKeeps ==
  ASSUME IInv, NEW r \in Request, Pay(r)  PROVE IInv'
<1> DEFINE c == Current(r)
           short == balance < Amount[c.s]
<1>1. request[r].pc = "pay"  BY DEF Pay, At
<1>2. /\ request[r] \in Requests /\ SweepOK(request[r])
      /\ c = request[r].queue[1] /\ c.s \in Schedule /\ c.k \in Period
  BY <1>1, InHandType DEF InHand
<1>3. RowsOK /\ balance \in Nat /\ Amount[c.s] \in Nat /\ paid[c.s][c.k] \in Nat
  BY <1>2, IInvParts, ScheduleAssumption DEF RowsOK, ScheduleAssumption
<1>4. /\ UNCHANGED <<schedule, told, clock>> /\ failures' \in Nat
      /\ Pays(c.s, c.k) \/ UNCHANGED <<paid, balance>>
      /\ short \/ Pays(c.s, c.k) \/ (paid[c.s][c.k] > 0 /\ paid' = paid)
  BY <1>3, RequestType DEF Pay, Pays
<1>5. RowsOK' /\ Grows /\ \A s \in Schedule : StandsRight(s)'
  BY <1>2, <1>4, PayingKeepsRows
<1>6. ~short => paid'[c.s][c.k] > 0
  BY <1>2, <1>4, PayingKeepsRows
<1>7. \A result \in {"paid", "failed"} :
        [request[r] EXCEPT !.pc = "notify", !.result = result] \in Requests
  BY <1>2 DEF Requests, PCs, Sweeping, Results
<1>8. PICK q \in Requests :
        q = [request[r] EXCEPT !.pc = "notify", !.result = IF short THEN "failed" ELSE "paid"]
  BY <1>7
<1>9. Now(r, q)  BY <1>8 DEF Pay
<1>10. /\ q.queue = request[r].queue /\ q.today = request[r].today
       /\ q.pc = "notify" /\ q.result = IF short THEN "failed" ELSE "paid"
  BY <1>2, <1>8 DEF Requests
<1>11. SweepOK(q)'
  BY <1>1, <1>2, <1>3, <1>5, <1>6, <1>10, Carries DEF InHand
<1> QED  BY <1>5, <1>9, <1>11, OneMoves

LEMMA NotifyKeeps ==
  ASSUME IInv, NEW r \in Request, Notify(r)  PROVE IInv'
<1> DEFINE c == Current(r)
<1>1. request[r].pc = "notify"  BY DEF Notify, At
<1>2. /\ request[r] \in Requests /\ SweepOK(request[r])
      /\ c = request[r].queue[1] /\ c.s \in Schedule /\ c.k \in Period
  BY <1>1, InHandType DEF InHand
<1>3. /\ request[r].result \in {"paid", "failed"}
      /\ request[r].result = "paid" => paid[c.s][c.k] > 0
  BY <1>1, <1>2 DEF SweepOK
<1>4. /\ told' = told \cup {<<c.s, c.k, request[r].result>>}
      /\ UNCHANGED <<schedule, paid, balance, clock, failures>>
  BY DEF Notify
<1>5. RowsOK /\ RowsOK'
  BY <1>2, <1>3, <1>4, IInvParts DEF RowsOK, clock, Results
<1>6. Grows  BY <1>4, <1>5, DueType DEF Grows
<1>7. \A s \in Schedule : StandsRight(s)'  BY <1>4 DEF IInv, StandsRight
<1>8. [request[r] EXCEPT !.pc = "move"] \in Requests
  BY <1>2 DEF Requests, PCs, Sweeping
<1>9. PICK q \in Requests : q = [request[r] EXCEPT !.pc = "move"]
  BY <1>8
<1>10. Now(r, q)  BY <1>9 DEF Notify, Goto
<1>11. /\ q.queue = request[r].queue /\ q.today = request[r].today
       /\ q.pc = "move" /\ q.result = request[r].result
  BY <1>2, <1>9 DEF Requests
<1>12. Told(q.queue[1].s, q.queue[1].k, q.result)'
  BY <1>2, <1>4, <1>11 DEF Told
<1>13. SweepOK(q)'
  BY <1>1, <1>2, <1>3, <1>4, <1>5, <1>6, <1>11, <1>12, Carries DEF InHand
<1> QED  BY <1>5, <1>6, <1>7, <1>10, <1>13, OneMoves

\* A sweep that is done with its row holds the others as before.
LEMMA NextRowHolds ==
  ASSUME RowsOK, RowsOK', Grows, NEW q \in Requests, SweepOK(q), q.pc \in InHand,
         NEW t \in Requests, t = NextRow(q)
  PROVE  SweepOK(t)'
<1>1. q.queue # << >> /\ \A i \in 1..Len(q.queue) : CopyOK(q.queue[i], q.today)'
  BY CopiesStay
<1>2. CASE t.pc \in {"idle", "act"}  BY <1>2, NothingInHand DEF InHand
<1>3. CASE ~(t.pc \in {"idle", "act"})
  <2>1. /\ t.pc = "lookup" /\ t.today = q.today /\ t.queue # << >>
        /\ Len(t.queue) = Len(q.queue) - 1
        /\ \A i \in 1..Len(t.queue) : t.queue[i] = q.queue[i + 1]
    BY <1>1, <1>3, NextRowType
  <2>2. q.queue \in Seq(Copy) /\ t.queue \in Seq(Copy)  BY DEF Requests
  <2>3. ASSUME NEW i \in 1..Len(t.queue)  PROVE CopyOK(t.queue[i], t.today)'
    <3>1. i + 1 \in 1..Len(q.queue)  BY <2>1, <2>2
    <3> QED  BY <1>1, <2>1, <3>1
  <2> QED  BY <2>1, <2>3 DEF SweepOK
<1> QED  BY <1>2, <1>3

LEMMA MovingOnKeepsRows ==
  ASSUME IInv, NEW c \in Copy, StillHere(c), NEW result \in {"paid", "failed"},
         schedule' = [schedule EXCEPT ![c.s] = MovedOn(c.s, result)],
         UNCHANGED <<paid, balance, told, clock, failures>>
  PROVE  /\ RowsOK' /\ Grows /\ \A s \in Schedule : StandsRight(s)'
         /\ c.s \notin Once => schedule'[c.s].due = c.k + 1
<1>1. RowsOK  BY IInvParts
<1>2. /\ c.s \in Schedule /\ c.k \in Period /\ c.k \in Int /\ c.k + 1 \in 1..(Periods + 1)
  BY ScheduleAssumption DEF Copy, Period, ScheduleAssumption
<1>3. schedule[c.s].status = "active" /\ schedule[c.s].due = c.k  BY DEF StillHere
<1>4. schedule[c.s].runs \in Nat /\ schedule[c.s].due \in 1..(Periods + 1)
  BY <1>1, <1>2 DEF RowsOK
<1> DEFINE new == MovedOn(c.s, result)
<1>5. /\ new \in [status : Statuses, due : 1..(Periods + 1), runs : Nat, result : Results]
      /\ new.status = IF c.s \notin Once THEN "active" ELSE IF result = "paid" THEN "done" ELSE "failed"
      /\ new.due = IF c.s \in Once THEN c.k ELSE c.k + 1
      /\ new.runs = schedule[c.s].runs + 1 /\ new.result = result
  BY <1>2, <1>3, <1>4 DEF MovedOn, Statuses, Results
<1> HIDE DEF new
<1>6. /\ schedule'[c.s] = new
      /\ \A s \in Schedule \ {c.s} : schedule'[s] = schedule[s]
      /\ schedule' \in [Schedule -> [status : Statuses, due : 1..(Periods + 1),
                                     runs : Nat, result : Results]]
  BY <1>1, <1>2, <1>5 DEF RowsOK, new
<1>7. RowsOK'  BY <1>1, <1>6 DEF RowsOK, clock
<1>8. Grows
  <2>1. ASSUME NEW s \in Schedule  PROVE schedule[s].due <= schedule'[s].due
    <3>1. schedule[s].due \in Int  BY <1>1, <1>7, DueType
    <3> QED  BY <1>2, <1>3, <1>5, <1>6, <3>1
  <2>2. \A s \in Schedule, k \in Period : paid[s][k] > 0 => paid'[s][k] > 0
    OBVIOUS
  <2> QED  BY <2>1, <2>2 DEF Grows
<1>9. ASSUME NEW s \in Schedule  PROVE StandsRight(s)'
  <2>1. StandsRight(s)  BY DEF IInv
  <2>2. CASE s = c.s  BY <1>2, <1>3, <1>4, <1>5, <1>6, <2>1, <2>2 DEF StandsRight
  <2>3. CASE s # c.s  BY <1>6, <2>1, <2>3 DEF StandsRight
  <2> QED  BY <2>2, <2>3
<1> QED  BY <1>5, <1>6, <1>7, <1>8, <1>9

\* The row in hand, at its next date.
LEMMA AgainHolds ==
  ASSUME RowsOK, RowsOK', Grows, NEW q \in Requests, SweepOK(q), q.pc \in InHand,
         NEW c \in Copy, c = q.queue[1],
         DueBy(c.s, c.k + 1, q.today), schedule'[c.s].due = c.k + 1,
         NEW t, t = [q EXCEPT !.pc = "lookup", !.steps = @ + 1, !.result = "none",
                              !.queue = <<[c EXCEPT !.k = @ + 1]>> \o Tail(@)]
  PROVE  t \in Requests /\ SweepOK(t)'
<1> DEFINE d == [c EXCEPT !.k = @ + 1]
<1>1. q.queue # << >> /\ \A i \in 1..Len(q.queue) : CopyOK(q.queue[i], q.today)'
  BY CopiesStay
<1>2. c.s \in Schedule /\ c.k \in Int /\ c.k + 1 \in Period
      /\ BusinessDay(DueOn[c.s][c.k + 1]) <= q.today
  BY DEF DueBy, Copy, Period
<1>3. d \in Copy /\ d.s = c.s /\ d.k = c.k + 1
  <2>1. c \in [s : Schedule, k : Period]  BY DEF Copy
  <2> QED  BY <1>2, <2>1 DEF Copy
<1> HIDE DEF d
<1>4. CopyOK(d, q.today)'  BY <1>2, <1>3 DEF CopyOK
<1>5. q.queue \in Seq(Copy) /\ Tail(q.queue) \in Seq(Copy)
      /\ \A i \in 1..Len(Tail(q.queue)) : Tail(q.queue)[i] = q.queue[i + 1] /\ i + 1 \in 1..Len(q.queue)
  BY <1>1 DEF Requests
<1>6. PICK rest \in Seq(Copy) : rest = Tail(q.queue)  BY <1>5
<1>7. \A i \in 1..Len(rest) : CopyOK(rest[i], q.today)'
  BY <1>1, <1>5, <1>6
<1>8. PICK queue \in Seq(Copy) : queue = <<d>> \o rest
  <2>1. <<d>> \in Seq(Copy)  BY <1>3
  <2>2. <<d>> \o rest \in Seq(Copy)  BY <2>1
  <2> QED  BY <2>2
<1>9. queue # << >> /\ Len(queue) = Len(rest) + 1 /\ queue[1] = d
      /\ \A i \in 2..Len(queue) : queue[i] = rest[i - 1] /\ i - 1 \in 1..Len(rest)
  BY <1>3, <1>8
<1>10. \A i \in 1..Len(queue) : CopyOK(queue[i], q.today)'
  <2> TAKE i \in 1..Len(queue)
  <2>1. CASE i = 1  BY <1>4, <1>9, <2>1
  <2>2. CASE i # 1
    <3>1. i \in 2..Len(queue)  BY <2>2
    <3> QED  BY <1>7, <1>9, <3>1
  <2> QED  BY <2>1, <2>2
<1>11. t = [q EXCEPT !.pc = "lookup", !.steps = q.steps + 1, !.result = "none",
                     !.queue = queue]
  BY <1>6, <1>8 DEF d, Requests
<1>12. t \in Requests /\ t.pc = "lookup" /\ t.today = q.today /\ t.queue = queue
  <2>1. q.steps + 1 \in Nat  BY DEF Requests
  <2>2. PICK n \in Nat : n = q.steps + 1  BY <2>1
  <2>3. t = TurnsTo(q, queue, n)  BY <1>11, <2>2 DEF TurnsTo
  <2>4. /\ TurnsTo(q, queue, n) \in Requests
        /\ TurnsTo(q, queue, n).pc = "lookup" /\ TurnsTo(q, queue, n).today = q.today
        /\ TurnsTo(q, queue, n).queue = queue
    BY TurnsToType
  <2> QED  BY <2>3, <2>4
<1> QED  BY <1>9, <1>10, <1>12 DEF SweepOK

LEMMA MoveKeeps ==
  ASSUME IInv, NEW r \in Request, Move(r)  PROVE IInv'
<1> DEFINE c == Current(r)
<1>1. request[r].pc = "move"  BY DEF Move, At
<1>2. /\ request[r] \in Requests /\ SweepOK(request[r]) /\ request[r].queue # << >>
      /\ c = request[r].queue[1] /\ c \in Copy
  BY <1>1, InHandType DEF InHand
<1>3. request[r].result \in {"paid", "failed"}  BY <1>1, <1>2 DEF SweepOK
<1>4. UNCHANGED <<paid, balance, told, clock, failures>>  BY DEF Move
<1>5. RowsOK /\ NextRow(request[r]) \in Requests  BY <1>2, IInvParts, NextRowType
<1>6. PICK n \in Requests : n = NextRow(request[r])  BY <1>5
<1>7. CASE ~StillHere(c)
  <2>1. schedule' = schedule /\ Now(r, n)  BY <1>6, <1>7 DEF Move
  <2>2. RowsOK' /\ Grows /\ \A s \in Schedule : StandsRight(s)'
    BY <1>4, <2>1, RowsKept, RequestType DEF rows, clock
  <2>3. SweepOK(n)'  BY <1>1, <1>2, <1>5, <1>6, <2>2, NextRowHolds DEF InHand
  <2> QED  BY <2>1, <2>2, <2>3, OneMoves
<1>8. CASE StillHere(c)
  <2> DEFINE again == /\ c.s \notin Once
                      /\ DueBy(c.s, c.k + 1, request[r].today)
                      /\ request[r].steps < MaxRuns
             t == [request[r] EXCEPT !.pc = "lookup", !.steps = @ + 1, !.result = "none",
                                     !.queue = <<[c EXCEPT !.k = @ + 1]>> \o Tail(@)]
  <2>1. /\ schedule' = [schedule EXCEPT ![c.s] = MovedOn(c.s, request[r].result)]
        /\ Now(r, IF again THEN t ELSE NextRow(request[r]))
    BY <1>8 DEF Move
  <2>2. /\ RowsOK' /\ Grows /\ \A s \in Schedule : StandsRight(s)'
        /\ c.s \notin Once => schedule'[c.s].due = c.k + 1
    BY <1>2, <1>3, <1>4, <1>8, <2>1, MovingOnKeepsRows
  <2>3. CASE again
    <3>1. \E q \in Requests : q = t /\ SweepOK(q)'
      BY <1>1, <1>2, <1>5, <2>2, <2>3, AgainHolds DEF InHand
    <3> QED  BY <2>1, <2>2, <2>3, <3>1, OneMoves
  <2>4. CASE ~again
    <3>1. Now(r, n)  BY <1>6, <2>1, <2>4
    <3>2. SweepOK(n)'  BY <1>1, <1>2, <1>5, <1>6, <2>2, NextRowHolds DEF InHand
    <3> QED  BY <2>2, <3>1, <3>2, OneMoves
  <2> QED  BY <2>3, <2>4
<1> QED  BY <1>7, <1>8

LEMMA SweepFailsKeeps ==
  ASSUME IInv, NEW r \in Request, SweepFails(r)  PROVE IInv'
<1> DEFINE c == Current(r)
<1>1. request[r] \in Requests /\ failures' \in Nat
  BY RequestType DEF SweepFails
<1>2. PICK q \in Requests : q = AfterSweep(request[r])  BY <1>1, AfterSweepType
<1>3. q.pc \notin InHand  BY <1>1, <1>2, AfterSweepType DEF InHand
<1>4. Now(r, q) /\ UNCHANGED <<schedule, told, clock>>  BY <1>2 DEF SweepFails
<1>5. CASE UNCHANGED <<paid, balance>>
  BY <1>1, <1>3, <1>4, <1>5, RequestType, NothingDone DEF rows, clock
<1>6. CASE ~UNCHANGED <<paid, balance>>
  <2>1. request[r].pc = "pay" /\ Pays(c.s, c.k)
    BY <1>6 DEF SweepFails, Pays, At
  <2>2. c.s \in Schedule /\ c.k \in Period  BY <2>1, InHandType DEF InHand
  <2>3. RowsOK' /\ Grows /\ \A s \in Schedule : StandsRight(s)'
    BY <1>1, <1>4, <2>1, <2>2, PayingKeepsRows
  <2> QED  BY <1>3, <1>4, <2>3, NothingInHand, OneMoves
<1> QED  BY <1>5, <1>6

LEMMA ServerStopsKeeps ==
  ASSUME IInv, ServerStops  PROVE IInv'
<1>1. /\ UNCHANGED rows /\ UNCHANGED <<offset, realDay>> /\ failures' \in Nat
      /\ request' = [r \in Request |-> Idle]
  BY DEF ServerStops, clock, IInv, TypeOK
<1>2. RowsOK' /\ Grows /\ \A s \in Schedule : StandsRight(s)'
  BY <1>1, RowsKept DEF IInv, TypeOK
<1>3. TypeOK'  BY <1>1, <1>2, IdleType DEF RowsOK, TypeOK
<1>4. ASSUME NEW r \in Request  PROVE SweepOK(request[r])'
  <2>1. request'[r].pc = "idle"  BY <1>1, IdleType
  <2> QED  BY <2>1 DEF SweepOK
<1> QED  BY <1>2, <1>3, <1>4 DEF IInv

\* What a request does after its sweep leaves it with nothing in hand.
LEMMA RowChangeKeeps ==
  ASSUME IInv, NEW r \in Request, Now(r, Idle), NEW s \in Schedule,
         \/ schedule' = schedule
         \/ /\ schedule[s].status \in {"active", "new"}
            /\ \E status \in {"active", "cancelled"} :
                 schedule' = [schedule EXCEPT ![s].status = status],
         UNCHANGED <<paid, balance, told, clock, failures>>
  PROVE  IInv'
<1>1. RowsOK  BY IInvParts
<1>2. CASE schedule' = schedule
  BY <1>2, RequestType, IdleType, NothingDone DEF rows, clock, InHand
<1>3. CASE schedule' # schedule
  <2>1. /\ schedule' \in [Schedule -> [status : Statuses, due : 1..(Periods + 1),
                                       runs : Nat, result : Results]]
        /\ \A x \in Schedule : /\ schedule'[x].due = schedule[x].due
                                /\ schedule'[x].runs = schedule[x].runs
                                /\ schedule'[x].status \in {"done", "failed"} <=>
                                     schedule[x].status \in {"done", "failed"}
    BY ZenonT(60), <1>1, <1>3 DEF RowsOK, Statuses
  <2>2. RowsOK'  BY <1>1, <2>1 DEF RowsOK, clock
  <2>3. Grows
    <3>1. \A x \in Schedule : schedule[x].due <= schedule'[x].due
      BY <1>1, <2>1, <2>2, DueType
    <3> QED  BY <3>1 DEF Grows
  <2>4. \A x \in Schedule : StandsRight(x)'  BY <2>1 DEF IInv, StandsRight
  <2>5. PICK q \in Requests : q = Idle  BY IdleType
  <2>6. Now(r, q) /\ SweepOK(q)'  BY <2>5, IdleType, NothingInHand DEF InHand
  <2> QED  BY <2>2, <2>3, <2>4, <2>6, OneMoves
<1> QED  BY <1>2, <1>3

LEMMA ActKeeps ==
  ASSUME IInv, NEW r \in Request, Act(r)  PROVE IInv'
<1> USE RequestType, IdleType
<1>1. CASE Visit(r)
  BY <1>1, NothingDone DEF Visit, InHand, clock
<1>2. CASE Deposit(r)
  <2>1. balance' \in Nat
    BY <1>2, ScheduleAssumption DEF Deposit, IInv, TypeOK, ScheduleAssumption
  <2>2. UNCHANGED <<schedule, paid, told, clock, failures>> /\ Now(r, Idle)
    BY <1>2 DEF Deposit
  <2>3. RowsOK /\ RowsOK'  BY <2>1, <2>2, IInvParts DEF RowsOK, clock
  <2>4. Grows  BY <2>2, <2>3, DueType DEF Grows
  <2>5. \A s \in Schedule : StandsRight(s)'  BY <2>2 DEF IInv, StandsRight
  <2>6. PICK q \in Requests : q = Idle  OBVIOUS
  <2>7. SweepOK(q)'  BY <2>6, NothingInHand DEF InHand
  <2> QED  BY <2>2, <2>3, <2>4, <2>5, <2>6, <2>7, OneMoves
<1>3. ASSUME NEW s \in Schedule, Cancel(r, s)  PROVE IInv'
  BY <1>3, RowChangeKeeps DEF Cancel
<1>4. ASSUME NEW s \in Schedule, Create(r, s)  PROVE IInv'
  BY <1>4, RowChangeKeeps DEF Create
<1>5. CASE ReadToday(r)
  <2>1. [request[r] EXCEPT !.pc = "create", !.today = Today] \in Requests
    BY DEF Requests, PCs
  <2>2. PICK q \in Requests : q = [request[r] EXCEPT !.pc = "create", !.today = Today]
    BY <2>1
  <2>3. q.pc = "create"  BY <2>2 DEF Requests
  <2> QED  BY <1>5, <2>2, <2>3, NothingDone DEF ReadToday, InHand, clock
<1>6. CASE ReadOffset(r)
  <2>1. [request[r] EXCEPT !.pc = "advance", !.offset = offset] \in Requests
    BY DEF Requests, PCs
  <2>2. PICK q \in Requests : q = [request[r] EXCEPT !.pc = "advance", !.offset = offset]
    BY <2>1
  <2>3. q.pc = "advance"  BY <2>2 DEF Requests
  <2> QED  BY <1>6, <2>2, <2>3, NothingDone DEF ReadOffset, InHand, clock
<1>7. CASE MoveClock(r)
  <2>1. [Idle EXCEPT !.pc = "clock", !.swept = TRUE] \in Requests
    BY DEF Requests, PCs
  <2>2. PICK q \in Requests : q = [Idle EXCEPT !.pc = "clock", !.swept = TRUE]
    BY <2>1
  <2>3. q.pc = "clock"  BY <2>2 DEF Requests
  <2>4. (Now(r, Idle) \/ Now(r, q)) /\ offset' \in Nat
    BY <1>7, <2>2, ScheduleAssumption DEF MoveClock, ScheduleAssumption
  <2> QED  BY <1>7, <2>3, <2>4, NothingDone DEF MoveClock, InHand
<1>8. CASE ResetClock(r)
  BY <1>8, NothingDone DEF ResetClock, InHand
<1> QED  BY <1>1, <1>2, <1>3, <1>4, <1>5, <1>6, <1>7, <1>8 DEF Act

LEMMA MidnightKeeps ==
  ASSUME IInv, Midnight \/ UNCHANGED vars  PROVE IInv'
<1>1. /\ UNCHANGED rows /\ offset' \in Nat /\ realDay' \in Nat /\ failures' \in Nat
      /\ request' = request
  BY DEF Midnight, vars, rows, clock, IInv, TypeOK
<1>2. RowsOK' /\ \A s \in Schedule : StandsRight(s)'  BY <1>1, RowsKept
<1>3. TypeOK'  BY <1>1, <1>2 DEF RowsOK, TypeOK, IInv
<1>4. \A r \in Request : SweepOK(request[r])'
  BY <1>1 DEF IInv, SweepOK, CopyOK, Told, rows
<1> QED  BY <1>2, <1>3, <1>4 DEF IInv

LEMMA StepKeeps == IInv /\ [Next]_vars => IInv'
<1> SUFFICES ASSUME IInv, [Next]_vars PROVE IInv'  OBVIOUS
<1>1. ASSUME NEW r \in Request, Sweep(r)  PROVE IInv'
  BY <1>1, ReadClockKeeps, SelectKeeps, LookUpKeeps, PayKeeps, NotifyKeeps, MoveKeeps
  DEF Sweep
<1> QED
  BY <1>1, ActKeeps, SweepFailsKeeps, ServerStopsKeeps, MidnightKeeps DEF Next

LEMMA StartsRight == Init => IInv
<1> SUFFICES ASSUME Init PROVE IInv  OBVIOUS
<1>1. 1 \in 1..(Periods + 1)  BY ScheduleAssumption DEF ScheduleAssumption
<1>2. TypeOK
  BY <1>1, ScheduleAssumption, IdleType
  DEF Init, TypeOK, Statuses, Results, ScheduleAssumption
<1>3. \A r \in Request : SweepOK(request[r])
  BY IdleType, NothingInHand DEF Init, InHand
<1>4. \A s \in Schedule : StandsRight(s)  BY DEF Init, StandsRight
<1> QED  BY <1>2, <1>3, <1>4 DEF IInv

\* However many requests of the customer sweep at once and wherever they break
\* off, what each of them still holds of the schedules is true of the rows.
THEOREM Inductive == Spec => []IInv
<1> QED  BY StartsRight, StepKeeps, PTL DEF Spec

-----------------------------------------------------------------------------
(* What a step does to the schedules, the payments and the notifications.  *)

\* A sweep pays the period of a copy it holds, which is due on its day.
PaysOne ==
  \E c \in Copy, r \in Request :
    /\ Pays(c.s, c.k) /\ CopyOK(c, request[r].today)
    /\ request'[r] # request[r]
    /\ UNCHANGED <<schedule, told>>

TellsOne ==
  \E c \in Copy, result \in {"paid", "failed"} :
    /\ c.k <= schedule[c.s].due
    /\ result = "paid" => paid[c.s][c.k] > 0
    /\ told' = told \cup {<<c.s, c.k, result>>}
    /\ UNCHANGED <<schedule, paid>>

\* A schedule leaves a period behind after the customer was told of it.
MovesOne ==
  \E c \in Copy, result \in {"paid", "failed"} :
    /\ StillHere(c) /\ Told(c.s, c.k, result)
    /\ schedule' = [schedule EXCEPT ![c.s] = MovedOn(c.s, result)]
    /\ UNCHANGED <<paid, told>>

\* The customer saves a schedule or cancels one.
Decides ==
  \E s \in Schedule :
    /\ \/ schedule[s].status = "new" /\ schedule' = [schedule EXCEPT ![s].status = "active"]
       \/ schedule[s].status = "active" /\ schedule' = [schedule EXCEPT ![s].status = "cancelled"]
    /\ UNCHANGED <<paid, told>>

LEMMA PayPays ==
  ASSUME IInv, NEW r \in Request, Pay(r) \/ SweepFails(r)
  PROVE  PaysOne \/ UNCHANGED <<schedule, paid, told>>
<1> DEFINE c == Current(r)
<1>1. CASE UNCHANGED paid  BY <1>1 DEF Pay, SweepFails
<1>2. CASE ~UNCHANGED paid
  <2>1. request[r].pc = "pay"  BY <1>2 DEF Pay, SweepFails, At
  <2>2. /\ request[r] \in Requests /\ SweepOK(request[r]) /\ request[r].queue # << >>
        /\ c = request[r].queue[1] /\ c \in Copy /\ c.s \in Schedule /\ c.k \in Period
    BY <2>1, InHandType DEF InHand
  <2>3. balance \in Nat /\ Amount[c.s] \in Nat /\ paid[c.s][c.k] \in Nat
    BY ZenonT(60), <2>2, IInvParts, ScheduleAssumption DEF RowsOK, ScheduleAssumption
  <2>4. Pays(c.s, c.k) /\ UNCHANGED <<schedule, told>>
    BY <1>2, <2>3 DEF Pay, SweepFails, Pays
  <2>5. CopyOK(c, request[r].today)
    <3>1. 1 \in 1..Len(request[r].queue)  BY <2>2, HeadOf
    <3> QED  BY <2>1, <2>2, <3>1 DEF SweepOK
  <2>6. request'[r] # request[r]
    <3>1. request'[r].pc # "pay"
      <4>1. request \in [Request -> Requests]  BY DEF IInv, TypeOK
      <4>2. CASE Pay(r)
        <5>1. PICK result \in {"paid", "failed"} :
                Now(r, [request[r] EXCEPT !.pc = "notify", !.result = result])
          BY <4>2 DEF Pay
        <5>2. request'[r] = [request[r] EXCEPT !.pc = "notify", !.result = result]
          BY <4>1, <5>1 DEF Now
        <5> QED  BY <2>2, <5>2 DEF Requests
      <4>3. CASE SweepFails(r)
        <5>1. request'[r] = AfterSweep(request[r])  BY <4>1, <4>3 DEF SweepFails, Now
        <5> QED  BY <2>2, <5>1, AfterSweepType
      <4> QED  BY <4>2, <4>3
    <3> QED  BY <2>1, <3>1
  <2> QED  BY <2>2, <2>4, <2>5, <2>6 DEF PaysOne
<1> QED  BY <1>1, <1>2

LEMMA NotifyTells ==
  ASSUME IInv, NEW r \in Request, Notify(r)  PROVE TellsOne
<1> DEFINE c == Current(r)
<1>1. request[r].pc = "notify"  BY DEF Notify, At
<1>2. /\ request[r] \in Requests /\ SweepOK(request[r]) /\ request[r].queue # << >>
      /\ c = request[r].queue[1] /\ c \in Copy
  BY <1>1, InHandType DEF InHand
<1>3. /\ request[r].result \in {"paid", "failed"}
      /\ request[r].result = "paid" => paid[c.s][c.k] > 0
  BY <1>1, <1>2 DEF SweepOK
<1>4. c.k <= schedule[c.s].due
  <2>1. 1 \in 1..Len(request[r].queue)  BY <1>2, HeadOf
  <2> QED  BY <1>1, <1>2, <2>1 DEF SweepOK, CopyOK
<1> QED  BY <1>2, <1>3, <1>4 DEF TellsOne, Notify

LEMMA MoveMoves ==
  ASSUME IInv, NEW r \in Request, Move(r)
  PROVE  MovesOne \/ UNCHANGED <<schedule, paid, told>>
<1> DEFINE c == Current(r)
<1>1. request[r].pc = "move"  BY DEF Move, At
<1>2. /\ SweepOK(request[r]) /\ c = request[r].queue[1] /\ c \in Copy
  BY <1>1, InHandType DEF InHand
<1>3. request[r].result \in {"paid", "failed"} /\ Told(c.s, c.k, request[r].result)
  BY <1>1, <1>2 DEF SweepOK
<1>4. CASE StillHere(c)
  BY <1>2, <1>3, <1>4 DEF Move, MovesOne
<1>5. CASE ~StillHere(c)
  BY <1>5 DEF Move
<1> QED  BY <1>4, <1>5

LEMMA StepShape ==
  ASSUME IInv, [Next]_vars
  PROVE  PaysOne \/ TellsOne \/ MovesOne \/ Decides \/ UNCHANGED <<schedule, paid, told>>
<1>1. ASSUME NEW r \in Request, Sweep(r)
      PROVE  PaysOne \/ TellsOne \/ MovesOne \/ UNCHANGED <<schedule, paid, told>>
  <2>1. CASE ReadClock(r) \/ Select(r) \/ LookUp(r)
    BY <2>1 DEF ReadClock, Select, LookUp, rows
  <2> QED  BY <1>1, <2>1, PayPays, NotifyTells, MoveMoves DEF Sweep
<1>2. ASSUME NEW r \in Request, Act(r)
      PROVE  Decides \/ UNCHANGED <<schedule, paid, told>>
  <2>1. ASSUME NEW s \in Schedule, Cancel(r, s) \/ Create(r, s)
        PROVE  Decides \/ UNCHANGED <<schedule, paid, told>>
    BY <2>1 DEF Cancel, Create, Decides
  <2>2. CASE Visit(r) \/ Deposit(r) \/ ReadToday(r)
    BY <2>2 DEF Visit, Deposit, ReadToday, rows
  <2>3. CASE ReadOffset(r) \/ MoveClock(r) \/ ResetClock(r)
    BY <2>3 DEF ReadOffset, MoveClock, ResetClock, rows
  <2> QED  BY <1>2, <2>1, <2>2, <2>3 DEF Act
<1>3. CASE ServerStops \/ Midnight \/ UNCHANGED vars
  BY <1>3 DEF ServerStops, Midnight, vars, rows
<1> QED  BY <1>1, <1>2, <1>3, PayPays DEF Next

-----------------------------------------------------------------------------
(* A period is paid once and told.                                         *)

LEMMA StepGrows ==
  ASSUME IInv, IInv', [Next]_vars
  PROVE  Grows
<1>1. RowsOK /\ RowsOK'  BY IInvParts DEF IInv, TypeOK, RowsOK
<1>2. \A s \in Schedule : schedule[s].due \in Int /\ schedule'[s].due \in Int
  BY <1>1, DueType
<1>3. CASE PaysOne
  <2>1. PICK c \in Copy : Pays(c.s, c.k) /\ UNCHANGED <<schedule, told>>
    BY <1>3 DEF PaysOne
  <2>2. c.s \in Schedule /\ c.k \in Period  BY DEF Copy
  <2>3. \A s \in Schedule, k \in Period : paid[s][k] > 0 => paid'[s][k] > 0
    BY <1>1, <2>1, <2>2 DEF Pays, RowsOK
  <2> QED  BY <1>2, <2>1, <2>3 DEF Grows
<1>6. CASE TellsOne \/ UNCHANGED <<schedule, paid, told>>
  BY <1>2, <1>6 DEF TellsOne, Grows
<1>4. CASE MovesOne
  <2>1. ASSUME NEW s \in Schedule  PROVE schedule[s].due <= schedule'[s].due
    BY <1>1, <1>2, <1>4 DEF MovesOne, MovedOn, RowsOK
  <2> QED  BY <1>4, <2>1 DEF MovesOne, Grows
<1>5. CASE Decides
  <2>1. ASSUME NEW s \in Schedule  PROVE schedule[s].due = schedule'[s].due
    <3>1. PICK x \in Schedule, status \in {"active", "cancelled"} :
            schedule' = [schedule EXCEPT ![x].status = status]
      BY <1>5 DEF Decides
    <3> QED  BY <1>1, <3>1 DEF RowsOK
  <2> QED  BY <1>2, <1>5, <2>1 DEF Decides, Grows
<1> QED  BY <1>3, <1>4, <1>5, <1>6, StepShape

\* What is paid and told afterwards and was not before.
LEMMA NewlyTold ==
  ASSUME IInv, IInv', [Next]_vars, NEW s \in Schedule, NEW k \in Period
  PROVE  /\ paid'[s][k] # paid[s][k] =>
              /\ paid[s][k] = 0 /\ paid'[s][k] = 1 /\ k <= schedule[s].due
              /\ \E r \in Request : /\ request[r] # request'[r]
                                    /\ BusinessDay(DueOn[s][k]) <= request[r].today
         /\ \A result \in Results :
              Told(s, k, result)' /\ ~Told(s, k, result) =>
                /\ k <= schedule[s].due
                /\ result = "paid" => paid[s][k] > 0
<1>1. RowsOK  BY IInvParts
<1>2. CASE PaysOne
  <2>1. PICK c \in Copy, r \in Request :
          /\ Pays(c.s, c.k) /\ CopyOK(c, request[r].today)
          /\ request'[r] # request[r] /\ told' = told
    BY <1>2 DEF PaysOne
  <2>2. c.s \in Schedule /\ c.k \in Period  BY DEF Copy
  <2>3. paid'[s][k] # paid[s][k] => s = c.s /\ k = c.k
    BY <1>1, <2>1, <2>2 DEF Pays, RowsOK
  <2>4. paid[c.s][c.k] = 0 /\ paid'[c.s][c.k] = 1
    BY <1>1, <2>1, <2>2 DEF Pays, RowsOK
  <2> QED  BY <2>1, <2>3, <2>4 DEF Told, CopyOK
<1>3. CASE TellsOne
  BY <1>3 DEF TellsOne, Told
<1>4. CASE MovesOne \/ Decides \/ UNCHANGED <<schedule, paid, told>>
  BY <1>4 DEF MovesOne, Decides, Told
<1> QED  BY <1>2, <1>3, <1>4, StepShape

LEMMA StillPaidAtMostOnce ==
  ASSUME IInv, IInv', [Next]_vars, PaidAtMostOnce  PROVE PaidAtMostOnce'
<1> SUFFICES ASSUME NEW s \in Schedule, NEW k \in Period
             PROVE  /\ paid'[s][k] <= 1
                    /\ paid'[s][k] > 0 \/ Told(s, k, "failed")' => k <= schedule'[s].due
                    /\ Told(s, k, "paid")' => paid'[s][k] > 0
  BY DEF PaidAtMostOnce
<1>1. /\ paid[s][k] <= 1
      /\ paid[s][k] > 0 \/ Told(s, k, "failed") => k <= schedule[s].due
      /\ Told(s, k, "paid") => paid[s][k] > 0
  BY DEF PaidAtMostOnce
<1>2. /\ schedule[s].due \in Int /\ schedule'[s].due \in Int /\ k \in Int
      /\ paid[s][k] \in Nat /\ paid'[s][k] \in Nat
  <2>1. RowsOK /\ RowsOK'  BY IInvParts DEF IInv, TypeOK, RowsOK
  <2>2. schedule[s].due \in Int /\ schedule'[s].due \in Int  BY <2>1, DueType
  <2>3. paid[s][k] \in Nat /\ paid'[s][k] \in Nat  BY <2>1 DEF RowsOK
  <2> QED  BY <2>2, <2>3 DEF Period
<1>3. schedule[s].due <= schedule'[s].due /\ (paid[s][k] > 0 => paid'[s][k] > 0)
  BY StepGrows DEF Grows
<1>4. "paid" \in Results /\ "failed" \in Results  BY DEF Results
<1> QED  BY <1>1, <1>2, <1>3, <1>4, NewlyTold

LEMMA PassedCount ==
  ASSUME IInv, NEW s \in Schedule
  PROVE  schedule[s].runs = Cardinality(Passed(s))
<1>1. schedule[s].due \in 1..(Periods + 1) /\ Periods \in Nat
  BY IInvParts, ScheduleAssumption DEF RowsOK, ScheduleAssumption
<1>2. StandsRight(s)  BY DEF IInv
<1>3. CASE s \in Once
  <2>1. Cardinality({1}) = 1 /\ Cardinality({}) = 0
    BY FS_Singleton, FS_EmptySet
  <2> QED  BY <1>2, <1>3, <2>1 DEF StandsRight, Passed
<1>4. CASE s \notin Once
  <2>1. Cardinality(1..(schedule[s].due - 1)) = schedule[s].due - 1
    <3>1. schedule[s].due - 1 \in Int /\ schedule[s].due - 1 >= 0  BY <1>1
    <3> QED  BY <3>1, FS_Interval
  <2> QED  BY <1>2, <1>4, <2>1 DEF StandsRight, Passed
<1> QED  BY <1>3, <1>4

\* The result the schedule shows, and the period it is of.
LastPeriod(s) == IF s \in Once THEN 1 ELSE schedule[s].due - 1

ToldOf(s) ==
  /\ \A k \in Passed(s) : Told(s, k, "paid") \/ Told(s, k, "failed")
  /\ schedule[s].result # "none" => Told(s, LastPeriod(s), schedule[s].result)

LEMMA PassedArePeriods ==
  ASSUME IInv, NEW s \in Schedule
  PROVE  Passed(s) \subseteq Period
<1>1. schedule[s].due \in 1..(Periods + 1) /\ Periods \in Nat \ {0}
  BY IInvParts, ScheduleAssumption DEF RowsOK, ScheduleAssumption
<1> QED  BY <1>1 DEF Passed, Period

LEMMA StillTold ==
  ASSUME IInv, IInv', [Next]_vars, NEW s \in Schedule, ToldOf(s)  PROVE ToldOf(s)'
<1>1. RowsOK /\ StandsRight(s) /\ told \subseteq told'
  BY IInvParts, StepGrows DEF IInv, Grows
<1>2. CASE schedule'[s] = schedule[s]
  BY <1>1, <1>2 DEF ToldOf, Passed, LastPeriod, Told
<1>3. CASE schedule'[s] # schedule[s]
  <2>1. CASE Decides
    <3>1. /\ schedule'[s].due = schedule[s].due /\ schedule'[s].result = schedule[s].result
          /\ schedule'[s].status \in {"done", "failed"} <=>
               schedule[s].status \in {"done", "failed"}
      BY <1>1, <1>3, <2>1 DEF Decides, RowsOK
    <3> QED  BY <1>1, <3>1 DEF ToldOf, Passed, LastPeriod, Told
  <2>2. CASE MovesOne
    <3>1. PICK c \in Copy, result \in {"paid", "failed"} :
            /\ StillHere(c) /\ Told(c.s, c.k, result)
            /\ schedule' = [schedule EXCEPT ![c.s] = MovedOn(c.s, result)]
      BY <2>2 DEF MovesOne
    <3>2. c.s = s /\ c.k = schedule[s].due
      BY <1>3, <3>1 DEF RowsOK, StillHere
    <3>3. schedule'[s] = MovedOn(s, result)  BY <1>1, <3>1, <3>2 DEF RowsOK
    <3>4. PICK d \in Nat : d = schedule[s].due
      <4>1. schedule[s].due \in Nat
        BY <1>1, ScheduleAssumption DEF RowsOK, ScheduleAssumption
      <4> QED  BY <4>1
    <3>5. Told(s, d, result)'  BY <1>1, <3>1, <3>2, <3>4 DEF Told
    <3>6. CASE s \in Once
      <4>1. d = 1  BY <1>1, <3>4, <3>6 DEF StandsRight
      <4>2. schedule'[s].result = result  BY <3>3 DEF MovedOn
      <4>3. Passed(s)' \subseteq {1} /\ LastPeriod(s)' = 1
        BY <3>6 DEF Passed, LastPeriod
      <4> QED  BY <3>5, <4>1, <4>2, <4>3 DEF ToldOf, Told
    <3>7. CASE s \notin Once
      <4>1. schedule'[s].result = result /\ schedule'[s].due = d + 1
        BY <3>3, <3>4, <3>7 DEF MovedOn
      <4>2. schedule'[s].due - 1 = d  BY <4>1
      <4>3. \A k \in 1..d : k = d \/ k \in Passed(s)
        BY <3>4, <3>7 DEF Passed
      <4>4. Passed(s)' = 1..d /\ LastPeriod(s)' = d
        BY <3>7, <4>2 DEF Passed, LastPeriod
      <4>5. ASSUME NEW k \in Passed(s)'  PROVE Told(s, k, "paid")' \/ Told(s, k, "failed")'
        <5>1. CASE k = d  BY <3>5, <5>1 DEF Told
        <5>2. CASE k # d
          <6>1. k \in Passed(s)  BY <4>3, <4>4, <5>2
          <6> QED  BY <1>1, <6>1 DEF ToldOf, Told
        <5> QED  BY <5>1, <5>2
      <4>6. Told(s, LastPeriod(s), schedule[s].result)'
        BY <3>5, <4>1, <4>4 DEF Told
      <4> QED  BY <4>5, <4>6 DEF ToldOf
    <3> QED  BY <3>6, <3>7
  <2>3. CASE PaysOne \/ TellsOne \/ UNCHANGED <<schedule, paid, told>>
    BY <1>3, <2>3 DEF PaysOne, TellsOne
  <2> QED  BY <2>1, <2>2, <2>3, StepShape
<1> QED  BY <1>2, <1>3

LEMMA ToldIsEnough ==
  ASSUME IInv, PaidAtMostOnce, \A s \in Schedule : ToldOf(s)
  PROVE  PaidOnceAndTold
<1> SUFFICES ASSUME NEW s \in Schedule
             PROVE  schedule[s].result = "paid" => paid[s][LastPeriod(s)] = 1
  BY PassedCount DEF PaidOnceAndTold, EveryPeriodIsTold, ToldOf, LastPeriod
<1> SUFFICES ASSUME schedule[s].result = "paid" PROVE paid[s][LastPeriod(s)] = 1
  OBVIOUS
<1>1. Told(s, LastPeriod(s), "paid")  BY DEF ToldOf
<1>2. RowsOK  BY IInvParts
<1>3. LastPeriod(s) \in Period  BY <1>1, <1>2 DEF RowsOK, Told
<1>4. paid[s][LastPeriod(s)] > 0 /\ paid[s][LastPeriod(s)] <= 1
  BY <1>1, <1>3 DEF PaidAtMostOnce
<1>5. paid[s][LastPeriod(s)] \in Nat  BY <1>2, <1>3 DEF RowsOK
<1> QED  BY <1>4, <1>5

LEMMA StartsUntold ==
  ASSUME Init  PROVE PaidAtMostOnce /\ \A s \in Schedule : ToldOf(s)
<1>1. PaidAtMostOnce  BY DEF Init, PaidAtMostOnce, Told
<1>2. \A s \in Schedule : ToldOf(s)  BY DEF Init, ToldOf, Passed
<1> QED  BY <1>1, <1>2

\* Every record is of its type in every reachable state.
THEOREM TypeCorrect == Spec => []TypeOK
<1>1. IInv => TypeOK  BY DEF IInv
<1> QED  BY <1>1, Inductive, PTL

\* However many requests of the customer sweep at once, fail on the way or
\* come again (runDue, runOne), no period of a schedule is paid twice, and none
\* is left behind before the customer was told how it went.
THEOREM PaidOnce == Spec => []PaidOnceAndTold
<1> DEFINE J == PaidAtMostOnce /\ \A s \in Schedule : ToldOf(s)
<1>1. Init => J  BY StartsUntold
<1>2. IInv /\ IInv' /\ [Next]_vars /\ J => J'
  <2> SUFFICES ASSUME IInv, IInv', [Next]_vars, J  PROVE J'
    OBVIOUS
  <2>1. PaidAtMostOnce'  BY StillPaidAtMostOnce
  <2>2. \A s \in Schedule : ToldOf(s)'  BY StillTold
  <2> QED  BY <2>1, <2>2
<1>3. IInv /\ J => PaidOnceAndTold  BY ToldIsEnough
<1> HIDE DEF J
<1> QED  BY <1>1, <1>2, <1>3, Inductive, PTL DEF Spec

\* A schedule goes forward by one period at a time and never comes back from
\* what ended it, and nothing is paid before its day, in every step.
THEOREM OnlyForward == Spec => MovesForward
<1>1. IInv /\ IInv' /\ [Next]_vars =>
        [\A s \in Schedule : GoesOn(s) /\ \A k \in Period : PaidInTime(s, k)]_vars
  <2> SUFFICES ASSUME IInv, IInv', [Next]_vars, NEW s \in Schedule
               PROVE  GoesOn(s) /\ \A k \in Period : PaidInTime(s, k)
    OBVIOUS
  <2>1. RowsOK  BY IInvParts
  <2>2. \A k \in Period : PaidInTime(s, k)  BY NewlyTold DEF PaidInTime
  <2>3. GoesOn(s)
    <3>1. CASE PaysOne \/ TellsOne \/ UNCHANGED <<schedule, paid, told>>
      BY <3>1 DEF PaysOne, TellsOne, GoesOn
    <3>2. CASE MovesOne
      <4>1. PICK c \in Copy, result \in {"paid", "failed"} :
              /\ StillHere(c)
              /\ schedule' = [schedule EXCEPT ![c.s] = MovedOn(c.s, result)]
        BY <3>2 DEF MovesOne
      <4>2. c.s \in Schedule  BY DEF Copy
      <4>3. CASE s = c.s
        <5>1. schedule'[s] = MovedOn(s, result) /\ schedule[s].status = "active"
          BY <2>1, <4>1, <4>2, <4>3 DEF StillHere, RowsOK
        <5> QED  BY <5>1 DEF MovedOn, GoesOn
      <4>4. CASE s # c.s
        BY <2>1, <4>1, <4>4 DEF GoesOn, RowsOK
      <4> QED  BY <4>3, <4>4
    <3>3. CASE Decides
      <4>1. PICK x \in Schedule, status \in {"active", "cancelled"} :
              /\ schedule[x].status \in {"new", "active"}
              /\ schedule' = [schedule EXCEPT ![x].status = status]
        BY <3>3 DEF Decides
      <4> QED  BY <2>1, <4>1 DEF GoesOn, RowsOK
    <3> QED  BY <3>1, <3>2, <3>3, StepShape
  <2> QED  BY <2>2, <2>3
<1> QED  BY <1>1, Inductive, PTL DEF Spec, MovesForward
=============================================================================
