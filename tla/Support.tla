------------------------------- MODULE Support ------------------------------
(***************************************************************************)
(* Support tickets (src/bank/support.js): a customer writes, staff answer  *)
(* and solve.  A message gets its place when it is inserted, the ticket    *)
(* its status when it is updated, and both are seen at COMMIT.             *)
(***************************************************************************)
EXTENDS DeskRows, Sequences

CONSTANTS Ticket, Writer, Opened  \* tickets, their customers, those open

ASSUME TicketAssumption == Opened \subseteq Ticket

\* What the routes let through.
TicketCall(c) ==
  /\ c.kind \in {"openTicket", "reply", "solve"} => c.ticket \in Ticket
  /\ c.kind = "reply" => c.staff \in BOOLEAN

VARIABLES
  ticket,   \* bank_support_tickets.status
  messages  \* who inserted each ticket's messages, by seq; the row of a request
            \* that is not done is rolled back, and its seq is not used again

ticketVars == <<ticket, messages>>

TicketInit ==
  /\ ticket = [t \in Ticket |-> IF t \in Opened THEN "open" ELSE "none"]
  /\ messages = [t \in Ticket |-> << >>]

Says(r) == messages' = [messages EXCEPT ![call[r].ticket] = Append(@, r)]
Becomes(r, status) == ticket' = [ticket EXCEPT ![call[r].ticket] = status]

\* The ticket and its first message.
OpenTicket(r) ==
  /\ At(r, {"openTicket"}, "start")
  /\ Commit(r, NoMoney, {})
  /\ Becomes(r, "open")
  /\ Says(r)

InsertMessage(r) ==
  /\ At(r, {"reply"}, "start")
  /\ Read(r, "status")
  /\ Says(r)
  /\ UNCHANGED ticket

\* Staff answer somebody else's ticket.
Answers(r) == call[r].staff /\ call[r].user # Writer[call[r].ticket]

\* Mutant: the planted fault bankSupportStatus, a customer's reply keeps the
\* status.
SetStatusKeeping(r) ==
  /\ At(r, {"reply"}, "status")
  /\ IF call[r].staff THEN Becomes(r, "answered") ELSE UNCHANGED ticket
  /\ Commit(r, NoMoney,
       IF Answers(r) THEN {<<Writer[call[r].ticket], "support_reply">>} ELSE {})
  /\ UNCHANGED messages

\* addMessage: staff make the ticket answered, and the customer is told unless
\* it is the writer's own; a customer makes it open again.
SetStatus(r) ==
  /\ At(r, {"reply"}, "status")
  /\ Becomes(r, IF call[r].staff THEN "answered" ELSE "open")
  /\ Commit(r, NoMoney,
       IF Answers(r) THEN {<<Writer[call[r].ticket], "support_reply">>} ELSE {})
  /\ UNCHANGED messages

\* The route reads the status, solveTicket does not ask again.
CheckSolved(r) ==
  /\ At(r, {"solve"}, "start")
  /\ IF ticket[call[r].ticket] = "solved" THEN Refuse(r, "solved")
                                          ELSE Read(r, "status")
  /\ UNCHANGED ticketVars

Solve(r) ==
  /\ At(r, {"solve"}, "status")
  /\ Becomes(r, "solved")
  /\ Commit(r, NoMoney, {<<Writer[call[r].ticket], "support_solved">>})
  /\ UNCHANGED messages

TicketStep(r) ==
  OpenTicket(r) \/ InsertMessage(r) \/ SetStatus(r) \/ CheckSolved(r) \/ Solve(r)

-----------------------------------------------------------------------------
TicketTypeOK ==
  /\ ticket \in [Ticket -> {"none", "open", "answered", "solved"}]
  /\ messages \in [Ticket -> Seq(Request)]

ActsOn(t) ==
  {r \in Request : /\ Kind(r) \in {"openTicket", "reply", "solve"}
                   /\ call[r].ticket = t
                   /\ outcome[r] = "done"}

LeavesIt(r) == CASE Kind(r) = "solve" -> "solved"
                 [] Kind(r) = "reply" /\ call[r].staff -> "answered"
                 [] OTHER -> "open"

\* A ticket shows the last word: its status is the one left by whoever came
\* after all others were over, so a customer's reply to an answered or solved
\* ticket brings it back to the staff's open list.
ShowsTheLastWord ==
  \A t \in Ticket : \A r \in ActsOn(t) :
    (\A s \in ActsOn(t) \ {r} : s \in before[r]) => ticket[t] = LeavesIt(r)
=============================================================================
