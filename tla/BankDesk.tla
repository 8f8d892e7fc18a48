------------------------------ MODULE BankDesk ------------------------------
(***************************************************************************)
(* The bank's desk: cards, money requests, loans, support tickets, coins   *)
(* and who may act, over the same accounts and notifications               *)
(* (src/bank/routes.js sends each request to its handler).                 *)
(***************************************************************************)
EXTENDS Cards, MoneyRequests, Loans, Support, Trades, BankAccess

\* What the routes let through: calls of these forms, and ids that the database
\* makes are made once; a session is the one a log-in or a sign-up opened.
ASSUME PlanAssumption ==
  \A c \in Plan : \A r \in Request :
    /\ CardCall(c[r]) /\ AskCall(c[r]) /\ LoanCall(c[r])
    /\ TicketCall(c[r]) /\ TradeCall(c[r]) /\ AccessCall(c[r])
    /\ \A s \in Request \ {r} :
         /\ c[r].kind = "ask" /\ c[s].kind = "ask" => c[r].ask # c[s].ask
         /\ c[r].kind = "loan" /\ c[s].kind = "loan" => c[r].loan # c[s].loan
         /\ c[r].kind = "newKey" /\ c[s].kind = "newKey" => c[r].key # c[s].key
    /\ c[r].kind \in {"visit", "logout", "endOthers"} =>
         c[c[r].by].kind \in {"login", "register"}

Tables == <<cardVars, askVars, loan, ticketVars, tradeVars, accessVars>>
vars == <<deskVars, Tables>>

Init ==
  /\ DeskInit /\ CardInit /\ AskInit /\ LoanInit /\ TicketInit
  /\ TradeInit /\ AccessInit

\* The request r waits for in its next statement, or None.
HeldBy(row, r) == IF Free(row, r) THEN None ELSE lock[row]
Blocker(r) ==
  LET c == call[r] IN
  CASE At(r, {"pay"}, "start") -> HeldBy(c.ask, r)
    [] At(r, {"pay", "transfer"}, "debit") -> HeldBy(From(r), r)
    [] At(r, {"pay", "transfer"}, "credit") -> HeldBy(Into(r), r)
    [] At(r, {"pay", "transfer"}, "record") ->
         IF KeyHeld(r) = {} THEN None ELSE CHOOSE s \in KeyHeld(r) : TRUE
    [] At(r, {"decline", "cancel"}, "start") -> HeldBy(c.ask, r)
    [] At(r, {"decide"}, "start") -> HeldBy(c.loan, r)
    [] At(r, {"decide"}, "fund") -> HeldBy(LoanInto[c.loan], r)
    [] At(r, {"charge"}, "debit") -> HeldBy(CardOf[c.card], r)
    [] At(r, {"setStatus"}, "start") -> HeldBy(c.user, r)
    [] TradeWaitsOn(r) # None -> HeldBy(TradeWaitsOn(r), r)
    [] OTHER -> None

InDeadlock(r) ==
  /\ Blocker(r) # None
  /\ \E S \in SUBSET Request : r \in S /\ {Blocker(s) : s \in S} = S

Serve(r) ==
  \/ CardStep(r) /\ UNCHANGED <<askVars, loan, ticketVars, tradeVars, accessVars>>
  \/ AskStep(r) /\ UNCHANGED <<cardVars, loan, ticketVars, tradeVars, accessVars>>
  \/ LoanStep(r) /\ UNCHANGED <<cardVars, askVars, ticketVars, tradeVars, accessVars>>
  \/ TicketStep(r) /\ UNCHANGED <<cardVars, askVars, loan, tradeVars, accessVars>>
  \/ TradeStep(r) /\ UNCHANGED <<cardVars, askVars, loan, ticketVars, accessVars>>
  \/ AccessStep(r) /\ UNCHANGED <<cardVars, askVars, loan, ticketVars, tradeVars>>

\* The statements of r, and the end that Postgres makes of a deadlock.
Handle(r) == Serve(r) \/ (InDeadlock(r) /\ Breaks(r) /\ UNCHANGED Tables)

\* The server stops, and starts again (src/bank/index.js).
Restart ==
  /\ ServerStops
  /\ EnsureStarters
  /\ UNCHANGED <<cardVars, askVars, loan, ticketVars, tradeVars>>

Next ==
  \/ \E r \in Request : Serve(r)
  \/ (\E r \in Request : (Begin(r) /\ HasToken(r)) \/ Breaks(r)) /\ UNCHANGED Tables
  \/ Restart
  \/ /\ TimePasses
     /\ UNCHANGED <<deskVars, cardVars, askVars, loan, ticketVars, tradeVars>>

Spec == Init /\ [][Next]_vars

\* A request that can go on does, and a deadlock is ended.
FairSpec == Spec /\ \A r \in Request : WF_vars(Handle(r))

-----------------------------------------------------------------------------
TypeOK ==
  /\ DeskTypeOK /\ CardTypeOK /\ AskTypeOK /\ LoanTypeOK /\ TicketTypeOK
  /\ TradeTypeOK /\ AccessTypeOK

\* What a request has added to account a.
Effect(r, a) ==
  IF outcome[r] # "done" THEN 0
  ELSE CASE Kind(r) = "charge" -> IF CardOf[call[r].card] = a THEN -call[r].amt ELSE 0
         [] Kind(r) \in {"pay", "transfer"} -> Moved(r)[a]
         [] Kind(r) = "decide" -> IF call[r].approve /\ LoanInto[call[r].loan] = a
                                    THEN LoanAmt[call[r].loan] ELSE 0
         [] Kind(r) = "trade" -> IF call[r].account # a THEN 0
                                 ELSE IF Buys(r) THEN -Net(r) ELSE Net(r)
         [] OTHER -> 0

\* Every balance is the opening one and what approved purchases, payments,
\* approved loans and trades made of it, each counted once, and is never below zero.
MoneyIsExplained ==
  \A a \in Account :
    /\ bal[a] = Opening[a] + SumFunction([r \in Request |-> Effect(r, a)])
    /\ bal[a] >= 0

\* The account a payment takes money from, and how much.
Payer(r) ==
  IF Kind(r) = "charge" THEN CardOf[call[r].card]
  ELSE IF Kind(r) = "trade" THEN call[r].account ELSE From(r)
Price(r) ==
  IF Kind(r) = "charge" THEN call[r].amt
  ELSE IF Kind(r) = "trade" THEN Net(r) ELSE Amount(r)

\* r has taken money that leaves the account at its commit.
Debited(r) ==
  \/ Kind(r) = "charge" /\ pc[r] = "commit"
  \/ Kind(r) \in {"pay", "transfer"} /\ pc[r] \in {"credit", "record", "commit"}
  \/ Buys(r) /\ pc[r] \in {"give", "commit"}

\* Who has taken money keeps the account's row, which covers it.
MoneyInv ==
  /\ MoneyIsExplained
  /\ \A r \in Request : Debited(r) => lock[Payer(r)] = r /\ bal[Payer(r)] >= Price(r)

\* What the other side is to be told of an act.
Deserved(r) ==
  LET c == call[r] IN
  IF outcome[r] = "none" THEN {}
  ELSE IF outcome[r] = "declined" THEN {<<Holder[c.card], "card_declined">>}
  ELSE CASE Kind(r) = "ask" -> {<<c.payer, "request_received">>}
         [] Kind(r) \in {"pay", "decline"} -> {<<AskBy[c.ask], "request_answered">>}
         [] Kind(r) = "transfer" /\ c.payee # c.user -> {<<c.payee, "money_received">>}
         [] Kind(r) = "trade" -> {<<c.user, "money_received">>}
         [] Kind(r) = "send" -> {<<c.payee, "money_received">>}
         [] Kind(r) = "decide" -> {<<LoanOf[c.loan], "loan_decided">>}
         [] Kind(r) = "reply" /\ Answers(r) -> {<<Writer[c.ticket], "support_reply">>}
         [] Kind(r) = "solve" -> {<<Writer[c.ticket], "support_solved">>}
         [] OTHER -> {}

Told(r) == {<<n.to, n.kind>> : n \in {m \in notices : m.by = r}}

\* "An action never happens without its notification, or the other way
\* round", whatever statement fails and whenever the server stops.  Freezing
\* a card for the bank is left out: its notification is a statement of its own.
ToldOfEveryAct == \A r \in Request : Kind(r) # "adminCard" => Told(r) = Deserved(r)

\* What is on the books is explained: money by what each request did, coins and
\* their cost by trades, sends and swaps.
BooksAreExplained ==
  MoneyIsExplained /\ CoinsAreExplained /\ EmptyCostsNothing /\ SwapsCostNothing

\* Every cap holds for requests that come one after the other: a card's day, the
\* pending money requests, loans, keys and accounts, and a key's minute.
CapsHold ==
  /\ LimitHoldsInTurn /\ AskCapHoldsInTurn /\ LoanCapHoldsInTurn
  /\ CapsHoldInTurn /\ RateHolds

\* Whatever happens at once, each thing is done once and told: a request is
\* answered once, its key pays once, a loan is decided once, a customer starts
\* with one set of accounts, a ticket shows the last word.
DoneOnceAndTold ==
  /\ AnsweredOnce /\ KeyPaysOnce /\ DecidedOnce /\ StartersOnce
  /\ ShowsTheLastWord /\ ToldOfEveryAct

\* What is stopped stays stopped: a frozen card buys nothing, a customer who is
\* stopped acts no more, their sessions end, and a hold stands.
StopsStand ==
  FrozenBuysNothing /\ StoppedMeansStopped /\ LockEndsSessions /\ HoldStandsInTurn

\* What the rules above rest on: the order of requests, what is done once, what
\* is allowed and stopped, and the money and coin that are held.
OnceInv ==
  /\ TypeOK /\ SidesOK /\ InOrder
  /\ AskInv /\ LoanInv /\ StarterInv
  /\ DoneOnceAndTold
RuleInv ==
  /\ CardInv /\ AskCapInv /\ LoanCapInv /\ CapInv /\ HoldInv /\ RateInv
  /\ StopInv /\ SessionInv
BookInv == MoneyInv /\ CoinInv
DeskInv == OnceInv /\ RuleInv /\ BookInv

\* Everyone who came is answered or knows the answer is lost: no set of
\* requests waits for each other's rows for good.
EveryoneIsServed == \A r \in Request : InFlight(r) ~> pc[r] = "over"
=============================================================================
