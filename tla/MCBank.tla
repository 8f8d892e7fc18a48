------------------------------- MODULE MCBank -------------------------------
(***************************************************************************)
(* The bank's desk in scenes of three requests each, over three accounts   *)
(* of two customers; and what its two doors, REST and GraphQL, make of a   *)
(* program of changes, of a query and of a history read in pages.  A       *)
(* behaviour follows one of the four.                                      *)
(***************************************************************************)
EXTENDS BankDesk, BankDoors, GraphqlReads

CONSTANTS ann, bob, eve, kim, a1, b1, b2, k1, k2, k3, q1, q2, q3, q4, q5,
          l1, l2, l3, l4, t1, t2, t3, r1, r2, r3, key1,
          home, work, api1, api2, api3, o1, o2, o3, o4

MCOpening == a1 :> 3 @@ b1 :> 2 @@ b2 :> 2
MCCardOf == k1 :> a1 @@ k2 :> b1 @@ k3 :> b1
MCHolder == k1 :> ann @@ k2 :> bob @@ k3 :> bob
MCAskBy == [q \in Ask |-> IF q = q5 THEN bob ELSE ann]
MCAskInto == [q \in Ask |-> IF q = q5 THEN b1 ELSE a1]
MCAskAmt == [q \in Ask |-> 2]
MCLoanOf == [l \in Loan |-> IF l \in {l1, l4} THEN bob ELSE ann]
MCLoanInto == [l \in Loan |-> IF l \in {l1, l4} THEN b1 ELSE a1]
MCLoanAmt == [l \in Loan |-> 4]
MCWriter == [t \in Ticket |-> IF t = t3 THEN eve ELSE ann]

Scene(c1, c2, c3) == r1 :> c1 @@ r2 :> c2 @@ r3 :> c3

Pay(u, q, f, key) == [kind |-> "pay", user |-> u, ask |-> q, from |-> f, key |-> key]
Transfer(u, f, t, v, n, key) ==
  [kind |-> "transfer", user |-> u, from |-> f, to |-> t, payee |-> v,
   amt |-> n, key |-> key]
AskFor(u, q, v) == [kind |-> "ask", user |-> u, ask |-> q, payer |-> v]
DeclineIt(q) == [kind |-> "decline", ask |-> q]
CancelIt(q) == [kind |-> "cancel", ask |-> q]
Apply(u, l) == [kind |-> "loan", user |-> u, loan |-> l]
Decide(u, l, yes) == [kind |-> "decide", user |-> u, loan |-> l, approve |-> yes]
Charge(k, n) == [kind |-> "charge", card |-> k, amt |-> n]
Set(kind, k, status, limit) ==
  [kind |-> kind, card |-> k, status |-> status, limit |-> limit]
Mine(status) == Set("setCard", k1, status, None)
Bank(status) == Set("adminCard", k1, status, None)
Make(k) == [kind |-> "createCard", card |-> k]
Reply(u, t, staff) == [kind |-> "reply", user |-> u, ticket |-> t, staff |-> staff]
SolveIt(t) == [kind |-> "solve", ticket |-> t]
OpenIt(t) == [kind |-> "openTicket", ticket |-> t]

PayScenes ==
  {Scene(Pay(bob, q1, b1, key1), Pay(bob, q1, b2, None), CancelIt(q1)),
   Scene(Pay(bob, q1, b1, key1), Transfer(bob, b1, b2, bob, 1, key1), DeclineIt(q1)),
   Scene(Transfer(bob, b1, a1, ann, 1, key1), Transfer(bob, b2, a1, ann, 1, key1),
         Transfer(ann, a1, b1, bob, 3, None)),
   Scene(Pay(bob, q1, b1, None), Pay(ann, q5, a1, None), Charge(k1, 2)),
   Scene(AskFor(ann, q2, bob), AskFor(ann, q3, bob), CancelIt(q1)),
   Scene(AskFor(ann, q2, bob), AskFor(ann, q3, bob), DeclineIt(q1))}

LoanScenes ==
  {Scene(Decide(eve, l1, TRUE), Decide(kim, l1, FALSE), Pay(bob, q1, b1, None)),
   Scene(Decide(eve, l1, TRUE), Decide(kim, l1, TRUE), Transfer(bob, b1, a1, ann, 5, None)),
   Scene(Apply(ann, l2), Apply(ann, l3), Decide(ann, l2, TRUE)),
   Scene(Apply(bob, l4), Apply(ann, l2), Apply(ann, l3))}

CardScenes ==
  {Scene(Charge(k1, 2), Charge(k1, 1), Bank("frozen")),
   Scene(Charge(k1, 2), Charge(k1, 2), Charge(k1, 4)),
   Scene(Bank("frozen"), Mine("active"), Charge(k1, 1)),
   Scene(Bank("frozen"), Bank("active"), Charge(k1, 1)),
   Scene(Mine("frozen"), Mine("active"), Charge(k1, 1)),
   Scene(Set("setCard", k1, None, 1), Bank("frozen"), Charge(k1, 2)),
   Scene(Charge(k1, 2), Charge(k1, 1), Transfer(ann, a1, b1, bob, 2, None)),
   Scene(Make(k2), Make(k3), Charge(k2, 1))}

TicketScenes ==
  {Scene(Reply(kim, t1, TRUE), Reply(ann, t1, FALSE), SolveIt(t1)),
   Scene(Reply(kim, t1, TRUE), SolveIt(t1), SolveIt(t1)),
   Scene(OpenIt(t2), Reply(kim, t1, TRUE), Reply(ann, t1, FALSE)),
   Scene(Reply(eve, t3, TRUE), Reply(kim, t3, TRUE), SolveIt(t3))}

\* Coins: ann and bob both hold coin x, only ann holds y.
In(u, c) == [user |-> u, coin |-> c]
MCHolding == {In(u, c) : u \in {ann, bob}, c \in {"x", "y"}}
MCHeld == In(ann, "x") :> [atoms |-> 3, cost |-> 1]
       @@ In(bob, "x") :> [atoms |-> 4, cost |-> 6]
       @@ In(ann, "y") :> [atoms |-> 2, cost |-> 5]
       @@ In(bob, "y") :> Nothing
Offer(side, h, n, net) == [side |-> side, holding |-> h, atoms |-> n, net |-> net]
MCQuoteFor == o1 :> Offer("sell", In(ann, "x"), 1, 2)
           @@ o2 :> Offer("sell", In(ann, "x"), 2, 3)
           @@ o3 :> Offer("buy", In(bob, "y"), 1, 2)
           @@ o4 :> Offer("buy", In(bob, "y"), 2, 1)

Trade(u, o, a) ==
  [kind |-> "trade", user |-> u, quote |-> o, account |-> a, late |-> FALSE]
TooLate(u, o, a) == [Trade(u, o, a) EXCEPT !.late = TRUE]
Send(u, v, c, n, lands, value) ==
  [kind |-> "send", user |-> u, payee |-> v, source |-> In(u, c),
   target |-> In(v, c), atoms |-> n, lands |-> lands, value |-> value]
Swap(u, c, d, n, lands) ==
  [kind |-> "swap", user |-> u, source |-> In(u, c), target |-> In(u, d),
   atoms |-> n, lands |-> lands]

CoinScenes ==
  {Scene(Trade(ann, o1, a1), Trade(ann, o1, a1), Send(ann, bob, "x", 2, 1, 4)),
   Scene(Trade(ann, o1, a1), Trade(ann, o2, a1), Send(ann, bob, "x", 2, 1, 2)),
   Scene(Trade(bob, o3, b1), Trade(bob, o4, b1), Send(ann, bob, "y", 2, 1, 3)),
   Scene(Send(ann, bob, "x", 2, 1, 2), Send(bob, ann, "x", 2, 1, 2), TooLate(ann, o1, a1)),
   Scene(Swap(ann, "x", "y", 1, 1), Swap(ann, "y", "x", 1, 2), Trade(ann, o2, a1)),
   Scene(Trade(bob, o3, b1), Transfer(bob, b1, b2, bob, 1, None), Swap(ann, "x", "y", 3, 1))}

LogIn(u, c, right) == [kind |-> "login", user |-> u, client |-> c, right |-> right]
SignUp(u) == [kind |-> "register", user |-> u]
SetTo(u, to) == [kind |-> "setStatus", user |-> u, to |-> to]
Visit(s) == [kind |-> "visit", by |-> s]
LogOut(s) == [kind |-> "logout", by |-> s]
EndOthers(u, s) == [kind |-> "endOthers", user |-> u, by |-> s]
NewKey(u, k) == [kind |-> "newKey", user |-> u, key |-> k]
Revoke(k) == [kind |-> "revoke", key |-> k]
UseKey(k) == [kind |-> "useKey", key |-> k]
Open(u) == [kind |-> "open", user |-> u]

AccessScenes ==
  {Scene(LogIn(bob, home, FALSE), LogIn(bob, home, FALSE), LogIn(bob, home, FALSE)),
   Scene(LogIn(bob, home, FALSE), LogIn(bob, home, FALSE), LogIn(bob, home, TRUE)),
   Scene(LogIn(bob, home, FALSE), LogIn(bob, home, FALSE), LogIn(bob, work, TRUE)),
   Scene(LogIn(bob, home, TRUE), SetTo(bob, "locked"), Visit(r1)),
   Scene(LogIn(bob, home, TRUE), SetTo(bob, "locked"), SetTo(bob, "active")),
   Scene(LogIn(bob, home, TRUE), LogOut(r1), Visit(r1)),
   Scene(LogIn(bob, home, TRUE), LogIn(bob, work, TRUE), EndOthers(bob, r1)),
   Scene(SignUp(eve), SignUp(eve), Open(eve)),
   Scene(SignUp(eve), SetTo(bob, "locked"), LogIn(bob, home, TRUE)),
   Scene(NewKey(ann, api1), NewKey(ann, api2), NewKey(ann, api3)),
   Scene(NewKey(ann, api1), UseKey(api1), UseKey(api1)),
   Scene(NewKey(ann, api1), UseKey(api1), Revoke(api1)),
   Scene(NewKey(ann, api1), UseKey(api1), SetTo(ann, "locked")),
   Scene(NewKey(ann, api1), Revoke(api1), Revoke(api1)),
   Scene(Open(bob), Open(bob), Open(ann))}

MCRow == Account \cup Ask \cup Loan \cup Quote \cup User \cup MCHolding

MCPlan == CoinScenes \cup AccessScenes \cup PayScenes \cup LoanScenes \cup CardScenes
          \cup TicketScenes

-----------------------------------------------------------------------------
\* Programs of changes: nothing wrong with them at first, but for one.
Do(d) == [deed |-> d, wrong |-> {}]
DoWrong(d, check) == [deed |-> d, wrong |-> {check}]

MCDocuments ==
  {<<Do("transfer"), Do("payBill"), Do("payRequest")>>,
   <<Do("payRequest"), Do("declineRequest")>>,
   <<Do("getCard"), Do("updateCard"), Do("getCard")>>,
   <<Do("createApiKey"), Do("revokeApiKey"), Do("revokeApiKey")>>,
   <<Do("trade"), Do("trade"), Do("sendCoin")>>,
   <<Do("addFunds"), DoWrong("transfer", "recipient"), Do("transfer")>>,
   <<Do("cancelRequest"), Do("cancelOrder"), Do("cancelOrder")>>,
   <<Do("requestLoan"), Do("requestLoan"), Do("askForMoney")>>}

VARIABLE asks  \* "desk", "doors", "query" or "pages"

DeskIdle == (call = CHOOSE scene \in Plan : TRUE) /\ Init
DoorIdle ==
  /\ caller = [by |-> "visitor", demo |-> FALSE] /\ door = "rest"
  /\ ops = <<>> /\ turn = 1 /\ books = <<>> /\ reply = NoReply
PagesIdle ==
  landed = {} /\ atFirst = {} /\ read = <<>> /\ cursor = NoCursor /\ more = "unread"
QueryIdle == root = "Query" /\ path = <<>>

MCInit ==
  \/ asks = "desk" /\ Init /\ DoorIdle /\ PagesIdle /\ QueryIdle
  \/ asks = "doors" /\ DoorStart /\ DeskIdle /\ PagesIdle /\ QueryIdle
  \/ asks = "pages" /\ PagesStart /\ DeskIdle /\ DoorIdle /\ QueryIdle
  \/ asks = "query" /\ QueryStart /\ DeskIdle /\ DoorIdle /\ PagesIdle

MCNext ==
  \/ asks = "desk" /\ Next /\ UNCHANGED <<asks, doorVars, pageVars, queryVars>>
  \/ asks = "doors" /\ DoorNext /\ UNCHANGED <<asks, vars, pageVars, queryVars>>
  \/ asks = "pages" /\ PagesNext /\ UNCHANGED <<asks, vars, doorVars, queryVars>>
  \/ asks = "query" /\ Deeper /\ UNCHANGED <<asks, vars, doorVars, pageVars>>

MCHandle(r) ==
  asks = "desk" /\ Handle(r) /\ UNCHANGED <<asks, doorVars, pageVars, queryVars>>

MCVars == <<asks, vars, doorVars, pageVars, queryVars>>
MCSpec == MCInit /\ [][MCNext]_MCVars /\ \A r \in Request : WF_MCVars(MCHandle(r))

\* Whichever door a change comes by, it is let in or refused alike, and who sent
\* several knows which of them were made (route, graphqlEndpoint and run).
DoorsAgree == asks = "doors" => SameAtBothDoors /\ HowFarIsTold

\* What is read is whole and bounded: a history in pages holds every row once,
\* and no query that is let through is answered with more than it was priced at
\* allows (connection, queryDepth, queryCost).
ReadsAreWhole ==
  /\ asks = "pages" => EveryRowOnce
  /\ asks = "query" => AnswersAreBounded
=============================================================================
