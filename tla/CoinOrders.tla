----------------------------- MODULE CoinOrders -----------------------------
(***************************************************************************)
(* Limit orders and price alerts of one customer for one coin              *)
(* (src/bank/exchange.js), and the sweep at the top of route               *)
(* (src/bank/routes.js) that fills and fires them.                         *)
(*                                                                         *)
(* Each of the customer's requests first sweeps; several can be under way  *)
(* at once.  A request takes one step per SQL statement, and one for the   *)
(* transaction of fillQuote.  A statement may fail, the server may stop.   *)
(*                                                                         *)
(* Money and coin are so few here that the fee of at most 0.30% rounds to  *)
(* nothing.  Orders and alerts are numbered in the order they are created. *)
(***************************************************************************)
EXTENDS Integers, Sequences, FiniteSets

CONSTANTS
  Order, Alert,          \* 1..n: what the customer may create
  Side, Limit,           \* [Order -> {"buy", "sell"}], [Order -> price]
  Amount,                \* cents a buy order spends, coin a sell order sells
  Direction, AlertLimit, \* [Alert -> {"above", "below"}], [Alert -> price]
  Request,
  Base,                  \* the market prices of the coin, before own trades
  OpeningMoney, OpeningCoin,
  MaxFills,              \* MAX_FILLS_PER_SWEEP
  MaxTrades,             \* bound: the customer trades by hand up to this many
  MaxErrors, MaxStops    \* bounds: failing statements, server stops

ASSUME OrdersAssumption ==
  /\ Order \subseteq Nat \ {0} /\ Alert \subseteq Nat \ {0}
  /\ Side \in [Order -> {"buy", "sell"}]
  /\ Limit \in [Order -> Nat \ {0}] /\ Amount \in [Order -> Nat \ {0}]
  /\ Direction \in [Alert -> {"above", "below"}]
  /\ AlertLimit \in [Alert -> Nat \ {0}]
  /\ Base \subseteq Nat \ {0} /\ Base # {}
  /\ OpeningMoney \in Nat /\ OpeningCoin \in Nat
  /\ MaxFills \in Nat \ {0}
  /\ MaxTrades \in Nat /\ MaxErrors \in Nat /\ MaxStops \in Nat

VARIABLES
  order,    \* bank_orders.status
  alert,    \* bank_price_alerts.status
  trades,   \* bank_trades, with the order each was made for (0: by hand)
  money,    \* the account's balance_cents
  coin,     \* the holding's quantity_atoms
  told,     \* the notifications of orders and alerts
  base,     \* the coin's price now, before the customer's own trades
  push,     \* what the customer's recent trades add to it
  request,  \* what each request is doing
  errors, stops

vars == <<order, alert, trades, money, coin, told, base, push, request, errors, stops>>
market == <<trades, money, coin, push>>
counts == <<errors, stops>>

NoQuote == [price |-> 0, atoms |-> 0, cents |-> 0]
Idle == [pc |-> "idle", open |-> {}, armed |-> {}, base |-> 0, price |-> 0,
         counted |-> 0, quote |-> NoQuote, reason |-> "none"]

Init ==
  /\ order = [o \in Order |-> "new"]
  /\ alert = [a \in Alert |-> "new"]
  /\ trades = << >>
  /\ money = OpeningMoney
  /\ coin = OpeningCoin
  /\ told = {}
  /\ base \in Base
  /\ push = 0
  /\ request = [r \in Request |-> Idle]
  /\ errors = 0 /\ stops = 0

At(r, pc) == request[r].pc = pc
Now(r, q) == request' = [request EXCEPT ![r] = q]
Goto(r, pc) == Now(r, [request[r] EXCEPT !.pc = pc])

Oldest(S) == CHOOSE x \in S : \A y \in S : x <= y

\* The order, and the alert, that the sweep of r has in hand.
Current(r) == Oldest(request[r].open)
CurrentAlert(r) == Oldest(request[r].armed)

\* priceMicrosAt: what the customer sees at an instant.  Buying lifts it,
\* selling drops it, and it never reaches zero.
Price(b) == IF b + push < 1 THEN 1 ELSE b + push

\* A buy fills at or below its limit, a sell at or above it.
Crosses(o, price) ==
  IF Side[o] = "buy" THEN price <= Limit[o] ELSE price >= Limit[o]

Reached(a, price) ==
  IF Direction[a] = "above" THEN price >= AlertLimit[a] ELSE price <= AlertLimit[a]

\* What is left of the sweep: orders, then alerts, then what the customer
\* came for.
Ahead(q) ==
  CASE q.open # {} ->
         [Idle EXCEPT !.pc = "claim", !.open = q.open, !.armed = q.armed,
                      !.base = q.base, !.price = q.price, !.counted = q.counted]
    [] q.open = {} /\ q.armed # {} -> [Idle EXCEPT !.pc = "fire", !.armed = q.armed]
    [] OTHER -> [Idle EXCEPT !.pc = "act"]

NextOrder(r) ==
  Now(r, Ahead([request[r] EXCEPT !.open = @ \ {Current(r)}]))
NextAlert(r) ==
  Now(r, Ahead([request[r] EXCEPT !.armed = @ \ {CurrentAlert(r)}]))

-----------------------------------------------------------------------------
(* The sweep reads what is open and armed, and the price.                  *)

\* Mutant: the page is taken of all orders, and those open are taken of the page.
OldestOpenOfAll ==
  {o \in Order : order[o] = "open" /\ Cardinality({p \in Order : p < o}) < MaxFills}

\* ORDER BY created_at LIMIT MAX_FILLS_PER_SWEEP.
OldestOpen ==
  LET open == {o \in Order : order[o] = "open"}
  IN {o \in open : Cardinality({p \in open : p < o}) < MaxFills}

\* The instant of the request is fixed here.
SelectOpen(r) ==
  /\ At(r, "idle")
  /\ Now(r, [Idle EXCEPT !.pc = "armed", !.open = OldestOpen, !.base = base])
  /\ UNCHANGED <<order, alert, market, told, base, counts>>

SelectArmed(r) ==
  LET armed == {a \in Alert : alert[a] = "armed"} IN
  /\ At(r, "armed")
  /\ Now(r, IF request[r].open = {} /\ armed = {}
              THEN [Idle EXCEPT !.pc = "act"]
              ELSE [request[r] EXCEPT !.pc = "price", !.armed = armed])
  /\ UNCHANGED <<order, alert, market, told, base, counts>>

\* Mutant: the sweep leaves out the push of the customer's trades.
ReadPriceBare(r) ==
  LET q == request[r] IN
  /\ At(r, "price")
  /\ Now(r, Ahead([q EXCEPT !.open = {o \in @ : Crosses(o, q.base)},
                            !.armed = {a \in @ : Reached(a, q.base)},
                            !.price = q.base, !.counted = Len(trades)]))
  /\ UNCHANGED <<order, alert, market, told, base, counts>>

\* pressureFor is read once, so every order and alert of the sweep is held
\* against the same price, and the trades it has counted.
ReadPrice(r) ==
  LET q == request[r]
      price == Price(q.base)
  IN
  /\ At(r, "price")
  /\ Now(r, Ahead([q EXCEPT !.open = {o \in @ : Crosses(o, price)},
                            !.armed = {a \in @ : Reached(a, price)},
                            !.price = price, !.counted = Len(trades)]))
  /\ UNCHANGED <<order, alert, market, told, base, counts>>

-----------------------------------------------------------------------------
(* fillOrder.                                                              *)

\* Mutant: the claim does not ask whether the order is still open.
ClaimBlind(r) ==
  /\ At(r, "claim")
  /\ order' = [order EXCEPT ![Current(r)] = "filled"]
  /\ Goto(r, "quote")
  /\ UNCHANGED <<alert, market, told, base, counts>>

Claim(r) ==
  LET o == Current(r) IN
  /\ At(r, "claim")
  /\ IF order[o] = "open"
       THEN order' = [order EXCEPT ![o] = "filled"] /\ Goto(r, "quote")
       ELSE UNCHANGED order /\ NextOrder(r)
  /\ UNCHANGED <<alert, market, told, base, counts>>

Refused(r, reason) == Now(r, [request[r] EXCEPT !.pc = "fail", !.reason = reason])

\* Rounded to the nearest, a half up, as Math.round does.
Rounded(n, d) == (2 * n + d) \div (2 * d)

\* quoteTrade: the instant is the sweep's, the customer's own push is read
\* anew.
Quote(r) ==
  LET o == Current(r)
      price == Price(request[r].base)
      bought == Rounded(Amount[o], price)
      quote == IF Side[o] = "buy"
                 THEN [price |-> price, atoms |-> bought, cents |-> Amount[o]]
                 ELSE [price |-> price, atoms |-> Amount[o], cents |-> Amount[o] * price]
  IN
  /\ At(r, "quote")
  /\ CASE Side[o] = "buy" /\ bought = 0 -> Refused(r, "too_small")
       [] Side[o] = "sell" /\ coin < Amount[o] -> Refused(r, "not_enough_coin")
       [] OTHER -> Now(r, [request[r] EXCEPT !.pc = "fill", !.quote = quote])
  /\ UNCHANGED <<order, alert, market, told, base, counts>>

\* The transaction of fillQuote as it commits.  What its statements may do to each
\* other is in Trades; of that only their collisions are here (FillCollides).
Trade(o, side, t) ==
  /\ money' = IF side = "buy" THEN money - t.cents ELSE money + t.cents
  /\ coin' = IF side = "buy" THEN coin + t.atoms ELSE coin - t.atoms
  /\ push' = IF side = "buy" THEN push + t.atoms ELSE push - t.atoms
  /\ trades' = Append(trades, [order |-> o, side |-> side, price |-> t.price,
                               atoms |-> t.atoms, cents |-> t.cents])

\* Mutant: the account is not asked whether it covers the purchase.
AffordsAnything(side, t) == side = "buy" \/ coin >= t.atoms

Affords(side, t) ==
  IF side = "buy" THEN money >= t.cents ELSE coin >= t.atoms

\* Mutant: the order goes on as filled when the fill was refused.
FillHopeful(r) ==
  LET o == Current(r)
      t == request[r].quote
  IN
  /\ At(r, "fill")
  /\ IF Affords(Side[o], t) THEN Trade(o, Side[o], t) ELSE UNCHANGED market
  /\ Goto(r, "link")
  /\ UNCHANGED <<order, alert, told, base, counts>>

\* fillQuote: one transaction.
Fill(r) ==
  LET o == Current(r)
      t == request[r].quote
  IN
  /\ At(r, "fill")
  /\ IF Affords(Side[o], t)
       THEN Trade(o, Side[o], t) /\ Goto(r, "link")
       ELSE /\ Refused(r, IF Side[o] = "buy" THEN "not_enough_money"
                                             ELSE "not_enough_coin")
            /\ UNCHANGED market
  /\ UNCHANGED <<order, alert, told, base, counts>>

\* The order row is given its trade.
Link(r) ==
  /\ At(r, "link")
  /\ Goto(r, "tell")
  /\ UNCHANGED <<order, alert, market, told, base, counts>>

Tell(r) ==
  /\ At(r, "tell")
  /\ told' = told \cup {<<"order_filled", Current(r)>>}
  /\ NextOrder(r)
  /\ UNCHANGED <<order, alert, market, base, counts>>

\* Mutant: nobody is told of a failed order.
MarkFailedSilently(r) ==
  /\ At(r, "fail")
  /\ order' = [order EXCEPT ![Current(r)] = "failed"]
  /\ NextOrder(r)
  /\ UNCHANGED <<alert, market, told, base, counts>>

MarkFailed(r) ==
  /\ At(r, "fail")
  /\ order' = [order EXCEPT ![Current(r)] = "failed"]
  /\ Goto(r, "tellFailed")
  /\ UNCHANGED <<alert, market, told, base, counts>>

TellFailed(r) ==
  /\ At(r, "tellFailed")
  /\ told' = told \cup {<<"order_failed", Current(r)>>}
  /\ NextOrder(r)
  /\ UNCHANGED <<order, alert, market, base, counts>>

\* Not a trading outcome: the order is put back and the sweep ends.
Reopen(r) ==
  /\ At(r, "reopen")
  /\ order' = [order EXCEPT ![Current(r)] = "open"]
  /\ Now(r, [Idle EXCEPT !.pc = "act"])
  /\ UNCHANGED <<alert, market, told, base, counts>>

-----------------------------------------------------------------------------
(* fireAlert.                                                              *)

\* UPDATE ... SET status = 'fired' WHERE status = 'armed'.
Fire(r) ==
  LET a == CurrentAlert(r) IN
  /\ At(r, "fire")
  /\ IF alert[a] = "armed"
       THEN alert' = [alert EXCEPT ![a] = "fired"] /\ Goto(r, "tellAlert")
       ELSE UNCHANGED alert /\ NextAlert(r)
  /\ UNCHANGED <<order, market, told, base, counts>>

TellAlert(r) ==
  /\ At(r, "tellAlert")
  /\ told' = told \cup {<<"price_alert", CurrentAlert(r)>>}
  /\ NextAlert(r)
  /\ UNCHANGED <<order, alert, market, base, counts>>

-----------------------------------------------------------------------------
(* Failures.                                                               *)

InTry == {"quote", "fill", "link", "tell"}
Sweeping == {"armed", "price", "claim", "fail", "tellFailed", "reopen", "fire",
             "tellAlert"}

Fails == errors < MaxErrors /\ errors' = errors + 1 /\ UNCHANGED stops

\* A statement inside the try of fillOrder fails; a COMMIT that fails may have
\* happened.
FillBreaks(r) ==
  LET o == Current(r)
      t == request[r].quote
  IN
  /\ request[r].pc \in InTry
  /\ Fails
  /\ Goto(r, "reopen")
  /\ \/ UNCHANGED market
     \/ At(r, "fill") /\ Affords(Side[o], t) /\ Trade(o, Side[o], t)
  /\ UNCHANGED <<order, alert, told, base>>

\* fillQuote reads the holding and changes it later: a trade that commits in
\* between takes the coin a sale counts on (the CHECK on quantity_atoms fails),
\* or makes the first holding row (its UNIQUE key fails).
FillCollides(r) ==
  /\ At(r, "fill")
  /\ \E s \in Request \ {r} : request[s].pc \in {"fill", "act"}
  /\ Side[Current(r)] = "sell" \/ (OpeningCoin = 0 /\ trades = << >>)
  /\ Goto(r, "reopen")
  /\ UNCHANGED <<order, alert, market, told, base, counts>>

\* One outside it fails: the sweep ends, the request goes on.
SweepBreaks(r) ==
  /\ request[r].pc \in Sweeping
  /\ Fails
  /\ Now(r, [Idle EXCEPT !.pc = "act"])
  /\ UNCHANGED <<order, alert, market, told, base>>

ServerStops ==
  /\ stops < MaxStops
  /\ stops' = stops + 1
  /\ \E r \in Request : ~At(r, "idle")
  /\ request' = [r \in Request |-> Idle]
  /\ UNCHANGED <<order, alert, market, told, base, errors>>

-----------------------------------------------------------------------------
(* What the customer came for.                                             *)

Visit(r) ==
  /\ At(r, "act")
  /\ Now(r, Idle)
  /\ UNCHANGED <<order, alert, market, told, base, counts>>

\* A sell order needs the coin when it is made.
CreateOrder(r, o) ==
  /\ At(r, "act")
  /\ order[o] = "new" /\ \A p \in Order : p < o => order[p] # "new"
  /\ Side[o] = "sell" => coin >= Amount[o]
  /\ order' = [order EXCEPT ![o] = "open"]
  /\ Now(r, Idle)
  /\ UNCHANGED <<alert, market, told, base, counts>>

\* Mutant: an order that has been claimed can still be cancelled.
CancelOrderLate(r, o) ==
  /\ At(r, "act")
  /\ order[o] \in {"open", "filled"}
  /\ order' = [order EXCEPT ![o] = "cancelled"]
  /\ Now(r, Idle)
  /\ UNCHANGED <<alert, market, told, base, counts>>

CancelOrder(r, o) ==
  /\ At(r, "act")
  /\ order[o] = "open"
  /\ order' = [order EXCEPT ![o] = "cancelled"]
  /\ Now(r, Idle)
  /\ UNCHANGED <<alert, market, told, base, counts>>

CreateAlert(r, a) ==
  /\ At(r, "act")
  /\ alert[a] = "new" /\ \A b \in Alert : b < a => alert[b] # "new"
  /\ alert' = [alert EXCEPT ![a] = "armed"]
  /\ Now(r, Idle)
  /\ UNCHANGED <<order, market, told, base, counts>>

CancelAlert(r, a) ==
  /\ At(r, "act")
  /\ alert[a] = "armed"
  /\ alert' = [alert EXCEPT ![a] = "cancelled"]
  /\ Now(r, Idle)
  /\ UNCHANGED <<order, market, told, base, counts>>

\* The customer buys or sells one coin by hand.
HandTrade(r, side) ==
  LET t == [price |-> Price(base), atoms |-> 1, cents |-> Price(base)] IN
  /\ At(r, "act")
  /\ Len(trades) < MaxTrades
  /\ Affords(side, t)
  /\ Trade(0, side, t)
  /\ Now(r, Idle)
  /\ UNCHANGED <<order, alert, told, base, counts>>

\* Time passes: the market moves, the push of old trades fades.
MarketMoves ==
  /\ base' \in Base \ {base}
  /\ UNCHANGED <<order, alert, market, told, request, counts>>

PushFades ==
  /\ push # 0
  /\ push' = 0
  /\ UNCHANGED <<order, alert, trades, money, coin, told, base, request, counts>>

Sweep(r) ==
  \/ SelectOpen(r) \/ SelectArmed(r) \/ ReadPrice(r)
  \/ Claim(r) \/ Quote(r) \/ Fill(r) \/ Link(r) \/ Tell(r)
  \/ MarkFailed(r) \/ TellFailed(r) \/ Reopen(r)
  \/ Fire(r) \/ TellAlert(r)

Act(r) ==
  \/ Visit(r)
  \/ \E o \in Order : CreateOrder(r, o) \/ CancelOrder(r, o)
  \/ \E a \in Alert : CreateAlert(r, a) \/ CancelAlert(r, a)
  \/ \E side \in {"buy", "sell"} : HandTrade(r, side)

Next ==
  \/ \E r \in Request : Sweep(r) \/ Act(r)
                       \/ FillCollides(r) \/ FillBreaks(r) \/ SweepBreaks(r)
  \/ ServerStops
  \/ MarketMoves
  \/ PushFades

\* The customer keeps coming back, and a request under way goes on.
Fairness == \A r \in Request : WF_vars(Sweep(r)) /\ WF_vars(Act(r))

Spec == Init /\ [][Next]_vars
FairSpec == Spec /\ Fairness

-----------------------------------------------------------------------------
OrderStatuses == {"new", "open", "filled", "cancelled", "failed"}
AlertStatuses == {"new", "armed", "fired", "cancelled"}
PCs == {"idle", "act"} \cup InTry \cup Sweeping
Reasons == {"none", "too_small", "not_enough_money", "not_enough_coin"}
Quotes == [price : Nat, atoms : Nat, cents : Nat]
Requests == [pc : PCs, open : SUBSET Order, armed : SUBSET Alert, base : Nat,
             price : Nat, counted : Nat, reason : Reasons, quote : Quotes]
Trades == [order : Order \cup {0}, side : {"buy", "sell"}, price : Nat,
           atoms : Nat, cents : Nat]

TypeOK ==
  /\ order \in [Order -> OrderStatuses]
  /\ alert \in [Alert -> AlertStatuses]
  /\ trades \in Seq(Trades)
  /\ money \in Nat
  /\ coin \in Nat
  /\ told \subseteq ({"order_filled", "order_failed"} \X Order)
                      \cup ({"price_alert"} \X Alert)
  /\ base \in Base
  /\ push \in Int
  /\ request \in [Request -> Requests]
  /\ errors \in Nat
  /\ stops \in Nat

TradesOf(o) == {i \in 1..Len(trades) : trades[i].order = o}

\* r has claimed order o and is neither done with it nor out of its try.
Filling(r, o) ==
  /\ request[r].pc \in InTry \cup {"fail", "reopen"}
  /\ Current(r) = o

\* Requests that sweep at once, and a server that stops among them, never
\* fill an order twice; one that is cancelled or failed has not traded.
FilledAtMostOnce ==
  \A o \in Order :
    Cardinality(TradesOf(o)) <= IF order[o] = "filled" THEN 1 ELSE 0

\* Between its claim and its outcome an order belongs to one request, and
\* nobody cancels it meanwhile.
OneFiller ==
  \A o \in Order, r, s \in Request :
    Filling(r, o) => order[o] = "filled" /\ (Filling(s, o) => r = s)

\* What the customer is told is so: a filled order has traded, a failed one
\* has not, and a fired alert is not armed again.
ToldIsSo ==
  /\ \A o \in Order :
       /\ <<"order_filled", o>> \in told => TradesOf(o) # {}
       /\ <<"order_failed", o>> \in told => order[o] = "failed" /\ TradesOf(o) = {}
  /\ \A a \in Alert : <<"price_alert", a>> \in told => alert[a] = "fired"

\* Without a failure, once nobody is under way a claimed order has its trade
\* and the customer knows; so does the customer whose order failed or whose
\* alert fired, whichever of two requests did it.
Settled ==
  (stops = 0 /\ errors = 0 /\ \A r \in Request : request[r].pc \in {"idle", "act"}) =>
    /\ \A o \in Order :
         /\ order[o] = "filled" =>
              TradesOf(o) # {} /\ <<"order_filled", o>> \in told
         /\ order[o] = "failed" => <<"order_failed", o>> \in told
    /\ \A a \in Alert : alert[a] = "fired" => <<"price_alert", a>> \in told

\* An order is filled by one request; it is filled once, and the customer is
\* told what became of it, up to the first statement that fails.
FilledOnceAndTold ==
  OneFiller /\ (errors = 0 => FilledAtMostOnce /\ ToldIsSo /\ Settled)

\* What a request has in hand: an order, or an alert, and how far it is.
HandOK(r) ==
  /\ request[r].pc \in InTry \cup {"claim", "fail", "tellFailed", "reopen"} =>
       request[r].open # {}
  /\ request[r].pc \in {"fire", "tellAlert"} => request[r].armed # {}
  /\ At(r, "tellAlert") => alert[CurrentAlert(r)] = "fired"
  /\ At(r, "tellFailed") => order[Current(r)] = "failed"

\* The order in hand has traded from the fill on, and not before.
TradedWhenFilled(r) ==
  /\ request[r].pc \in {"quote", "fill", "fail", "reopen"} => TradesOf(Current(r)) = {}
  /\ request[r].pc \in {"link", "tell"} => TradesOf(Current(r)) # {}

\* An outcome the customer does not know is in some request's hands.
NothingLost ==
  /\ \A o \in Order :
       /\ order[o] = "filled" =>
            \/ TradesOf(o) # {} /\ <<"order_filled", o>> \in told
            \/ \E r \in Request : Filling(r, o)
       /\ order[o] = "failed" =>
            \/ <<"order_failed", o>> \in told
            \/ \E r \in Request : At(r, "tellFailed") /\ Current(r) = o
  /\ \A a \in Alert :
       alert[a] = "fired" =>
         \/ <<"price_alert", a>> \in told
         \/ \E r \in Request : At(r, "tellAlert") /\ CurrentAlert(r) = a

\* The inductive invariant.
IInv ==
  /\ TypeOK
  /\ OneFiller
  /\ \A r \in Request : HandOK(r)
  /\ errors = 0 =>
       /\ FilledAtMostOnce /\ ToldIsSo
       /\ \A r \in Request : TradedWhenFilled(r)
       /\ stops = 0 => NothingLost

\* The price as the customer's own trades may have moved it against the order in
\* hand since the sweep read it: one more on its side, or one on the other side,
\* counted then, that has faded.
MovedAgainst(r) ==
  LET side == Side[Current(r)] IN
  \/ \E i \in 1..Len(trades) : i > request[r].counted /\ trades[i].side = side
  \/ \E i \in 1..Len(trades) : i <= request[r].counted /\ trades[i].side # side

\* "A buy fills at or below its limit, a sell at or above it" (exchange.js):
\* though the order is held against one price and filled at another, quoted
\* later, while the market, other sweeps and the customer's own trades go on.
\* Only those trades can make it miss.
FillsWithinLimit ==
  \A r \in Request :
    LET o == Current(r)
        price == request[r].quote.price
    IN At(r, "fill") =>
         \/ IF Side[o] = "buy" THEN price <= Limit[o] ELSE price >= Limit[o]
         \/ MovedAgainst(r)

\* The price, whatever it is by then, has reached the order.
AlwaysReached(o) == \A b \in Base : Crosses(o, Price(b))

\* Older orders that stay open because the price does not stay with them.
OutOfReach(o) == {p \in Order : p < o /\ order[p] = "open" /\ ~AlwaysReached(p)}

\* An open order that the price has reached and stays at is filled or refused in
\* the end, as long as the customer keeps coming back and there is room for it
\* among the orders a sweep reads: older ones that are reached as well make room
\* for it, and MaxFills of them that are out of reach hide it for good.
NoOrderIsForgotten ==
  \A o \in Order :
    ~<>[](/\ order[o] = "open" /\ AlwaysReached(o)
          /\ Cardinality(OutOfReach(o)) < MaxFills)

-----------------------------------------------------------------------------
(* What the repository says, and the code does not keep.                   *)

\* "Two requests at once cannot fill it twice" (exchange.js), when a
\* statement fails.
NeverFilledTwice == \A o \in Order : Cardinality(TradesOf(o)) <= 1

=============================================================================
