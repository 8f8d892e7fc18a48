------------------------------- MODULE Trades -------------------------------
(***************************************************************************)
(* Coins (src/bank/trading.js, src/bank/wallet.js): acting on a quote,     *)
(* sending coin to another customer, swapping one coin for another.  Each  *)
(* is one transaction that reads a holding without a lock, works out the   *)
(* cost that leaves with the coin, and then updates the row relatively.    *)
(* Making quotes is in CoinOrders; prices are parameters here.             *)
(***************************************************************************)
EXTENDS DeskRows

CONSTANTS
  Holding, Held,   \* customers' coins: records of user and coin; at first
  Quote, QuoteFor, \* quotes; holding, side, atoms and net cents of each
  Nothing          \* no such row

ASSUME TradeAssumption ==
  /\ Holding \cup Quote \subseteq Row
  /\ IsFiniteSet(Holding)
  /\ Nothing \notin Row
  /\ Held \in [Holding -> [atoms : Nat, cost : Nat] \cup {Nothing}]
  /\ \A h \in Holding : Held[h] # Nothing /\ Held[h].atoms = 0 => Held[h].cost = 0
  /\ Nothing \notin [atoms : Int, cost : Int]
  /\ QuoteFor \in [Quote -> [side : {"buy", "sell"}, holding : Holding,
                              atoms : Nat \ {0}, net : Nat]]

\* What the routes let through: some coin leaves and some arrives, and a swap
\* is one customer's.
TradeCall(c) ==
  /\ c.kind = "trade" => c.quote \in Quote /\ c.account \in Account /\ c.late \in BOOLEAN
  /\ c.kind \in {"send", "swap"} =>
       /\ c.source \in Holding /\ c.target \in Holding /\ c.source # c.target
       /\ c.atoms \in Nat \ {0} /\ c.lands \in Nat \ {0}
  /\ c.kind = "send" => c.value \in Nat
  /\ c.kind = "swap" => c.source.user = c.target.user

VARIABLES
  hold,   \* bank_holdings: atoms and their cost, or Nothing
  used,   \* bank_trade_quotes.used_at is set
  saw,    \* the holding each request has read
  leaves  \* history: the cost each request takes out of a holding

tradeVars == <<hold, used, saw, leaves>>

TradeInit ==
  /\ hold = Held
  /\ used = {}
  /\ saw = [r \in Request |-> Nothing]
  /\ leaves = [r \in Request |-> 0]

Buys(r) == Kind(r) = "trade" /\ QuoteFor[call[r].quote].side = "buy"
Sells(r) == Kind(r) = "trade" /\ QuoteFor[call[r].quote].side = "sell"
Moves(r) == Kind(r) \in {"send", "swap"}

\* The holding coin leaves, the one it reaches, and how much of it.
Source(r) == IF Sells(r) THEN QuoteFor[call[r].quote].holding ELSE call[r].source
Target(r) == IF Buys(r) THEN QuoteFor[call[r].quote].holding ELSE call[r].target
AtomsOut(r) == IF Sells(r) THEN QuoteFor[call[r].quote].atoms ELSE call[r].atoms
AtomsIn(r) == IF Buys(r) THEN QuoteFor[call[r].quote].atoms ELSE call[r].lands
Net(r) == QuoteFor[call[r].quote].net

\* Mutant: the average price is rounded before it is multiplied.
ShareOfAverage(cost, n, qty) == ((2 * cost + qty) \div (2 * qty)) * n

\* Math.round(cost * n / qty).
Share(cost, n, qty) == (2 * cost * n + qty) \div (2 * qty)

Reads(r, h, step) ==
  /\ saw' = [saw EXCEPT ![r] = hold[h]]
  /\ Read(r, step)
  /\ UNCHANGED <<hold, used, leaves>>

-----------------------------------------------------------------------------
(* A trade.                                                                *)

\* Mutant: the quote is read and then marked.
ClaimQuoteTwice(r) ==
  LET q == call[r].quote IN
  /\ At(r, {"trade"}, "start")
  /\ IF q \in used THEN Refuse(r, "used") ELSE Read(r, "read")
  /\ UNCHANGED tradeVars

\* UPDATE ... WHERE used_at IS NULL, then the expiry: a refusal gives the
\* quote back.
ClaimQuote(r) ==
  LET q == call[r].quote IN
  /\ At(r, {"trade"}, "start")
  /\ \/ q \in used /\ Refuse(r, "used")
     \/ q \notin used /\ Free(q, r) /\ call[r].late /\ Refuse(r, "expired")
     \/ /\ q \notin used /\ ~call[r].late
        /\ Take(q, r)
        /\ Goto(r, "read")
        /\ Unchanged(r)
  /\ UNCHANGED tradeVars

ReadHolding(r) ==
  /\ At(r, {"trade"}, "read")
  /\ IF Buys(r) THEN Reads(r, Target(r), "pay") ELSE Reads(r, Source(r), "take")

PayForCoin(r) ==
  /\ At(r, {"trade"}, "pay")
  /\ \/ Debit(r, call[r].account, Net(r), "give")
     \/ bal[call[r].account] < Net(r) /\ Refuse(r, "insufficient")
  /\ UNCHANGED tradeVars

PayOut(r) ==
  /\ At(r, {"trade"}, "payout")
  /\ Credit(r, call[r].account, "commit")
  /\ UNCHANGED tradeVars

-----------------------------------------------------------------------------
(* Sends and swaps, and the updates that trades share with them.           *)

\* send and swap read the sender's holding first.
ReadSource(r) ==
  /\ At(r, {"send", "swap"}, "start")
  /\ Reads(r, Source(r), "take")

\* The coin read must cover what leaves; the cost that leaves is worked out
\* from what was read; the UPDATE waits for the row, and the table's CHECKs
\* refuse a holding or a cost below zero.
TakeCoin(r) ==
  LET h == Source(r)
      n == AtomsOut(r)
      out == Share(saw[r].cost, n, saw[r].atoms)
      covers == hold[h].atoms >= n /\ hold[h].cost >= out
  IN
  /\ At(r, {"trade", "send", "swap"}, "take")
  /\ \/ /\ saw[r] = Nothing \/ saw[r].atoms < n
        /\ Refuse(r, "no coin")
        /\ UNCHANGED leaves
     \/ /\ saw[r] # Nothing /\ saw[r].atoms >= n
        /\ Free(h, r) /\ ~covers
        /\ Refuse(r, "error")
        /\ UNCHANGED leaves
     \/ /\ saw[r] # Nothing /\ saw[r].atoms >= n
        /\ covers
        /\ Take(h, r)
        /\ Goto(r, IF Sells(r) THEN "payout" ELSE "look")
        /\ Unchanged(r)
        /\ leaves' = [leaves EXCEPT ![r] = out]
  /\ UNCHANGED <<hold, used, saw>>

ReadTarget(r) ==
  /\ At(r, {"send", "swap"}, "look")
  /\ Reads(r, Target(r), "give")

\* An UPDATE if a row was read, otherwise an INSERT: a row committed, or being
\* written, meanwhile is a duplicate (user_id, symbol).
GiveCoin(r) ==
  LET h == Target(r) IN
  /\ At(r, {"trade", "send", "swap"}, "give")
  /\ \/ /\ saw[r] # Nothing \/ hold[h] = Nothing
        /\ Take(h, r)
        /\ Goto(r, "commit")
        /\ Unchanged(r)
     \/ saw[r] = Nothing /\ hold[h] # Nothing /\ Refuse(r, "error")
  /\ UNCHANGED tradeVars

\* Mutant: the coin given is gone, the coin taken has cost nothing.
CostInOfMoney(r) ==
  CASE Buys(r) -> Net(r)
    [] Kind(r) = "send" -> call[r].value
    [] OTHER -> 0

\* What coin brought in has cost: the money paid, the value it landed at, or
\* the cost of the coin given for it.
CostIn(r) ==
  CASE Buys(r) -> Net(r)
    [] Kind(r) = "send" -> call[r].value
    [] OTHER -> leaves[r]

Plus(h, atoms, cost) ==
  IF h = Nothing THEN [atoms |-> atoms, cost |-> cost]
                 ELSE [atoms |-> h.atoms + atoms, cost |-> h.cost + cost]

AfterOut(r) ==
  IF Buys(r) THEN hold
  ELSE [hold EXCEPT ![Source(r)] = Plus(@, -AtomsOut(r), -leaves[r])]
AfterIn(r, held) ==
  IF Sells(r) THEN held
  ELSE [held EXCEPT ![Target(r)] = Plus(@, AtomsIn(r), CostIn(r))]

CommitTrade(r) ==
  LET sign == IF Buys(r) THEN -1 ELSE 1 IN
  /\ At(r, {"trade"}, "commit")
  /\ Commit(r, [NoMoney EXCEPT ![call[r].account] = sign * Net(r)],
            {<<call[r].user, "money_received">>})
  /\ hold' = AfterIn(r, AfterOut(r))
  /\ used' = used \cup {call[r].quote}
  /\ UNCHANGED <<saw, leaves>>

\* The other customer is told of a send, nobody of a swap.
CommitMove(r) ==
  /\ At(r, {"send", "swap"}, "commit")
  /\ Commit(r, NoMoney, IF Kind(r) = "send"
                          THEN {<<call[r].payee, "money_received">>} ELSE {})
  /\ hold' = AfterIn(r, AfterOut(r))
  /\ UNCHANGED <<used, saw, leaves>>

TradeStep(r) ==
  \/ ClaimQuote(r) \/ ReadHolding(r) \/ PayForCoin(r) \/ PayOut(r)
  \/ ReadSource(r) \/ TakeCoin(r) \/ ReadTarget(r) \/ GiveCoin(r)
  \/ CommitTrade(r) \/ CommitMove(r)

\* The request r waits for, or None.
TradeWaitsOn(r) ==
  CASE At(r, {"trade"}, "start") -> call[r].quote
    [] At(r, {"trade"}, "pay") \/ At(r, {"trade"}, "payout") -> call[r].account
    [] At(r, {"trade", "send", "swap"}, "take") -> Source(r)
    [] At(r, {"trade", "send", "swap"}, "give") -> Target(r)
    [] OTHER -> None

-----------------------------------------------------------------------------
HeldType == [atoms : Int, cost : Int] \cup {Nothing}
TradeTypeOK ==
  /\ hold \in [Holding -> HeldType]
  /\ used \subseteq Quote
  /\ saw \in [Request -> HeldType]
  /\ leaves \in [Request -> Int]

\* A buyer pays and is given coin, a seller gives it up and is paid.
SidesOK ==
  \A r \in Request :
    /\ At(r, {"trade"}, "pay") => Buys(r)
    /\ pc[r] \in {"take", "payout"} => ~Buys(r)
    /\ pc[r] \in {"look", "give"} => ~Sells(r)

Trading == {r \in Request : Kind(r) \in {"trade", "send", "swap"}}
Traded == {r \in Trading : outcome[r] = "done"}
AtomsOf(h) == IF h = Nothing THEN 0 ELSE h.atoms
CostOf(h) == IF h = Nothing THEN 0 ELSE h.cost

\* What one act has added to the coin of holding h.
CoinEffect(r, h) ==
  (IF ~Sells(r) /\ Target(r) = h THEN AtomsIn(r) ELSE 0)
    - (IF ~Buys(r) /\ Source(r) = h THEN AtomsOut(r) ELSE 0)

\* "Money moves, coin moves, and both are written in one database
\* transaction": what a customer holds is what they held and what trades,
\* sends and swaps have made of it, however they interleave, collide or fail;
\* no holding is below zero, and no quote is filled twice.
CoinsAreExplained ==
  /\ \A h \in Holding :
       /\ AtomsOf(hold[h]) =
            AtomsOf(Held[h]) + SumFunction([r \in Traded |-> CoinEffect(r, h)])
       /\ AtomsOf(hold[h]) >= 0 /\ CostOf(hold[h]) >= 0
  /\ \A r, s \in Traded :
       r # s /\ Kind(r) = "trade" /\ Kind(s) = "trade"
         => call[r].quote # call[s].quote

\* "The same share of the cost leaves with the coin": acts that come one after
\* the other never leave a cost on a holding with no coin in it.  (Acts under
\* way together work from one reading, and their roundings can add up.)
EmptyCostsNothing ==
  \A h \in Holding :
    InTurn(Traded) /\ AtomsOf(hold[h]) = 0 => CostOf(hold[h]) = 0

\* What the holdings of a set have cost, and what one act changes of it: the
\* money paid, the value sent, and the cost that left.
CostsOf(held, mine) == SumFunction([h \in mine |-> CostOf(held[h])])
AddsCost(r, mine) ==
  (IF Buys(r) /\ Target(r) \in mine THEN Net(r) ELSE 0)
    + (IF Kind(r) = "send" /\ Target(r) \in mine THEN call[r].value ELSE 0)
    - (IF Kind(r) = "send" /\ Source(r) \in mine THEN leaves[r] ELSE 0)
    - (IF Sells(r) /\ Source(r) \in mine THEN leaves[r] ELSE 0)

\* A swap spends no new money: what all a customer's coins have cost changes
\* only by what they paid, what they sold, and what was sent.
Owned(u) == {h \in Holding : h.user = u}
SwapsCostNothing ==
  \A u \in {h.user : h \in Holding} :
    CostsOf(hold, Owned(u)) =
      CostsOf(Held, Owned(u)) + SumFunction([r \in Traded |-> AddsCost(r, Owned(u))])

\* r has taken coin that leaves a holding at its commit.
Gives(r) == r \in Trading /\ ~Buys(r) /\ pc[r] \in {"payout", "look", "give", "commit"}

\* Who acts on a quote keeps its row, and nobody has used it; what is done has.
QuoteHeld(r) ==
  Kind(r) = "trade" =>
    /\ pc[r] \notin {"idle", "start", "over"} =>
         lock[call[r].quote] = r /\ call[r].quote \notin used
    /\ outcome[r] = "done" => call[r].quote \in used

\* What r is to take coin from is the holding as it is, if all that is done was
\* done before r began.
ReadingOK(r) ==
  /\ AtomsOf(saw[r]) >= 0 /\ CostOf(saw[r]) >= 0
  /\ r \in Trading /\ pc[r] = "take" /\ saw[r] # Nothing =>
       /\ hold[Source(r)] # Nothing
       /\ InTurn(Traded \cup {r}) => saw[r] = hold[Source(r)]

\* Who gives coin keeps the row it leaves, which covers it; the cost that leaves
\* is the coin's share, if all that is done was done before r began.
Covered(r) ==
  Gives(r) =>
    LET had == hold[Source(r)] IN
    /\ lock[Source(r)] = r
    /\ had # Nothing /\ had.atoms >= AtomsOut(r)
    /\ 0 <= leaves[r] /\ leaves[r] <= had.cost
    /\ InTurn(Traded \cup {r}) => leaves[r] = Share(had.cost, AtomsOut(r), had.atoms)

CoinInv ==
  /\ CoinsAreExplained /\ EmptyCostsNothing /\ SwapsCostNothing
  /\ \A r \in Request : QuoteHeld(r) /\ ReadingOK(r) /\ Covered(r)
=============================================================================
