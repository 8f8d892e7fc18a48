---------------------------- MODULE OrdersProofs ----------------------------
(***************************************************************************)
(* Theorems about CoinOrders, for any orders and alerts, prices, amounts   *)
(* and number of requests that sweep at once.                              *)
(***************************************************************************)
EXTENDS CoinOrders, FiniteSetTheorems, WellFoundedInduction, TLAPS

-----------------------------------------------------------------------------
(* Sets of natural numbers have a least element: n < m as the intervals    *)
(* below them include each other.                                          *)

LEMMA Least ==
  ASSUME NEW S \in SUBSET Nat, S # {}
  PROVE  \E x \in S : \A y \in S : x <= y
<1> DEFINE below == {0..n : n \in S}
<1>1. below \subseteq FiniteSubsetsOf(Nat) /\ below # {}
  <2>1. \A n \in S : 0..n \subseteq Nat /\ IsFiniteSet(0..n)  BY FS_Interval
  <2> QED  BY <2>1 DEF FiniteSubsetsOf
<1>2. PICK b \in below : \A a \in below : <<a, b>> \notin StrictSubsetOrdering(Nat)
  <2> HIDE DEF below
  <2> QED  BY <1>1, FS_StrictSubsetOrderingWellFounded, WFMin
<1>3. PICK x \in S : b = 0..x  OBVIOUS
<1>4. ASSUME NEW y \in S  PROVE x <= y
  <2> SUFFICES ASSUME y < x PROVE FALSE  OBVIOUS
  <2>1. <<0..y, b>> \notin StrictSubsetOrdering(Nat)  BY <1>2
  <2>2. 0..y \subseteq 0..x /\ x \in 0..x /\ x \notin 0..y /\ 0..x \subseteq Nat  OBVIOUS
  <2>3. 0..y # 0..x  BY <2>2
  <2>4. <<0..y, 0..x>> \in (SUBSET Nat) \X (SUBSET Nat)  BY <2>2
  <2> QED  BY <1>3, <2>1, <2>2, <2>3, <2>4 DEF StrictSubsetOrdering
<1> QED  BY <1>4

LEMMA OldestIn ==
  ASSUME NEW S \in SUBSET Nat, S # {}
  PROVE  Oldest(S) \in S
BY Least DEF Oldest

\* Rounding gives a natural number.
LEMMA RoundedNat ==
  ASSUME NEW n \in Nat, NEW d \in Nat \ {0}
  PROVE  Rounded(n, d) \in Nat
<1>1. PICK a \in Nat, b \in Nat \ {0} : a = 2 * n + d /\ b = 2 * d  OBVIOUS
<1>2. a \div b \in Nat  OBVIOUS
<1> QED  BY <1>1, <1>2 DEF Rounded

-----------------------------------------------------------------------------
(* The records of requests.                                                *)

HasOrder == InTry \cup {"claim", "fail", "tellFailed", "reopen"}
HasAlert == {"fire", "tellAlert"}

LEMMA QuoteType == NoQuote \in Quotes
BY DEF NoQuote, Quotes

LEMMA IdleType == Idle \in Requests /\ Idle.pc = "idle" /\ Idle.open = {} /\ Idle.armed = {}
BY QuoteType DEF Idle, Requests, PCs, Sweeping, Reasons

\* Idle but for some fields.
Fresh(pc, open, armed, b, price, n) ==
  [Idle EXCEPT !.pc = pc, !.open = open, !.armed = armed, !.base = b, !.price = price,
               !.counted = n]

LEMMA FreshType ==
  ASSUME NEW pc \in PCs, NEW open \in SUBSET Order, NEW armed \in SUBSET Alert,
         NEW b \in Nat, NEW price \in Nat, NEW n \in Nat
  PROVE  /\ Fresh(pc, open, armed, b, price, n) \in Requests
         /\ Fresh(pc, open, armed, b, price, n).pc = pc
         /\ Fresh(pc, open, armed, b, price, n).open = open
         /\ Fresh(pc, open, armed, b, price, n).armed = armed
BY QuoteType DEF Fresh, Idle, Requests, Reasons

\* What is ahead of a sweep: an order to claim, an alert to fire, or nothing.
LEMMA AheadType ==
  ASSUME NEW q \in Requests
  PROVE  /\ Ahead(q) \in Requests
         /\ Ahead(q).pc \in {"claim", "fire", "act"}
         /\ Ahead(q).pc = "claim" => Ahead(q).open # {}
         /\ Ahead(q).pc = "fire" => Ahead(q).armed # {}
<1>1. /\ q.open \in SUBSET Order /\ q.armed \in SUBSET Alert
      /\ q.base \in Nat /\ q.price \in Nat /\ q.counted \in Nat
  BY DEF Requests
<1>2. {"claim", "fire", "act"} \subseteq PCs  BY DEF PCs, Sweeping
<1>3. CASE q.open # {}
  <2>1. Ahead(q) = Fresh("claim", q.open, q.armed, q.base, q.price, q.counted)
    <3>1. Ahead(q) = [Idle EXCEPT !.pc = "claim", !.open = q.open, !.armed = q.armed,
                                  !.base = q.base, !.price = q.price,
                                  !.counted = q.counted]
      BY <1>3 DEF Ahead
    <3> QED  BY <3>1 DEF Fresh
  <2>2. /\ Fresh("claim", q.open, q.armed, q.base, q.price, q.counted) \in Requests
        /\ Fresh("claim", q.open, q.armed, q.base, q.price, q.counted).pc = "claim"
        /\ Fresh("claim", q.open, q.armed, q.base, q.price, q.counted).open = q.open
    BY <1>1, <1>2, FreshType
  <2> QED  BY <1>3, <2>1, <2>2
<1>4. CASE q.open = {} /\ q.armed # {}
  <2>1. Ahead(q) = [Idle EXCEPT !.pc = "fire", !.armed = q.armed]
    BY <1>4 DEF Ahead
  <2>2. Ahead(q) = Fresh("fire", {}, q.armed, 0, 0, 0)
    BY <2>1 DEF Idle, Fresh
  <2>3. {} \in SUBSET Order /\ 0 \in Nat /\ "fire" \in PCs  BY <1>2
  <2>4. /\ Fresh("fire", {}, q.armed, 0, 0, 0) \in Requests
        /\ Fresh("fire", {}, q.armed, 0, 0, 0).pc = "fire"
        /\ Fresh("fire", {}, q.armed, 0, 0, 0).armed = q.armed
    BY <1>1, <2>3, FreshType
  <2> QED  BY <1>4, <2>2, <2>4
<1>5. CASE q.open = {} /\ q.armed = {}
  <2>1. Ahead(q) = [Idle EXCEPT !.pc = "act"]
    BY <1>5 DEF Ahead
  <2>2. Ahead(q) \in Requests /\ Ahead(q).pc = "act"
    BY <1>2, <2>1, QuoteType DEF Idle, Requests, Reasons
  <2> QED  BY <2>2
<1> QED  BY <1>3, <1>4, <1>5

-----------------------------------------------------------------------------
(* What one request does to what the others hold.                          *)

\* The types of everything but the requests.
RowsOK ==
  /\ order \in [Order -> OrderStatuses]
  /\ alert \in [Alert -> AlertStatuses]
  /\ trades \in Seq(Trades)
  /\ money \in Nat /\ coin \in Nat
  /\ told \subseteq ({"order_filled", "order_failed"} \X Order)
                      \cup ({"price_alert"} \X Alert)
  /\ base \in Base /\ push \in Int
  /\ errors \in Nat /\ stops \in Nat

LEMMA IInvParts ==
  ASSUME IInv
  PROVE  /\ RowsOK /\ OneFiller
         /\ \A r \in Request : request[r] \in Requests /\ HandOK(r)
         /\ errors = 0 => /\ FilledAtMostOnce /\ ToldIsSo
                          /\ \A r \in Request : TradedWhenFilled(r)
                          /\ stops = 0 => NothingLost
BY DEF IInv, TypeOK, RowsOK

\* A record whose request has claimed order o.
Fills(t, o) == t.pc \in InTry \cup {"fail", "reopen"} /\ Oldest(t.open) = o

LEMMA FillingIs ==
  ASSUME NEW r \in Request, NEW o
  PROVE  Filling(r, o) <=> Fills(request[r], o)
BY DEF Filling, Fills, Current

LEMMA Elsewhere ==
  ASSUME request \in [Request -> Requests], NEW r \in Request, NEW t \in Requests, Now(r, t)
  PROVE  /\ request' \in [Request -> Requests]
         /\ request'[r] = t
         /\ \A x \in Request : x # r => request'[x] = request[x]
         /\ \A o : Filling(r, o)' <=> Fills(t, o)
         /\ \A o : \A x \in Request : x # r => (Filling(x, o)' <=> Filling(x, o))
<1>1. /\ request' \in [Request -> Requests]
      /\ request'[r] = t
      /\ \A x \in Request : x # r => request'[x] = request[x]
  BY DEF Now
<1>2. \A o : Filling(r, o)' <=> Fills(t, o)
  BY <1>1 DEF Filling, Fills, Current
<1>3. \A o : \A x \in Request : x # r => (Filling(x, o)' <=> Filling(x, o))
  BY <1>1 DEF Filling, Current
<1> QED  BY <1>1, <1>2, <1>3

\* The rows change for the others only as they allow it: what is over stays
\* over, and only the request that claimed an order touches it.
Yields(r) ==
  /\ \A a \in Alert : alert[a] = "fired" => alert'[a] = "fired"
  /\ \A o \in Order : order[o] = "failed" => order'[o] = "failed"
  /\ \A o \in Order : order[o] = "filled" => order'[o] = "filled" \/ Filling(r, o)
  /\ \A o \in Order : TradesOf(o) \subseteq TradesOf(o)'
  /\ \A o \in Order : TradesOf(o)' = TradesOf(o) \/ Filling(r, o)

\* The order and the alert in hand.
LEMMA InHandType ==
  ASSUME IInv, NEW r \in Request
  PROVE  /\ request[r].pc \in HasOrder =>
              /\ request[r].open # {} /\ Current(r) \in request[r].open
              /\ Current(r) \in Order
         /\ request[r].pc \in HasAlert =>
              /\ request[r].armed # {} /\ CurrentAlert(r) \in request[r].armed
              /\ CurrentAlert(r) \in Alert
<1>1. request[r] \in Requests /\ HandOK(r)  BY IInvParts
<1>2. /\ request[r].open \in SUBSET Order /\ request[r].armed \in SUBSET Alert
      /\ request[r].open \in SUBSET Nat /\ request[r].armed \in SUBSET Nat
  BY <1>1, OrdersAssumption DEF Requests, OrdersAssumption
<1>3. request[r].pc \in HasOrder => request[r].open # {}
  BY <1>1 DEF HandOK, HasOrder
<1>4. request[r].pc \in HasAlert => request[r].armed # {}
  BY <1>1 DEF HandOK, HasAlert
<1>5. request[r].pc \in HasOrder => Current(r) \in request[r].open
  BY <1>2, <1>3, OldestIn DEF Current
<1>6. request[r].pc \in HasAlert => CurrentAlert(r) \in request[r].armed
  BY <1>2, <1>4, OldestIn DEF CurrentAlert
<1> QED  BY <1>2, <1>3, <1>4, <1>5, <1>6

\* Request r goes on to t; what the others hold is still right.
LEMMA OneMoves ==
  ASSUME IInv, NEW r \in Request, NEW t \in Requests, Now(r, t), RowsOK', Yields(r),
         errors' = 0 => errors = 0, stops' = 0 => stops = 0, HandOK(r)',
         \A o \in Order :
           Fills(t, o) => order'[o] = "filled" /\ (Filling(r, o) \/ order[o] = "open"),
         errors' = 0 => /\ FilledAtMostOnce' /\ ToldIsSo' /\ TradedWhenFilled(r)'
                        /\ stops' = 0 => NothingLost'
  PROVE  IInv'
<1>1. request \in [Request -> Requests]  BY DEF IInv, TypeOK
<1>2. /\ request' \in [Request -> Requests] /\ request'[r] = t
      /\ \A x \in Request : x # r => request'[x] = request[x]
      /\ \A o : Filling(r, o)' <=> Fills(t, o)
      /\ \A o : \A x \in Request : x # r => (Filling(x, o)' <=> Filling(x, o))
  BY <1>1, Elsewhere
<1>3. TypeOK'  BY <1>2 DEF RowsOK, TypeOK
<1>4. OneFiller'
  <2> SUFFICES ASSUME NEW o \in Order, NEW x \in Request, NEW y \in Request, Filling(x, o)'
               PROVE  order'[o] = "filled" /\ (Filling(y, o)' => x = y)
    BY DEF OneFiller
  <2>1. \A z \in Request : Filling(z, o) => order[o] = "filled"
    BY IInvParts DEF OneFiller
  <2>2. \A z, w \in Request : Filling(z, o) /\ Filling(w, o) => z = w
    BY IInvParts DEF OneFiller
  <2>3. CASE x = r
    <3>1. order'[o] = "filled" /\ (Filling(r, o) \/ order[o] = "open")
      BY <1>2, <2>3
    <3>2. ASSUME Filling(y, o)', y # r  PROVE FALSE
      <4>1. Filling(y, o)  BY <1>2, <3>2
      <4>2. order[o] = "filled"  BY <2>1, <4>1
      <4> QED  BY <2>2, <3>1, <3>2, <4>1, <4>2
    <3> QED  BY <2>3, <3>1, <3>2
  <2>4. CASE x # r
    <3>1. Filling(x, o)  BY <1>2, <2>4
    <3>2. order[o] = "filled" /\ ~Filling(r, o)  BY <2>1, <2>2, <2>4, <3>1
    <3>3. order'[o] = "filled"  BY <3>2 DEF Yields
    <3>4. ~Filling(r, o)'  BY <1>2, <3>2
    <3> QED  BY <1>2, <2>2, <3>1, <3>3, <3>4
  <2> QED  BY <2>3, <2>4
<1>5. ASSUME NEW x \in Request  PROVE HandOK(x)'
  <2>1. CASE x # r
    <3>1. HandOK(x) /\ request[x] \in Requests  BY IInvParts
    <3>2. request'[x] = request[x]  BY <1>2, <2>1
    <3>3. At(x, "tellAlert") => CurrentAlert(x) \in Alert
      BY InHandType DEF At, HasAlert
    <3>4. At(x, "tellFailed") => Current(x) \in Order
      BY InHandType DEF At, HasOrder
    <3>5. At(x, "tellAlert") => alert'[CurrentAlert(x)] = "fired"
      BY <3>1, <3>3 DEF HandOK, Yields
    <3>6. At(x, "tellFailed") => order'[Current(x)] = "failed"
      BY <3>1, <3>4 DEF HandOK, Yields
    <3> QED  BY <3>1, <3>2, <3>5, <3>6 DEF HandOK, At, Current, CurrentAlert
  <2> QED  BY <2>1
<1>6. ASSUME errors' = 0, NEW x \in Request  PROVE TradedWhenFilled(x)'
  <2>1. CASE x # r
    <3>1. TradedWhenFilled(x)  BY <1>6, IInvParts
    <3>2. request'[x] = request[x] /\ Current(x)' = Current(x)
      BY <1>2, <2>1 DEF Current
    <3>3. PICK o : o = Current(x)  OBVIOUS
    <3>4. request[x].pc \in {"quote", "fill", "fail", "reopen"} => TradesOf(o)' = {}
      <4> SUFFICES ASSUME request[x].pc \in {"quote", "fill", "fail", "reopen"}
                   PROVE  TradesOf(o)' = {}
        OBVIOUS
      <4>1. o \in Order /\ Filling(x, o)
        BY <3>3, InHandType DEF Filling, HasOrder, InTry
      <4>2. ~Filling(r, o)  BY <2>1, <4>1, IInvParts DEF OneFiller
      <4>3. TradesOf(o) = {}  BY <3>1, <3>3 DEF TradedWhenFilled
      <4> QED  BY <4>1, <4>2, <4>3 DEF Yields
    <3>5. request[x].pc \in {"link", "tell"} => TradesOf(o)' # {}
      <4> SUFFICES ASSUME request[x].pc \in {"link", "tell"}
                   PROVE  TradesOf(o)' # {}
        OBVIOUS
      <4>1. o \in Order  BY <3>3, InHandType DEF HasOrder, InTry
      <4>2. TradesOf(o) # {}  BY <3>1, <3>3 DEF TradedWhenFilled
      <4> QED  BY <4>1, <4>2 DEF Yields
    <3> QED  BY <3>2, <3>3, <3>4, <3>5 DEF TradedWhenFilled, TradesOf
  <2> QED  BY <1>6, <2>1
<1> QED  BY <1>3, <1>4, <1>5, <1>6 DEF IInv

\* What a record has in hand is there.
HandsOK(t) ==
  /\ t.pc \in HasOrder => t.open # {}
  /\ t.pc \in HasAlert => t.armed # {}

TradedOK(t) ==
  /\ t.pc \in {"quote", "fill", "fail", "reopen"} => TradesOf(Oldest(t.open)) = {}
  /\ t.pc \in {"link", "tell"} => TradesOf(Oldest(t.open)) # {}

Tells(t, o) == t.pc = "tellFailed" /\ Oldest(t.open) = o
TellsAlert(t, a) == t.pc = "tellAlert" /\ Oldest(t.armed) = a

\* An outcome that request r brings about, or has in hand, is told or stays in
\* its hand.
Outcomes(r, t) ==
  /\ \A o \in Order :
       /\ order'[o] = "filled" /\ (order[o] # "filled" \/ Filling(r, o)) =>
            Fills(t, o) \/ (TradesOf(o)' # {} /\ <<"order_filled", o>> \in told')
       /\ order'[o] = "failed" /\ (order[o] # "failed" \/ Tells(request[r], o)) =>
            Tells(t, o) \/ <<"order_failed", o>> \in told'
  /\ \A a \in Alert :
       alert'[a] = "fired" /\ (alert[a] # "fired" \/ TellsAlert(request[r], a)) =>
         TellsAlert(t, a) \/ <<"price_alert", a>> \in told'

LEMMA StillNothingLost ==
  ASSUME IInv, NEW r \in Request, NEW t \in Requests, Now(r, t), Yields(r),
         told \subseteq told', NothingLost, Outcomes(r, t)
  PROVE  NothingLost'
<1>1. request \in [Request -> Requests]  BY DEF IInv, TypeOK
<1>2. /\ request'[r] = t
      /\ \A x \in Request : x # r => request'[x] = request[x]
      /\ \A o : Filling(r, o)' <=> Fills(t, o)
      /\ \A o : \A x \in Request : x # r => (Filling(x, o)' <=> Filling(x, o))
  BY <1>1, Elsewhere
<1>3. ASSUME NEW o \in Order, order'[o] = "filled"
      PROVE  \/ TradesOf(o)' # {} /\ <<"order_filled", o>> \in told'
             \/ \E x \in Request : Filling(x, o)'
  <2>1. CASE order[o] # "filled" \/ Filling(r, o)
    BY <1>2, <1>3, <2>1 DEF Outcomes
  <2>2. CASE order[o] = "filled" /\ ~Filling(r, o)
    <3>1. \/ TradesOf(o) # {} /\ <<"order_filled", o>> \in told
          \/ \E x \in Request : Filling(x, o)
      BY <2>2 DEF NothingLost
    <3>2. TradesOf(o) \subseteq TradesOf(o)'  BY DEF Yields
    <3> QED  BY <1>2, <2>2, <3>1, <3>2
  <2> QED  BY <2>1, <2>2
<1>4. ASSUME NEW o \in Order, order'[o] = "failed"
      PROVE  \/ <<"order_failed", o>> \in told'
             \/ \E x \in Request : Tells(request'[x], o)
  <2>1. CASE order[o] # "failed" \/ Tells(request[r], o)
    BY <1>2, <1>4, <2>1 DEF Outcomes
  <2>2. CASE order[o] = "failed" /\ ~Tells(request[r], o)
    <3>1. \/ <<"order_failed", o>> \in told
          \/ \E x \in Request : Tells(request[x], o)
      BY <2>2 DEF NothingLost, Tells, At, Current
    <3> QED  BY <1>2, <2>2, <3>1
  <2> QED  BY <2>1, <2>2
<1>5. ASSUME NEW a \in Alert, alert'[a] = "fired"
      PROVE  \/ <<"price_alert", a>> \in told'
             \/ \E x \in Request : TellsAlert(request'[x], a)
  <2>1. CASE alert[a] # "fired" \/ TellsAlert(request[r], a)
    BY <1>2, <1>5, <2>1 DEF Outcomes
  <2>2. CASE alert[a] = "fired" /\ ~TellsAlert(request[r], a)
    <3>1. \/ <<"price_alert", a>> \in told
          \/ \E x \in Request : TellsAlert(request[x], a)
      BY <2>2 DEF NothingLost, TellsAlert, At, CurrentAlert
    <3> QED  BY <1>2, <2>2, <3>1
  <2> QED  BY <2>1, <2>2
<1> QED
  BY <1>3, <1>4, <1>5 DEF NothingLost, Tells, TellsAlert, At, Current, CurrentAlert

\* Everything a step of one request has to show.
LEMMA Goes ==
  ASSUME IInv, NEW r \in Request, NEW t \in Requests, Now(r, t), RowsOK', Yields(r),
         told \subseteq told', errors' = 0 => errors = 0, stops' = 0 => stops = 0,
         HandsOK(t),
         t.pc = "tellAlert" => alert'[Oldest(t.armed)] = "fired",
         t.pc = "tellFailed" => order'[Oldest(t.open)] = "failed",
         \A o \in Order :
           Fills(t, o) => order'[o] = "filled" /\ (Filling(r, o) \/ order[o] = "open"),
         errors' = 0 => FilledAtMostOnce' /\ ToldIsSo' /\ TradedOK(t)',
         errors' = 0 /\ stops' = 0 => Outcomes(r, t)
  PROVE  IInv'
<1>1. request \in [Request -> Requests]  BY DEF IInv, TypeOK
<1>2. request'[r] = t  BY <1>1, Elsewhere
<1>3. HandOK(r)'
  BY <1>2 DEF HandsOK, HandOK, HasOrder, HasAlert, At, Current, CurrentAlert
<1>4. TradedOK(t)' => TradedWhenFilled(r)'
  BY <1>2 DEF TradedOK, TradedWhenFilled, TradesOf, Current
<1>5. errors' = 0 /\ stops' = 0 => NothingLost'
  BY IInvParts, StillNothingLost
<1> QED  BY <1>3, <1>4, <1>5, OneMoves

\* A step that leaves the orders, the alerts, the trades and what was told
\* alone.
LEMMA Quiet ==
  ASSUME IInv, NEW r \in Request, NEW t \in Requests, Now(r, t), RowsOK',
         UNCHANGED <<order, alert, trades, told>>,
         errors' = 0 => errors = 0, stops' = 0 => stops = 0,
         HandsOK(t), t.pc \notin {"tellAlert", "tellFailed"},
         \A o \in Order : Fills(t, o) => Filling(r, o),
         errors' = 0 => TradedOK(t),
         errors' = 0 /\ stops' = 0 =>
           /\ request[r].pc \notin {"tellAlert", "tellFailed"}
           /\ \A o \in Order : Filling(r, o) => Fills(t, o)
  PROVE  IInv'
<1>1. \A o : TradesOf(o)' = TradesOf(o)  BY DEF TradesOf
<1>2. Yields(r)  BY <1>1 DEF Yields
<1>3. \A o \in Order : Fills(t, o) => order'[o] = "filled" /\ Filling(r, o)
  BY IInvParts DEF OneFiller
<1>4. errors' = 0 => FilledAtMostOnce' /\ ToldIsSo'
  BY <1>1, IInvParts DEF FilledAtMostOnce, ToldIsSo
<1>5. errors' = 0 => TradedOK(t)'  BY <1>1 DEF TradedOK
<1>6. errors' = 0 /\ stops' = 0 => Outcomes(r, t)
  BY DEF Outcomes, Tells, TellsAlert
<1> QED  BY <1>2, <1>3, <1>4, <1>5, <1>6, Goes

\* The trades of an order are counted.
LEMMA TradesCount ==
  ASSUME RowsOK, NEW o
  PROVE  /\ IsFiniteSet(TradesOf(o)) /\ Cardinality(TradesOf(o)) \in Nat
         /\ Cardinality(TradesOf(o)) = 0 <=> TradesOf(o) = {}
<1>1. Len(trades) \in Nat  BY DEF RowsOK
<1>2. IsFiniteSet(1..Len(trades))  BY <1>1, FS_Interval
<1>3. IsFiniteSet(TradesOf(o))  BY <1>2, FS_Subset DEF TradesOf
<1> QED  BY <1>3, FS_CardinalityType, FS_EmptySet

\* An order that is not filled has not traded.
LEMMA NoneTraded ==
  ASSUME RowsOK, FilledAtMostOnce, NEW o \in Order, order[o] # "filled"
  PROVE  TradesOf(o) = {}
<1>1. Cardinality(TradesOf(o)) <= 0  BY DEF FilledAtMostOnce
<1> QED  BY <1>1, TradesCount

LEMMA PriceType ==
  ASSUME RowsOK, NEW b \in Nat
  PROVE  Price(b) \in Nat \ {0}
<1>1. push \in Int  BY DEF RowsOK
<1> QED  BY <1>1 DEF Price

-----------------------------------------------------------------------------
(* The actions.                                                            *)

LEMMA PCsAre ==
  PCs = {"idle", "act", "quote", "fill", "link", "tell", "armed", "price", "claim",
         "fail", "tellFailed", "reopen", "fire", "tellAlert"}
BY DEF PCs, InTry, Sweeping

\* The request goes on to the statement pc.
AtPc(q, pc) == [q EXCEPT !.pc = pc]

LEMMA AtPcType ==
  ASSUME NEW q \in Requests, NEW pc \in PCs
  PROVE  /\ AtPc(q, pc) \in Requests
         /\ AtPc(q, pc).pc = pc /\ AtPc(q, pc).quote = q.quote
         /\ AtPc(q, pc).open = q.open /\ AtPc(q, pc).armed = q.armed
BY DEF AtPc, Requests

\* A request without an order or an alert in hand.
LEMMA EmptyHands ==
  ASSUME NEW t, t.pc \notin HasOrder \cup HasAlert
  PROVE  /\ HandsOK(t) /\ TradedOK(t) /\ TradedOK(t)'
         /\ t.pc \notin {"tellAlert", "tellFailed"}
         /\ \A o : ~Fills(t, o)
BY DEF HasOrder, HasAlert, InTry, HandsOK, TradedOK, Fills

\* What is ahead of a sweep is not yet in its hands.
LEMMA AheadHands ==
  ASSUME NEW q \in Requests, NEW t, t = Ahead(q)
  PROVE  /\ t \in Requests /\ HandsOK(t) /\ TradedOK(t) /\ TradedOK(t)'
         /\ t.pc \notin {"tellAlert", "tellFailed"}
         /\ \A o : ~Fills(t, o)
<1>1. /\ t \in Requests /\ t.pc \in {"claim", "fire", "act"}
      /\ t.pc = "claim" => t.open # {}
      /\ t.pc = "fire" => t.armed # {}
  BY AheadType
<1> QED  BY <1>1 DEF HasOrder, HasAlert, InTry, HandsOK, TradedOK, Fills

LEMMA ActType ==
  ASSUME NEW t, t = [Idle EXCEPT !.pc = "act"]
  PROVE  t \in Requests /\ t.pc = "act" /\ t.pc \notin HasOrder \cup HasAlert
<1>1. t = AtPc(Idle, "act")  BY DEF AtPc
<1> QED  BY <1>1, IdleType, AtPcType, PCsAre DEF HasOrder, HasAlert, InTry

LEMMA IdleHands ==
  Idle \in Requests /\ Idle.pc \notin HasOrder \cup HasAlert
BY IdleType DEF HasOrder, HasAlert, InTry

\* A request that has nothing in hand before and after, with nothing changed
\* but the market.
LEMMA NothingDone ==
  ASSUME IInv, NEW r \in Request, NEW t \in Requests, Now(r, t),
         UNCHANGED <<order, alert, market, told, base, counts>>,
         ~Filling(r, Current(r)), request[r].pc \notin {"tellAlert", "tellFailed"},
         HandsOK(t), TradedOK(t), t.pc \notin {"tellAlert", "tellFailed"},
         \A o : ~Fills(t, o)
  PROVE  IInv'
<1>1. RowsOK /\ RowsOK'  BY IInvParts DEF RowsOK, market, counts
<1>2. \A o \in Order : ~Filling(r, o)  BY DEF Filling
<1> QED  BY <1>1, <1>2, Quiet DEF market, counts

Selected(open, b) == [Idle EXCEPT !.pc = "armed", !.open = open, !.base = b]

LEMMA SelectedType ==
  ASSUME NEW open \in SUBSET Order, NEW b \in Nat
  PROVE  Selected(open, b) \in Requests /\ Selected(open, b).pc = "armed"
<1>1. NoQuote \in Quotes /\ "armed" \in PCs  BY QuoteType, PCsAre
<1> QED  BY <1>1 DEF Selected, Idle, Requests, Reasons

LEMMA SelectOpenKeeps ==
  ASSUME IInv, NEW r \in Request, SelectOpen(r)  PROVE IInv'
<1>1. /\ request[r].pc = "idle"
      /\ Now(r, [Idle EXCEPT !.pc = "armed", !.open = OldestOpen, !.base = base])
      /\ UNCHANGED <<order, alert, market, told, base, counts>>
  BY DEF SelectOpen, At
<1>2. OldestOpen \in SUBSET Order /\ base \in Nat /\ 0 \in Nat /\ {} \in SUBSET Alert
  BY IInvParts, OrdersAssumption DEF OldestOpen, RowsOK, OrdersAssumption
<1>4. PICK open \in SUBSET Order, b \in Nat : open = OldestOpen /\ b = base
  BY <1>2
<1>3. Selected(open, b) \in Requests /\ Selected(open, b).pc = "armed"
  BY SelectedType
<1>5. PICK t : t = Selected(open, b)
  OBVIOUS
<1>6. t \in Requests /\ t.pc = "armed"  BY <1>3, <1>5
<1>9. Now(r, t)  BY <1>1, <1>4, <1>5 DEF Selected
<1>7. ~Filling(r, Current(r))  BY <1>1 DEF Filling, InTry
<1>8. t.pc \notin HasOrder \cup HasAlert  BY <1>6 DEF HasOrder, HasAlert, InTry
<1> QED  BY <1>1, <1>6, <1>7, <1>8, <1>9, EmptyHands, NothingDone

LEMMA SelectArmedKeeps ==
  ASSUME IInv, NEW r \in Request, SelectArmed(r)  PROVE IInv'
<1> DEFINE armed == {a \in Alert : alert[a] = "armed"}
<1>1. /\ request[r].pc = "armed" /\ request[r] \in Requests
      /\ \/ Now(r, [Idle EXCEPT !.pc = "act"])
         \/ Now(r, [request[r] EXCEPT !.pc = "price", !.armed = armed])
      /\ UNCHANGED <<order, alert, market, told, base, counts>>
  BY IInvParts DEF SelectArmed, At
<1>2. ~Filling(r, Current(r))  BY <1>1 DEF Filling, InTry
<1>3. PICK t : Now(r, t) /\ (\/ t = [Idle EXCEPT !.pc = "act"]
                             \/ t = [request[r] EXCEPT !.pc = "price", !.armed = armed])
  BY <1>1
<1>4. t \in Requests /\ t.pc \notin HasOrder \cup HasAlert
  <2>1. CASE t = [Idle EXCEPT !.pc = "act"]  BY <2>1, ActType
  <2>2. CASE t = [request[r] EXCEPT !.pc = "price", !.armed = armed]
    <3>1. armed \in SUBSET Alert  OBVIOUS
    <3> HIDE DEF armed
    <3>2. t \in Requests /\ t.pc = "price"
      BY <1>1, <2>2, <3>1, PCsAre DEF Requests
    <3> QED  BY <3>2 DEF HasOrder, HasAlert, InTry
  <2> QED  BY <1>3, <2>1, <2>2
<1> QED  BY <1>1, <1>2, <1>3, <1>4, EmptyHands, NothingDone

LEMMA ReadPriceKeeps ==
  ASSUME IInv, NEW r \in Request, ReadPrice(r)  PROVE IInv'
<1> DEFINE price == Price(request[r].base)
           q == [request[r] EXCEPT !.open = {o \in @ : Crosses(o, price)},
                                   !.armed = {a \in @ : Reached(a, price)},
                                   !.price = price, !.counted = Len(trades)]
<1>1. /\ request[r].pc = "price" /\ request[r] \in Requests
      /\ Now(r, Ahead(q))
      /\ UNCHANGED <<order, alert, market, told, base, counts>>
  BY IInvParts DEF ReadPrice, At
<1>2. price \in Nat
  <2>1. request[r].base \in Nat  BY <1>1 DEF Requests
  <2> QED  BY <2>1, IInvParts, PriceType
<1>3. q \in Requests
  <2>1. PICK open \in SUBSET Order : open = {o \in request[r].open : Crosses(o, price)}
    BY <1>1 DEF Requests
  <2>2. PICK armed \in SUBSET Alert : armed = {a \in request[r].armed : Reached(a, price)}
    BY <1>1 DEF Requests
  <2>3. q = [request[r] EXCEPT !.open = open, !.armed = armed, !.price = price,
                                 !.counted = Len(trades)]
    BY <1>1, <2>1, <2>2 DEF Requests
  <2>4. Len(trades) \in Nat  BY IInvParts DEF RowsOK
  <2> HIDE DEF q, price
  <2> QED  BY <1>1, <1>2, <2>3, <2>4 DEF Requests
<1>4. ~Filling(r, Current(r))  BY <1>1 DEF Filling, InTry
<1> HIDE DEF q
<1>5. PICK t : t = Ahead(q)  OBVIOUS
<1> QED  BY <1>1, <1>3, <1>4, <1>5, AheadHands, NothingDone

\* The request lets go of its order, or its alert, and goes on to the next.
LEMMA NextOrderType ==
  ASSUME IInv, NEW r \in Request, NextOrder(r)
  PROVE  \E t \in Requests :
           /\ Now(r, t) /\ HandsOK(t) /\ TradedOK(t) /\ TradedOK(t)'
           /\ t.pc \notin {"tellAlert", "tellFailed"} /\ \A o : ~Fills(t, o)
<1>1. request[r] \in Requests  BY IInvParts
<1>2. PICK open \in SUBSET Order : open = request[r].open \ {Current(r)}
  BY <1>1 DEF Requests
<1>3. PICK q \in Requests : q = [request[r] EXCEPT !.open = open]
  BY <1>1 DEF Requests
<1>4. q = [request[r] EXCEPT !.open = @ \ {Current(r)}]
  BY <1>1, <1>2, <1>3 DEF Requests
<1> QED  BY <1>4, AheadHands DEF NextOrder

LEMMA NextAlertType ==
  ASSUME IInv, NEW r \in Request, NextAlert(r)
  PROVE  \E t \in Requests :
           /\ Now(r, t) /\ HandsOK(t) /\ TradedOK(t) /\ TradedOK(t)'
           /\ t.pc \notin {"tellAlert", "tellFailed"} /\ \A o : ~Fills(t, o)
<1>1. request[r] \in Requests  BY IInvParts
<1>2. PICK armed \in SUBSET Alert : armed = request[r].armed \ {CurrentAlert(r)}
  BY <1>1 DEF Requests
<1>3. PICK q \in Requests : q = [request[r] EXCEPT !.armed = armed]
  BY <1>1 DEF Requests
<1>4. q = [request[r] EXCEPT !.armed = @ \ {CurrentAlert(r)}]
  BY <1>1, <1>2, <1>3 DEF Requests
<1> QED  BY <1>4, AheadHands DEF NextAlert

\* Order o gets a status; the others keep theirs.
LEMMA OneOrder ==
  ASSUME RowsOK, NEW o \in Order, NEW status \in OrderStatuses,
         order' = [order EXCEPT ![o] = status]
  PROVE  /\ order' \in [Order -> OrderStatuses] /\ order'[o] = status
         /\ \A p \in Order : p # o => order'[p] = order[p]
BY DEF RowsOK

LEMMA OneAlert ==
  ASSUME RowsOK, NEW a \in Alert, NEW status \in AlertStatuses,
         alert' = [alert EXCEPT ![a] = status]
  PROVE  /\ alert' \in [Alert -> AlertStatuses] /\ alert'[a] = status
         /\ \A b \in Alert : b # a => alert'[b] = alert[b]
BY DEF RowsOK

LEMMA ClaimKeeps ==
  ASSUME IInv, NEW r \in Request, Claim(r)  PROVE IInv'
<1> DEFINE o == Current(r)
<1>1. /\ request[r].pc = "claim" /\ request[r] \in Requests
      /\ UNCHANGED <<alert, market, told, base, counts>>
  BY IInvParts DEF Claim, At
<1>2. /\ o \in Order /\ o = Oldest(request[r].open) /\ request[r].open # {}
      /\ \A x \in Order : ~Filling(r, x)
  BY <1>1, InHandType DEF HasOrder, Filling, InTry, Current
<1>3. CASE order[o] # "open"
  <2>1. UNCHANGED order /\ NextOrder(r)  BY <1>3 DEF Claim
  <2> QED  BY <1>1, <1>2, <2>1, NextOrderType, NothingDone
<1>4. CASE order[o] = "open"
  <2>1. order' = [order EXCEPT ![o] = "filled"] /\ Now(r, AtPc(request[r], "quote"))
    BY <1>4 DEF Claim, Goto, AtPc
  <2>2. PICK t \in Requests : t = AtPc(request[r], "quote")
    BY <1>1, PCsAre, AtPcType
  <2>3. t.pc = "quote" /\ t.open = request[r].open
    BY <1>1, <2>2, PCsAre, AtPcType
  <2>4. RowsOK  BY IInvParts
  <2>5. /\ order' \in [Order -> OrderStatuses] /\ order'[o] = "filled"
        /\ \A p \in Order : p # o => order'[p] = order[p]
    BY <1>2, <2>1, <2>4, OneOrder DEF OrderStatuses
  <2>6. RowsOK'  BY <1>1, <2>4, <2>5 DEF RowsOK, market, counts
  <2>7. \A x : TradesOf(x)' = TradesOf(x)  BY <1>1 DEF TradesOf, market
  <2>8. Yields(r)  BY <1>1, <1>4, <2>5, <2>7 DEF Yields
  <2>9. \A x \in Order : Fills(t, x) <=> x = o  BY <1>2, <2>3 DEF Fills, InTry
  <2>10. ASSUME errors' = 0  PROVE FilledAtMostOnce' /\ ToldIsSo' /\ TradedOK(t)'
    <3>1. FilledAtMostOnce /\ ToldIsSo  BY <1>1, <2>10, IInvParts DEF counts
    <3>2. TradesOf(o) = {}  BY <1>2, <1>4, <2>4, <3>1, NoneTraded
    <3>3. FilledAtMostOnce'
      <4>1. Cardinality({}) <= 1  BY FS_EmptySet
      <4> QED  BY <2>5, <2>7, <3>1, <3>2, <4>1 DEF FilledAtMostOnce
    <3>4. ToldIsSo'  BY <1>1, <1>4, <2>5, <2>7, <3>1 DEF ToldIsSo
    <3>5. TradedOK(t)'  BY <1>2, <2>3, <2>7, <3>2 DEF TradedOK
    <3> QED  BY <3>3, <3>4, <3>5
  <2>11. HandsOK(t)  BY <1>2, <2>3 DEF HandsOK, HasAlert
  <2>12. Outcomes(r, t)
    BY <1>1, <2>5, <2>9, <1>2 DEF Outcomes, Tells, TellsAlert
  <2> QED
    BY <1>1, <1>4, <2>1, <2>2, <2>3, <2>5, <2>6, <2>8, <2>9, <2>10, <2>11, <2>12, Goes
    DEF counts
<1> QED  BY <1>3, <1>4

LEMMA QuoteKeeps ==
  ASSUME IInv, NEW r \in Request, Quote(r)  PROVE IInv'
<1> DEFINE o == Current(r)
           price == Price(request[r].base)
           bought == Rounded(Amount[o], price)
           quote == IF Side[o] = "buy"
                      THEN [price |-> price, atoms |-> bought, cents |-> Amount[o]]
                      ELSE [price |-> price, atoms |-> Amount[o], cents |-> Amount[o] * price]
<1>1. /\ request[r].pc = "quote" /\ request[r] \in Requests /\ RowsOK
      /\ UNCHANGED <<order, alert, market, told, base, counts>>
  BY IInvParts DEF Quote, At
<1>2. o \in Order /\ o = Oldest(request[r].open) /\ request[r].open # {} /\ Filling(r, o)
  BY <1>1, InHandType DEF HasOrder, Filling, InTry, Current
<1>3. quote \in Quotes
  <2>1. price \in Nat \ {0}
    <3>1. request[r].base \in Nat  BY <1>1 DEF Requests
    <3> QED  BY <1>1, <3>1, PriceType
  <2>2. Amount[o] \in Nat  BY <1>2, OrdersAssumption DEF OrdersAssumption
  <2>3. bought \in Nat  BY <2>1, <2>2, RoundedNat
  <2>4. Amount[o] * price \in Nat
    <3> HIDE DEF price
    <3> QED  BY <2>1, <2>2
  <2> HIDE DEF price, bought
  <2> QED  BY <2>1, <2>2, <2>3, <2>4 DEF Quotes
<1> HIDE DEF quote, bought
<1>4. \/ \E reason \in Reasons :
           Now(r, [request[r] EXCEPT !.pc = "fail", !.reason = reason])
      \/ Now(r, [request[r] EXCEPT !.pc = "fill", !.quote = quote])
  BY DEF Quote, Refused, Reasons, quote, bought
<1>5. PICK t \in Requests :
        /\ Now(r, t) /\ t.pc \in {"fail", "fill"} /\ t.open = request[r].open
  <2>1. \A reason \in Reasons :
          LET t == [request[r] EXCEPT !.pc = "fail", !.reason = reason]
          IN t \in Requests /\ t.pc = "fail" /\ t.open = request[r].open
    BY <1>1, PCsAre DEF Requests
  <2>2. LET t == [request[r] EXCEPT !.pc = "fill", !.quote = quote]
        IN t \in Requests /\ t.pc = "fill" /\ t.open = request[r].open
    BY <1>1, <1>3, PCsAre DEF Requests
  <2> QED  BY <1>4, <2>1, <2>2
<1>6. \A x \in Order : Fills(t, x) <=> Filling(r, x)
  BY <1>1, <1>5 DEF Fills, Filling, InTry, Current
<1>7. errors' = 0 => TradedOK(t)
  BY <1>1, <1>2, <1>5, IInvParts DEF TradedWhenFilled, TradedOK, counts
<1>8. HandsOK(t)  BY <1>2, <1>5 DEF HandsOK, HasAlert
<1>9. RowsOK'  BY <1>1 DEF RowsOK, market, counts
<1> QED  BY <1>1, <1>5, <1>6, <1>7, <1>8, <1>9, Quiet DEF market, counts

-----------------------------------------------------------------------------
(* Trades.                                                                 *)

LEMMA TradeRows ==
  ASSUME RowsOK, NEW o \in Order \cup {0}, NEW side \in {"buy", "sell"}, NEW t \in Quotes,
         Affords(side, t), Trade(o, side, t),
         UNCHANGED <<order, alert, told, base>>, errors' \in Nat, stops' \in Nat
  PROVE  /\ RowsOK'
         /\ TradesOf(o)' = TradesOf(o) \cup {Len(trades) + 1}
         /\ \A x : x # o => TradesOf(x)' = TradesOf(x)
<1>1. t.price \in Nat /\ t.atoms \in Nat /\ t.cents \in Nat  BY DEF Quotes
<1>2. trades \in Seq(Trades)  BY DEF RowsOK
<1>13. money \in Nat /\ coin \in Nat /\ push \in Int  BY DEF RowsOK
<1>3. money' \in Nat /\ coin' \in Nat /\ push' \in Int
  <2>1. CASE side = "buy"
    <3>1. money >= t.cents /\ money' = money - t.cents /\ coin' = coin + t.atoms
          /\ push' = push + t.atoms
      BY <2>1 DEF Affords, Trade
    <3>2. money' \in Nat  BY <1>1, <1>13, <3>1
    <3>3. coin' \in Nat  BY <1>1, <1>13, <3>1
    <3>4. push' \in Int  BY <1>1, <1>13, <3>1
    <3> QED  BY <3>2, <3>3, <3>4
  <2>2. CASE side # "buy"
    <3>1. coin >= t.atoms /\ money' = money + t.cents /\ coin' = coin - t.atoms
          /\ push' = push - t.atoms
      BY <2>2 DEF Affords, Trade
    <3>2. coin' \in Nat  BY <1>1, <1>13, <3>1
    <3>3. money' \in Nat  BY <1>1, <1>13, <3>1
    <3>4. push' \in Int  BY <1>1, <1>13, <3>1
    <3> QED  BY <3>2, <3>3, <3>4
  <2> QED  BY <2>1, <2>2
<1>4. PICK row \in Trades :
        row = [order |-> o, side |-> side, price |-> t.price, atoms |-> t.atoms,
               cents |-> t.cents]
  BY <1>1 DEF Trades
<1>5. trades' = Append(trades, row)  BY <1>4 DEF Trade
<1>6. /\ trades' \in Seq(Trades) /\ Len(trades') = Len(trades) + 1 /\ Len(trades) \in Nat
      /\ \A i \in 1..Len(trades) : trades'[i] = trades[i]
      /\ trades'[Len(trades) + 1] = row
  BY <1>2, <1>5
<1>7. RowsOK'  BY <1>3, <1>6 DEF RowsOK
<1>8. row.order = o  BY <1>4
<1>9. \A i : i \in 1..Len(trades') <=> i \in 1..Len(trades) \/ i = Len(trades) + 1
  BY <1>6
<1>10. \A x, i : i \in TradesOf(x)' <=>
          i \in TradesOf(x) \/ (i = Len(trades) + 1 /\ x = o)
  BY <1>6, <1>8, <1>9 DEF TradesOf
<1>11. TradesOf(o)' = TradesOf(o) \cup {Len(trades) + 1}
  BY <1>10
<1>12. ASSUME NEW x, x # o  PROVE TradesOf(x)' = TradesOf(x)
  <2>1. \A i : i \in TradesOf(x)' <=> i \in TradesOf(x)  BY <1>10, <1>12
  <2>2. TradesOf(x)' \subseteq TradesOf(x) /\ TradesOf(x) \subseteq TradesOf(x)'
    BY <2>1
  <2> QED  BY <2>2
<1> QED  BY <1>7, <1>11, <1>12

\* A trade leaves what was told true; it is the first of the order it is for.
LEMMA TradeKeepsCount ==
  ASSUME RowsOK, FilledAtMostOnce, ToldIsSo, UNCHANGED <<order, alert, told>>,
         NEW o, NEW n,
         TradesOf(o)' = TradesOf(o) \cup {n}, \A x : x # o => TradesOf(x)' = TradesOf(x),
         o \in Order => order[o] = "filled" /\ TradesOf(o) = {}
  PROVE  FilledAtMostOnce' /\ ToldIsSo'
<1>1. FilledAtMostOnce'
  <2>1. o \in Order => Cardinality(TradesOf(o)') = 1  BY FS_Singleton
  <2> QED  BY <2>1 DEF FilledAtMostOnce
<1>2. ToldIsSo'
  <2>1. \A x \in Order : TradesOf(x) # {} => TradesOf(x)' # {}  OBVIOUS
  <2>2. \A x \in Order : order[x] = "failed" => TradesOf(x)' = TradesOf(x)
    OBVIOUS
  <2> QED  BY <2>1, <2>2 DEF ToldIsSo
<1> QED  BY <1>1, <1>2

LEMMA FillKeeps ==
  ASSUME IInv, NEW r \in Request, Fill(r)  PROVE IInv'
<1>1. /\ request[r].pc = "fill" /\ request[r] \in Requests /\ RowsOK
      /\ UNCHANGED <<order, alert, told, base, counts>>
  BY IInvParts DEF Fill, At
<1>2. PICK o \in Order :
        /\ o = Current(r) /\ o = Oldest(request[r].open) /\ request[r].open # {}
        /\ Filling(r, o) /\ order[o] = "filled"
  BY <1>1, InHandType, IInvParts DEF HasOrder, Filling, InTry, Current, OneFiller
<1>3. errors = 0 => TradesOf(o) = {}
  BY <1>1, <1>2, IInvParts DEF TradedWhenFilled
<1>6. PICK c \in Quotes : c = request[r].quote  BY <1>1 DEF Requests
<1>4. CASE ~Affords(Side[o], c)
  <2>1. PICK reason \in Reasons :
          Now(r, [request[r] EXCEPT !.pc = "fail", !.reason = reason])
    BY <1>2, <1>4, <1>6 DEF Fill, Refused, Reasons
  <2>2. UNCHANGED market  BY <1>2, <1>4, <1>6 DEF Fill
  <2>3. PICK t \in Requests : Now(r, t) /\ t.pc = "fail" /\ t.open = request[r].open
    <3>1. PICK t \in Requests :
            t = [request[r] EXCEPT !.pc = "fail", !.reason = reason]
      BY <1>1, PCsAre DEF Requests
    <3>2. t.pc = "fail" /\ t.open = request[r].open  BY <1>1, <3>1 DEF Requests
    <3> QED  BY <2>1, <3>1, <3>2
  <2>4. \A x \in Order : Fills(t, x) <=> Filling(r, x)
    BY <1>1, <2>3 DEF Fills, Filling, InTry, Current
  <2>5. errors' = 0 => TradedOK(t)  BY <1>1, <1>2, <1>3, <2>3 DEF TradedOK, counts
  <2>6. HandsOK(t)  BY <1>2, <2>3 DEF HandsOK, HasAlert
  <2>7. RowsOK'  BY <1>1, <2>2 DEF RowsOK, market, counts
  <2> QED  BY <1>1, <2>2, <2>3, <2>4, <2>5, <2>6, <2>7, Quiet DEF market, counts
<1>5. CASE Affords(Side[o], c)
  <2>1. Trade(o, Side[o], c) /\ Now(r, AtPc(request[r], "link"))
    BY <1>2, <1>5, <1>6 DEF Fill, Goto, AtPc
  <2>2. PICK t \in Requests : t = AtPc(request[r], "link")
    BY <1>1, PCsAre, AtPcType
  <2>3. Now(r, t) /\ t.pc = "link" /\ t.open = request[r].open
    BY <1>1, <2>1, <2>2, PCsAre, AtPcType
  <2>4. /\ RowsOK' /\ TradesOf(o)' = TradesOf(o) \cup {Len(trades) + 1}
        /\ \A x : x # o => TradesOf(x)' = TradesOf(x)
    <3>2. Side[o] \in {"buy", "sell"}  BY <1>2, OrdersAssumption DEF OrdersAssumption
    <3>3. errors' \in Nat /\ stops' \in Nat  BY <1>1 DEF RowsOK, counts
    <3> QED  BY <1>1, <1>2, <1>5, <2>1, <3>2, <3>3, TradeRows
  <2>5. Yields(r)  BY <1>1, <1>2, <2>4 DEF Yields
  <2>6. \A x \in Order : Fills(t, x) <=> Filling(r, x)
    BY <1>1, <2>3 DEF Fills, Filling, InTry, Current
  <2>7. ASSUME errors' = 0  PROVE FilledAtMostOnce' /\ ToldIsSo' /\ TradedOK(t)'
    <3>1. FilledAtMostOnce /\ ToldIsSo /\ TradesOf(o) = {}
      BY <1>1, <1>3, <2>7, IInvParts DEF counts
    <3>2. FilledAtMostOnce' /\ ToldIsSo'
      BY <1>1, <1>2, <2>4, <3>1, TradeKeepsCount
    <3>3. TradedOK(t)'  BY <1>2, <2>3, <2>4 DEF TradedOK
    <3> QED  BY <3>2, <3>3
  <2>8. HandsOK(t)  BY <1>2, <2>3 DEF HandsOK, HasAlert
  <2>9. \A x \in Order : Filling(r, x) => order'[x] = "filled"
    BY <1>1, IInvParts DEF OneFiller
  <2>10. Outcomes(r, t)
    BY <1>1, <2>6 DEF Outcomes, Tells, TellsAlert
  <2> QED
    BY <1>1, <2>3, <2>4, <2>5, <2>6, <2>7, <2>8, <2>9, <2>10, Goes DEF counts
<1> QED  BY <1>4, <1>5

\* The order in hand, as a constant.
LEMMA OrderInHand ==
  ASSUME IInv, NEW r \in Request, request[r].pc \in HasOrder
  PROVE  \E o \in Order :
           /\ o = Current(r) /\ o = Oldest(request[r].open) /\ request[r].open # {}
           /\ request[r].pc \in InTry \cup {"fail", "reopen"} =>
                Filling(r, o) /\ order[o] = "filled"
           /\ \A x \in Order : Filling(r, x) => x = o
<1>1. PICK o \in Order : o = Current(r)  BY InHandType
<1> QED  BY <1>1, InHandType, IInvParts DEF Filling, Current, OneFiller

LEMMA LinkKeeps ==
  ASSUME IInv, NEW r \in Request, Link(r)  PROVE IInv'
<1>1. /\ request[r].pc = "link" /\ request[r] \in Requests /\ RowsOK
      /\ Now(r, AtPc(request[r], "tell"))
      /\ UNCHANGED <<order, alert, market, told, base, counts>>
  BY IInvParts DEF Link, At, Goto, AtPc
<1>2. PICK t \in Requests : t = AtPc(request[r], "tell")
  BY <1>1, PCsAre, AtPcType
<1>3. t.pc = "tell" /\ t.open = request[r].open
  BY <1>1, <1>2, PCsAre, AtPcType
<1>4. request[r].open # {}  BY <1>1, OrderInHand DEF HasOrder, InTry
<1>5. \A x \in Order : Fills(t, x) <=> Filling(r, x)
  BY <1>1, <1>3 DEF Fills, Filling, InTry, Current
<1>6. errors' = 0 => TradedOK(t)
  BY <1>1, <1>3, IInvParts DEF TradedOK, TradedWhenFilled, Current, counts
<1>7. HandsOK(t)  BY <1>3, <1>4 DEF HandsOK, HasAlert
<1>8. RowsOK'  BY <1>1 DEF RowsOK, market, counts
<1> QED  BY <1>1, <1>2, <1>3, <1>5, <1>6, <1>7, <1>8, Quiet DEF market, counts

\* A statement that only tells the customer.
LEMMA TellingRows ==
  ASSUME RowsOK, NEW n \in ({"order_filled", "order_failed"} \X Order)
                               \cup ({"price_alert"} \X Alert),
         told' = told \cup {n}, UNCHANGED <<order, alert, market, base, counts>>
  PROVE  RowsOK' /\ told \subseteq told' /\ \A x : TradesOf(x)' = TradesOf(x)
<1>1. RowsOK'  BY DEF RowsOK, market, counts
<1> QED  BY <1>1 DEF TradesOf, market

LEMMA TellKeeps ==
  ASSUME IInv, NEW r \in Request, Tell(r)  PROVE IInv'
<1>1. /\ request[r].pc = "tell" /\ RowsOK
      /\ UNCHANGED <<order, alert, market, base, counts>> /\ NextOrder(r)
  BY IInvParts DEF Tell, At
<1>2. PICK o \in Order :
        /\ o = Current(r) /\ Filling(r, o) /\ order[o] = "filled"
        /\ \A x \in Order : Filling(r, x) => x = o
  BY <1>1, OrderInHand DEF HasOrder, InTry
<1>3. told' = told \cup {<<"order_filled", o>>}  BY <1>2 DEF Tell
<1>4. PICK t \in Requests :
        /\ Now(r, t) /\ HandsOK(t) /\ TradedOK(t)'
        /\ t.pc \notin {"tellAlert", "tellFailed"} /\ \A x : ~Fills(t, x)
  BY <1>1, NextOrderType
<1>5. RowsOK' /\ told \subseteq told' /\ \A x : TradesOf(x)' = TradesOf(x)
  BY <1>1, <1>3, TellingRows
<1>6. Yields(r)  BY <1>1, <1>5 DEF Yields
<1>7. errors' = 0 => FilledAtMostOnce /\ ToldIsSo /\ TradesOf(o) # {}
  BY <1>1, <1>2, IInvParts DEF TradedWhenFilled, counts
<1>8. errors' = 0 => FilledAtMostOnce' /\ ToldIsSo'
  BY <1>1, <1>3, <1>5, <1>7 DEF FilledAtMostOnce, ToldIsSo
<1>9. errors' = 0 => Outcomes(r, t)
  BY <1>1, <1>2, <1>3, <1>5, <1>7 DEF Outcomes, Tells, TellsAlert
<1> QED  BY <1>1, <1>4, <1>5, <1>6, <1>8, <1>9, Goes DEF counts

LEMMA MarkFailedKeeps ==
  ASSUME IInv, NEW r \in Request, MarkFailed(r)  PROVE IInv'
<1>1. /\ request[r].pc = "fail" /\ request[r] \in Requests /\ RowsOK
      /\ UNCHANGED <<alert, market, told, base, counts>>
      /\ Now(r, AtPc(request[r], "tellFailed"))
  BY IInvParts DEF MarkFailed, At, Goto, AtPc
<1>2. PICK o \in Order :
        /\ o = Current(r) /\ o = Oldest(request[r].open) /\ request[r].open # {}
        /\ Filling(r, o) /\ order[o] = "filled"
        /\ \A x \in Order : Filling(r, x) => x = o
  BY <1>1, OrderInHand DEF HasOrder
<1>3. order' = [order EXCEPT ![o] = "failed"]  BY <1>2 DEF MarkFailed
<1>4. PICK t \in Requests : t = AtPc(request[r], "tellFailed")
  BY <1>1, PCsAre, AtPcType
<1>5. t.pc = "tellFailed" /\ t.open = request[r].open
  BY <1>1, <1>4, PCsAre, AtPcType
<1>6. /\ order' \in [Order -> OrderStatuses] /\ order'[o] = "failed"
      /\ \A p \in Order : p # o => order'[p] = order[p]
  BY <1>1, <1>3, OneOrder DEF OrderStatuses
<1>7. RowsOK' /\ \A x : TradesOf(x)' = TradesOf(x)
  <2>1. RowsOK'  BY <1>1, <1>6 DEF RowsOK, market, counts
  <2> QED  BY <1>1, <2>1 DEF TradesOf, market
<1>8. Yields(r)  BY <1>1, <1>2, <1>6, <1>7 DEF Yields
<1>9. errors' = 0 => FilledAtMostOnce /\ ToldIsSo /\ TradesOf(o) = {}
  BY <1>1, <1>2, IInvParts DEF TradedWhenFilled, counts
<1>10. ASSUME errors' = 0  PROVE FilledAtMostOnce' /\ ToldIsSo' /\ TradedOK(t)'
  <2>1. Cardinality({}) <= 0  BY FS_EmptySet
  <2>2. FilledAtMostOnce'
    BY <1>6, <1>7, <1>9, <1>10, <2>1 DEF FilledAtMostOnce
  <2>3. ToldIsSo'  BY <1>1, <1>6, <1>7, <1>9, <1>10 DEF ToldIsSo
  <2> QED  BY <1>5, <2>2, <2>3 DEF TradedOK
<1>11. Outcomes(r, t)
  BY <1>1, <1>2, <1>5, <1>6 DEF Outcomes, Tells, TellsAlert
<1>12. HandsOK(t) /\ \A x : ~Fills(t, x)
  BY <1>2, <1>5 DEF HandsOK, HasAlert, Fills, InTry
<1> QED
  BY <1>1, <1>2, <1>4, <1>5, <1>6, <1>7, <1>8, <1>10, <1>11, <1>12, Goes DEF counts

LEMMA TellFailedKeeps ==
  ASSUME IInv, NEW r \in Request, TellFailed(r)  PROVE IInv'
<1>1. /\ request[r].pc = "tellFailed" /\ RowsOK
      /\ UNCHANGED <<order, alert, market, base, counts>> /\ NextOrder(r)
  BY IInvParts DEF TellFailed, At
<1>2. PICK o \in Order : o = Current(r) /\ \A x \in Order : ~Filling(r, x)
  BY <1>1, OrderInHand DEF HasOrder, Filling, InTry
<1>3. order[o] = "failed"  BY <1>1, <1>2, IInvParts DEF HandOK, At
<1>4. told' = told \cup {<<"order_failed", o>>}  BY <1>2 DEF TellFailed
<1>5. PICK t \in Requests :
        /\ Now(r, t) /\ HandsOK(t) /\ TradedOK(t)'
        /\ t.pc \notin {"tellAlert", "tellFailed"} /\ \A x : ~Fills(t, x)
  BY <1>1, NextOrderType
<1>6. RowsOK' /\ told \subseteq told' /\ \A x : TradesOf(x)' = TradesOf(x)
  BY <1>1, <1>4, TellingRows
<1>7. Yields(r)  BY <1>1, <1>6 DEF Yields
<1>8. ASSUME errors' = 0  PROVE FilledAtMostOnce' /\ ToldIsSo'
  <2>1. FilledAtMostOnce /\ ToldIsSo  BY <1>1, <1>8, IInvParts DEF counts
  <2>2. TradesOf(o) = {}  BY <1>1, <1>3, <2>1, NoneTraded
  <2>3. FilledAtMostOnce'  BY <1>1, <1>6, <2>1 DEF FilledAtMostOnce
  <2>4. ToldIsSo'  BY <1>1, <1>3, <1>4, <1>6, <2>1, <2>2 DEF ToldIsSo
  <2> QED  BY <2>3, <2>4
<1>9. Outcomes(r, t)
  BY <1>1, <1>2, <1>4 DEF Outcomes, Tells, TellsAlert, Current
<1> QED  BY <1>1, <1>5, <1>6, <1>7, <1>8, <1>9, Goes DEF counts

LEMMA ReopenKeeps ==
  ASSUME IInv, NEW r \in Request, Reopen(r)  PROVE IInv'
<1>1. /\ request[r].pc = "reopen" /\ request[r] \in Requests /\ RowsOK
      /\ UNCHANGED <<alert, market, told, base, counts>>
      /\ Now(r, [Idle EXCEPT !.pc = "act"])
  BY IInvParts DEF Reopen, At
<1>2. PICK o \in Order :
        /\ o = Current(r) /\ Filling(r, o) /\ order[o] = "filled"
        /\ \A x \in Order : Filling(r, x) => x = o
  BY <1>1, OrderInHand DEF HasOrder
<1>3. order' = [order EXCEPT ![o] = "open"]  BY <1>2 DEF Reopen
<1>4. PICK t \in Requests : t = [Idle EXCEPT !.pc = "act"] /\ t.pc \notin HasOrder \cup HasAlert
  BY ActType
<1>5. /\ order' \in [Order -> OrderStatuses] /\ order'[o] = "open"
      /\ \A p \in Order : p # o => order'[p] = order[p]
  BY <1>1, <1>3, OneOrder DEF OrderStatuses
<1>6. RowsOK' /\ \A x : TradesOf(x)' = TradesOf(x)
  <2>1. RowsOK'  BY <1>1, <1>5 DEF RowsOK, market, counts
  <2> QED  BY <1>1, <2>1 DEF TradesOf, market
<1>7. Yields(r)  BY <1>1, <1>2, <1>5, <1>6 DEF Yields
<1>8. ASSUME errors' = 0  PROVE FilledAtMostOnce' /\ ToldIsSo'
  <2>1. FilledAtMostOnce /\ ToldIsSo /\ TradesOf(o) = {}
    BY <1>1, <1>2, <1>8, IInvParts DEF TradedWhenFilled, counts
  <2>2. Cardinality({}) <= 0  BY FS_EmptySet
  <2>3. FilledAtMostOnce'  BY <1>5, <1>6, <2>1, <2>2 DEF FilledAtMostOnce
  <2>4. ToldIsSo'  BY <1>1, <1>2, <1>5, <1>6, <2>1 DEF ToldIsSo
  <2> QED  BY <2>3, <2>4
<1>9. Outcomes(r, t)
  BY <1>1, <1>2, <1>5 DEF Outcomes, Tells, TellsAlert
<1>10. /\ HandsOK(t) /\ TradedOK(t)' /\ t.pc \notin {"tellAlert", "tellFailed"}
       /\ \A x : ~Fills(t, x)
  BY <1>4, EmptyHands
<1> QED
  BY <1>1, <1>4, <1>6, <1>7, <1>8, <1>9, <1>10, Goes DEF counts

-----------------------------------------------------------------------------
(* Alerts.                                                                 *)

LEMMA FireKeeps ==
  ASSUME IInv, NEW r \in Request, Fire(r)  PROVE IInv'
<1>1. /\ request[r].pc = "fire" /\ request[r] \in Requests /\ RowsOK
      /\ UNCHANGED <<order, market, told, base, counts>>
  BY IInvParts DEF Fire, At
<1>2. PICK a \in Alert :
        a = CurrentAlert(r) /\ a = Oldest(request[r].armed) /\ request[r].armed # {}
  BY <1>1, InHandType DEF HasAlert, CurrentAlert
<1>3. \A x : ~Filling(r, x)  BY <1>1 DEF Filling, InTry
<1>4. CASE alert[a] # "armed"
  <2>1. UNCHANGED alert /\ NextAlert(r)  BY <1>2, <1>4 DEF Fire
  <2> QED  BY <1>1, <1>3, <2>1, NextAlertType, NothingDone
<1>5. CASE alert[a] = "armed"
  <2>1. alert' = [alert EXCEPT ![a] = "fired"] /\ Now(r, AtPc(request[r], "tellAlert"))
    BY <1>2, <1>5 DEF Fire, Goto, AtPc
  <2>2. PICK t \in Requests : t = AtPc(request[r], "tellAlert")
    BY <1>1, PCsAre, AtPcType
  <2>3. t.pc = "tellAlert" /\ t.armed = request[r].armed
    BY <1>1, <2>2, PCsAre, AtPcType
  <2>4. /\ alert' \in [Alert -> AlertStatuses] /\ alert'[a] = "fired"
        /\ \A b \in Alert : b # a => alert'[b] = alert[b]
    BY <1>1, <2>1, OneAlert DEF AlertStatuses
  <2>5. RowsOK' /\ \A x : TradesOf(x)' = TradesOf(x)
    <3>1. RowsOK'  BY <1>1, <2>4 DEF RowsOK, market, counts
    <3> QED  BY <1>1, <3>1 DEF TradesOf, market
  <2>6. Yields(r)  BY <1>1, <1>5, <2>4, <2>5 DEF Yields
  <2>7. errors' = 0 => FilledAtMostOnce' /\ ToldIsSo'
    BY <1>1, <1>5, <2>4, <2>5, IInvParts DEF FilledAtMostOnce, ToldIsSo, counts
  <2>8. Outcomes(r, t)
    BY <1>1, <1>2, <1>3, <2>3, <2>4 DEF Outcomes, Tells, TellsAlert
  <2>9. HandsOK(t) /\ TradedOK(t)' /\ \A x : ~Fills(t, x)
    BY <1>2, <2>3 DEF HandsOK, HasOrder, TradedOK, Fills, InTry
  <2> QED
    BY <1>1, <1>2, <2>1, <2>2, <2>3, <2>4, <2>5, <2>6, <2>7, <2>8, <2>9, Goes DEF counts
<1> QED  BY <1>4, <1>5

LEMMA TellAlertKeeps ==
  ASSUME IInv, NEW r \in Request, TellAlert(r)  PROVE IInv'
<1>1. /\ request[r].pc = "tellAlert" /\ RowsOK
      /\ UNCHANGED <<order, alert, market, base, counts>> /\ NextAlert(r)
  BY IInvParts DEF TellAlert, At
<1>2. PICK a \in Alert : a = CurrentAlert(r)
  BY <1>1, InHandType DEF HasAlert
<1>3. alert[a] = "fired" /\ \A x : ~Filling(r, x)
  BY <1>1, <1>2, IInvParts DEF HandOK, At, Filling, InTry
<1>4. told' = told \cup {<<"price_alert", a>>}  BY <1>2 DEF TellAlert
<1>5. PICK t \in Requests :
        /\ Now(r, t) /\ HandsOK(t) /\ TradedOK(t)'
        /\ t.pc \notin {"tellAlert", "tellFailed"} /\ \A x : ~Fills(t, x)
  BY <1>1, NextAlertType
<1>6. RowsOK' /\ told \subseteq told' /\ \A x : TradesOf(x)' = TradesOf(x)
  BY <1>1, <1>4, TellingRows
<1>7. Yields(r)  BY <1>1, <1>6 DEF Yields
<1>8. errors' = 0 => FilledAtMostOnce' /\ ToldIsSo'
  BY <1>1, <1>3, <1>4, <1>6, IInvParts DEF FilledAtMostOnce, ToldIsSo, counts
<1>9. Outcomes(r, t)
  BY <1>1, <1>2, <1>3, <1>4 DEF Outcomes, Tells, TellsAlert, CurrentAlert
<1> QED  BY <1>1, <1>5, <1>6, <1>7, <1>8, <1>9, Goes DEF counts

-----------------------------------------------------------------------------
(* Failures.                                                               *)

LEMMA FillCollidesKeeps ==
  ASSUME IInv, NEW r \in Request, FillCollides(r)  PROVE IInv'
<1>1. /\ request[r].pc = "fill" /\ request[r] \in Requests /\ RowsOK
      /\ UNCHANGED <<order, alert, market, told, base, counts>>
      /\ Now(r, AtPc(request[r], "reopen"))
  BY IInvParts DEF FillCollides, At, Goto, AtPc
<1>2. PICK t \in Requests : t = AtPc(request[r], "reopen")
  BY <1>1, PCsAre, AtPcType
<1>3. t.pc = "reopen" /\ t.open = request[r].open
  BY <1>1, <1>2, PCsAre, AtPcType
<1>4. request[r].open # {}  BY <1>1, OrderInHand DEF HasOrder, InTry
<1>5. \A x \in Order : Fills(t, x) <=> Filling(r, x)
  BY <1>1, <1>3 DEF Fills, Filling, InTry, Current
<1>6. errors' = 0 => TradedOK(t)
  BY <1>1, <1>3, IInvParts DEF TradedOK, TradedWhenFilled, Current, counts
<1>7. HandsOK(t)  BY <1>3, <1>4 DEF HandsOK, HasAlert
<1>8. RowsOK'  BY <1>1 DEF RowsOK, market, counts
<1> QED  BY <1>1, <1>2, <1>3, <1>5, <1>6, <1>7, <1>8, Quiet DEF market, counts

\* After a statement that failed nothing is promised but the types, and that
\* an order belongs to the request that claimed it.
LEMMA FillBreaksKeeps ==
  ASSUME IInv, NEW r \in Request, FillBreaks(r)  PROVE IInv'
<1>1. /\ request[r].pc \in InTry /\ request[r] \in Requests /\ RowsOK
      /\ UNCHANGED <<order, alert, told, base>>
      /\ errors' \in Nat /\ errors' # 0 /\ stops' = stops
      /\ Now(r, AtPc(request[r], "reopen"))
  BY IInvParts DEF FillBreaks, Fails, Goto, AtPc, RowsOK
<1>2. PICK o \in Order :
        /\ o = Current(r) /\ o = Oldest(request[r].open) /\ request[r].open # {}
        /\ Filling(r, o) /\ order[o] = "filled"
        /\ \A x \in Order : Filling(r, x) => x = o
  BY <1>1, OrderInHand DEF HasOrder
<1>3. PICK t \in Requests : t = AtPc(request[r], "reopen")
  BY <1>1, PCsAre, AtPcType
<1>4. t.pc = "reopen" /\ t.open = request[r].open
  BY <1>1, <1>3, PCsAre, AtPcType
<1>5. \A x \in Order : Fills(t, x) <=> Filling(r, x)
  BY <1>1, <1>4 DEF Fills, Filling, InTry, Current
<1>6. HandsOK(t)  BY <1>2, <1>4 DEF HandsOK, HasAlert
<1>7. PICK c \in Quotes : c = request[r].quote  BY <1>1 DEF Requests
<1>8. CASE UNCHANGED market
  <2>1. RowsOK'  BY <1>1, <1>8 DEF RowsOK, market
  <2> QED  BY <1>1, <1>3, <1>4, <1>5, <1>6, <1>8, <2>1, Quiet DEF market
<1>9. CASE Affords(Side[o], c) /\ Trade(o, Side[o], c)
  <2>1. /\ RowsOK' /\ TradesOf(o)' = TradesOf(o) \cup {Len(trades) + 1}
        /\ \A x : x # o => TradesOf(x)' = TradesOf(x)
    <3>1. Side[o] \in {"buy", "sell"}  BY OrdersAssumption DEF OrdersAssumption
    <3>2. errors' \in Nat /\ stops' \in Nat  BY <1>1 DEF RowsOK
    <3> QED  BY <1>1, <1>9, <3>1, <3>2, TradeRows
  <2>2. Yields(r)  BY <1>1, <1>2, <2>1 DEF Yields
  <2>3. \A x \in Order : Filling(r, x) => order'[x] = "filled"
    BY <1>1, IInvParts DEF OneFiller
  <2> QED
    BY <1>1, <1>3, <1>4, <1>5, <1>6, <2>1, <2>2, <2>3, Goes
<1> QED
  BY <1>2, <1>7, <1>8, <1>9 DEF FillBreaks

LEMMA SweepBreaksKeeps ==
  ASSUME IInv, NEW r \in Request, SweepBreaks(r)  PROVE IInv'
<1>1. /\ RowsOK /\ UNCHANGED <<order, alert, market, told, base>>
      /\ errors' \in Nat /\ errors' # 0 /\ stops' = stops
      /\ Now(r, [Idle EXCEPT !.pc = "act"])
  BY IInvParts DEF SweepBreaks, Fails, RowsOK
<1>2. PICK t \in Requests : t = [Idle EXCEPT !.pc = "act"] /\ t.pc \notin HasOrder \cup HasAlert
  BY ActType
<1>3. RowsOK'  BY <1>1 DEF RowsOK, market
<1> QED  BY <1>1, <1>2, <1>3, EmptyHands, Quiet DEF market

LEMMA ServerStopsKeeps ==
  ASSUME IInv, ServerStops  PROVE IInv'
<1>1. /\ RowsOK /\ UNCHANGED <<order, alert, market, told, base, errors>>
      /\ stops' \in Nat /\ stops' # 0
      /\ request' = [r \in Request |-> Idle]
  BY IInvParts DEF ServerStops, RowsOK
<1>2. RowsOK'  BY <1>1 DEF RowsOK, market
<1>3. TypeOK'  BY <1>1, <1>2, IdleType DEF RowsOK, TypeOK
<1>4. \A r \in Request : request'[r] = Idle /\ request'[r].pc = "idle"
  BY <1>1, IdleType
<1>5. OneFiller' /\ \A r \in Request : HandOK(r)' /\ TradedWhenFilled(r)'
  BY <1>4 DEF OneFiller, Filling, HandOK, TradedWhenFilled, InTry, At
<1>6. errors' = 0 => FilledAtMostOnce' /\ ToldIsSo'
  BY <1>1, IInvParts DEF FilledAtMostOnce, ToldIsSo, TradesOf, market
<1> QED  BY <1>1, <1>3, <1>5, <1>6 DEF IInv

-----------------------------------------------------------------------------
(* What the customer came for.                                             *)

\* The customer changes an order nobody has claimed.
LEMMA OrderChangeKeeps ==
  ASSUME IInv, NEW r \in Request, request[r].pc = "act", NEW o \in Order,
         order[o] \in {"new", "open"}, NEW status \in {"open", "cancelled"},
         order' = [order EXCEPT ![o] = status], Now(r, Idle),
         UNCHANGED <<alert, market, told, base, counts>>
  PROVE  IInv'
<1>1. RowsOK  BY IInvParts
<1>2. /\ order' \in [Order -> OrderStatuses] /\ order'[o] = status
      /\ \A p \in Order : p # o => order'[p] = order[p]
  BY <1>1, OneOrder DEF OrderStatuses
<1>3. RowsOK' /\ \A x : TradesOf(x)' = TradesOf(x)
  <2>1. RowsOK'  BY <1>1, <1>2 DEF RowsOK, market, counts
  <2> QED  BY <2>1 DEF TradesOf, market
<1>4. Yields(r)  BY <1>2, <1>3 DEF Yields
<1>5. ASSUME errors' = 0  PROVE FilledAtMostOnce' /\ ToldIsSo'
  <2>1. FilledAtMostOnce /\ ToldIsSo  BY <1>5, IInvParts DEF counts
  <2>2. TradesOf(o) = {}  BY <1>1, <2>1, NoneTraded
  <2>3. Cardinality({}) <= 0  BY FS_EmptySet
  <2>4. FilledAtMostOnce'  BY <1>2, <1>3, <2>1, <2>2, <2>3 DEF FilledAtMostOnce
  <2>5. ToldIsSo'  BY <1>2, <1>3, <2>1, <2>2 DEF ToldIsSo
  <2> QED  BY <2>4, <2>5
<1>6. Outcomes(r, Idle)
  BY <1>2 DEF Outcomes, Tells, TellsAlert, Filling, InTry
<1>7. PICK t \in Requests : t = Idle /\ t.pc \notin HasOrder \cup HasAlert
  BY IdleHands
<1>8. /\ HandsOK(t) /\ TradedOK(t)' /\ t.pc \notin {"tellAlert", "tellFailed"}
      /\ \A x : ~Fills(t, x)
  BY <1>7, EmptyHands
<1> QED  BY <1>3, <1>4, <1>5, <1>6, <1>7, <1>8, Goes DEF counts

\* ... or an alert that has not fired.
LEMMA AlertChangeKeeps ==
  ASSUME IInv, NEW r \in Request, request[r].pc = "act", NEW a \in Alert,
         alert[a] \in {"new", "armed"}, NEW status \in {"armed", "cancelled"},
         alert' = [alert EXCEPT ![a] = status], Now(r, Idle),
         UNCHANGED <<order, market, told, base, counts>>
  PROVE  IInv'
<1>1. RowsOK  BY IInvParts
<1>2. /\ alert' \in [Alert -> AlertStatuses] /\ alert'[a] = status
      /\ \A b \in Alert : b # a => alert'[b] = alert[b]
  BY <1>1, OneAlert DEF AlertStatuses
<1>3. RowsOK' /\ \A x : TradesOf(x)' = TradesOf(x)
  <2>1. RowsOK'  BY <1>1, <1>2 DEF RowsOK, market, counts
  <2> QED  BY <2>1 DEF TradesOf, market
<1>4. Yields(r)  BY <1>2, <1>3 DEF Yields
<1>5. errors' = 0 => FilledAtMostOnce' /\ ToldIsSo'
  BY <1>2, <1>3, IInvParts DEF FilledAtMostOnce, ToldIsSo, counts
<1>6. Outcomes(r, Idle)
  BY <1>2 DEF Outcomes, Tells, TellsAlert, Filling, InTry
<1>7. PICK t \in Requests : t = Idle /\ t.pc \notin HasOrder \cup HasAlert
  BY IdleHands
<1>8. /\ HandsOK(t) /\ TradedOK(t)' /\ t.pc \notin {"tellAlert", "tellFailed"}
      /\ \A x : ~Fills(t, x)
  BY <1>7, EmptyHands
<1> QED  BY <1>3, <1>4, <1>5, <1>6, <1>7, <1>8, Goes DEF counts

LEMMA HandTradeKeeps ==
  ASSUME IInv, NEW r \in Request, NEW side \in {"buy", "sell"}, HandTrade(r, side)
  PROVE  IInv'
<1>1. /\ request[r].pc = "act" /\ RowsOK
      /\ UNCHANGED <<order, alert, told, base, counts>> /\ Now(r, Idle)
  BY IInvParts DEF HandTrade, At
<1>2. [price |-> Price(base), atoms |-> 1, cents |-> Price(base)] \in Quotes
  <2>1. Price(base) \in Nat
    <3>1. base \in Nat  BY <1>1, OrdersAssumption DEF RowsOK, OrdersAssumption
    <3> QED  BY <1>1, <3>1, PriceType
  <2> QED  BY <2>1 DEF Quotes
<1>3. PICK c \in Quotes : Affords(side, c) /\ Trade(0, side, c)
  BY <1>2 DEF HandTrade
<1>4. /\ RowsOK' /\ TradesOf(0)' = TradesOf(0) \cup {Len(trades) + 1}
      /\ \A x : x # 0 => TradesOf(x)' = TradesOf(x)
  <2>1. errors' \in Nat /\ stops' \in Nat  BY <1>1 DEF RowsOK, counts
  <2>2. 0 \in Order \cup {0}  OBVIOUS
  <2> QED  BY <1>1, <1>3, <2>1, <2>2, TradeRows
<1>5. \A x \in Order : TradesOf(x)' = TradesOf(x)
  BY <1>4, OrdersAssumption DEF OrdersAssumption
<1>6. Yields(r)  BY <1>1, <1>5 DEF Yields
<1>7. errors' = 0 => FilledAtMostOnce' /\ ToldIsSo'
  BY <1>1, <1>5, IInvParts DEF FilledAtMostOnce, ToldIsSo, counts
<1>8. PICK t \in Requests : t = Idle /\ t.pc \notin HasOrder \cup HasAlert
  BY IdleHands
<1>9. /\ HandsOK(t) /\ TradedOK(t)' /\ t.pc \notin {"tellAlert", "tellFailed"}
      /\ \A x : ~Fills(t, x)
  BY <1>8, EmptyHands
<1>10. Outcomes(r, t)
  BY <1>1 DEF Outcomes, Tells, TellsAlert, Filling, InTry
<1> QED  BY <1>1, <1>4, <1>6, <1>7, <1>8, <1>9, <1>10, Goes DEF counts

LEMMA ActKeeps ==
  ASSUME IInv, NEW r \in Request, Act(r)  PROVE IInv'
<1>1. CASE Visit(r)
  <2>1. PICK t \in Requests : t = Idle /\ t.pc \notin HasOrder \cup HasAlert
    BY IdleHands
  <2>2. /\ Now(r, t) /\ UNCHANGED <<order, alert, market, told, base, counts>>
        /\ ~Filling(r, Current(r)) /\ request[r].pc \notin {"tellAlert", "tellFailed"}
    BY <1>1, <2>1 DEF Visit, At, Filling, InTry
  <2> QED  BY <2>1, <2>2, EmptyHands, NothingDone
<1>2. ASSUME NEW o \in Order, CreateOrder(r, o) \/ CancelOrder(r, o)  PROVE IInv'
  BY <1>2, OrderChangeKeeps DEF CreateOrder, CancelOrder, At
<1>3. ASSUME NEW a \in Alert, CreateAlert(r, a) \/ CancelAlert(r, a)  PROVE IInv'
  BY <1>3, AlertChangeKeeps DEF CreateAlert, CancelAlert, At
<1> QED  BY <1>1, <1>2, <1>3, HandTradeKeeps DEF Act

\* The market moves, the push fades, or nothing happens.
LEMMA MarketKeeps ==
  ASSUME IInv, MarketMoves \/ PushFades \/ UNCHANGED vars  PROVE IInv'
<1>1. /\ RowsOK /\ order' = order /\ alert' = alert /\ trades' = trades /\ told' = told
      /\ request' = request /\ errors' = errors /\ stops' = stops
      /\ money' = money /\ coin' = coin /\ base' \in Base /\ push' \in Int
  BY IInvParts DEF MarketMoves, PushFades, vars, market, counts, RowsOK
<1>2. TypeOK'  BY <1>1 DEF IInv, TypeOK
<1>3. \A x : TradesOf(x)' = TradesOf(x)  BY <1>1 DEF TradesOf
<1>4. OneFiller' /\ \A r \in Request : HandOK(r)'
  BY <1>1 DEF IInv, OneFiller, HandOK, Filling, At, Current, CurrentAlert
<1>5. ASSUME errors' = 0
      PROVE  /\ FilledAtMostOnce' /\ ToldIsSo'
             /\ \A r \in Request : TradedWhenFilled(r)'
             /\ stops' = 0 => NothingLost'
  <2>1. FilledAtMostOnce' /\ ToldIsSo'
    BY <1>1, <1>3, <1>5, IInvParts DEF FilledAtMostOnce, ToldIsSo
  <2>2. \A r \in Request : TradedWhenFilled(r)'
    BY <1>1, <1>5, IInvParts DEF TradedWhenFilled, TradesOf, Current
  <2>3. stops' = 0 => NothingLost'
    BY <1>1, <1>3, <1>5, IInvParts DEF NothingLost, Filling, At, Current, CurrentAlert
  <2> QED  BY <2>1, <2>2, <2>3
<1> QED  BY <1>2, <1>4, <1>5 DEF IInv

LEMMA StepKeeps == IInv /\ [Next]_vars => IInv'
<1> SUFFICES ASSUME IInv, [Next]_vars PROVE IInv'  OBVIOUS
<1>1. ASSUME NEW r \in Request, Sweep(r)  PROVE IInv'
  BY <1>1, SelectOpenKeeps, SelectArmedKeeps, ReadPriceKeeps, ClaimKeeps, QuoteKeeps,
     FillKeeps, LinkKeeps, TellKeeps, MarkFailedKeeps, TellFailedKeeps, ReopenKeeps,
     FireKeeps, TellAlertKeeps
  DEF Sweep
<1> QED
  BY <1>1, ActKeeps, FillCollidesKeeps, FillBreaksKeeps, SweepBreaksKeeps,
     ServerStopsKeeps, MarketKeeps
  DEF Next

LEMMA StartsRight == Init => IInv
<1> SUFFICES ASSUME Init PROVE IInv  OBVIOUS
<1>1. TypeOK
  BY OrdersAssumption, IdleType
  DEF Init, TypeOK, OrderStatuses, AlertStatuses, OrdersAssumption
<1>2. \A r \in Request : request[r].pc = "idle"  BY IdleType DEF Init
<1>3. OneFiller /\ \A r \in Request : HandOK(r) /\ TradedWhenFilled(r)
  BY <1>2 DEF OneFiller, Filling, HandOK, TradedWhenFilled, InTry, At
<1>4. \A o : TradesOf(o) = {}  BY DEF Init, TradesOf
<1>5. FilledAtMostOnce /\ ToldIsSo /\ NothingLost
  <2>1. Cardinality({}) <= 0  BY FS_EmptySet
  <2> QED  BY <1>4, <2>1 DEF Init, FilledAtMostOnce, ToldIsSo, NothingLost
<1> QED  BY <1>1, <1>3, <1>5 DEF IInv

\* However many requests sweep at once, collide, fail and stop, an order
\* belongs to the request that claimed it, and what each holds is true of the
\* rows; up to the first failed statement no outcome is lost.
THEOREM Inductive == Spec => []IInv
<1> QED  BY StartsRight, StepKeeps, PTL DEF Spec

LEMMA InvIsEnough == IInv => FilledOnceAndTold
<1> SUFFICES ASSUME IInv PROVE FilledOnceAndTold  OBVIOUS
<1>1. OneFiller  BY IInvParts
<1>2. ASSUME errors = 0  PROVE FilledAtMostOnce /\ ToldIsSo /\ Settled
  <2>1. FilledAtMostOnce /\ ToldIsSo  BY <1>2, IInvParts
  <2>2. ASSUME stops = 0, \A r \in Request : request[r].pc \in {"idle", "act"}
        PROVE  /\ NothingLost
               /\ \A o : \A r \in Request : /\ ~Filling(r, o)
                                            /\ ~At(r, "tellFailed") /\ ~At(r, "tellAlert")
    BY <1>2, <2>2, IInvParts DEF Filling, InTry, At
  <2>3. Settled  BY <1>2, <2>2 DEF Settled, NothingLost
  <2> QED  BY <2>1, <2>3
<1> QED  BY <1>1, <1>2 DEF FilledOnceAndTold

\* An order is filled by one request, whatever fails; until a statement fails
\* it is filled once, and the customer is told what became of it (sweep,
\* fillOrder, fireAlert).
THEOREM FilledOnce == Spec => []FilledOnceAndTold
<1> QED  BY InvIsEnough, Inductive, PTL

THEOREM TypeCorrect == Spec => []TypeOK
<1>1. IInv => TypeOK  BY DEF IInv
<1> QED  BY <1>1, Inductive, PTL

-----------------------------------------------------------------------------
(* Prices.  A sweep holds its orders against a price it read once.  As long *)
(* as the trades made before were all on the order's side, and those since  *)
(* on the other, neither a trade nor the fading of the push can take the    *)
(* price past the one read: the push was not on the side that fades against *)
(* the order, and has since only moved the other way.                       *)

\* The price without the customer's push.
Bare(b) == IF b < 1 THEN 1 ELSE b

\* For an order on this side, nothing has moved the price against q's.
Still(q, side) ==
  \A i \in 1..Len(trades) :
    IF i <= q.counted THEN trades[i].side = side ELSE trades[i].side # side

PushSign ==
  /\ (\A i \in 1..Len(trades) : trades[i].side = "buy") => push >= 0
  /\ (\A i \in 1..Len(trades) : trades[i].side = "sell") => push <= 0

Held(q) ==
  /\ q.counted <= Len(trades)
  /\ \A o \in q.open : Crosses(o, q.price)
  /\ Still(q, "buy") => Price(q.base) <= q.price /\ Bare(q.base) <= q.price
  /\ Still(q, "sell") => Price(q.base) >= q.price /\ Bare(q.base) >= q.price

HeldQuote(q) ==
  /\ Still(q, "buy") => q.quote.price <= q.price
  /\ Still(q, "sell") => q.quote.price >= q.price

PriceOK(q) ==
  /\ q.pc \in HasOrder => Held(q)
  /\ q.pc \in HasAlert => q.open = {}
  /\ q.pc = "fill" => HeldQuote(q)

PriceInv == PushSign /\ \A r \in Request : PriceOK(request[r])

\* What a step may do to the trades and the push.
MarketStep ==
  \/ UNCHANGED <<trades, push>>
  \/ trades' = trades /\ push' = 0
  \/ \E o \in Order \cup {0}, side \in {"buy", "sell"}, c \in Quotes :
       Trade(o, side, c)

\* One more trade, on its side.
LEMMA TradeAdds ==
  ASSUME RowsOK, NEW o \in Order \cup {0}, NEW side \in {"buy", "sell"}, NEW c \in Quotes,
         Trade(o, side, c)
  PROVE  /\ Len(trades') = Len(trades) + 1 /\ Len(trades) \in Nat
         /\ \A i \in 1..Len(trades) : trades'[i] = trades[i]
         /\ trades'[Len(trades) + 1].side = side
         /\ push \in Int /\ push' \in Int
         /\ side = "buy" => push' >= push
         /\ side = "sell" => push' <= push
<1>1. trades \in Seq(Trades) /\ push \in Int  BY DEF RowsOK
<1>2. c.price \in Nat /\ c.atoms \in Nat /\ c.cents \in Nat  BY DEF Quotes
<1>3. PICK row \in Trades :
        row = [order |-> o, side |-> side, price |-> c.price, atoms |-> c.atoms,
               cents |-> c.cents]
  BY <1>2 DEF Trades
<1>4. trades' = Append(trades, row) /\ row.side = side  BY <1>3 DEF Trade
<1>5. /\ Len(trades') = Len(trades) + 1 /\ Len(trades) \in Nat
      /\ \A i \in 1..Len(trades) : trades'[i] = trades[i]
      /\ trades'[Len(trades) + 1] = row
  BY <1>1, <1>4
<1>6. PICK n \in Nat : n = c.atoms  BY <1>2
<1>7. push' = IF side = "buy" THEN push + n ELSE push - n  BY <1>6 DEF Trade
<1>8. push' \in Int /\ (side = "buy" => push' >= push) /\ (side = "sell" => push' <= push)
  BY <1>1, <1>7
<1> QED  BY <1>1, <1>4, <1>5, <1>8

LEMMA PushSignKept ==
  ASSUME RowsOK, PushSign, MarketStep  PROVE PushSign'
<1>1. CASE UNCHANGED <<trades, push>>  BY <1>1 DEF PushSign
<1>2. CASE trades' = trades /\ push' = 0  BY <1>2 DEF PushSign
<1>3. ASSUME NEW o \in Order \cup {0}, NEW side \in {"buy", "sell"}, NEW c \in Quotes,
             Trade(o, side, c)
      PROVE  PushSign'
  <2>1. /\ Len(trades') = Len(trades) + 1 /\ Len(trades) \in Nat
        /\ \A i \in 1..Len(trades) : trades'[i] = trades[i]
        /\ trades'[Len(trades) + 1].side = side
        /\ push \in Int /\ push' \in Int
        /\ side = "buy" => push' >= push
        /\ side = "sell" => push' <= push
    BY <1>3, TradeAdds
  <2>2. /\ \A i \in 1..Len(trades) : i \in 1..Len(trades')
        /\ Len(trades) + 1 \in 1..Len(trades')
    BY <2>1
  <2>3. ASSUME \A i \in 1..Len(trades') : trades'[i].side = "buy"  PROVE push' >= 0
    <3>1. side = "buy"  BY <2>1, <2>2, <2>3
    <3>2. \A i \in 1..Len(trades) : trades[i].side = "buy"  BY <2>1, <2>2, <2>3
    <3>3. push >= 0  BY <3>2 DEF PushSign
    <3> QED  BY <2>1, <3>1, <3>3
  <2>4. ASSUME \A i \in 1..Len(trades') : trades'[i].side = "sell"  PROVE push' <= 0
    <3>1. side = "sell"  BY <2>1, <2>2, <2>4
    <3>2. \A i \in 1..Len(trades) : trades[i].side = "sell"  BY <2>1, <2>2, <2>4
    <3>3. push <= 0  BY <3>2 DEF PushSign
    <3> QED  BY <2>1, <3>1, <3>3
  <2> QED  BY <2>3, <2>4 DEF PushSign
<1> QED  BY <1>1, <1>2, <1>3 DEF MarketStep

\* A record that does not change stays right, whatever the market does.
LEMMA HeldKept ==
  ASSUME RowsOK, MarketStep, NEW q \in Requests
  PROVE  /\ Held(q) => Held(q)'
         /\ HeldQuote(q) /\ q.counted <= Len(trades) => HeldQuote(q)'
<1>0. /\ q.base \in Nat /\ q.price \in Nat /\ q.counted \in Nat
      /\ push \in Int /\ Len(trades) \in Nat
  BY DEF Requests, RowsOK
<1>1. CASE UNCHANGED <<trades, push>>
  BY <1>1 DEF Held, HeldQuote, Still, Price
<1>2. CASE trades' = trades /\ push' = 0
  <2>1. Price(q.base)' = Bare(q.base)  BY <1>0, <1>2 DEF Price, Bare
  <2>2. Still(q, "buy")' <=> Still(q, "buy")  BY <1>2 DEF Still
  <2>3. Still(q, "sell")' <=> Still(q, "sell")  BY <1>2 DEF Still
  <2>4. (\A o \in q.open : Crosses(o, q.price)) <=> (\A o \in q.open : Crosses(o, q.price))'
    BY DEF Crosses
  <2>5. Held(q) => Held(q)'  BY <1>2, <2>1, <2>2, <2>3, <2>4 DEF Held, Bare
  <2> QED  BY <2>2, <2>3, <2>5 DEF HeldQuote
<1>3. ASSUME NEW o \in Order \cup {0}, NEW side \in {"buy", "sell"}, NEW c \in Quotes,
             Trade(o, side, c), q.counted <= Len(trades)
      PROVE  (Held(q) => Held(q)') /\ (HeldQuote(q) => HeldQuote(q)')
  <2>1. /\ Len(trades') = Len(trades) + 1 /\ Len(trades) \in Nat
        /\ \A i \in 1..Len(trades) : trades'[i] = trades[i]
        /\ trades'[Len(trades) + 1].side = side
        /\ push \in Int /\ push' \in Int
        /\ side = "buy" => push' >= push
        /\ side = "sell" => push' <= push
    BY <1>3, TradeAdds
  <2>2. /\ \A i \in 1..Len(trades) : i \in 1..Len(trades')
        /\ Len(trades) + 1 \in 1..Len(trades')
        /\ ~(Len(trades) + 1 <= q.counted) /\ q.counted <= Len(trades')
    BY <1>0, <1>3, <2>1
  <2>3. ASSUME NEW x \in {"buy", "sell"}, Still(q, x)'
        PROVE  Still(q, x) /\ side # x
    <3>1. \A i \in 1..Len(trades') :
            IF i <= q.counted THEN trades'[i].side = x ELSE trades'[i].side # x
      BY <2>3 DEF Still
    <3>2. side # x  BY <2>1, <2>2, <3>1
    <3>3. Still(q, x)  BY <2>1, <2>2, <3>1 DEF Still
    <3> QED  BY <3>2, <3>3
  <2>4. /\ Still(q, "buy")' => Still(q, "buy") /\ side = "sell"
        /\ Still(q, "sell")' => Still(q, "sell") /\ side = "buy"
    BY <2>3
  <2>5. HeldQuote(q) => HeldQuote(q)'  BY <2>4 DEF HeldQuote
  <2>6. PICK old, new : old = Price(q.base) /\ new = Price(q.base)'  OBVIOUS
  <2>7. /\ old \in Int /\ new \in Int
        /\ side = "buy" => new >= old
        /\ side = "sell" => new <= old
    BY <1>0, <2>1, <2>6 DEF Price
  <2>8. ASSUME Held(q)  PROVE Held(q)'
    <3>1. \A p \in q.open : Crosses(p, q.price)'  BY <2>8 DEF Held, Crosses
    <3>2. ASSUME Still(q, "buy")'  PROVE new <= q.price /\ Bare(q.base) <= q.price
      <4>1. old <= q.price /\ Bare(q.base) <= q.price /\ new <= old
        BY <2>4, <2>6, <2>7, <2>8, <3>2 DEF Held
      <4> QED  BY <1>0, <2>7, <4>1
    <3>3. ASSUME Still(q, "sell")'  PROVE new >= q.price /\ Bare(q.base) >= q.price
      <4>1. old >= q.price /\ Bare(q.base) >= q.price /\ new >= old
        BY <2>4, <2>6, <2>7, <2>8, <3>3 DEF Held
      <4> QED  BY <1>0, <2>7, <4>1
    <3> QED  BY <2>2, <2>6, <3>1, <3>2, <3>3 DEF Held, Bare
  <2> QED  BY <2>5, <2>8
<1> QED  BY <1>1, <1>2, <1>3 DEF MarketStep, Held

\* Going on with the same orders in hand, or fewer, at the same price.
SameSweep(q, t) ==
  /\ t.open \subseteq q.open
  /\ t.base = q.base /\ t.price = q.price /\ t.counted = q.counted

GoesOn(q, t) == q.pc \in HasOrder /\ SameSweep(q, t)
                /\ t.pc \notin HasAlert \cup {"fill"}

\* How the record of a request may change.
Moved(r) ==
  \/ request'[r] = request[r]
  \/ request'[r].pc \notin HasOrder /\ (request'[r].pc \in HasAlert => request'[r].open = {})
  \/ GoesOn(request[r], request'[r])
  \/ ReadPrice(r) \/ Quote(r)

LEMMA GoesOnHeld ==
  ASSUME NEW q, NEW t, q.pc \in HasOrder => Held(q), GoesOn(q, t)
  PROVE  PriceOK(t)
<1>1. Held(q) /\ t.pc \notin HasAlert \cup {"fill"}  BY DEF GoesOn
<1>2. Still(t, "buy") <=> Still(q, "buy")  BY DEF GoesOn, SameSweep, Still
<1>3. Still(t, "sell") <=> Still(q, "sell")  BY DEF GoesOn, SameSweep, Still
<1>4. Held(t)  BY <1>1, <1>2, <1>3 DEF GoesOn, SameSweep, Held
<1> QED  BY <1>1, <1>4 DEF PriceOK

\* A price just read: the push is on no side but that of the trades.
LEMMA JustRead ==
  ASSUME RowsOK, PushSign, NEW q \in Requests, q.price = Price(q.base),
         q.counted = Len(trades), \A o \in q.open : Crosses(o, q.price)
  PROVE  Held(q)
<1>1. Len(trades) \in Nat /\ push \in Int /\ q.base \in Nat  BY DEF RowsOK, Requests
<1>2. \A i \in 1..Len(trades) : i <= q.counted  BY <1>1
<1>3. ASSUME Still(q, "buy")  PROVE Bare(q.base) <= Price(q.base)
  <2>1. push >= 0  BY <1>2, <1>3 DEF Still, PushSign
  <2> QED  BY <1>1, <2>1 DEF Bare, Price
<1>4. ASSUME Still(q, "sell")  PROVE Bare(q.base) >= Price(q.base)
  <2>1. push <= 0  BY <1>2, <1>4 DEF Still, PushSign
  <2> QED  BY <1>1, <2>1 DEF Bare, Price
<1>5. q.price \in Nat  BY DEF Requests
<1> QED  BY <1>1, <1>3, <1>4, <1>5 DEF Held

LEMMA NoOrderAhead ==
  ASSUME NEW q, q.open = {}
  PROVE  Ahead(q).pc \notin HasOrder /\ Ahead(q).open = {}
<1>1. CASE q.armed # {}
  <2>1. Ahead(q) = [Idle EXCEPT !.pc = "fire", !.armed = q.armed]  BY <1>1 DEF Ahead
  <2> QED  BY <2>1 DEF Idle, HasOrder, InTry
<1>2. CASE q.armed = {}
  <2>1. Ahead(q) = [Idle EXCEPT !.pc = "act"]  BY <1>2 DEF Ahead
  <2> QED  BY <2>1 DEF Idle, HasOrder, InTry
<1> QED  BY <1>1, <1>2

LEMMA ReadPriceHolds ==
  ASSUME IInv, PushSign, NEW r \in Request, ReadPrice(r)  PROVE PriceOK(request'[r])
<1> DEFINE price == Price(request[r].base)
           q == [request[r] EXCEPT !.open = {o \in @ : Crosses(o, price)},
                                   !.armed = {a \in @ : Reached(a, price)},
                                   !.price = price, !.counted = Len(trades)]
<1>1. request[r] \in Requests /\ RowsOK /\ Now(r, Ahead(q)) /\ request[r].pc = "price"
  BY IInvParts DEF ReadPrice, At
<1>2. request'[r] = Ahead(q)
  <2> HIDE DEF q
  <2> QED  BY <1>1 DEF IInv, TypeOK, Now
<1>3. /\ request[r].base \in Nat /\ price \in Nat /\ Len(trades) \in Nat
  <2>1. request[r].base \in Nat /\ Len(trades) \in Nat  BY <1>1 DEF Requests, RowsOK
  <2> QED  BY <1>1, <2>1, PriceType
<1>4. PICK open \in SUBSET Order :
        open = {o \in request[r].open : Crosses(o, price)}
  BY <1>1 DEF Requests
<1>5. PICK armed \in SUBSET Alert : armed = {a \in request[r].armed : Reached(a, price)}
  BY <1>1 DEF Requests
<1>6. q = [request[r] EXCEPT !.open = open, !.armed = armed, !.price = price,
                             !.counted = Len(trades)]
  BY <1>1, <1>4, <1>5 DEF Requests
<1>13. PICK p \in Nat : p = price  BY <1>3
<1>14. \A o \in open : Crosses(o, p)  BY <1>4, <1>13
<1>15. p = Price(request[r].base)  BY <1>13
<1>16. q = [request[r] EXCEPT !.open = open, !.armed = armed, !.price = p,
                              !.counted = Len(trades)]
  BY <1>6, <1>13
<1> HIDE DEF q, price
<1>7. /\ q.open = open /\ q.armed = armed /\ q.price = p /\ q.base = request[r].base
      /\ q.counted = Len(trades) /\ q \in Requests
  BY <1>1, <1>3, <1>16 DEF Requests
<1>8. CASE open # {}
  <2>1. PICK t \in Requests :
          /\ t = Fresh("claim", open, armed, request[r].base, p, Len(trades))
          /\ t.pc = "claim" /\ t.open = open
    BY <1>3, PCsAre, FreshType
  <2>2. t.base = request[r].base /\ t.price = p /\ t.counted = Len(trades)
    BY <2>1 DEF Fresh, Idle
  <2>3. Ahead(q) = t  BY <1>7, <1>8, <2>1 DEF Ahead, Fresh
  <2>4. Held(t)  BY <1>1, <1>14, <1>15, <2>1, <2>2, JustRead
  <2> QED  BY <1>2, <2>1, <2>3, <2>4 DEF PriceOK, HasAlert
<1>9. CASE open = {}
  <2>1. Ahead(q).pc \notin HasOrder /\ Ahead(q).open = {}
    BY <1>7, <1>9, NoOrderAhead
  <2> QED  BY <1>2, <2>1 DEF PriceOK, HasOrder, InTry
<1> QED  BY <1>8, <1>9

LEMMA QuoteHolds ==
  ASSUME IInv, NEW r \in Request, PriceOK(request[r]), Quote(r)
  PROVE  PriceOK(request'[r])
<1> DEFINE o == Current(r)
           price == Price(request[r].base)
           bought == Rounded(Amount[o], price)
           quote == IF Side[o] = "buy"
                      THEN [price |-> price, atoms |-> bought, cents |-> Amount[o]]
                      ELSE [price |-> price, atoms |-> Amount[o], cents |-> Amount[o] * price]
<1>1. request[r].pc = "quote" /\ request[r] \in Requests /\ request \in [Request -> Requests]
  BY DEF Quote, At, IInv, TypeOK
<1>2. Held(request[r])  BY <1>1 DEF PriceOK, HasOrder, InTry
<1>3. quote.price = price
  <2> HIDE DEF bought, price
  <2> QED  OBVIOUS
<1> HIDE DEF quote, bought, price
<1>4. \/ \E reason \in Reasons :
           Now(r, [request[r] EXCEPT !.pc = "fail", !.reason = reason])
      \/ Now(r, [request[r] EXCEPT !.pc = "fill", !.quote = quote])
  BY DEF Quote, Refused, Reasons, quote, bought, price
<1>5. CASE \E reason \in Reasons :
             Now(r, [request[r] EXCEPT !.pc = "fail", !.reason = reason])
  <2>1. PICK reason \in Reasons :
          Now(r, [request[r] EXCEPT !.pc = "fail", !.reason = reason])
    BY <1>5
  <2>2. PICK t : t = [request[r] EXCEPT !.pc = "fail", !.reason = reason]  OBVIOUS
  <2>3. request'[r] = t /\ GoesOn(request[r], t)
    BY <1>1, <2>1, <2>2 DEF Now, Requests, GoesOn, SameSweep, HasOrder, HasAlert, InTry
  <2> QED  BY <1>2, <2>3, GoesOnHeld
<1>6. CASE Now(r, [request[r] EXCEPT !.pc = "fill", !.quote = quote])
  <2>1. PICK t : t = [request[r] EXCEPT !.pc = "fill", !.quote = quote]  OBVIOUS
  <2>2. /\ request'[r] = t /\ SameSweep(request[r], t) /\ t.quote = quote
    BY <1>1, <1>6, <2>1 DEF Now, Requests, SameSweep
  <2>3. Held(t)
    <3>1. Still(t, "buy") <=> Still(request[r], "buy")  BY <2>2 DEF SameSweep, Still
    <3>2. Still(t, "sell") <=> Still(request[r], "sell")  BY <2>2 DEF SameSweep, Still
    <3> QED  BY <1>2, <2>2, <3>1, <3>2 DEF SameSweep, Held
  <2>4. HeldQuote(t)
    <3>1. t.quote.price = Price(t.base)  BY <1>3, <2>2 DEF SameSweep, price
    <3> QED  BY <2>3, <3>1 DEF Held, HeldQuote
  <2>5. t.pc = "fill"  BY <1>1, <2>1 DEF Requests
  <2> QED  BY <2>2, <2>3, <2>4, <2>5 DEF PriceOK, HasAlert
<1> QED  BY <1>4, <1>5, <1>6

\* A step makes one trade, lets the push fade, or touches neither.
LEMMA StepMarket ==
  ASSUME IInv, [Next]_vars
  PROVE  MarketStep
<1> USE DEF market, MarketStep
<1>1. ASSUME NEW r \in Request, Fill(r) \/ FillBreaks(r)  PROVE MarketStep
  <2>1. PICK o \in Order, c \in Quotes : o = Current(r) /\ c = request[r].quote
    <3>1. request[r] \in Requests /\ request[r].pc \in InTry
      BY <1>1, IInvParts DEF Fill, FillBreaks, At, InTry
    <3>2. Current(r) \in Order  BY <3>1, InHandType DEF HasOrder
    <3> QED  BY <3>1, <3>2 DEF Requests
  <2>2. Side[o] \in {"buy", "sell"}  BY OrdersAssumption DEF OrdersAssumption
  <2>3. UNCHANGED market \/ Trade(o, Side[o], c)
    BY <1>1, <2>1 DEF Fill, FillBreaks
  <2> QED  BY <2>2, <2>3
<1>2. ASSUME NEW r \in Request, NEW side \in {"buy", "sell"}, HandTrade(r, side)
      PROVE  MarketStep
  <2>1. [price |-> Price(base), atoms |-> 1, cents |-> Price(base)] \in Quotes
    <3>1. RowsOK /\ base \in Nat
      BY IInvParts, OrdersAssumption DEF RowsOK, OrdersAssumption
    <3>2. Price(base) \in Nat  BY <3>1, PriceType
    <3> QED  BY <3>2 DEF Quotes
  <2>2. PICK c \in Quotes : Trade(0, side, c)  BY <1>2, <2>1 DEF HandTrade
  <2> QED  BY <2>2
<1>3. ASSUME NEW r \in Request, Act(r)  PROVE MarketStep
  <2>1. \/ UNCHANGED market
        \/ \E side \in {"buy", "sell"} : HandTrade(r, side)
    BY <1>3 DEF Act, Visit, CreateOrder, CancelOrder, CreateAlert, CancelAlert
  <2> QED  BY <1>2, <2>1
<1>4. ASSUME NEW r \in Request, Sweep(r)  PROVE MarketStep
  <2>1. UNCHANGED market \/ Fill(r)
    BY <1>4 DEF Sweep, SelectOpen, SelectArmed, ReadPrice, Claim, Quote, Link, Tell,
                MarkFailed, TellFailed, Reopen, Fire, TellAlert
  <2> QED  BY <1>1, <2>1
<1>5. CASE UNCHANGED vars  BY <1>5 DEF vars
<1>6. CASE Next
  BY <1>1, <1>3, <1>4, <1>6
  DEF Next, FillCollides, SweepBreaks, ServerStops, MarketMoves, PushFades
<1> QED  BY <1>5, <1>6

\* A request that lets go of its order keeps its price for the next.
LEMMA NextOrderMoves ==
  ASSUME IInv, NEW r \in Request, request[r].pc \in HasOrder, NextOrder(r)
  PROVE  Moved(r)
<1>1. request[r] \in Requests /\ request \in [Request -> Requests]
  BY DEF IInv, TypeOK
<1>2. PICK open \in SUBSET Order : open = request[r].open \ {Current(r)}
  BY <1>1 DEF Requests
<1>3. PICK q \in Requests : q = [request[r] EXCEPT !.open = open]
  BY <1>1 DEF Requests
<1>4. /\ q.open = open /\ q.base = request[r].base /\ q.price = request[r].price
      /\ q.counted = request[r].counted /\ q.armed = request[r].armed
  BY <1>1, <1>3 DEF Requests
<1>5. request'[r] = Ahead(q)
  <2>1. q = [request[r] EXCEPT !.open = @ \ {Current(r)}]
    BY <1>1, <1>2, <1>3 DEF Requests
  <2> QED  BY <1>1, <2>1 DEF NextOrder, Now
<1>6. CASE open # {}
  <2>1. Ahead(q) = Fresh("claim", open, q.armed, q.base, q.price, q.counted)
    BY <1>4, <1>6 DEF Ahead, Fresh
  <2>2. PICK t : t = Fresh("claim", open, q.armed, q.base, q.price, q.counted)  OBVIOUS
  <2>3. /\ t.pc = "claim" /\ t.open = open /\ t.base = q.base /\ t.price = q.price
        /\ t.counted = q.counted
    BY <2>2 DEF Fresh, Idle
  <2>4. open \subseteq request[r].open  BY <1>2
  <2> QED  BY <1>4, <1>5, <2>1, <2>2, <2>3, <2>4 DEF Moved, GoesOn, SameSweep, HasAlert
<1>7. CASE open = {}
  <2>1. Ahead(q).pc \notin HasOrder /\ Ahead(q).open = {}  BY <1>4, <1>7, NoOrderAhead
  <2> QED  BY <1>5, <2>1 DEF Moved
<1> QED  BY <1>6, <1>7

\* One that fires alerts has no order in hand, and goes on to none.
LEMMA NextAlertMoves ==
  ASSUME IInv, NEW r \in Request, request[r].open = {}, NextAlert(r)
  PROVE  Moved(r)
<1>1. request[r] \in Requests /\ request \in [Request -> Requests]
  BY DEF IInv, TypeOK
<1>2. PICK q : q = [request[r] EXCEPT !.armed = @ \ {CurrentAlert(r)}]  OBVIOUS
<1>3. request'[r] = Ahead(q) /\ q.open = {}
  BY <1>1, <1>2 DEF NextAlert, Now, Requests
<1>4. Ahead(q).pc \notin HasOrder /\ Ahead(q).open = {}  BY <1>3, NoOrderAhead
<1> QED  BY <1>3, <1>4 DEF Moved

LEMMA SweepMoves ==
  ASSUME IInv, NEW r \in Request, PriceOK(request[r]), Sweep(r)
  PROVE  Moved(r)
<1>1. request[r] \in Requests /\ request \in [Request -> Requests]
  BY DEF IInv, TypeOK
<1>2. ASSUME NEW pc \in HasOrder \ {"fill"}, request[r].pc \in HasOrder, Goto(r, pc)
      PROVE  Moved(r)
  <2>1. PICK t : t = [request[r] EXCEPT !.pc = pc]  OBVIOUS
  <2>2. request'[r] = t /\ SameSweep(request[r], t) /\ t.pc = pc
    BY <1>1, <1>2, <2>1 DEF Goto, Now, Requests, SameSweep
  <2>3. pc \notin HasAlert \cup {"fill"}  BY <1>2 DEF HasOrder, HasAlert, InTry
  <2> QED  BY <1>2, <2>2, <2>3 DEF Moved, GoesOn
<1>3. ASSUME NEW reason \in Reasons, request[r].pc = "fill", Refused(r, reason)
      PROVE  Moved(r)
  <2>1. PICK t : t = [request[r] EXCEPT !.pc = "fail", !.reason = reason]  OBVIOUS
  <2>2. request'[r] = t /\ SameSweep(request[r], t) /\ t.pc = "fail"
    BY <1>1, <1>3, <2>1 DEF Refused, Now, Requests, SameSweep
  <2> QED  BY <1>3, <2>2 DEF Moved, GoesOn, HasOrder, HasAlert, InTry
<1>4. CASE SelectOpen(r)
  <2>1. Now(r, [Idle EXCEPT !.pc = "armed", !.open = OldestOpen, !.base = base])
    BY <1>4 DEF SelectOpen
  <2>2. PICK open : open = OldestOpen  OBVIOUS
  <2>3. request'[r].pc = "armed"  BY <1>1, <2>1, <2>2 DEF Now, Idle
  <2> QED  BY <2>3 DEF Moved, HasOrder, HasAlert, InTry
<1>5. CASE SelectArmed(r)
  <2>1. request'[r].pc \in {"act", "price"}
    <3>1. PICK armed : \/ Now(r, [Idle EXCEPT !.pc = "act"])
                       \/ Now(r, [request[r] EXCEPT !.pc = "price", !.armed = armed])
      BY <1>5 DEF SelectArmed
    <3> QED  BY <1>1, <3>1 DEF Now, Idle, Requests
  <2> QED  BY <2>1 DEF Moved, HasOrder, HasAlert, InTry
<1>6. CASE Claim(r)
  <2>1. request[r].pc \in HasOrder /\ (Goto(r, "quote") \/ NextOrder(r))
    BY <1>6 DEF Claim, At, HasOrder
  <2>2. "quote" \in HasOrder \ {"fill"}  BY DEF HasOrder, InTry
  <2> QED  BY <1>2, <2>1, <2>2, NextOrderMoves
<1>7. CASE Fill(r)
  <2>1. request[r].pc = "fill" /\ (Goto(r, "link") \/ \E reason \in Reasons : Refused(r, reason))
    BY <1>7 DEF Fill, At, Reasons
  <2>2. "link" \in HasOrder \ {"fill"} /\ "fill" \in HasOrder  BY DEF HasOrder, InTry
  <2> QED  BY <1>2, <1>3, <2>1, <2>2
<1>8. CASE Link(r) \/ MarkFailed(r)
  <2>1. request[r].pc \in HasOrder /\ (Goto(r, "tell") \/ Goto(r, "tellFailed"))
    BY <1>8 DEF Link, MarkFailed, At, HasOrder, InTry
  <2>2. "tell" \in HasOrder \ {"fill"} /\ "tellFailed" \in HasOrder \ {"fill"}
    BY DEF HasOrder, InTry
  <2> QED  BY <1>2, <2>1, <2>2
<1>9. CASE Tell(r) \/ TellFailed(r)
  <2>1. request[r].pc \in HasOrder /\ NextOrder(r)
    BY <1>9 DEF Tell, TellFailed, At, HasOrder, InTry
  <2> QED  BY <2>1, NextOrderMoves
<1>10. CASE Reopen(r)
  <2>1. request'[r].pc = "act"  BY <1>1, <1>10 DEF Reopen, Now, Idle
  <2> QED  BY <2>1 DEF Moved, HasOrder, HasAlert, InTry
<1>11. CASE Fire(r) \/ TellAlert(r)
  <2>1. request[r].open = {} /\ (Goto(r, "tellAlert") \/ NextAlert(r))
    BY <1>11 DEF Fire, TellAlert, At, PriceOK, HasAlert
  <2>2. CASE Goto(r, "tellAlert")
    <3>1. request'[r] = [request[r] EXCEPT !.pc = "tellAlert"]
      BY <1>1, <2>2 DEF Goto, Now
    <3>2. request'[r].pc = "tellAlert" /\ request'[r].open = {}
      BY <1>1, <2>1, <3>1 DEF Requests
    <3> QED  BY <3>2 DEF Moved, HasOrder, InTry
  <2> QED  BY <2>1, <2>2, NextAlertMoves
<1> QED
  BY <1>4, <1>5, <1>6, <1>7, <1>8, <1>9, <1>10, <1>11 DEF Sweep, Moved

\* In a step each request moves on in one of these ways.
LEMMA AllMove ==
  ASSUME IInv, PriceInv, [Next]_vars, NEW x \in Request
  PROVE  Moved(x)
<1>1. request \in [Request -> Requests] /\ request[x] \in Requests  BY DEF IInv, TypeOK
<1>2. ASSUME NEW r \in Request, r # x, NEW t, Now(r, t)  PROVE Moved(x)
  BY <1>1, <1>2 DEF Now, Moved
<1>3. ASSUME NEW r \in Request, r # x,
             Sweep(r) \/ Act(r) \/ FillCollides(r) \/ FillBreaks(r) \/ SweepBreaks(r)
      PROVE  Moved(x)
  <2>1. \E t : Now(r, t)
    BY <1>3
    DEF Sweep, SelectOpen, SelectArmed, ReadPrice, Claim, Quote, Fill, Link, Tell,
        MarkFailed, TellFailed, Reopen, Fire, TellAlert, Act, Visit, CreateOrder,
        CancelOrder, CreateAlert, CancelAlert, HandTrade, FillCollides, FillBreaks,
        SweepBreaks, Goto, Refused, NextOrder, NextAlert
  <2> QED  BY <1>2, <1>3, <2>1
<1>4. ASSUME FillCollides(x) \/ FillBreaks(x)  PROVE Moved(x)
  <2>1. request[x].pc \in InTry /\ Goto(x, "reopen")
    BY <1>4 DEF FillCollides, FillBreaks, At, InTry
  <2>2. PICK t : t = [request[x] EXCEPT !.pc = "reopen"]  OBVIOUS
  <2>3. request'[x] = t /\ SameSweep(request[x], t) /\ t.pc = "reopen"
    BY <1>1, <2>1, <2>2 DEF Goto, Now, Requests, SameSweep
  <2> QED  BY <2>1, <2>3 DEF Moved, GoesOn, HasOrder, HasAlert, InTry
<1>5. ASSUME SweepBreaks(x) \/ Act(x)  PROVE Moved(x)
  <2>1. Now(x, [Idle EXCEPT !.pc = "act"]) \/ Now(x, Idle)
    BY <1>5 DEF SweepBreaks, Act, Visit, CreateOrder, CancelOrder, CreateAlert,
                CancelAlert, HandTrade
  <2>2. request'[x].pc \in {"act", "idle"}  BY <1>1, <2>1 DEF Now, Idle
  <2> QED  BY <2>2 DEF Moved, HasOrder, HasAlert, InTry
<1>6. CASE ServerStops
  <2>1. request'[x].pc = "idle"  BY <1>6 DEF ServerStops, Idle
  <2> QED  BY <2>1 DEF Moved, HasOrder, HasAlert, InTry
<1>7. CASE MarketMoves \/ PushFades \/ UNCHANGED vars
  BY <1>7 DEF MarketMoves, PushFades, vars, Moved
<1>8. PriceOK(request[x])  BY DEF PriceInv
<1> QED  BY <1>3, <1>4, <1>5, <1>6, <1>7, <1>8, SweepMoves DEF Next

LEMMA PriceKept == IInv /\ IInv' /\ PriceInv /\ [Next]_vars => PriceInv'
<1> SUFFICES ASSUME IInv, IInv', PriceInv, [Next]_vars PROVE PriceInv'  OBVIOUS
<1>1. RowsOK /\ PushSign /\ MarketStep  BY IInvParts, StepMarket DEF PriceInv
<1>2. PushSign'  BY <1>1, PushSignKept
<1>3. ASSUME NEW x \in Request  PROVE PriceOK(request[x])'
  <2>1. Moved(x) /\ PriceOK(request[x])  BY AllMove DEF PriceInv
  <2>2. PICK q \in Requests : q = request[x]  BY IInvParts
  <2>3. PICK t \in Requests : t = request'[x]  BY DEF IInv, TypeOK
  <2>4. PriceOK(t)
    <3>1. CASE t = q  BY <2>1, <2>2, <3>1
    <3>2. CASE t.pc \notin HasOrder /\ (t.pc \in HasAlert => t.open = {})
      BY <3>2 DEF PriceOK, HasOrder, InTry
    <3>3. CASE GoesOn(q, t)  BY <2>1, <2>2, <3>3, GoesOnHeld DEF PriceOK
    <3>4. CASE ReadPrice(x)  BY <1>1, <2>3, <3>4, ReadPriceHolds
    <3>5. CASE Quote(x)  BY <2>1, <2>3, <3>5, QuoteHolds
    <3> QED  BY <2>1, <2>2, <2>3, <3>1, <3>2, <3>3, <3>4, <3>5 DEF Moved
  <2>5. PriceOK(t)'
    <3>1. (Held(t) => Held(t)') /\ (HeldQuote(t) /\ t.counted <= Len(trades) => HeldQuote(t)')
      BY <1>1, HeldKept
    <3> QED  BY <2>4, <3>1 DEF PriceOK, Held, HasOrder, InTry
  <2> QED  BY <2>3, <2>5 DEF PriceOK, Held, HeldQuote, Still
<1> QED  BY <1>2, <1>3 DEF PriceInv

LEMMA PriceStarts == Init => PriceInv
BY IdleType DEF Init, PriceInv, PushSign, PriceOK, HasOrder, HasAlert, InTry

LEMMA PriceIsEnough == IInv /\ PriceInv => FillsWithinLimit
<1> SUFFICES ASSUME IInv, PriceInv, NEW r \in Request, At(r, "fill"), ~MovedAgainst(r)
             PROVE  LET o == Current(r)
                        price == request[r].quote.price
                    IN IF Side[o] = "buy" THEN price <= Limit[o] ELSE price >= Limit[o]
  BY DEF FillsWithinLimit
<1>1. PICK q \in Requests : q = request[r]  BY IInvParts
<1>2. q.pc = "fill" /\ PriceOK(q)  BY <1>1 DEF At, PriceInv
<1>3. Held(q) /\ HeldQuote(q)  BY <1>2 DEF PriceOK, HasOrder, InTry
<1>4. PICK o \in Order : o = Current(r) /\ o \in q.open
  BY <1>1, <1>2, InHandType DEF HasOrder, InTry
<1>5. Crosses(o, q.price)  BY <1>3, <1>4 DEF Held
<1>6. Still(q, Side[o])
  <2>1. q.counted \in Nat /\ Len(trades) \in Nat  BY IInvParts DEF Requests, RowsOK
  <2> QED  BY <1>1, <1>4, <2>1 DEF MovedAgainst, Still
<1>7. q.price \in Nat /\ q.quote.price \in Nat /\ Limit[o] \in Nat /\ Side[o] \in {"buy", "sell"}
  BY OrdersAssumption DEF OrdersAssumption, Requests, Quotes
<1>8. CASE Side[o] = "buy"
  <2>1. q.quote.price <= q.price /\ q.price <= Limit[o]
    BY <1>3, <1>5, <1>6, <1>8 DEF HeldQuote, Crosses
  <2> QED  BY <1>1, <1>4, <1>7, <1>8, <2>1
<1>9. CASE Side[o] = "sell"
  <2>1. q.quote.price >= q.price /\ q.price >= Limit[o]
    BY <1>3, <1>5, <1>6, <1>9 DEF HeldQuote, Crosses
  <2> QED  BY <1>1, <1>4, <1>7, <1>9, <2>1
<1> QED  BY <1>7, <1>8, <1>9

\* A sweep holds an order against a price it read before, and fills it at one it
\* quotes later: it can miss its limit only if the customer's own trades moved
\* the price against it, whatever other requests, the market and failures do.
THEOREM LimitsHold == Spec => []FillsWithinLimit
<1>1. PriceInv /\ IInv /\ IInv' /\ [Next]_vars => PriceInv'  BY PriceKept
<1>2. Spec => []PriceInv
  BY <1>1, PriceStarts, Inductive, PTL DEF Spec
<1> QED  BY <1>2, PriceIsEnough, Inductive, PTL

=============================================================================
