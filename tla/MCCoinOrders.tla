---------------------------- MODULE MCCoinOrders ----------------------------
(* Two orders to buy, one to sell, one alert, and two requests at once. *)
EXTENDS CoinOrders, TLC

CONSTANTS r1, r2

MCSide == [o \in Order |-> IF o = 3 THEN "sell" ELSE "buy"]
MCLimit == [o \in Order |-> IF o = 2 THEN 3 ELSE 2]
MCAmount == [o \in Order |-> IF o = 3 THEN 1 ELSE 2]
MCDirection == [a \in Alert |-> "above"]
MCAlertLimit == [a \in Alert |-> 3]
\* To buy: out of reach, reached at the lower of two market prices, and always
\* reached; two that wait fill the page of a sweep.
LiveSide == [o \in Order |-> "buy"]
LiveLimit == [o \in Order |-> CASE o = 1 -> 1 [] o = 2 -> 2 [] OTHER -> 9]
Symmetry == Permutations(Request)
=============================================================================
