---------------------------- MODULE MCBankMoney -----------------------------
(* Three requests of two customers and a demo customer over three accounts. *)
EXTENDS BankMoney, TLC

CONSTANTS ann, bob, maya, a1, a2, b1, m1, k1, r1, r2, r3

MCOwner == a1 :> ann @@ a2 :> ann @@ b1 :> bob @@ m1 :> maya
MCOpening == a1 :> 2 @@ a2 :> 1 @@ b1 :> 2 @@ m1 :> 5

Transfer(u, f, t, n, k) ==
  [kind |-> "transfer", user |-> u, from |-> f, to |-> t, amt |-> n, key |-> k,
   race |-> FALSE]
Bill(u, f, n, k) ==
  [kind |-> "bill", user |-> u, from |-> f, to |-> None, amt |-> n, key |-> k,
   race |-> FALSE]
Deposit(u, t, n) ==
  [kind |-> "deposit", user |-> u, from |-> None, to |-> t, amt |-> n,
   key |-> NoKey, race |-> FALSE]

Faulty(c) == [c EXCEPT !.race = TRUE]

\* Opposite transfers, the same key on the same call and on different ones,
\* amounts that only fit once, a bill, a deposit, a transfer with the planted
\* fault.
MCCall ==
  {Transfer(ann, a1, b1, 2, k1),
   Transfer(ann, a2, b1, 1, k1),
   Transfer(bob, b1, a1, 2, NoKey),
   Faulty(Transfer(ann, a2, b1, 1, NoKey)),
   Bill(ann, a1, 1, k1),
   Deposit(ann, a1, 1),
   Transfer(ann, b1, a1, 1, NoKey),
   Transfer(ann, a1, m1, 1, NoKey),
   Transfer(bob, b1, a1, 0, NoKey)}
=============================================================================
