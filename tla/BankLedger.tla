----------------------------- MODULE BankLedger -----------------------------
(***************************************************************************)
(* What Playground Bank promises about money, with no requests, locks or   *)
(* transactions in sight: a set of postings, each made in one step, each   *)
(* covered by the account it is taken from, and each idempotency key       *)
(* posted at most once.  BankMoney, which has the transactions of          *)
(* src/bank/money.js and src/bank/bills.js statement by statement, is      *)
(* shown to implement it.                                                  *)
(***************************************************************************)
EXTENDS Integers

CONSTANTS
  Account,     \* the rows of bank_money_accounts
  None,        \* "no account": where a deposit comes from, where a bill goes
  NoKey,       \* a call without an Idempotency-Key
  Opening,     \* the balance each account starts with
  Id,          \* what identifies a posting
  Call,        \* what a customer may ask for
  Overdraft    \* the calls whose debit need not be covered

VARIABLES
  bal,         \* bal[a]: the balance of account a
  posted       \* posted[i]: the call posted under id i, or NoPosting

ledgerVars == <<bal, posted>>

NoPosting == [kind |-> "nothing"]

\* What call c adds to account a: less than zero for the account it is taken
\* from.
Delta(c, a) ==
  (IF a = c.to THEN c.amt ELSE 0) - (IF a = c.from THEN c.amt ELSE 0)

\* The balances after call c is posted.
After(b, c) == [a \in Account |-> b[a] + Delta(c, a)]

\* Two calls that carry the same Idempotency-Key: keys belong to a customer
\* and to a kind of payment.
SameKey(c, d) ==
  /\ c.key # NoKey
  /\ c.key = d.key
  /\ c.kind = d.kind
  /\ c.user = d.user

Init ==
  /\ bal = Opening
  /\ posted = [i \in Id |-> NoPosting]

Post(i, c) ==
  /\ posted[i] = NoPosting
  /\ c.from = None \/ c \in Overdraft \/ bal[c.from] >= c.amt
  /\ \A j \in Id : posted[j] # NoPosting => ~SameKey(c, posted[j])
  /\ bal' = After(bal, c)
  /\ posted' = [posted EXCEPT ![i] = c]

Next == \E i \in Id, c \in Call : Post(i, c)

Spec == Init /\ [][Next]_ledgerVars
=============================================================================
