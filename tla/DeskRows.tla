------------------------------ MODULE DeskRows ------------------------------
(***************************************************************************)
(* What every request at the bank's desk shares: the customers' accounts,  *)
(* the rows a transaction locks, the notifications written with an act,    *)
(* and the statements of moveMoney (src/bank/money.js) that pay a money    *)
(* request, fund a loan or take a card purchase.                           *)
(*                                                                         *)
(* A request is a process that takes one step per statement that reads or  *)
(* locks a row; the inserts that end a transaction are part of its COMMIT. *)
(* Plan says what the requests ask for, so that one run covers several     *)
(* small scenes.                                                           *)
(***************************************************************************)
EXTENDS Integers, FiniteSets, Functions

CONSTANTS
  Account, Opening,  \* accounts and what each holds at first
  Row,               \* rows a transaction locks: accounts, requests, loans...
  Request, Plan,     \* HTTP requests; what each asks for, scene by scene
  None               \* no row, no key, no change

ASSUME DeskAssumption ==
  /\ IsFiniteSet(Request)
  /\ Account \subseteq Row
  /\ None \notin Row \cup Request
  /\ Opening \in [Account -> Nat]

VARIABLES
  bal,      \* bank_money_accounts.balance_cents, as committed
  lock,     \* the request whose transaction has the row
  pc,       \* the statement each request runs next
  call,     \* what each request asks for
  outcome,  \* what each request has committed
  answer,   \* what it was told
  notices,  \* bank_notifications
  before    \* history: the requests that were over when this one began

deskVars == <<bal, lock, pc, call, outcome, answer, notices, before>>

Kind(r) == call[r].kind
At(r, kinds, step) == Kind(r) \in kinds /\ pc[r] = step
InFlight(r) == pc[r] \notin {"idle", "over"}
Unchanged(r) == UNCHANGED <<bal, call, outcome, notices, before>>

Goto(r, step) ==
  pc' = [pc EXCEPT ![r] = step] /\ UNCHANGED answer

Finish(r, a) ==
  /\ pc' = [pc EXCEPT ![r] = "over"]
  /\ answer' = [answer EXCEPT ![r] = a]

Free(row, r) == lock[row] \in {None, r}
Take(row, r) == Free(row, r) /\ lock' = [lock EXCEPT ![row] = r]
LetGo(r) == lock' = [row \in Row |-> IF lock[row] = r THEN None ELSE lock[row]]

\* A statement outside a transaction, or one that only reads, and goes on.
Read(r, step) == Goto(r, step) /\ UNCHANGED lock /\ Unchanged(r)

\* Mutant: the transaction ends without ROLLBACK.
RefuseLeaky(r, a) == UNCHANGED lock /\ Finish(r, a) /\ Unchanged(r)

\* The request ends with nothing written: a check failed, or ROLLBACK.
Refuse(r, a) == LetGo(r) /\ Finish(r, a) /\ Unchanged(r)

\* COMMIT of an act: its rows, its notices and its money appear together.
\* Money is a function from accounts to what is added to them.
Commit(r, money, told) ==
  /\ bal' = [a \in Account |-> bal[a] + money[a]]
  /\ notices' = notices \cup {[to |-> n[1], kind |-> n[2], by |-> r] : n \in told}
  /\ outcome' = [outcome EXCEPT ![r] = "done"]
  /\ LetGo(r)
  /\ Finish(r, "done")
  /\ UNCHANGED <<call, before>>

NoMoney == [a \in Account |-> 0]

DeskInit ==
  /\ bal = Opening
  /\ lock = [row \in Row |-> None]
  /\ pc = [r \in Request |-> "idle"]
  /\ call \in Plan
  /\ outcome = [r \in Request |-> "none"]
  /\ answer = [r \in Request |-> "none"]
  /\ notices = {}
  /\ before = [r \in Request |-> {}]

\* The request arrives.
Begin(r) ==
  /\ pc[r] = "idle"
  /\ before' = [before EXCEPT ![r] = {s \in Request : pc[s] = "over"}]
  /\ Goto(r, "start")
  /\ UNCHANGED <<bal, lock, call, outcome, notices>>

-----------------------------------------------------------------------------
(* moveMoney, statement by statement.                                      *)

\* Mutant: the balance is read, the row is not kept.
DebitUnlocked(r, a, n, step) ==
  /\ bal[a] >= n
  /\ Goto(r, step)
  /\ UNCHANGED lock
  /\ Unchanged(r)

\* UPDATE ... WHERE id = a AND balance_cents >= n.
Debit(r, a, n, step) ==
  /\ bal[a] >= n
  /\ Take(a, r)
  /\ Goto(r, step)
  /\ Unchanged(r)

Credit(r, a, step) ==
  /\ Take(a, r)
  /\ Goto(r, step)
  /\ Unchanged(r)

\* The requests that have made, or are about to commit, a transfer with the
\* key of r's.
SameKey(r, s) ==
  /\ Kind(s) \in {"pay", "transfer"}
  /\ call[s].user = call[r].user
  /\ call[s].key = call[r].key
  /\ call[r].key # None
KeyTaken(r) == \E s \in Request \ {r} : SameKey(r, s) /\ outcome[s] = "done"
KeyHeld(r) == {s \in Request \ {r} : SameKey(r, s) /\ pc[s] = "commit"}

-----------------------------------------------------------------------------
(* What can go wrong under a request.                                      *)

\* A statement fails: the connection drops, or Postgres ends a deadlock.  Its
\* transaction is rolled back.  (A COMMIT that took effect although its answer
\* was lost is in BankMoney.)
Breaks(r) ==
  /\ InFlight(r)
  /\ pc[r] # "start"
  /\ Refuse(r, "error")

\* The server stops: open transactions are rolled back, nobody is answered.
ServerStops ==
  /\ \E r \in Request : InFlight(r)
  /\ lock' = [row \in Row |-> None]
  /\ pc' = [r \in Request |-> IF InFlight(r) THEN "over" ELSE pc[r]]
  /\ answer' = [r \in Request |-> IF InFlight(r) THEN "lost" ELSE answer[r]]
  /\ UNCHANGED <<bal, call, outcome, notices, before>>

-----------------------------------------------------------------------------
Statements ==
  {"idle", "over", "start", "update", "tell", "sum", "debit", "credit", "record",
   "commit", "insert", "fund", "status", "read", "pay", "payout", "take", "look",
   "give", "verify", "count", "hold", "clear", "session", "starter", "act", "rate"}

DeskTypeOK ==
  /\ bal \in [Account -> Int]
  /\ lock \in [Row -> Request \cup {None}]
  /\ pc \in [Request -> Statements]
  /\ call \in Plan
  /\ outcome \in [Request -> {"none", "done", "declined"}]
  /\ \A n \in notices : n.by \in Request
  /\ before \in [Request -> SUBSET Request]

\* A request comes after those in before were over, and has no outcome before
\* its last statement, but for the bank's freeze, which is told afterwards.
InOrder ==
  \A r \in Request :
    /\ r \notin before[r]
    /\ pc[r] = "idle" => before[r] = {} /\ outcome[r] = "none"
    /\ \A s \in before[r] : pc[s] = "over"
    /\ outcome[r] # "none" => pc[r] = "over" \/ At(r, {"adminCard"}, "tell")

\* Requests that were under way at the same time.
Met(r, s) == r \notin before[s] /\ s \notin before[r]
InTurn(S) == \A r, s \in S : r # s => ~Met(r, s)

\* Those of S that have arrived.
Begun(S) == {r \in S : pc[r] # "idle"}
=============================================================================
