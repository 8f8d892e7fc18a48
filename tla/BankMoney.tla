----------------------------- MODULE BankMoney ------------------------------
(***************************************************************************)
(* Money in Playground Bank: transfers (src/bank/money.js), bill payments  *)
(* (src/bank/bills.js) and added funds, requested over HTTP by many        *)
(* customers at once (src/bank/routes.js).                                 *)
(*                                                                         *)
(* A request is a process that takes one step per SQL statement.  Between  *)
(* two statements any other request may run, the transaction may be the    *)
(* victim of Postgres' deadlock detector, its connection may drop, and the *)
(* whole server may stop.  The database is Postgres under READ COMMITTED:  *)
(* an UPDATE holds the row until its transaction ends, a statement sees    *)
(* what is committed when it runs, a unique index makes the second         *)
(* inserter of a key wait for the first.                                   *)
(*                                                                         *)
(* A customer who gets no answer asks again with the same key: that is a   *)
(* second request with the same call.                                      *)
(***************************************************************************)
EXTENDS Integers, Sequences, FiniteSets

CONSTANTS
  User, Demo,      \* customers; the demo customers among them
  Account, Owner,  \* accounts, and whose each one is
  Key,             \* Idempotency-Key values
  None, NoKey,     \* no account; no key
  Opening,         \* each account's opening balance, in cents
  Request,         \* HTTP requests
  Call             \* what a request may ask for

Kinds == {"transfer", "bill", "deposit"}

ASSUME CallAssumption ==
  /\ Call \subseteq [kind : Kinds, user : User, from : Account \cup {None},
                     to : Account \cup {None}, amt : Int, key : Key \cup {NoKey},
                     race : BOOLEAN]
  /\ \A c \in Call :
       /\ c.kind = "deposit" <=> c.from = None
       /\ c.kind = "bill" <=> c.to = None
       /\ c.kind = "deposit" => c.key = NoKey
       /\ c.race => c.kind = "transfer"

ASSUME BankAssumption ==
  /\ None \notin Account
  /\ NoKey \notin Key
  /\ Demo \subseteq User
  /\ Owner \in [Account -> User]
  /\ Opening \in [Account -> Nat]
  /\ None \notin Request

VARIABLES
  bal,      \* bank_money_accounts.balance_cents, as committed
  hist,     \* bank_transactions of each account, as committed, by seq
  posted,   \* the committed bank_transfers, bank_bill_payments and deposits
  lock,     \* the request whose open transaction has updated the account
  pc,       \* the statement each request runs next
  call,     \* what each request asks for
  answer    \* what each request was told

moneyVars == <<bal, hist, posted, lock>>
vars == <<bal, hist, posted, lock, pc, call, answer>>

Ledger == INSTANCE BankLedger
            WITH Id <- Request, Overdraft <- {c \in Call : c.race}

SameKey(c, d) == Ledger!SameKey(c, d)
NoPosting == Ledger!NoPosting

Steps == {"idle", "lookup", "raceRead", "debit", "credit", "record", "commit",
          "conflict", "reply", "done"}
Answers == {"none", "posted", "refused", "insufficient", "replayed", "error",
            "lost"}

InTransaction == {"credit", "record", "commit"}

\* The first statement of each kind's transaction.
FirstStatement(c) == IF c.kind = "deposit" THEN "credit" ELSE "debit"

\* The row of this key that is committed, if there is one: findTransferByKey
\* and findPaymentByKey.
PostedWithKey(c) ==
  {s \in Request : posted[s] # NoPosting /\ SameKey(c, posted[s])}

\* The request whose open transaction holds the key's unique index entry.
HoldsKey(s, c) == pc[s] = "commit" /\ SameKey(c, call[s])

Free(a, r) == lock[a] \in {None, r}

Unlock(r) == lock' = [a \in Account |-> IF lock[a] = r THEN None ELSE lock[a]]

Goto(r, step) == pc' = [pc EXCEPT ![r] = step]

Finish(r, status) ==
  /\ pc' = [pc EXCEPT ![r] = "done"]
  /\ answer' = [answer EXCEPT ![r] = status]

Init ==
  /\ bal = Opening
  /\ hist = [a \in Account |-> << >>]
  /\ posted = [r \in Request |-> NoPosting]
  /\ lock = [a \in Account |-> None]
  /\ pc = [r \in Request |-> "idle"]
  /\ call = [r \in Request |-> NoPosting]
  /\ answer = [r \in Request |-> "none"]

-----------------------------------------------------------------------------
(* The handlers: makeTransfer, payBill and addFunds.                       *)

\* Mutant: the owner of the account that pays is not asked for.
AcceptsAnyAccount(c) ==
  /\ c.user \notin Demo
  /\ c.amt > 0
  /\ c.kind = "transfer" => c.to # c.from /\ Owner[c.to] \notin Demo

\* What the routes let through: not a demo customer, a positive amount, the
\* customer's own account, and for a transfer a different account whose
\* owner is not a demo customer.
Accepts(c) ==
  /\ c.user \notin Demo
  /\ c.amt > 0
  /\ c.kind = "deposit" => Owner[c.to] = c.user
  /\ c.kind # "deposit" => Owner[c.from] = c.user
  /\ c.kind = "transfer" => c.to # c.from /\ Owner[c.to] \notin Demo

Refuse(r, c) ==
  /\ pc[r] = "idle"
  /\ ~Accepts(c)
  /\ call' = [call EXCEPT ![r] = c]
  /\ Finish(r, "refused")
  /\ UNCHANGED moneyVars

Accept(r, c) ==
  /\ pc[r] = "idle"
  /\ Accepts(c)
  /\ call' = [call EXCEPT ![r] = c]
  /\ Goto(r, IF c.key = NoKey
             THEN IF c.race THEN "raceRead"
                                                 ELSE FirstStatement(c)
             ELSE "lookup")
  /\ UNCHANGED <<moneyVars, answer>>

\* A key seen before answers with its payment, outside any transaction.
LookUpKey(r) ==
  /\ pc[r] = "lookup"
  /\ IF PostedWithKey(call[r]) # {}
       THEN Finish(r, "replayed")
       ELSE /\ Goto(r, IF call[r].race THEN "raceRead"
                                                            ELSE "debit")
            /\ UNCHANGED answer
  /\ UNCHANGED <<moneyVars, call>>

\* The planted fault bankTransferRace, armed by a request's flags: the balance
\* is read here, and the debit that comes later does not ask again.
RaceRead(r) ==
  /\ pc[r] = "raceRead"
  /\ IF bal[call[r].from] < call[r].amt
       THEN Finish(r, "insufficient")
       ELSE Goto(r, "debit") /\ UNCHANGED answer
  /\ UNCHANGED <<moneyVars, call>>

\* Mutant: the balance is read and the debit follows, without the row.
DebitUnlocked(r) ==
  LET c == call[r] IN
  /\ pc[r] = "debit"
  /\ \/ bal[c.from] < c.amt /\ Finish(r, "insufficient") /\ UNCHANGED lock
     \/ /\ bal[c.from] >= c.amt
        /\ lock' = [lock EXCEPT ![c.from] = r]
        /\ Goto(r, IF c.kind = "bill" THEN "record" ELSE "credit")
        /\ UNCHANGED answer
  /\ UNCHANGED <<bal, hist, posted, call>>

\* UPDATE ... WHERE balance_cents >= amount.  A row that fails the condition
\* is not waited for; one that meets it is, and is then asked again.
Debit(r) ==
  LET c == call[r] IN
  /\ pc[r] = "debit"
  /\ \/ /\ ~c.race
        /\ bal[c.from] < c.amt
        /\ Finish(r, "insufficient")
        /\ UNCHANGED lock
     \/ /\ c.race \/ bal[c.from] >= c.amt
        /\ Free(c.from, r)
        /\ lock' = [lock EXCEPT ![c.from] = r]
        /\ Goto(r, IF c.kind = "bill" THEN "record" ELSE "credit")
        /\ UNCHANGED answer
  /\ UNCHANGED <<bal, hist, posted, call>>

\* Mutant: the credit does not wait for the row.
CreditUnlocked(r) ==
  /\ pc[r] = "credit"
  /\ lock' = [lock EXCEPT ![call[r].to] = r]
  /\ Goto(r, IF call[r].kind = "deposit" THEN "commit" ELSE "record")
  /\ UNCHANGED <<bal, hist, posted, call, answer>>

Credit(r) ==
  LET c == call[r] IN
  /\ pc[r] = "credit"
  /\ Free(c.to, r)
  /\ lock' = [lock EXCEPT ![c.to] = r]
  /\ Goto(r, IF c.kind = "deposit" THEN "commit" ELSE "record")
  /\ UNCHANGED <<bal, hist, posted, call, answer>>

\* Mutant: no unique index on (user_id, idempotency_key).
RecordUnkeyed(r) ==
  /\ pc[r] = "record"
  /\ Goto(r, "commit")
  /\ UNCHANGED <<moneyVars, call, answer>>

\* INSERT INTO bank_transfers / bank_bill_payments.  UNIQUE (user_id,
\* idempotency_key): a committed row fails the statement (23505) and rolls
\* the transaction back; an uncommitted one makes it wait.
Record(r) ==
  LET c == call[r] IN
  /\ pc[r] = "record"
  /\ \/ /\ PostedWithKey(c) # {}
        /\ Goto(r, "conflict")
        /\ Unlock(r)
     \/ /\ PostedWithKey(c) = {}
        /\ \A s \in Request : ~HoldsKey(s, c)
        /\ Goto(r, "commit")
        /\ UNCHANGED lock
  /\ UNCHANGED <<bal, hist, posted, call, answer>>

\* Mutant: the row keeps the balance from before the payment.
RowBefore(r, a) ==
  [by |-> r, amt |-> Ledger!Delta(call[r], a), after |-> bal[a]]

\* The history row that r's call adds to an account it touches, with the
\* balance after it.
Row(r, a) ==
  LET d == Ledger!Delta(call[r], a)
  IN [by |-> r, amt |-> d, after |-> bal[a] + d]

\* Mutant: only the side that pays gets a history row.
ApplyOneSided(r) ==
  LET c == call[r] IN
  /\ bal' = Ledger!After(bal, c)
  /\ hist' = [a \in Account |-> IF a = c.from
                                  THEN Append(hist[a], Row(r, a))
                                  ELSE hist[a]]
  /\ posted' = [posted EXCEPT ![r] = c]
  /\ Unlock(r)

\* COMMIT makes the balances, the payment row and the history rows visible
\* together and lets go of the rows.
Apply(r) ==
  LET c == call[r] IN
  /\ bal' = Ledger!After(bal, c)
  /\ hist' = [a \in Account |-> IF a \in {c.from, c.to}
                                  THEN Append(hist[a], Row(r, a))
                                  ELSE hist[a]]
  /\ posted' = [posted EXCEPT ![r] = c]
  /\ Unlock(r)

Commit(r) ==
  /\ pc[r] = "commit"
  /\ Apply(r)
  /\ Goto(r, "reply")
  /\ UNCHANGED <<call, answer>>

Reply(r) ==
  /\ pc[r] = "reply"
  /\ Finish(r, "posted")
  /\ UNCHANGED <<moneyVars, call>>

\* Mutant: a payment that lost to its own key is reported as made.
ConflictPosted(r) ==
  /\ pc[r] = "conflict"
  /\ Finish(r, "posted")
  /\ UNCHANGED <<moneyVars, call>>

\* Mutant: an answer no page knows.
ConflictRaw(r) ==
  /\ pc[r] = "conflict"
  /\ Finish(r, "23505")
  /\ UNCHANGED <<moneyVars, call>>

\* After 23505: the payment the key already made, or the error itself.
Conflict(r) ==
  /\ pc[r] = "conflict"
  /\ Finish(r, IF PostedWithKey(call[r]) # {} THEN "replayed" ELSE "error")
  /\ UNCHANGED <<moneyVars, call>>

\* Mutant: the transaction ends without ROLLBACK and keeps its rows.
RollBackLeaky(r) == UNCHANGED moneyVars

RollBack(r) ==
  /\ Unlock(r)
  /\ UNCHANGED <<bal, hist, posted>>

-----------------------------------------------------------------------------
(* What can go wrong around a transaction.                                 *)

\* The request that r's statement waits for, or None.
Blocker(r) ==
  LET c == call[r]
      held(a) == IF Free(a, r) THEN None ELSE lock[a]
  IN CASE pc[r] = "debit" -> held(c.from)
       [] pc[r] = "credit" -> held(c.to)
       [] pc[r] = "record" ->
            IF \E s \in Request : HoldsKey(s, c)
              THEN CHOOSE s \in Request : HoldsKey(s, c)
              ELSE None
       [] OTHER -> None

\* r waits for a request that, through others, waits for r.
InDeadlock(r) ==
  \E S \in SUBSET Request :
    /\ r \in S
    /\ {Blocker(s) : s \in S} = S

\* Postgres ends a deadlock by failing one of its transactions (40P01): it
\* is rolled back and the request answers with an error.
DeadlockVictim(r) ==
  /\ InDeadlock(r)
  /\ RollBack(r)
  /\ Finish(r, "error")
  /\ UNCHANGED call

\* The connection drops: a transaction not yet at COMMIT is rolled back; at
\* COMMIT nobody knows which way it went.
ConnectionLost(r) ==
  /\ pc[r] \in {"debit"} \cup InTransaction
  /\ \/ RollBack(r)
     \/ pc[r] = "commit" /\ Apply(r)
  /\ Finish(r, "error")
  /\ UNCHANGED call

InFlight(r) == pc[r] \notin {"idle", "done"}

\* The server stops: Postgres rolls back every open transaction, and nobody
\* gets an answer.
ServerStops ==
  /\ \E r \in Request : InFlight(r)
  /\ lock' = [a \in Account |-> None]
  /\ pc' = [r \in Request |-> IF InFlight(r) THEN "done" ELSE pc[r]]
  /\ answer' = [r \in Request |-> IF InFlight(r) THEN "lost" ELSE answer[r]]
  /\ UNCHANGED <<bal, hist, posted, call>>

-----------------------------------------------------------------------------
\* What the server does next for request r.
Handle(r) ==
  \/ LookUpKey(r)
  \/ RaceRead(r)
  \/ Debit(r)
  \/ Credit(r)
  \/ Record(r)
  \/ Commit(r)
  \/ Reply(r)
  \/ Conflict(r)
  \/ DeadlockVictim(r)

Next ==
  \/ \E r \in Request, c \in Call : Refuse(r, c) \/ Accept(r, c)
  \/ \E r \in Request : Handle(r) \/ ConnectionLost(r)
  \/ ServerStops

\* Node runs every ready continuation and Postgres every statement that is
\* not blocked, so a request that can go on does.
Fairness == \A r \in Request : WF_vars(Handle(r))

Spec == Init /\ [][Next]_vars
FairSpec == Spec /\ Fairness

-----------------------------------------------------------------------------
TypeOK ==
  /\ bal \in [Account -> Int]
  /\ hist \in [Account -> Seq([by : Request, amt : Int, after : Int])]
  /\ posted \in [Request -> Call \cup {NoPosting}]
  /\ lock \in [Account -> Request \cup {None}]
  /\ pc \in [Request -> Steps]
  /\ call \in [Request -> Call \cup {NoPosting}]
  /\ answer \in [Request -> Answers]

-----------------------------------------------------------------------------
(* What holds in every state, strong enough to be inductive.               *)

\* r's open transaction has updated account a.
Holds(r, a) ==
  \/ pc[r] \in InTransaction /\ call[r].from = a
  \/ pc[r] \in {"record", "commit"} /\ call[r].to = a

\* A row is held by the request whose transaction updated it, and by no other.
LockInv == \A r \in Request, a \in Account : lock[a] = r <=> Holds(r, a)

\* A request under way asks for something the routes let through.
AcceptedInv ==
  \A r \in Request : InFlight(r) => call[r] \in Call /\ Accepts(call[r])

\* It is at a statement its kind has, and has posted nothing before its COMMIT.
CallInv ==
  \A r \in Request :
    /\ pc[r] \in {"lookup", "raceRead", "debit", "record", "conflict"}
         => call[r].kind # "deposit"
    /\ pc[r] \in {"raceRead", "credit"} => call[r].kind # "bill"
    /\ InFlight(r) /\ pc[r] # "reply" => posted[r] = NoPosting
    /\ pc[r] = "idle" => posted[r] = NoPosting
    /\ posted[r] # NoPosting => call[r] = posted[r]

\* What a transaction has debited is still covered by the balance it found.
CoveredInv ==
  \A r \in Request :
    pc[r] \in InTransaction /\ call[r].from # None /\ ~call[r].race
      => bal[call[r].from] >= call[r].amt

\* No payment has r's key, and no other transaction is about to make one.
KeyIsMine(r) ==
  /\ PostedWithKey(call[r]) = {}
  /\ \A s \in Request : s # r => ~HoldsKey(s, call[r])

\* A transaction at COMMIT is the only one with its key.
KeyInv == \A r \in Request : pc[r] = "commit" => KeyIsMine(r)

IInv == TypeOK /\ AcceptedInv /\ LockInv /\ CallInv /\ CoveredInv /\ KeyInv

-----------------------------------------------------------------------------
(* What the bank owes its customers.                                       *)

\* A transfer sent with the planted fault has paid from account a.
Raced(a) ==
  \E r \in Request :
    posted[r] # NoPosting /\ posted[r].race /\ posted[r].from = a

\* However requests interleave, fail or are sent again, no account is ever
\* overdrawn but by the planted fault: the debit's own condition still holds
\* at COMMIT.
NoOverdraft == \A a \in Account : Raced(a) \/ bal[a] >= 0

\* The balance after the first i rows of a's history.
BalanceAfter(a, i) == IF i = 0 THEN Opening[a] ELSE hist[a][i].after

\* An account's history, read in the order its rows were inserted, explains
\* its balance: each row starts from the balance the row before it left.
HistoryRuns ==
  \A a \in Account :
    /\ \A i \in 1..Len(hist[a]) :
         hist[a][i].after = BalanceAfter(a, i - 1) + hist[a][i].amt
    /\ bal[a] = BalanceAfter(a, Len(hist[a]))

RowsOf(a, r) == {i \in 1..Len(hist[a]) : hist[a][i].by = r}

\* A payment and its history rows appear together: one row per account it
\* touches, with its amount, and no row without a payment.
PaymentsHaveTheirRows ==
  \A r \in Request, a \in Account :
    LET c == posted[r]
        touched == c # NoPosting /\ a \in {c.from, c.to}
    IN /\ Cardinality(RowsOf(a, r)) = IF touched THEN 1 ELSE 0
       /\ \A i \in RowsOf(a, r) :
            hist[a][i].amt = IF a = c.from THEN -c.amt ELSE c.amt

\* Two requests with one Idempotency-Key, at once or one after the other,
\* with an answer lost in between or not, move money once.
KeyPaysOnce ==
  \A r, s \in Request :
    r # s /\ posted[r] # NoPosting /\ posted[s] # NoPosting
      => ~SameKey(posted[r], posted[s])

\* What the customer is told is what happened: "posted" is in the database
\* for good, a replay is answered from a payment with the same key and moves
\* nothing itself, and a refusal or a lack of money moves nothing.
AnswersAreTrue ==
  \A r \in Request :
    /\ answer[r] = "posted" => posted[r] = call[r]
    /\ answer[r] = "replayed" => PostedWithKey(call[r]) # {}
    /\ answer[r] \in {"replayed", "refused", "insufficient"}
         => posted[r] = NoPosting

\* Only the owner's own requests take money out of an account, and demo
\* accounts never change.
OnlyOwnersSpend ==
  \A a \in Account : \A i \in 1..Len(hist[a]) :
    /\ hist[a][i].amt < 0 => call[hist[a][i].by].user = Owner[a]
    /\ Owner[a] \notin Demo

\* The books are right: the five above and the answers, together.
BooksAreRight ==
  /\ NoOverdraft /\ HistoryRuns /\ PaymentsHaveTheirRows
  /\ KeyPaysOnce /\ AnswersAreTrue /\ OnlyOwnersSpend

\* Money is moved by single committed steps of the abstract ledger.
LedgerSpec == Ledger!Spec

\* Nobody waits forever: opposite transfers that block each other, and two
\* requests with one key, still end with an answer.
EveryRequestEnds ==
  \A r \in Request : InFlight(r) ~> pc[r] = "done"
=============================================================================
