---------------------------- MODULE MoneyRequests ---------------------------
(***************************************************************************)
(* Money requests (src/bank/requests.js): one customer asks another, who   *)
(* pays with a real transfer or declines; the requester may cancel.  Plain *)
(* transfers with an Idempotency-Key are here too, because they use the    *)
(* same keys.                                                              *)
(***************************************************************************)
EXTENDS DeskRows

CONSTANTS
  Ask,                     \* money requests
  AskBy, AskInto, AskAmt,  \* who asks, into which account, for how much
  Asked, MaxPending        \* requests waiting already; how many may wait

ASSUME AskAssumption ==
  /\ Ask \subseteq Row
  /\ AskInto \in [Ask -> Account]
  /\ AskAmt \in [Ask -> Nat \ {0}]
  /\ Asked \subseteq Ask
  /\ MaxPending \in Nat
  /\ IsFiniteSet(Ask)
  /\ \A q \in Ask : Cardinality({p \in Asked : AskBy[p] = AskBy[q]}) <= MaxPending

\* What the routes let through; a new request has an id of its own.
AskCall(c) ==
  /\ c.kind \in {"ask", "pay", "decline", "cancel"} => c.ask \in Ask
  /\ c.kind \in {"pay", "transfer"} => c.from \in Account
  /\ c.kind = "transfer" => c.to \in Account /\ c.amt \in Nat \ {0}
  /\ c.kind = "ask" => c.ask \notin Asked /\ AskBy[c.ask] = c.user

VARIABLES
  ask,    \* bank_money_requests.status
  paidBy  \* bank_money_requests.transfer_id

askVars == <<ask, paidBy>>

AskInit ==
  /\ ask = [q \in Ask |-> IF q \in Asked THEN "pending" ELSE "none"]
  /\ paidBy = [q \in Ask |-> None]

-----------------------------------------------------------------------------
PendingOf(u) == {q \in Ask : AskBy[q] = u /\ ask[q] = "pending"}

\* Mutant: nobody counts.
CountPendingNever(r) ==
  /\ At(r, {"ask"}, "start")
  /\ Read(r, "insert")
  /\ UNCHANGED askVars

\* createRequest counts the requests that wait, then writes the new one.
CountPending(r) ==
  /\ At(r, {"ask"}, "start")
  /\ IF Cardinality(PendingOf(call[r].user)) >= MaxPending
       THEN Refuse(r, "too many") ELSE Read(r, "insert")
  /\ UNCHANGED askVars

InsertAsk(r) ==
  LET q == call[r].ask IN
  /\ At(r, {"ask"}, "insert")
  /\ Commit(r, NoMoney, {<<call[r].payer, "request_received">>})
  /\ ask' = [ask EXCEPT ![q] = "pending"]
  /\ UNCHANGED paidBy

-----------------------------------------------------------------------------
(* Paying: the claim and the money are one transaction.                    *)

From(r) == call[r].from
Into(r) == IF Kind(r) = "pay" THEN AskInto[call[r].ask] ELSE call[r].to
Amount(r) == IF Kind(r) = "pay" THEN AskAmt[call[r].ask] ELSE call[r].amt

\* Mutant: the planted fault bankRequestDoublePay.
ClaimTwice(r) ==
  LET q == call[r].ask IN
  /\ At(r, {"pay"}, "start")
  /\ \/ ask[q] \notin {"pending", "paid"} /\ Refuse(r, "answered")
     \/ /\ ask[q] \in {"pending", "paid"}
        /\ Take(q, r)
        /\ Goto(r, "debit")
        /\ Unchanged(r)
  /\ UNCHANGED askVars

\* UPDATE ... WHERE status = 'pending': a request that another transaction
\* has claimed is waited for, and asked again.
Claim(r) ==
  LET q == call[r].ask IN
  /\ At(r, {"pay"}, "start")
  /\ \/ ask[q] # "pending" /\ Refuse(r, "answered")
     \/ /\ ask[q] = "pending"
        /\ Take(q, r)
        /\ Goto(r, "debit")
        /\ Unchanged(r)
  /\ UNCHANGED askVars

\* A plain transfer looks its key up first.
LookUpKey(r) ==
  /\ At(r, {"transfer"}, "start")
  /\ IF KeyTaken(r) THEN Refuse(r, "replayed") ELSE Read(r, "debit")
  /\ UNCHANGED askVars

DebitPayer(r) ==
  /\ At(r, {"pay", "transfer"}, "debit")
  /\ \/ Debit(r, From(r), Amount(r), "credit")
     \/ bal[From(r)] < Amount(r) /\ Refuse(r, "insufficient")
  /\ UNCHANGED askVars

CreditPayee(r) ==
  /\ At(r, {"pay", "transfer"}, "credit")
  /\ Credit(r, Into(r), "record")
  /\ UNCHANGED askVars

\* Mutant: no unique index on (user_id, idempotency_key).
RecordAnyKey(r) ==
  /\ At(r, {"pay", "transfer"}, "record")
  /\ Goto(r, "commit")
  /\ UNCHANGED lock
  /\ Unchanged(r)
  /\ UNCHANGED askVars

\* INSERT INTO bank_transfers: UNIQUE (user_id, idempotency_key).  A key used
\* before, for whatever payment, rolls everything back; a payment of a
\* request then answers that it was already answered.
RecordTransfer(r) ==
  /\ At(r, {"pay", "transfer"}, "record")
  /\ \/ /\ KeyTaken(r)
        /\ Refuse(r, IF Kind(r) = "pay" THEN "answered" ELSE "replayed")
     \/ /\ ~KeyTaken(r) /\ KeyHeld(r) = {}
        /\ Goto(r, "commit")
        /\ UNCHANGED lock
        /\ Unchanged(r)
  /\ UNCHANGED askVars

Moved(r) == [a \in Account |-> (IF a = Into(r) THEN Amount(r) ELSE 0)
                             - (IF a = From(r) THEN Amount(r) ELSE 0)]

CommitTransfer(r) ==
  /\ At(r, {"transfer"}, "commit")
  /\ Commit(r, Moved(r), IF call[r].payee = call[r].user THEN {}
                          ELSE {<<call[r].payee, "money_received">>})
  /\ UNCHANGED askVars

CommitPay(r) ==
  LET q == call[r].ask IN
  /\ At(r, {"pay"}, "commit")
  /\ Commit(r, Moved(r), {<<AskBy[q], "request_answered">>})
  /\ ask' = [ask EXCEPT ![q] = "paid"]
  /\ paidBy' = [paidBy EXCEPT ![q] = r]

-----------------------------------------------------------------------------
\* One UPDATE ... WHERE status = 'pending', and for a refusal its notice.
DeclineAsk(r) ==
  LET q == call[r].ask IN
  /\ At(r, {"decline"}, "start")
  /\ \/ ask[q] # "pending" /\ Refuse(r, "answered") /\ UNCHANGED ask
     \/ /\ ask[q] = "pending" /\ Free(q, r)
        /\ Commit(r, NoMoney, {<<AskBy[q], "request_answered">>})
        /\ ask' = [ask EXCEPT ![q] = "declined"]
  /\ UNCHANGED paidBy

\* Mutant: cancelling does not ask for a pending request.
CancelAnyAsk(r) ==
  LET q == call[r].ask IN
  /\ At(r, {"cancel"}, "start")
  /\ Free(q, r)
  /\ Commit(r, NoMoney, {})
  /\ ask' = [ask EXCEPT ![q] = "cancelled"]
  /\ UNCHANGED paidBy

CancelAsk(r) ==
  LET q == call[r].ask IN
  /\ At(r, {"cancel"}, "start")
  /\ \/ ask[q] # "pending" /\ Refuse(r, "answered") /\ UNCHANGED ask
     \/ /\ ask[q] = "pending" /\ Free(q, r)
        /\ Commit(r, NoMoney, {})
        /\ ask' = [ask EXCEPT ![q] = "cancelled"]
  /\ UNCHANGED paidBy

AskStep(r) ==
  \/ CountPending(r) \/ InsertAsk(r)
  \/ Claim(r) \/ LookUpKey(r) \/ DebitPayer(r) \/ CreditPayee(r)
  \/ RecordTransfer(r) \/ CommitTransfer(r) \/ CommitPay(r)
  \/ DeclineAsk(r) \/ CancelAsk(r)

-----------------------------------------------------------------------------
AskTypeOK ==
  /\ ask \in [Ask -> {"none", "pending", "paid", "declined", "cancelled"}]
  /\ paidBy \in [Ask -> Request \cup {None}]

Answering(q) ==
  {r \in Request : /\ Kind(r) \in {"pay", "decline", "cancel"}
                   /\ call[r].ask = q
                   /\ outcome[r] = "done"}

\* Of all the requests that pay, decline or cancel one money request, at most
\* one has its way; it is paid exactly when a transfer is linked to it, and
\* an answer, once given, stands.
AnsweredOnce ==
  \A q \in Ask :
    /\ Cardinality(Answering(q)) <= 1
    /\ ask[q] = "paid" <=> paidBy[q] # None
    /\ ask[q] = "paid" => Answering(q) = {paidBy[q]}
    /\ ask[q] \in {"declined", "cancelled"} =>
         \A r \in Answering(q) : Kind(r) # "pay"

\* Two payments with one key, of requests or not, move money once.
KeyPaysOnce ==
  \A r, s \in Request :
    r # s /\ Kind(r) \in {"pay", "transfer"} /\ outcome[r] = "done"
      => ~(SameKey(r, s) /\ outcome[s] = "done")

\* A payment has its key from the moment its row is written.
Settles(r) == pc[r] = "commit" \/ outcome[r] = "done"

\* Who pays a money request keeps its row, and it waits for them; it is there
\* only once it was asked, and waits only while nobody has answered it; and
\* nobody writes a key that another payment has.
AskInv ==
  /\ \A r \in Request :
       /\ Kind(r) = "pay" /\ pc[r] \in {"debit", "credit", "record", "commit"} =>
            lock[call[r].ask] = r /\ ask[call[r].ask] = "pending"
       /\ Kind(r) = "ask" /\ outcome[r] # "done" => ask[call[r].ask] = "none"
  /\ \A q \in Ask : ask[q] \in {"none", "pending"} => Answering(q) = {}
  /\ AnsweredOnce
  /\ \A r, s \in Request :
       r # s /\ Kind(r) \in {"pay", "transfer"} /\ SameKey(r, s) =>
         ~(Settles(r) /\ Settles(s))

\* Requests that come one after the other never leave more than MaxPending
\* waiting: only requests made together can pass the cap.
Asks(u) == {r \in Request : Kind(r) = "ask" /\ call[r].user = u}
AskCapHoldsInTurn ==
  \A u \in {AskBy[q] : q \in Ask} :
    InTurn(Begun(Asks(u))) => Cardinality(PendingOf(u)) <= MaxPending

\* And there is room for the one that has counted.
AskCapInv ==
  /\ AskCapHoldsInTurn
  /\ \A r \in Request :
       At(r, {"ask"}, "insert") /\ InTurn(Begun(Asks(call[r].user)))
         => Cardinality(PendingOf(call[r].user)) < MaxPending
=============================================================================
