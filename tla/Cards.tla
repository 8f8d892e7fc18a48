-------------------------------- MODULE Cards -------------------------------
(***************************************************************************)
(* Debit cards (src/bank/cards.js): one per account, frozen and unfrozen   *)
(* by the customer or by the bank, with a daily limit, and purchases that  *)
(* are approved or declined.  All purchases fall on one day.               *)
(***************************************************************************)
EXTENDS DeskRows

CONSTANTS
  Card, CardOf, Holder,  \* cards, the account and the customer of each
  Issued, StartLimit     \* cards made already; a new card's daily limit

ASSUME CardAssumption ==
  /\ CardOf \in [Card -> Account]
  /\ Issued \subseteq Card
  /\ StartLimit \in Nat
  /\ None \notin {"active", "frozen"} \cup Nat

\* What the routes let through.
CardCall(c) ==
  /\ c.kind \in {"createCard", "setCard", "adminCard", "charge"} => c.card \in Card
  /\ c.kind \in {"setCard", "adminCard"} =>
       c.status \in {None, "active", "frozen"} /\ c.limit \in Nat \cup {None}
  /\ c.kind = "charge" => c.amt \in Nat \ {0}

VARIABLES
  card,  \* bank_cards: status, who froze it, limit
  seen   \* the card as each request has read it

cardVars == <<card, seen>>

NoCard == [status |-> "none", by |-> "nobody", limit |-> 0]
NewCard == [status |-> "active", by |-> "nobody", limit |-> StartLimit]

CardInit ==
  /\ card = [k \in Card |-> IF k \in Issued THEN NewCard ELSE NoCard]
  /\ seen = [r \in Request |-> NoCard]

\* createCard: UNIQUE (account_id) refuses a second one.
CreateCard(r) ==
  LET k == call[r].card IN
  /\ At(r, {"createCard"}, "start")
  /\ IF \E j \in Card : CardOf[j] = CardOf[k] /\ card[j].status # "none"
       THEN Refuse(r, "exists") /\ UNCHANGED card
       ELSE Commit(r, NoMoney, {}) /\ card' = [card EXCEPT ![k] = NewCard]
  /\ UNCHANGED seen

-----------------------------------------------------------------------------
(* Freezing and limits: read the card, then update it blindly.             *)

Unfreezes(r) == call[r].status = "active"

\* ownCard and findCard.  A customer may not undo the bank's freeze.
ReadCard(r) ==
  LET k == card[call[r].card] IN
  /\ At(r, {"setCard", "adminCard"}, "start")
  /\ IF k.status = "none" THEN Refuse(r, "not found")
     ELSE IF Kind(r) = "setCard" /\ Unfreezes(r) /\ k.status = "frozen" /\ k.by = "admin"
       THEN Refuse(r, "frozen by the bank")
     ELSE Read(r, "update")
  /\ seen' = [seen EXCEPT ![r] = k]
  /\ UNCHANGED card

\* Mutant: the limit is written without COALESCE.
UpdatedNull(r, k) ==
  LET c == call[r] IN
  [status |-> IF c.status = None THEN k.status ELSE c.status,
   by |-> IF c.status = None THEN k.by ELSE "nobody",
   limit |-> c.limit]

\* UPDATE bank_cards: a status replaces who froze it too.
Updated(r, k) ==
  LET c == call[r]
      by == IF Kind(r) = "adminCard" THEN "admin" ELSE "customer"
  IN [status |-> IF c.status = None THEN k.status ELSE c.status,
      by |-> CASE c.status = None -> k.by
               [] c.status = "frozen" -> by
               [] OTHER -> "nobody",
      limit |-> IF c.limit = None THEN k.limit ELSE c.limit]

\* For an Admin the notification is a statement of its own, after the card.
UpdateCard(r) ==
  LET k == call[r].card IN
  /\ At(r, {"setCard", "adminCard"}, "update")
  /\ card' = [card EXCEPT ![k] = Updated(r, @)]
  /\ IF Kind(r) = "adminCard"
       THEN Goto(r, "tell") /\ outcome' = [outcome EXCEPT ![r] = "done"]
            /\ UNCHANGED <<bal, lock, call, notices, before>>
       ELSE Commit(r, NoMoney, {})
  /\ UNCHANGED seen

TellCard(r) ==
  /\ At(r, {"adminCard"}, "tell")
  /\ Commit(r, NoMoney, {<<Holder[call[r].card], "account_changed">>})
  /\ UNCHANGED cardVars

-----------------------------------------------------------------------------
(* A purchase.                                                             *)

Approved(k) ==
  {r \in Request : /\ Kind(r) = "charge"
                   /\ call[r].card = k
                   /\ outcome[r] = "done"}
Spent(k) == SumFunctionOnSet([r \in Request |-> call[r].amt], Approved(k))

\* Mutant: the notice is left to a later statement that never comes.
DeclineQuietly(r, reason) ==
  /\ outcome' = [outcome EXCEPT ![r] = "declined"]
  /\ LetGo(r)
  /\ Finish(r, reason)
  /\ UNCHANGED <<bal, notices, call, before>>

\* A declined attempt is written down and the customer told, in one
\* transaction.
Decline(r, reason) ==
  /\ outcome' = [outcome EXCEPT ![r] = "declined"]
  /\ notices' = notices \cup
       {[to |-> Holder[call[r].card], kind |-> "card_declined", by |-> r]}
  /\ LetGo(r)
  /\ Finish(r, reason)
  /\ UNCHANGED <<bal, call, before>>

\* Mutant: the card is not asked whether it is frozen.
ReadStatusBlind(r) ==
  LET k == call[r].card IN
  /\ At(r, {"charge"}, "start")
  /\ Read(r, "sum")
  /\ seen' = [seen EXCEPT ![r] = card[k]]
  /\ UNCHANGED card

ReadStatus(r) ==
  LET k == call[r].card IN
  /\ At(r, {"charge"}, "start")
  /\ CASE card[k].status = "none" -> Refuse(r, "not found")
       [] card[k].status = "frozen" -> Decline(r, "frozen")
       [] OTHER -> Read(r, "sum")
  /\ seen' = [seen EXCEPT ![r] = card[k]]
  /\ UNCHANGED card

\* Mutant: the planted fault bankCardLimitPerCharge.
SumSpentPerCharge(r) ==
  /\ At(r, {"charge"}, "sum")
  /\ IF call[r].amt > seen[r].limit
       THEN Decline(r, "over_limit") ELSE Read(r, "debit")
  /\ UNCHANGED cardVars

SumSpent(r) ==
  /\ At(r, {"charge"}, "sum")
  /\ IF Spent(call[r].card) + call[r].amt > seen[r].limit
       THEN Decline(r, "over_limit") ELSE Read(r, "debit")
  /\ UNCHANGED cardVars

\* The checked debit takes the account's row; a purchase it does not cover
\* is declined.
DebitCard(r) ==
  LET a == CardOf[call[r].card] IN
  /\ At(r, {"charge"}, "debit")
  /\ \/ Debit(r, a, call[r].amt, "commit")
     \/ bal[a] < call[r].amt /\ Decline(r, "insufficient_funds")
  /\ UNCHANGED cardVars

CommitCharge(r) ==
  /\ At(r, {"charge"}, "commit")
  /\ Commit(r, [NoMoney EXCEPT ![CardOf[call[r].card]] = -call[r].amt], {})
  /\ UNCHANGED cardVars

CardStep(r) ==
  \/ CreateCard(r) \/ ReadCard(r) \/ UpdateCard(r) \/ TellCard(r)
  \/ ReadStatus(r) \/ SumSpent(r) \/ DebitCard(r) \/ CommitCharge(r)

-----------------------------------------------------------------------------
CardTypeOK ==
  /\ card \in [Card -> [status : {"none", "active", "frozen"},
                        by : {"nobody", "customer", "admin"}, limit : Nat]]
  /\ seen \in [Request -> [status : {"none", "active", "frozen"},
                           by : {"nobody", "customer", "admin"}, limit : Nat]]

\* The limits card k has had.
Limits(k) ==
  {StartLimit} \cup
    {call[r].limit : r \in {q \in Request : /\ Kind(q) \in {"setCard", "adminCard"}
                                           /\ call[q].card = k
                                           /\ call[q].limit # None
                                           /\ outcome[q] = "done"}}

\* Purchases that come one after the other keep to a limit the card has had:
\* only purchases under way together can pass all of them.
LimitHoldsInTurn ==
  \A k \in Card : InTurn(Approved(k)) => \E n \in Limits(k) : Spent(k) <= n

\* Requests that may have made card k active.
Activates(k) ==
  {r \in Request : /\ Kind(r) \in {"setCard", "adminCard", "createCard"}
                   /\ call[r].card = k
                   /\ (Kind(r) = "createCard" \/ Unfreezes(r))}

\* s has frozen card k.
Froze(s, k) ==
  /\ Kind(s) \in {"setCard", "adminCard"}
  /\ call[s].card = k
  /\ call[s].status = "frozen"
  /\ outcome[s] = "done"

\* What r finds of the freezes of card k before it: each may be undone since, by
\* a request that came in time.
Thaws(r, k) ==
  \A s \in before[r] :
    Froze(s, k) =>
      \E u \in Activates(k) : pc[u] # "idle" /\ u \notin before[s] /\ r \notin before[u]

\* A purchase that begins after the card was frozen is declined, whatever
\* other requests do, unless one of them may have unfrozen it since.
FrozenBuysNothing == \A k \in Card : \A r \in Approved(k) : Thaws(r, k)

\* A card is as it was last frozen, or unfrozen since, and has a limit it was
\* given; a purchase on its way has looked at both, and still fits into the limit
\* it has seen unless another one met it.
CardInv ==
  /\ \A k \in Card :
       /\ \A s \in Request :
            Froze(s, k) => \/ card[k].status = "frozen"
                           \/ \E u \in Activates(k) : outcome[u] = "done" /\ u \notin before[s]
       /\ \E n \in Limits(k) : card[k].limit <= n
  /\ \A r \in Request : At(r, {"adminCard"}, "tell") => outcome[r] = "done"
  /\ \A r \in Request :
       LET k == call[r].card IN
       Kind(r) = "charge" /\ pc[r] \in {"sum", "debit", "commit"} =>
         /\ Thaws(r, k)
         /\ \E n \in Limits(k) : seen[r].limit <= n
         /\ \/ pc[r] = "sum"
            \/ \E q \in Approved(k) : Met(r, q)
            \/ Spent(k) + call[r].amt <= seen[r].limit
  /\ FrozenBuysNothing
  /\ LimitHoldsInTurn
=============================================================================
