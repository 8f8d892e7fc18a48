-------------------------------- MODULE Loans -------------------------------
(***************************************************************************)
(* Loans (src/bank/loans.js): a customer asks, an Admin decides under the  *)
(* loan's row lock, and an approval pays the amount in the same            *)
(* transaction.                                                            *)
(***************************************************************************)
EXTENDS DeskRows

CONSTANTS
  Loan, LoanOf, LoanInto, LoanAmt,  \* loans, their customer, account, amount
  Applied, MaxLoans                 \* loans waiting already; how many may wait

ASSUME LoanAssumption ==
  /\ Loan \subseteq Row
  /\ LoanInto \in [Loan -> Account]
  /\ LoanAmt \in [Loan -> Nat \ {0}]
  /\ Applied \subseteq Loan
  /\ MaxLoans \in Nat
  /\ IsFiniteSet(Loan)
  /\ \A l \in Loan : Cardinality({m \in Applied : LoanOf[m] = LoanOf[l]}) <= MaxLoans

\* What the routes let through; a new loan has an id of its own.
LoanCall(c) ==
  /\ c.kind \in {"loan", "decide"} => c.loan \in Loan
  /\ c.kind = "loan" => c.loan \notin Applied /\ LoanOf[c.loan] = c.user
  /\ c.kind = "decide" => c.approve \in BOOLEAN

VARIABLE loan  \* bank_loans.status

LoanInit == loan = [l \in Loan |-> IF l \in Applied THEN "pending" ELSE "none"]

WaitingLoans(u) == {l \in Loan : LoanOf[l] = u /\ loan[l] = "pending"}

\* Mutant: one more than the limit.
CountLoansLate(r) ==
  /\ At(r, {"loan"}, "start")
  /\ IF Cardinality(WaitingLoans(call[r].user)) > MaxLoans
       THEN Refuse(r, "too many") ELSE Read(r, "insert")
  /\ UNCHANGED loan

\* requestLoan: the rate is fixed from what the bank sees of the customer,
\* the waiting loans are counted, and the new one is written.
CountLoans(r) ==
  /\ At(r, {"loan"}, "start")
  /\ IF Cardinality(WaitingLoans(call[r].user)) >= MaxLoans
       THEN Refuse(r, "too many") ELSE Read(r, "insert")
  /\ UNCHANGED loan

InsertLoan(r) ==
  /\ At(r, {"loan"}, "insert")
  /\ Commit(r, NoMoney, {})
  /\ loan' = [loan EXCEPT ![call[r].loan] = "pending"]

-----------------------------------------------------------------------------
\* Mutant: the row is read without FOR UPDATE.
LockLoanUnlocked(r) ==
  LET l == call[r].loan IN
  /\ At(r, {"decide"}, "start")
  /\ IF LoanOf[l] = call[r].user THEN Refuse(r, "own")
     ELSE IF loan[l] # "pending" THEN Refuse(r, "decided")
     ELSE Read(r, IF call[r].approve THEN "fund" ELSE "commit")
  /\ UNCHANGED loan

\* The route refuses an Admin's own loan; SELECT ... FOR UPDATE then waits
\* for whoever decides it, and reads what they left.
LockLoan(r) ==
  LET l == call[r].loan IN
  /\ At(r, {"decide"}, "start")
  /\ \/ LoanOf[l] = call[r].user /\ Refuse(r, "own")
     \/ /\ LoanOf[l] # call[r].user /\ Free(l, r)
        /\ loan[l] # "pending"
        /\ Refuse(r, "decided")
     \/ /\ LoanOf[l] # call[r].user
        /\ loan[l] = "pending"
        /\ Take(l, r)
        /\ Goto(r, IF call[r].approve THEN "fund" ELSE "commit")
        /\ Unchanged(r)
  /\ UNCHANGED loan

Fund(r) ==
  /\ At(r, {"decide"}, "fund")
  /\ Credit(r, LoanInto[call[r].loan], "commit")
  /\ UNCHANGED loan

CommitDecision(r) ==
  LET l == call[r].loan IN
  /\ At(r, {"decide"}, "commit")
  /\ Commit(r, [NoMoney EXCEPT ![LoanInto[l]] =
                  IF call[r].approve THEN LoanAmt[l] ELSE 0],
            {<<LoanOf[l], "loan_decided">>})
  /\ loan' = [loan EXCEPT ![l] = IF call[r].approve THEN "approved"
                                                    ELSE "rejected"]

LoanStep(r) ==
  CountLoans(r) \/ InsertLoan(r) \/ LockLoan(r) \/ Fund(r) \/ CommitDecision(r)

-----------------------------------------------------------------------------
LoanTypeOK == loan \in [Loan -> {"none", "pending", "approved", "rejected"}]

\* Admins who decide one loan at once, in any order and with any decision:
\* one decision is taken, and it is the one the loan shows.
DecidedOnce ==
  \A l \in Loan :
    LET by == {r \in Request : /\ Kind(r) = "decide" /\ call[r].loan = l
                               /\ outcome[r] = "done"}
    IN /\ Cardinality(by) <= 1
       /\ \A r \in by : loan[l] = IF call[r].approve THEN "approved"
                                                     ELSE "rejected"

\* Who decides a loan keeps its row, and it waits for them; it is there only
\* once it was asked for, and waits only while nobody has decided.
LoanInv ==
  /\ \A r \in Request :
       /\ Kind(r) = "decide" /\ pc[r] \in {"fund", "commit"} =>
            lock[call[r].loan] = r /\ loan[call[r].loan] = "pending"
       /\ Kind(r) = "loan" /\ outcome[r] # "done" => loan[call[r].loan] = "none"
       /\ Kind(r) = "decide" /\ outcome[r] = "done" =>
            loan[call[r].loan] \notin {"none", "pending"}
  /\ DecidedOnce

\* Requests for loans that come one after the other keep to MaxLoans.
Borrows(u) == {r \in Request : Kind(r) = "loan" /\ call[r].user = u}
LoanCapHoldsInTurn ==
  \A u \in {LoanOf[l] : l \in Loan} :
    InTurn(Begun(Borrows(u))) => Cardinality(WaitingLoans(u)) <= MaxLoans

\* And there is room for the one that has counted.
LoanCapInv ==
  /\ LoanCapHoldsInTurn
  /\ \A r \in Request :
       At(r, {"loan"}, "insert") /\ InTurn(Begun(Borrows(call[r].user)))
         => Cardinality(WaitingLoans(call[r].user)) < MaxLoans
=============================================================================
