-------------------------- MODULE BankMoneyProofs ---------------------------
(***************************************************************************)
(* Theorems about BankMoney, for any number of customers, accounts, keys   *)
(* and requests.  The inductive invariant IInv is stated in BankMoney:     *)
(* who holds which row, what a debited balance still covers, and which     *)
(* keys are spoken for.                                                    *)
(***************************************************************************)
EXTENDS BankMoney, FiniteSetTheorems, TLAPS

-----------------------------------------------------------------------------
(* Facts about calls.                                                      *)

\* A call is not the absence of one, and what its fields are.
LEMMA CallShape ==
  ASSUME NEW c \in Call
  PROVE  /\ c # NoPosting
         /\ c.kind \in Kinds /\ c.user \in User /\ c.amt \in Int
         /\ c.from \in Account \cup {None} /\ c.to \in Account \cup {None}
         /\ c.kind = "deposit" <=> c.from = None
         /\ c.kind = "bill" <=> c.to = None
         /\ c.kind = "deposit" => c.key = NoKey
         /\ c.race \in BOOLEAN /\ (c.race => c.kind = "transfer")
<1>1. c \in [kind : Kinds, user : User, from : Account \cup {None},
             to : Account \cup {None}, amt : Int, key : Key \cup {NoKey},
             race : BOOLEAN]
  BY CallAssumption
<1>2. c.kind \in Kinds
  BY <1>1
<1>3. c # NoPosting
  BY <1>2 DEF NoPosting, Ledger!NoPosting, Kinds
<1> QED
  BY <1>1, <1>3, CallAssumption

\* Posting a call adds its amount to the account it goes to, takes it from
\* the account it comes from, and touches no other.
LEMMA DeltaShape ==
  ASSUME NEW c \in Call, Accepts(c), NEW a \in Account
  PROVE  /\ Ledger!Delta(c, a) \in Int
         /\ a = c.from => Ledger!Delta(c, a) = -c.amt
         /\ a = c.to => Ledger!Delta(c, a) = c.amt
         /\ a \notin {c.from, c.to} => Ledger!Delta(c, a) = 0
         /\ c.amt > 0
<1>1. c.amt \in Int /\ c.amt > 0
  BY CallShape DEF Accepts
<1>2. ~(a = c.from /\ a = c.to)
  BY CallShape, BankAssumption DEF Accepts, Kinds
<1> QED
  BY <1>1, <1>2 DEF Ledger!Delta

-----------------------------------------------------------------------------
(* Type correctness.                                                       *)

HistRow == [by : Request, amt : Int, after : Int]

LEMMA ApplyTypeOK ==
  ASSUME TypeOK, NEW r \in Request, call[r] \in Call, Accepts(call[r]), Apply(r)
  PROVE  /\ bal' \in [Account -> Int]
         /\ hist' \in [Account -> Seq(HistRow)]
         /\ posted' \in [Request -> Call \cup {NoPosting}]
         /\ lock' \in [Account -> Request \cup {None}]
<1>1. ASSUME NEW a \in Account
      PROVE  /\ bal[a] + Ledger!Delta(call[r], a) \in Int
             /\ Row(r, a) \in HistRow
  BY <1>1, DeltaShape DEF TypeOK, Row, HistRow
<1>2. bal' \in [Account -> Int]
  BY <1>1 DEF Apply, Ledger!After
<1>3. ASSUME NEW a \in Account
      PROVE  Append(hist[a], Row(r, a)) \in Seq(HistRow)
  <2>1. hist[a] \in Seq(HistRow)
    BY <1>3 DEF TypeOK, HistRow
  <2> QED
    BY <1>1, <1>3, <2>1
<1>4. hist' \in [Account -> Seq(HistRow)]
  BY <1>3 DEF Apply, TypeOK, HistRow
<1>5. posted' \in [Request -> Call \cup {NoPosting}]
  BY DEF Apply, TypeOK
<1>6. lock' \in [Account -> Request \cup {None}]
  BY DEF Apply, TypeOK, Unlock
<1> QED
  BY <1>2, <1>4, <1>5, <1>6

\* Every variable keeps its type, whatever the requests do.
THEOREM TypeCorrect == Spec => [](TypeOK /\ AcceptedInv)
<1> USE DEF Steps, Answers
<1>1. Init => TypeOK /\ AcceptedInv
  BY BankAssumption DEF Init, TypeOK, AcceptedInv, InFlight
<1>2. TypeOK /\ AcceptedInv /\ [Next]_vars => TypeOK' /\ AcceptedInv'
  <2> SUFFICES ASSUME TypeOK, AcceptedInv, [Next]_vars
               PROVE  TypeOK' /\ AcceptedInv'
    OBVIOUS
  <2> USE DEF TypeOK, AcceptedInv, InFlight
  <2>1. ASSUME NEW r \in Request, NEW c \in Call, Refuse(r, c)
        PROVE  TypeOK' /\ AcceptedInv'
    BY <2>1 DEF Refuse, Finish, moneyVars
  <2>2. ASSUME NEW r \in Request, NEW c \in Call, Accept(r, c)
        PROVE  TypeOK' /\ AcceptedInv'
    BY <2>2 DEF Accept, Goto, FirstStatement, moneyVars
  <2>3. ASSUME NEW r \in Request, LookUpKey(r)
        PROVE  TypeOK' /\ AcceptedInv'
    BY <2>3 DEF LookUpKey, Finish, Goto, moneyVars
  <2>4. ASSUME NEW r \in Request, RaceRead(r)
        PROVE  TypeOK' /\ AcceptedInv'
    BY <2>4 DEF RaceRead, Finish, Goto, moneyVars
  <2>5. ASSUME NEW r \in Request, Debit(r)
        PROVE  TypeOK' /\ AcceptedInv'
    BY ZenonT(60), <2>5 DEF Debit, Finish, Goto
  <2>6. ASSUME NEW r \in Request, Credit(r)
        PROVE  TypeOK' /\ AcceptedInv'
    BY <2>6 DEF Credit, Goto
  <2>7. ASSUME NEW r \in Request, Record(r)
        PROVE  TypeOK' /\ AcceptedInv'
    BY <2>7 DEF Record, Goto, Unlock
  <2>8. ASSUME NEW r \in Request, Commit(r)
        PROVE  TypeOK' /\ AcceptedInv'
    <3>1. call[r] \in Call /\ Accepts(call[r])
      BY <2>8 DEF Commit
    <3>2. Apply(r) /\ Goto(r, "reply") /\ UNCHANGED <<call, answer>>
      BY <2>8 DEF Commit
    <3> QED
      BY <3>1, <3>2, ApplyTypeOK DEF Goto, HistRow
  <2>9. ASSUME NEW r \in Request, Reply(r)
        PROVE  TypeOK' /\ AcceptedInv'
    BY <2>9 DEF Reply, Finish, moneyVars
  <2>10. ASSUME NEW r \in Request, Conflict(r)
         PROVE  TypeOK' /\ AcceptedInv'
    BY <2>10 DEF Conflict, Finish, moneyVars
  <2>11. ASSUME NEW r \in Request, DeadlockVictim(r)
         PROVE  TypeOK' /\ AcceptedInv'
    BY <2>11 DEF DeadlockVictim, RollBack, Unlock, Finish
  <2>12. ASSUME NEW r \in Request, ConnectionLost(r)
         PROVE  TypeOK' /\ AcceptedInv'
    <3>1. CASE RollBack(r)
      BY <2>12, <3>1 DEF ConnectionLost, RollBack, Unlock, Finish
    <3>2. CASE pc[r] = "commit" /\ Apply(r)
      <4>1. call[r] \in Call /\ Accepts(call[r])
        BY <3>2
      <4> QED
        BY <2>12, <3>2, <4>1, ApplyTypeOK DEF ConnectionLost, Finish, HistRow
    <3> QED
      BY <2>12, <3>1, <3>2 DEF ConnectionLost
  <2>13. CASE ServerStops
    BY <2>13 DEF ServerStops
  <2>14. CASE UNCHANGED vars
    BY <2>14 DEF vars
  <2> QED
    BY <2>1, <2>2, <2>3, <2>4, <2>5, <2>6, <2>7, <2>8, <2>9, <2>10, <2>11,
       <2>12, <2>13, <2>14 DEF Next, Handle
<1> QED
  BY <1>1, <1>2, PTL DEF Spec

-----------------------------------------------------------------------------
(* Who holds which row, and where a request is.                            *)

\* The accounts of a request under way exist and differ.
LEMMA UnderWay ==
  ASSUME AcceptedInv, CallInv, NEW r \in Request, InFlight(r)
  PROVE  /\ call[r] \in Call /\ Accepts(call[r])
         /\ call[r].amt \in Int
         /\ call[r].from \in Account \cup {None}
         /\ call[r].to \in Account \cup {None}
         /\ call[r].from # call[r].to
         /\ pc[r] \in {"lookup", "raceRead", "debit", "record", "conflict"}
              => call[r].from \in Account
         /\ pc[r] = "credit" => call[r].to \in Account
         /\ call[r].kind \in Kinds
         /\ call[r].kind = "deposit" <=> call[r].from = None
         /\ call[r].kind = "bill" <=> call[r].to = None
<1>1. call[r] \in Call /\ Accepts(call[r])
  BY DEF AcceptedInv
<1>2. call[r].from # call[r].to
  BY <1>1, CallShape, BankAssumption DEF Accepts, Kinds
<1> QED
  BY <1>1, <1>2, CallShape DEF CallInv

\* Steps of r that neither take nor release a row.
LEMMA SameHolds ==
  ASSUME LockInv, NEW r \in Request, lock' = lock,
         \A s \in Request : s # r => pc'[s] = pc[s] /\ call'[s] = call[s],
         \A a \in Account : Holds(r, a)' <=> Holds(r, a)
  PROVE  LockInv'
BY DEF LockInv, Holds

\* r takes the row of account a.
LEMMA TakesRow ==
  ASSUME TypeOK, LockInv, NEW r \in Request, NEW a \in Account, Free(a, r),
         lock' = [lock EXCEPT ![a] = r],
         \A s \in Request : s # r => pc'[s] = pc[s] /\ call'[s] = call[s],
         \A b \in Account : Holds(r, b)' <=> Holds(r, b) \/ b = a
  PROVE  LockInv'
<1>1. ASSUME NEW s \in Request, NEW b \in Account
      PROVE  lock'[b] = s <=> Holds(s, b)'
  <2>1. s # r => (Holds(s, b)' <=> Holds(s, b))
    BY DEF Holds
  <2>2. lock[b] = s <=> Holds(s, b)
    BY DEF LockInv
  <2> QED
    BY <2>1, <2>2, BankAssumption DEF Free, TypeOK, LockInv
<1> QED
  BY <1>1 DEF LockInv

\* r's transaction ends.
LEMMA ReleasesRows ==
  ASSUME TypeOK, LockInv, NEW r \in Request, Unlock(r),
         \A s \in Request : s # r => pc'[s] = pc[s] /\ call'[s] = call[s],
         \A a \in Account : ~Holds(r, a)'
  PROVE  LockInv'
<1>1. ASSUME NEW s \in Request, NEW b \in Account
      PROVE  lock'[b] = s <=> Holds(s, b)'
  <2>1. s # r => (Holds(s, b)' <=> Holds(s, b))
    BY DEF Holds
  <2>2. lock[b] = s <=> Holds(s, b)
    BY DEF LockInv
  <2> QED
    BY <2>1, <2>2, BankAssumption DEF Unlock
<1> QED
  BY <1>1 DEF LockInv

\* A row is held exactly by the request whose open transaction has updated
\* it, and every request is at a statement its kind of call has.
THEOREM Locking == Spec => [](LockInv /\ CallInv)
<1>1. Init => LockInv /\ CallInv
  BY BankAssumption DEF Init, LockInv, CallInv, Holds, InTransaction, InFlight
<1>2. TypeOK /\ AcceptedInv /\ LockInv /\ CallInv /\ [Next]_vars
        => LockInv' /\ CallInv'
  <2> SUFFICES ASSUME TypeOK, AcceptedInv, LockInv, CallInv, [Next]_vars
               PROVE  LockInv' /\ CallInv'
    OBVIOUS
  <2>1. ASSUME NEW r \in Request, NEW c \in Call,
               Refuse(r, c) \/ Accept(r, c)
        PROVE  LockInv' /\ CallInv'
    <3>1. /\ pc[r] = "idle" /\ UNCHANGED <<lock, posted>>
          /\ call' = [call EXCEPT ![r] = c]
          /\ \/ pc' = [pc EXCEPT ![r] = "done"]
             \/ pc' = [pc EXCEPT ![r] = "lookup"] /\ c.kind # "deposit"
             \/ pc' = [pc EXCEPT ![r] = "raceRead"] /\ c.kind = "transfer"
             \/ pc' = [pc EXCEPT ![r] = "credit"] /\ c.kind = "deposit"
             \/ pc' = [pc EXCEPT ![r] = "debit"] /\ c.kind # "deposit"
      BY <2>1, CallShape
         DEF Refuse, Accept, Finish, Goto, FirstStatement, moneyVars
    <3>2. \A a \in Account : ~Holds(r, a) /\ ~Holds(r, a)'
      BY <3>1, CallShape, BankAssumption
         DEF Holds, InTransaction, TypeOK
    <3>3. LockInv'
      BY <3>1, <3>2, SameHolds DEF TypeOK
    <3>4. CallInv'
      BY <3>1 DEF CallInv, TypeOK, InFlight
    <3> QED
      BY <3>3, <3>4
  <2>2. ASSUME NEW r \in Request,
               LookUpKey(r) \/ RaceRead(r) \/ Conflict(r) \/ Reply(r)
        PROVE  LockInv' /\ CallInv'
    <3>1. /\ pc[r] \in {"lookup", "raceRead", "conflict", "reply"}
          /\ UNCHANGED <<lock, posted, call>>
          /\ \/ pc' = [pc EXCEPT ![r] = "done"]
             \/ pc' = [pc EXCEPT ![r] = "raceRead"] /\ call[r].kind = "transfer"
                /\ pc[r] # "reply"
             \/ pc' = [pc EXCEPT ![r] = "debit"]
                /\ pc[r] \in {"lookup", "raceRead"}
      BY <2>2, UnderWay, CallShape
         DEF LookUpKey, RaceRead, Conflict, Reply, Finish, Goto, moneyVars,
             InFlight
    <3>2. \A a \in Account : ~Holds(r, a) /\ ~Holds(r, a)'
      BY <3>1 DEF Holds, InTransaction, TypeOK
    <3>3. LockInv'
      BY <3>1, <3>2, SameHolds DEF TypeOK
    <3>4. CallInv'
      BY <3>1 DEF CallInv, TypeOK, InFlight
    <3> QED
      BY <3>3, <3>4
  <2>3. ASSUME NEW r \in Request, Debit(r)
        PROVE  LockInv' /\ CallInv'
    <3>1. pc[r] = "debit" /\ UNCHANGED <<call, posted>>
      BY <2>3 DEF Debit
    <3>2. CASE lock' = lock /\ pc' = [pc EXCEPT ![r] = "done"]
      <4>1. \A a \in Account : ~Holds(r, a) /\ ~Holds(r, a)'
        BY <3>1, <3>2 DEF Holds, InTransaction, TypeOK
      <4> QED
        BY <3>1, <3>2, <4>1, SameHolds DEF CallInv, TypeOK, InFlight
    <3>3. CASE /\ Free(call[r].from, r)
               /\ lock' = [lock EXCEPT ![call[r].from] = r]
               /\ \/ pc' = [pc EXCEPT ![r] = "record"] /\ call[r].kind = "bill"
                  \/ pc' = [pc EXCEPT ![r] = "credit"] /\ call[r].kind # "bill"
      <4>1. call[r].from \in Account /\ (call[r].kind = "bill" => call[r].to = None)
        BY <3>1, UnderWay DEF InFlight
      <4>2. \A a \in Account : Holds(r, a)' <=> Holds(r, a) \/ a = call[r].from
        BY <3>1, <3>3, <4>1, BankAssumption DEF Holds, InTransaction, TypeOK
      <4>3. LockInv'
        BY <3>1, <3>3, <4>1, <4>2, TakesRow DEF TypeOK
      <4>4. CallInv'
        BY <3>1, <3>3 DEF CallInv, TypeOK, InFlight
      <4> QED
        BY <4>3, <4>4
    <3> QED
      BY <2>3, <3>2, <3>3 DEF Debit, Finish, Goto
  <2>4. ASSUME NEW r \in Request, Credit(r)
        PROVE  LockInv' /\ CallInv'
    <3>1. /\ pc[r] = "credit" /\ Free(call[r].to, r)
          /\ lock' = [lock EXCEPT ![call[r].to] = r]
          /\ UNCHANGED <<call, posted>>
          /\ \/ pc' = [pc EXCEPT ![r] = "commit"] /\ call[r].kind = "deposit"
             \/ pc' = [pc EXCEPT ![r] = "record"] /\ call[r].kind # "deposit"
      BY <2>4 DEF Credit, Goto
    <3>2. call[r].to \in Account
      BY <3>1, UnderWay DEF InFlight
    <3>3. \A a \in Account : Holds(r, a)' <=> Holds(r, a) \/ a = call[r].to
      BY <3>1, <3>2 DEF Holds, InTransaction, TypeOK
    <3>4. LockInv'
      BY <3>1, <3>2, <3>3, TakesRow DEF TypeOK
    <3>5. CallInv'
      BY <3>1 DEF CallInv, TypeOK, InFlight
    <3> QED
      BY <3>4, <3>5
  <2>5. ASSUME NEW r \in Request, Record(r)
        PROVE  LockInv' /\ CallInv'
    <3>1. /\ pc[r] = "record" /\ UNCHANGED <<call, posted>>
          /\ \/ pc' = [pc EXCEPT ![r] = "conflict"] /\ Unlock(r)
             \/ pc' = [pc EXCEPT ![r] = "commit"] /\ lock' = lock
      BY <2>5 DEF Record, Goto
    <3>2. CallInv'
      BY <3>1 DEF CallInv, TypeOK, InFlight
    <3>3. CASE pc' = [pc EXCEPT ![r] = "conflict"] /\ Unlock(r)
      <4>1. \A a \in Account : ~Holds(r, a)'
        BY <3>3 DEF Holds, InTransaction, TypeOK
      <4> QED
        BY <3>1, <3>2, <3>3, <4>1, ReleasesRows DEF TypeOK
    <3>4. CASE pc' = [pc EXCEPT ![r] = "commit"] /\ lock' = lock
      <4>1. \A a \in Account : Holds(r, a)' <=> Holds(r, a)
        BY <3>1, <3>4 DEF Holds, InTransaction, TypeOK
      <4> QED
        BY <3>1, <3>2, <3>4, <4>1, SameHolds DEF TypeOK
    <3> QED
      BY <3>1, <3>3, <3>4
  <2>6. ASSUME NEW r \in Request,
               Commit(r) \/ DeadlockVictim(r) \/ ConnectionLost(r)
        PROVE  LockInv' /\ CallInv'
    <3>1. /\ pc[r] \in {"debit"} \cup InTransaction /\ Unlock(r) /\ call' = call
          /\ \/ pc' = [pc EXCEPT ![r] = "reply"]
             \/ pc' = [pc EXCEPT ![r] = "done"]
          /\ posted' = posted \/ posted' = [posted EXCEPT ![r] = call[r]]
      <4>1. DeadlockVictim(r) => pc[r] \in {"debit", "credit", "record"}
        <5> SUFFICES ASSUME DeadlockVictim(r)
                     PROVE  pc[r] \in {"debit", "credit", "record"}
          OBVIOUS
        <5>1. PICK S \in SUBSET Request : r \in S /\ {Blocker(s) : s \in S} = S
          BY DEF DeadlockVictim, InDeadlock
        <5>2. Blocker(r) # None
          BY <5>1, BankAssumption
        <5> QED
          BY <5>2 DEF Blocker
      <4> QED
        BY <2>6, <4>1 DEF Commit, DeadlockVictim, ConnectionLost, RollBack,
                          Apply, Goto, Finish, InTransaction
    <3>2. \A a \in Account : ~Holds(r, a)'
      BY <3>1 DEF Holds, InTransaction, TypeOK
    <3>3. LockInv'
      BY <3>1, <3>2, ReleasesRows DEF TypeOK
    <3>4. CallInv'
      BY <3>1 DEF CallInv, TypeOK, InFlight, InTransaction
    <3> QED
      BY <3>3, <3>4
  <2>7. CASE ServerStops
    <3>1. LockInv'
      BY <2>7, BankAssumption
         DEF ServerStops, LockInv, Holds, InTransaction, InFlight, TypeOK
    <3>2. CallInv'
      BY <2>7 DEF ServerStops, CallInv, InFlight, TypeOK
    <3> QED
      BY <3>1, <3>2
  <2>8. CASE UNCHANGED vars
    BY <2>8 DEF vars, LockInv, CallInv, Holds, InFlight
  <2> QED
    BY <2>1, <2>2, <2>3, <2>4, <2>5, <2>6, <2>7, <2>8 DEF Next, Handle
<1> QED
  BY <1>1, <1>2, TypeCorrect, PTL DEF Spec

-----------------------------------------------------------------------------
(* What a step does to the money: one posting, or nothing.                 *)

\* Every step either posts the call of one request at its COMMIT or leaves
\* the balances, the histories and the payments alone.
LEMMA StepPostsOrNot ==
  ASSUME [Next]_vars
  PROVE  \/ UNCHANGED <<bal, hist, posted>>
         \/ \E r \in Request :
              /\ pc[r] = "commit" /\ Apply(r) /\ UNCHANGED call
              /\ \/ pc' = [pc EXCEPT ![r] = "reply"]
                 \/ pc' = [pc EXCEPT ![r] = "done"]
<1>1. CASE \E r \in Request, c \in Call : Refuse(r, c) \/ Accept(r, c)
  BY <1>1 DEF Refuse, Accept, moneyVars
<1>2. ASSUME NEW r \in Request, Handle(r)
      PROVE  \/ UNCHANGED <<bal, hist, posted>>
             \/ Commit(r)
  BY <1>2 DEF Handle, LookUpKey, RaceRead, Debit, Credit, Record, Reply,
              Conflict, DeadlockVictim, RollBack, moneyVars
<1>3. ASSUME NEW r \in Request, ConnectionLost(r)
      PROVE  \/ UNCHANGED <<bal, hist, posted>>
             \/ pc[r] = "commit" /\ Apply(r) /\ UNCHANGED call
                /\ pc' = [pc EXCEPT ![r] = "done"]
  BY <1>3 DEF ConnectionLost, RollBack, Finish
<1>4. CASE ServerStops
  BY <1>4 DEF ServerStops
<1>5. CASE UNCHANGED vars
  BY <1>5 DEF vars
<1> QED
  BY <1>1, <1>2, <1>3, <1>4, <1>5 DEF Next, Commit, Goto

\* A step that moves request r is a step of r, unless it ends it.
LEMMA StepOfOne ==
  ASSUME TypeOK, [Next]_vars, NEW r \in Request,
         pc'[r] # pc[r] \/ call'[r] # call[r], pc'[r] # "done"
  PROVE  (\E c \in Call : Accept(r, c)) \/ Handle(r)
<1>1. ASSUME NEW s \in Request, NEW c \in Call, Refuse(s, c) \/ Accept(s, c)
      PROVE  Accept(r, c)
  BY <1>1 DEF Refuse, Accept, Finish, Goto, TypeOK
<1>2. ASSUME NEW s \in Request, Handle(s)
      PROVE  s = r
  BY <1>2 DEF Handle, LookUpKey, RaceRead, Debit, Credit, Record, Commit,
              Reply, Conflict, DeadlockVictim, Finish, Goto, TypeOK
<1>3. ASSUME NEW s \in Request, ConnectionLost(s)
      PROVE  FALSE
  BY <1>3 DEF ConnectionLost, Finish, TypeOK
<1>4. ~ServerStops
  BY DEF ServerStops, TypeOK
<1> QED
  BY <1>1, <1>2, <1>3, <1>4 DEF Next, vars

\* No two transactions have updated the same account.
LEMMA OneHolder ==
  ASSUME LockInv, NEW r \in Request, NEW s \in Request, NEW a \in Account,
         Holds(r, a), Holds(s, a)
  PROVE  r = s
BY DEF LockInv

-----------------------------------------------------------------------------
(* A debit stays covered, and no account is overdrawn.                     *)

\* What a transaction has taken is still covered by the balance everyone
\* else sees, until it commits.
THEOREM Covered == Spec => []CoveredInv
<1>1. Init => CoveredInv
  BY DEF Init, CoveredInv, InTransaction
<1>2. /\ TypeOK /\ AcceptedInv /\ LockInv /\ CallInv /\ CoveredInv
      /\ [Next]_vars
      => CoveredInv'
  <2> SUFFICES ASSUME TypeOK, AcceptedInv, LockInv, CallInv, CoveredInv,
                      [Next]_vars,
                      NEW r \in Request, (pc[r] \in InTransaction)',
                      call'[r].from # None, ~call'[r].race
               PROVE  bal'[call'[r].from] >= call'[r].amt
    BY DEF CoveredInv
  <2>1. CASE UNCHANGED bal /\ pc[r] \in InTransaction /\ call'[r] = call[r]
    BY <2>1 DEF CoveredInv
  <2>2. CASE Debit(r)
    BY <2>2 DEF Debit, Finish, Goto, InTransaction, TypeOK
  <2>3. CASE pc[r] \notin InTransaction /\ ~Debit(r)
    <3>1. CASE \E c \in Call : Refuse(r, c) \/ Accept(r, c)
      <4>1. PICK c \in Call : Refuse(r, c) \/ Accept(r, c)
        BY <3>1
      <4>2. c.from = None /\ call'[r] = c
        BY <4>1, CallShape
           DEF Refuse, Accept, Finish, Goto, FirstStatement, InTransaction, TypeOK
      <4> QED
        BY <4>2
    <3>2. CASE ~\E c \in Call : Refuse(r, c) \/ Accept(r, c)
      <4>1. pc'[r] \notin InTransaction
        BY ZenonT(60), <2>3, <3>2
           DEF Next, vars, Refuse, Accept, Handle, LookUpKey, RaceRead, Debit,
               Credit, Record, Commit, Reply, Conflict, DeadlockVictim,
               ConnectionLost, ServerStops, Finish, Goto, InFlight,
               InTransaction, TypeOK
      <4> QED
        BY <4>1
    <3> QED
      BY <3>1, <3>2
  <2>4. CASE pc[r] \in InTransaction
    <3>1. call'[r] = call[r] /\ call[r].from \in Account
      <4>1. call'[r] = call[r]
        BY <2>4 DEF Next, vars, Refuse, Accept, Handle, LookUpKey, RaceRead,
                    Debit, Credit, Record, Commit, Reply, Conflict,
                    DeadlockVictim, ConnectionLost, ServerStops,
                    InTransaction, TypeOK
      <4> QED
        BY <2>4, <4>1, UnderWay DEF InFlight, InTransaction
    <3>2. CASE UNCHANGED bal
      BY <2>1, <2>4, <3>1, <3>2
    <3>3. ASSUME NEW s \in Request, pc[s] = "commit", Apply(s),
                 pc' = [pc EXCEPT ![s] = "reply"] \/ pc' = [pc EXCEPT ![s] = "done"]
          PROVE  bal'[call[r].from] = bal[call[r].from]
      <4>1. s # r
        BY <3>3 DEF InTransaction, TypeOK
      <4>2. Holds(r, call[r].from)
        BY <2>4 DEF Holds
      <4>3. call[r].from \notin {call[s].from, call[s].to}
        BY <3>1, <3>3, <4>1, <4>2, OneHolder DEF Holds, InTransaction
      <4>4. call[s] \in Call /\ Accepts(call[s])
        BY <3>3, UnderWay DEF InFlight
      <4> QED
        BY <3>1, <3>3, <4>3, <4>4, DeltaShape DEF Apply, Ledger!After, TypeOK
    <3> QED
      BY <2>4, <3>1, <3>2, <3>3, StepPostsOrNot DEF CoveredInv
  <2> QED
    BY <2>2, <2>3, <2>4
<1> QED
  BY <1>1, <1>2, TypeCorrect, Locking, PTL DEF Spec

\* No interleaving, failure or retry overdraws an account: only a transfer
\* sent with the planted fault can.
THEOREM NeverOverdrawn == Spec => []NoOverdraft
<1>1. Init => NoOverdraft
  BY BankAssumption DEF Init, NoOverdraft
<1>2. TypeOK /\ AcceptedInv /\ CallInv /\ CoveredInv /\ NoOverdraft /\ [Next]_vars
        => NoOverdraft'
  <2> SUFFICES ASSUME TypeOK, AcceptedInv, CallInv, CoveredInv, NoOverdraft,
                      [Next]_vars
               PROVE  NoOverdraft'
    OBVIOUS
  <2>1. CASE UNCHANGED <<bal, hist, posted>>
    BY <2>1 DEF NoOverdraft, Raced
  <2>2. ASSUME NEW r \in Request, pc[r] = "commit", Apply(r)
        PROVE  NoOverdraft'
    <3>1. call[r] \in Call /\ Accepts(call[r]) /\ call[r].amt \in Int
      BY <2>2, UnderWay DEF InFlight
    <3>2. ASSUME NEW a \in Account, ~Raced(a)' PROVE bal'[a] >= 0
      <4>0. /\ ~Raced(a)
            /\ a = call[r].from => ~call[r].race
        <5>1. posted' = [posted EXCEPT ![r] = call[r]] /\ posted[r] = NoPosting
          BY <2>2 DEF Apply, CallInv, InFlight
        <5>2. call[r] # NoPosting
          BY <3>1, CallShape
        <5> QED
          BY <3>2, <5>1, <5>2 DEF Raced, TypeOK
      <4>1. bal'[a] = bal[a] + Ledger!Delta(call[r], a)
        BY <2>2 DEF Apply, Ledger!After
      <4>2. a = call[r].from => bal[a] >= call[r].amt
        BY <2>2, <4>0, BankAssumption DEF CoveredInv, InTransaction
      <4>3. bal[a] >= 0 /\ bal[a] \in Int
        BY <4>0 DEF NoOverdraft, TypeOK
      <4> QED
        BY <3>1, <4>1, <4>2, <4>3, DeltaShape
    <3> QED
      BY <3>2 DEF NoOverdraft
  <2> QED
    BY <2>1, <2>2, StepPostsOrNot
<1> QED
  BY <1>1, <1>2, TypeCorrect, Locking, Covered, PTL DEF Spec

-----------------------------------------------------------------------------
(* A key moves money once.                                                 *)

LEMMA SameKeySymmetric ==
  ASSUME NEW c, NEW d
  PROVE  SameKey(c, d) <=> c.key = d.key /\ SameKey(d, c)
BY DEF SameKey, Ledger!SameKey

\* A transaction at COMMIT is the only one with its key, so a key that was
\* sent twice, at once or later, has one payment.
THEOREM KeysPayOnce == Spec => [](KeyInv /\ KeyPaysOnce)
<1>1. Init => KeyInv /\ KeyPaysOnce
  BY DEF Init, KeyInv, KeyPaysOnce
<1>2. /\ TypeOK /\ AcceptedInv /\ CallInv /\ KeyInv /\ KeyPaysOnce
      /\ [Next]_vars
      => KeyInv' /\ KeyPaysOnce'
  <2> SUFFICES ASSUME TypeOK, AcceptedInv, CallInv, KeyInv, KeyPaysOnce,
                      [Next]_vars
               PROVE  KeyInv' /\ KeyPaysOnce'
    OBVIOUS
  <2>1. ASSUME NEW r \in Request, (pc[r] = "commit")'
        PROVE  /\ call'[r] = call[r]
               /\ \/ pc[r] = "commit"
                  \/ Record(r)
                  \/ call[r].key = NoKey
    <3>1. CASE pc'[r] = pc[r] /\ call'[r] = call[r]
      BY <2>1, <3>1
    <3>2. ASSUME NEW c \in Call, Accept(r, c)
          PROVE  FALSE
      BY <2>1, <3>2 DEF Accept, Goto, FirstStatement, TypeOK
    <3>3. CASE Handle(r)
      <4>1. call'[r] = call[r] /\ (Record(r) \/ Credit(r))
        BY <2>1, <3>3 DEF Handle, LookUpKey, RaceRead, Debit, Credit, Record,
             Commit, Reply, Conflict, DeadlockVictim, Finish, Goto, TypeOK
      <4>2. CASE Credit(r)
        <5>1. call[r].kind = "deposit" /\ call[r] \in Call
          BY <2>1, <4>2, UnderWay DEF Credit, Goto, InFlight, TypeOK
        <5> QED
          BY <4>1, <5>1, CallShape
      <4> QED
        BY <4>1, <4>2
    <3> QED
      BY <2>1, <3>1, <3>2, <3>3, StepOfOne
  <2>2. CASE UNCHANGED posted
    <3>1. KeyPaysOnce'
      BY <2>2 DEF KeyPaysOnce
    <3>2. ASSUME NEW r \in Request, (pc[r] = "commit")'
          PROVE  KeyIsMine(r)'
      <4>1. PostedWithKey(call[r]) = {} => PostedWithKey(call[r])' = {}
        BY <2>1, <2>2, <3>2 DEF PostedWithKey
      <4>2. CASE call[r].key = NoKey
        BY <2>1, <3>2, <4>2 DEF KeyIsMine, HoldsKey, PostedWithKey, SameKey,
                                Ledger!SameKey
      <4>3. CASE pc[r] = "commit"
        <5>1. KeyIsMine(r)
          BY <4>3 DEF KeyInv
        <5>2. ASSUME NEW s \in Request, s # r, (pc[s] = "commit")'
              PROVE  ~SameKey(call[r], call[s])
          <6>1. CASE pc[s] = "commit"
            BY <5>1, <5>2, <6>1 DEF KeyIsMine, HoldsKey
          <6>2. CASE Record(s)
            BY <4>3, <5>2, <6>2, SameKeySymmetric DEF Record, Goto, HoldsKey, TypeOK
          <6>3. CASE call[s].key = NoKey
            BY <6>3 DEF SameKey, Ledger!SameKey
          <6> QED
            BY <2>1, <5>2, <6>1, <6>2, <6>3
        <5>3. ASSUME NEW s \in Request, s # r PROVE ~HoldsKey(s, call[r])'
          BY <2>1, <3>2, <5>2, <5>3 DEF HoldsKey
        <5> QED
          BY <4>1, <5>1, <5>3 DEF KeyIsMine
      <4>4. CASE Record(r)
        <5>1. /\ PostedWithKey(call[r]) = {} /\ call' = call
              /\ \A s \in Request : ~HoldsKey(s, call[r])
              /\ pc' = [pc EXCEPT ![r] = "commit"]
          BY <3>2, <4>4 DEF Record, Goto, TypeOK
        <5>2. \A s \in Request : s # r => ~HoldsKey(s, call[r])'
          BY <5>1 DEF HoldsKey, TypeOK
        <5> QED
          BY <4>1, <5>1, <5>2 DEF KeyIsMine
      <4> QED
        BY <2>1, <3>2, <4>2, <4>3, <4>4
    <3> QED
      BY <3>1, <3>2 DEF KeyInv
  <2>3. ASSUME NEW s \in Request, pc[s] = "commit", Apply(s), UNCHANGED call,
               pc' = [pc EXCEPT ![s] = "reply"] \/ pc' = [pc EXCEPT ![s] = "done"]
        PROVE  KeyInv' /\ KeyPaysOnce'
    <3>1. posted' = [posted EXCEPT ![s] = call[s]]
      BY <2>3 DEF Apply
    <3>2. KeyIsMine(s)
      BY <2>3 DEF KeyInv
    <3>3. KeyPaysOnce'
      <4>1. ASSUME NEW q \in Request, q # s, posted[q] # NoPosting
            PROVE  ~SameKey(posted[q], call[s]) /\ ~SameKey(call[s], posted[q])
        BY <3>2, <4>1, SameKeySymmetric DEF KeyIsMine, PostedWithKey
      <4> QED
        BY <3>1, <4>1 DEF KeyPaysOnce, TypeOK
    <3>4. ASSUME NEW r \in Request, (pc[r] = "commit")'
          PROVE  KeyIsMine(r)'
      <4>1. r # s /\ pc[r] = "commit"
        BY <2>3, <3>4 DEF TypeOK
      <4>2. KeyIsMine(r)
        BY <4>1 DEF KeyInv
      <4>3. ~SameKey(call[r], call[s])
        BY <2>3, <4>1, <4>2 DEF KeyIsMine, HoldsKey
      <4>4. PostedWithKey(call[r])' = {}
        BY <2>3, <3>1, <4>2, <4>3 DEF KeyIsMine, PostedWithKey, TypeOK
      <4>5. \A q \in Request : q # r => ~HoldsKey(q, call[r])'
        BY <2>3, <4>2 DEF KeyIsMine, HoldsKey, TypeOK
      <4> QED
        BY <4>4, <4>5 DEF KeyIsMine
    <3> QED
      BY <3>3, <3>4 DEF KeyInv
  <2> QED
    BY <2>2, <2>3, StepPostsOrNot
<1> QED
  BY <1>1, <1>2, TypeCorrect, Locking, PTL DEF Spec

-----------------------------------------------------------------------------
(* The interleaved statements implement the abstract ledger.               *)

THEOREM ImplementsLedger == Spec => LedgerSpec
<1>1. Init => Ledger!Init
  BY DEF Init, Ledger!Init, NoPosting
<1>2. /\ TypeOK /\ AcceptedInv /\ CallInv /\ CoveredInv /\ KeyInv
      /\ [Next]_vars
      => [Ledger!Next]_(Ledger!ledgerVars)
  <2> SUFFICES ASSUME TypeOK, AcceptedInv, CallInv, CoveredInv, KeyInv,
                      [Next]_vars
               PROVE  [Ledger!Next]_(Ledger!ledgerVars)
    OBVIOUS
  <2>1. CASE UNCHANGED <<bal, hist, posted>>
    BY <2>1 DEF Ledger!ledgerVars
  <2>2. ASSUME NEW r \in Request, pc[r] = "commit", Apply(r)
        PROVE  Ledger!Next
    <3>1. call[r] \in Call /\ posted[r] = NoPosting
      BY <2>2, UnderWay DEF InFlight, CallInv
    <3>2. call[r].from = None \/ call[r].race \/ bal[call[r].from] >= call[r].amt
      BY <2>2 DEF CoveredInv, InTransaction
    <3>3. \A j \in Request :
            posted[j] # NoPosting => ~Ledger!SameKey(call[r], posted[j])
      BY <2>2 DEF KeyInv, KeyIsMine, PostedWithKey, SameKey
    <3>4. Ledger!Post(r, call[r])
      BY <2>2, <3>1, <3>2, <3>3 DEF Ledger!Post, Apply, NoPosting
    <3> QED
      BY <3>1, <3>4 DEF Ledger!Next
  <2> QED
    BY <2>1, <2>2, StepPostsOrNot
<1> QED
  BY <1>1, <1>2, TypeCorrect, Locking, Covered, KeysPayOnce, PTL
     DEF Spec, LedgerSpec, Ledger!Spec

-----------------------------------------------------------------------------
(* Histories explain balances.                                             *)

\* Read in the order its rows were inserted, every account's history runs
\* from its opening balance to its balance without a gap.
THEOREM HistoriesRun == Spec => []HistoryRuns
<1>1. Init => HistoryRuns
  BY BankAssumption DEF Init, HistoryRuns, BalanceAfter
<1>2. TypeOK /\ AcceptedInv /\ HistoryRuns /\ [Next]_vars => HistoryRuns'
  <2> SUFFICES ASSUME TypeOK, AcceptedInv, HistoryRuns, [Next]_vars
               PROVE  HistoryRuns'
    OBVIOUS
  <2>1. CASE UNCHANGED <<bal, hist, posted>>
    BY <2>1 DEF HistoryRuns, BalanceAfter
  <2>2. ASSUME NEW r \in Request, pc[r] = "commit", Apply(r)
        PROVE  HistoryRuns'
    <3> DEFINE d(a) == Ledger!Delta(call[r], a)
    <3>1. call[r] \in Call /\ Accepts(call[r])
      BY <2>2 DEF AcceptedInv, InFlight
    <3>2. ASSUME NEW a \in Account
          PROVE  /\ \A i \in 1..Len(hist'[a]) :
                      hist'[a][i].after = BalanceAfter(a, i - 1)' + hist'[a][i].amt
                 /\ bal'[a] = BalanceAfter(a, Len(hist[a]))'
      <4>1. /\ hist[a] \in Seq(HistRow) /\ bal[a] \in Int
            /\ d(a) \in Int
            /\ bal'[a] = bal[a] + d(a)
        BY <2>2, <3>1, <3>2, DeltaShape
           DEF TypeOK, HistRow, Apply, Ledger!After
      <4>2. /\ \A i \in 1..Len(hist[a]) :
                 hist[a][i].after = BalanceAfter(a, i - 1) + hist[a][i].amt
            /\ bal[a] = BalanceAfter(a, Len(hist[a]))
        BY <3>2 DEF HistoryRuns
      <4>3. CASE a \notin {call[r].from, call[r].to}
        <5>1. hist'[a] = hist[a] /\ bal'[a] = bal[a]
          BY <2>2, <3>1, <3>2, <4>1, <4>3, DeltaShape DEF Apply
        <5> QED
          BY <4>2, <5>1 DEF BalanceAfter
      <4>4. CASE a \in {call[r].from, call[r].to}
        <5>0. PICK n \in Nat : n = Len(hist[a])
          BY <4>1
        <5>1. hist'[a] = Append(hist[a], Row(r, a))
          BY <2>2, <3>2, <4>4 DEF Apply
        <5>2. /\ Row(r, a).amt = d(a)
              /\ Row(r, a).after = bal[a] + d(a)
              /\ Row(r, a) \in HistRow
          BY <3>2, <4>1 DEF Row, HistRow
        <5>3. /\ Len(hist'[a]) = n + 1
              /\ \A i \in 1..n : hist'[a][i] = hist[a][i]
              /\ hist'[a][n + 1] = Row(r, a)
          BY <4>1, <5>0, <5>1, <5>2
        <5>4. \A i \in 0..n : BalanceAfter(a, i)' = BalanceAfter(a, i)
          BY <5>3 DEF BalanceAfter
        <5>5. BalanceAfter(a, n + 1)' = bal[a] + d(a)
          BY <5>2, <5>3 DEF BalanceAfter
        <5>6. ASSUME NEW i \in 1..(n + 1)
              PROVE  hist'[a][i].after = BalanceAfter(a, i - 1)' + hist'[a][i].amt
          <6>1. CASE i \in 1..n
            BY <4>2, <5>0, <5>3, <5>4, <6>1
          <6>2. CASE i = n + 1
            BY <4>2, <5>0, <5>2, <5>3, <5>4, <6>2
          <6> QED
            BY <5>6, <6>1, <6>2
        <5>7. BalanceAfter(a, Len(hist[a]))' = BalanceAfter(a, n + 1)'
          BY <5>3 DEF BalanceAfter
        <5> QED
          BY <4>1, <5>3, <5>5, <5>6, <5>7
      <4> QED
        BY <4>3, <4>4
    <3> QED
      BY <3>2 DEF HistoryRuns
  <2> QED
    BY <2>1, <2>2, StepPostsOrNot
<1> QED
  BY <1>1, <1>2, TypeCorrect, PTL DEF Spec

-----------------------------------------------------------------------------
(* What customers are told, the history rows of a payment, and who spends. *)

\* The inductive invariant of BankMoney holds in every reachable state: the
\* types, what was accepted, who holds which row, which statements a call
\* has, what is covered, and which keys are spoken for.
THEOREM Inductive == Spec => []IInv
BY TypeCorrect, Locking, Covered, KeysPayOnce, PTL DEF IInv

-----------------------------------------------------------------------------
(* Answers.                                                                *)

\* A request about to reply has posted its call, and nobody is answered
\* before the end.
ReplyInv ==
  \A r \in Request :
    /\ pc[r] = "reply" => posted[r] = call[r]
    /\ pc[r] # "done" => answer[r] = "none"

\* Payments are not taken back.
LEMMA PostedStays ==
  ASSUME TypeOK, AcceptedInv, CallInv, [Next]_vars, NEW s \in Request,
         posted[s] # NoPosting
  PROVE  posted'[s] = posted[s]
<1>1. ASSUME NEW r \in Request, pc[r] = "commit", Apply(r)
      PROVE  posted'[s] = posted[s]
  <2>1. posted[r] = NoPosting /\ posted' = [posted EXCEPT ![r] = call[r]]
    BY <1>1 DEF CallInv, InFlight, Apply
  <2> QED
    BY <2>1 DEF TypeOK
<1> QED
  BY <1>1, StepPostsOrNot

\* A customer who reads "posted" has a payment, one who reads "replayed" has
\* the payment of the same key, and whoever is refused has paid nothing.
THEOREM AnswersTrue == Spec => [](ReplyInv /\ AnswersAreTrue)
<1>1. Init => ReplyInv /\ AnswersAreTrue
  BY DEF Init, ReplyInv, AnswersAreTrue
<1>2. /\ TypeOK /\ AcceptedInv /\ CallInv /\ ReplyInv /\ AnswersAreTrue
      /\ [Next]_vars
      => ReplyInv' /\ AnswersAreTrue'
  <2> SUFFICES ASSUME TypeOK, AcceptedInv, CallInv, ReplyInv, AnswersAreTrue,
                      [Next]_vars, NEW r \in Request
               PROVE  /\ pc'[r] = "reply" => posted'[r] = call'[r]
                      /\ pc'[r] # "done" => answer'[r] = "none"
                      /\ answer'[r] = "posted" => posted'[r] = call'[r]
                      /\ answer'[r] = "replayed" => PostedWithKey(call[r])' # {}
                      /\ answer'[r] \in {"replayed", "refused", "insufficient"}
                           => posted'[r] = NoPosting
    BY DEF ReplyInv, AnswersAreTrue
  <2>1. PostedWithKey(call[r]) # {} /\ call'[r] = call[r]
          => PostedWithKey(call[r])' # {}
    BY PostedStays DEF PostedWithKey
  <2>2. /\ pc[r] = "reply" => posted[r] = call[r]
        /\ pc[r] # "done" => answer[r] = "none"
        /\ answer[r] = "posted" => posted[r] = call[r]
        /\ answer[r] = "replayed" => PostedWithKey(call[r]) # {}
        /\ answer[r] \in {"replayed", "refused", "insufficient"}
             => posted[r] = NoPosting
    BY DEF ReplyInv, AnswersAreTrue
  <2>3. posted[r] = NoPosting \/ pc[r] \in {"reply", "done"}
    BY DEF CallInv, InFlight
  <2>4. ASSUME UNCHANGED <<posted, pc, call, answer>>
        PROVE  /\ pc'[r] = pc[r] /\ answer'[r] = answer[r] /\ call'[r] = call[r]
               /\ posted'[r] = posted[r]
    BY <2>4
  <2>5. CASE pc'[r] = pc[r] /\ answer'[r] = answer[r] /\ call'[r] = call[r]
             /\ posted'[r] = posted[r]
    BY <2>1, <2>2, <2>5
  <2>6. ASSUME NEW c \in Call, Refuse(r, c) \/ Accept(r, c)
        PROVE  \/ /\ answer'[r] = "none" /\ pc'[r] # "reply"
               \/ answer'[r] = "refused" /\ pc'[r] = "done"
                  /\ posted'[r] = NoPosting
    BY <2>2, <2>3, <2>6
       DEF Refuse, Accept, Finish, Goto, FirstStatement, moneyVars, TypeOK
  <2>7. ASSUME Handle(r)
        PROVE  \/ answer'[r] = "none" /\ pc'[r] # "reply"
               \/ /\ answer'[r] = "insufficient" /\ pc'[r] = "done"
                  /\ posted'[r] = NoPosting
               \/ /\ answer'[r] = "error" /\ pc'[r] = "done"
               \/ /\ answer'[r] = "replayed" /\ pc'[r] = "done"
                  /\ posted'[r] = NoPosting /\ call'[r] = call[r]
                  /\ PostedWithKey(call[r]) # {}
               \/ /\ answer'[r] \in {"none", "posted"} /\ posted'[r] = call'[r]
                  /\ answer'[r] = "none" \/ pc'[r] = "done"
    <3>1. CASE LookUpKey(r)
      BY <2>2, <2>3, <3>1 DEF LookUpKey, Finish, Goto, moneyVars, TypeOK
    <3>2. CASE RaceRead(r)
      BY <2>2, <2>3, <3>2 DEF RaceRead, Finish, Goto, moneyVars, TypeOK
    <3>3. CASE Debit(r)
      BY <2>2, <2>3, <3>3 DEF Debit, Finish, Goto, TypeOK
    <3>4. CASE Credit(r) \/ Record(r)
      BY <2>2, <3>4 DEF Credit, Record, Goto, TypeOK
    <3>5. CASE Commit(r)
      BY <2>2, <3>5 DEF Commit, Apply, Goto, TypeOK
    <3>6. CASE Reply(r)
      BY <2>2, <3>6 DEF Reply, Finish, moneyVars, TypeOK
    <3>7. CASE Conflict(r)
      BY <2>2, <2>3, <3>7 DEF Conflict, Finish, moneyVars, TypeOK
    <3>8. CASE DeadlockVictim(r)
      BY <2>2, <3>8 DEF DeadlockVictim, Finish, TypeOK
    <3> QED
      BY <2>7, <3>1, <3>2, <3>3, <3>4, <3>5, <3>6, <3>7, <3>8 DEF Handle
  <2>8. ASSUME ConnectionLost(r) PROVE answer'[r] = "error" /\ pc'[r] = "done"
    BY <2>8 DEF ConnectionLost, Finish, TypeOK
  <2>9. ASSUME ServerStops
        PROVE  \/ answer'[r] = "lost" /\ pc'[r] = "done"
               \/ /\ pc'[r] = pc[r] /\ answer'[r] = answer[r]
                  /\ call'[r] = call[r] /\ posted'[r] = posted[r]
    BY <2>9 DEF ServerStops, TypeOK
  <2>10. ASSUME NEW s \in Request, s # r,
                \/ \E c \in Call : Refuse(s, c) \/ Accept(s, c)
                \/ Handle(s) \/ ConnectionLost(s)
         PROVE  /\ pc'[r] = pc[r] /\ answer'[r] = answer[r]
                /\ call'[r] = call[r] /\ posted'[r] = posted[r]
    BY <2>10 DEF Refuse, Accept, Handle, LookUpKey, RaceRead, Debit, Credit,
         Record, Commit, Reply, Conflict, DeadlockVictim, ConnectionLost,
         RollBack, Apply, Finish, Goto, moneyVars, TypeOK
  <2>11. CASE UNCHANGED vars
    BY <2>4, <2>5, <2>11 DEF vars
  <2> QED
    BY <2>1, <2>5, <2>6, <2>7, <2>8, <2>9, <2>10, <2>11 DEF Next
<1> QED
  BY <1>1, <1>2, TypeCorrect, Locking, PTL DEF Spec

-----------------------------------------------------------------------------
(* History rows.                                                           *)

\* What posting r's call does to the history of an account: one row more on
\* the accounts it touches.
LEMMA PostingAddsRows ==
  ASSUME TypeOK, AcceptedInv, CallInv, NEW r \in Request, pc[r] = "commit",
         Apply(r), NEW a \in Account
  PROVE  /\ call[r] \in Call /\ Accepts(call[r]) /\ call[r] # NoPosting
         /\ posted[r] = NoPosting
         /\ posted' = [posted EXCEPT ![r] = call[r]]
         /\ Len(hist[a]) \in Nat
         /\ a \notin {call[r].from, call[r].to} => hist'[a] = hist[a]
         /\ a \in {call[r].from, call[r].to}
              => /\ Len(hist'[a]) = Len(hist[a]) + 1
                 /\ \A i \in 1..Len(hist[a]) : hist'[a][i] = hist[a][i]
                 /\ hist'[a][Len(hist[a]) + 1].by = r
                 /\ hist'[a][Len(hist[a]) + 1].amt
                      = (IF a = call[r].from THEN -call[r].amt ELSE call[r].amt)
<1>1. call[r] \in Call /\ Accepts(call[r]) /\ call[r] # NoPosting
  BY UnderWay, CallShape DEF InFlight
<1>2. posted[r] = NoPosting /\ posted' = [posted EXCEPT ![r] = call[r]]
  BY DEF CallInv, InFlight, Apply
<1>3. hist[a] \in Seq(HistRow) /\ bal[a] \in Int
  BY DEF TypeOK, HistRow
<1>4. Len(hist[a]) \in Nat
  BY <1>3
<1>5. a \notin {call[r].from, call[r].to} => hist'[a] = hist[a]
  BY DEF Apply
<1>6. ASSUME a \in {call[r].from, call[r].to}
      PROVE  /\ Len(hist'[a]) = Len(hist[a]) + 1
             /\ \A i \in 1..Len(hist[a]) : hist'[a][i] = hist[a][i]
             /\ hist'[a][Len(hist[a]) + 1] = Row(r, a)
             /\ Row(r, a).by = r /\ Row(r, a).amt = Ledger!Delta(call[r], a)
  <2>1. hist'[a] = Append(hist[a], Row(r, a))
    BY <1>6 DEF Apply
  <2>2. Row(r, a) \in HistRow
    BY <1>1, <1>3, DeltaShape DEF Row, HistRow
  <2>3. Row(r, a).by = r /\ Row(r, a).amt = Ledger!Delta(call[r], a)
    BY DEF Row
  <2> QED
    BY <1>3, <2>1, <2>2, <2>3
<1>7. a \in {call[r].from, call[r].to}
        => Ledger!Delta(call[r], a)
             = (IF a = call[r].from THEN -call[r].amt ELSE call[r].amt)
  BY <1>1, DeltaShape
<1> QED
  BY <1>1, <1>2, <1>4, <1>5, <1>6, <1>7

\* The rows of one request in one account are finitely many.
LEMMA RowsFinite ==
  ASSUME TypeOK, NEW a \in Account, NEW r \in Request
  PROVE  /\ IsFiniteSet(RowsOf(a, r))
         /\ Cardinality(RowsOf(a, r)) = 0 <=> RowsOf(a, r) = {}
         /\ RowsOf(a, r) \subseteq 1..Len(hist[a])
<1>1. Len(hist[a]) \in Nat
  BY DEF TypeOK
<1>2. IsFiniteSet(1..Len(hist[a]))
  BY <1>1, FS_Interval
<1>3. RowsOf(a, r) \in SUBSET (1..Len(hist[a]))
  BY DEF RowsOf
<1>4. IsFiniteSet(RowsOf(a, r))
  BY <1>2, <1>3, FS_Subset
<1> QED
  BY <1>3, <1>4, FS_EmptySet

\* A payment has one row, with its amount, in each account it touches, and
\* no row stands without its payment.
THEOREM RowsMatch == Spec => []PaymentsHaveTheirRows
<1>1. Init => PaymentsHaveTheirRows
  <2> SUFFICES ASSUME Init, NEW r \in Request, NEW a \in Account
               PROVE  /\ posted[r] = NoPosting
                      /\ RowsOf(a, r) = {} /\ Cardinality(RowsOf(a, r)) = 0
    BY DEF PaymentsHaveTheirRows
  <2>1. posted[r] = NoPosting /\ RowsOf(a, r) = {}
    BY DEF Init, RowsOf
  <2> QED
    BY <2>1, FS_EmptySet
<1>2. /\ TypeOK /\ TypeOK' /\ AcceptedInv /\ CallInv /\ PaymentsHaveTheirRows
      /\ [Next]_vars
      => PaymentsHaveTheirRows'
  <2> SUFFICES ASSUME TypeOK, TypeOK', AcceptedInv, CallInv,
                      PaymentsHaveTheirRows, [Next]_vars
               PROVE  PaymentsHaveTheirRows'
    OBVIOUS
  <2>1. CASE UNCHANGED <<bal, hist, posted>>
    <3>1. \A r \in Request, a \in Account : RowsOf(a, r)' = RowsOf(a, r)
      BY <2>1 DEF RowsOf
    <3> QED
      BY <2>1, <3>1 DEF PaymentsHaveTheirRows
  <2>2. ASSUME NEW r \in Request, pc[r] = "commit", Apply(r)
        PROVE  PaymentsHaveTheirRows'
    <3> SUFFICES ASSUME NEW s \in Request, NEW a \in Account
                 PROVE  (LET c == posted[s]
                             touched == c # NoPosting /\ a \in {c.from, c.to}
                         IN /\ Cardinality(RowsOf(a, s))
                                 = IF touched THEN 1 ELSE 0
                            /\ \A i \in RowsOf(a, s) :
                                 hist[a][i].amt
                                   = IF a = c.from THEN -c.amt ELSE c.amt)'
      BY DEF PaymentsHaveTheirRows
    <3> DEFINE n == Len(hist[a])
               c == call[r]
    <3>1. (LET d == posted[s]
               touched == d # NoPosting /\ a \in {d.from, d.to}
           IN /\ Cardinality(RowsOf(a, s)) = IF touched THEN 1 ELSE 0
              /\ \A i \in RowsOf(a, s) :
                   hist[a][i].amt = IF a = d.from THEN -d.amt ELSE d.amt)
      BY DEF PaymentsHaveTheirRows
    <3>2. /\ c \in Call /\ c # NoPosting /\ posted[r] = NoPosting
          /\ posted' = [posted EXCEPT ![r] = c] /\ n \in Nat
          /\ a \notin {c.from, c.to} => hist'[a] = hist[a]
          /\ a \in {c.from, c.to}
               => /\ Len(hist'[a]) = n + 1
                  /\ \A i \in 1..n : hist'[a][i] = hist[a][i]
                  /\ hist'[a][n + 1].by = r
                  /\ hist'[a][n + 1].amt
                       = (IF a = c.from THEN -c.amt ELSE c.amt)
      BY <2>2, PostingAddsRows
    <3>3. posted'[r] = c /\ (s # r => posted'[s] = posted[s])
      BY <3>2 DEF TypeOK
    <3>4. s = r => RowsOf(a, s) = {}
      BY <3>1, <3>2, RowsFinite
    <3>5. CASE a \notin {c.from, c.to}
      <4>1. RowsOf(a, s)' = RowsOf(a, s) /\ hist'[a] = hist[a]
        BY <3>2, <3>5 DEF RowsOf
      <4>2. CASE s # r
        BY <3>1, <3>3, <4>1, <4>2
      <4>3. CASE s = r
        BY <3>2, <3>3, <3>4, <3>5, <4>1, <4>3, FS_EmptySet
      <4> QED
        BY <4>2, <4>3
    <3>6. CASE a \in {c.from, c.to}
      <4>1. \A i \in 1..(n + 1) : i \in 1..n \/ i = n + 1
        BY <3>2
      <4>2. CASE s # r
        <5>1. RowsOf(a, s)' = RowsOf(a, s)
          BY <3>2, <3>6, <4>1, <4>2 DEF RowsOf
        <5>2. \A i \in RowsOf(a, s) : hist'[a][i] = hist[a][i]
          BY <3>2, <3>6, RowsFinite
        <5> QED
          BY <3>1, <3>3, <4>2, <5>1, <5>2
      <4>3. CASE s = r
        <5>1. RowsOf(a, r)' = {n + 1}
          <6>1. \A i \in 1..n : hist'[a][i].by # r
            BY <3>2, <3>4, <3>6, <4>3 DEF RowsOf
          <6> QED
            BY <3>2, <3>6, <4>1, <6>1 DEF RowsOf
        <5>2. Cardinality(RowsOf(a, r)') = 1
          BY <5>1, FS_Singleton
        <5> QED
          BY <3>2, <3>3, <3>6, <4>3, <5>1, <5>2
      <4> QED
        BY <4>2, <4>3
    <3> QED
      BY <3>5, <3>6
  <2> QED
    BY <2>1, <2>2, StepPostsOrNot
<1> QED
  BY <1>1, <1>2, TypeCorrect, Locking, PTL DEF Spec

-----------------------------------------------------------------------------
(* Who spends.                                                             *)

\* Money leaves an account by its owner's own requests, and a demo account
\* never has a row.
THEOREM OwnersSpend == Spec => []OnlyOwnersSpend
<1>1. Init => OnlyOwnersSpend
  BY DEF Init, OnlyOwnersSpend
<1>2. /\ TypeOK /\ AcceptedInv /\ CallInv /\ PaymentsHaveTheirRows
      /\ OnlyOwnersSpend /\ [Next]_vars
      => OnlyOwnersSpend'
  <2> SUFFICES ASSUME TypeOK, AcceptedInv, CallInv, PaymentsHaveTheirRows,
                      OnlyOwnersSpend, [Next]_vars
               PROVE  OnlyOwnersSpend'
    OBVIOUS
  <2>1. ASSUME NEW a \in Account, NEW i \in 1..Len(hist[a])
        PROVE  hist[a][i].by \in Request /\ call'[hist[a][i].by] = call[hist[a][i].by]
    <3>0. hist[a] \in Seq(HistRow)
      BY <2>1 DEF TypeOK, HistRow
    <3>1. hist[a][i] \in HistRow
      BY <2>1, <3>0
    <3>2. hist[a][i].by \in Request
      BY <3>1 DEF HistRow
    <3>3. PICK r \in Request : r = hist[a][i].by
      BY <3>2
    <3>4. i \in RowsOf(a, r)
      BY <2>1, <3>3 DEF RowsOf
    <3>5. posted[r] # NoPosting
      BY <3>4, RowsFinite DEF PaymentsHaveTheirRows
    <3>6. pc[r] # "idle"
      BY <3>5 DEF CallInv
    <3>7. call'[r] = call[r]
      BY <3>6 DEF Next, vars, Refuse, Accept, Handle, LookUpKey, RaceRead,
           Debit, Credit, Record, Commit, Reply, Conflict, DeadlockVictim,
           ConnectionLost, ServerStops, TypeOK
    <3> QED
      BY <3>3, <3>7
  <2>2. CASE UNCHANGED <<bal, hist, posted>>
    BY <2>1, <2>2 DEF OnlyOwnersSpend
  <2>3. ASSUME NEW r \in Request, pc[r] = "commit", Apply(r), UNCHANGED call
        PROVE  OnlyOwnersSpend'
    <3> SUFFICES ASSUME NEW a \in Account, NEW i \in 1..Len(hist'[a])
                 PROVE  /\ hist'[a][i].amt < 0
                             => call[hist'[a][i].by].user = Owner[a]
                        /\ Owner[a] \notin Demo
      BY <2>3 DEF OnlyOwnersSpend
    <3> DEFINE n == Len(hist[a])
               c == call[r]
    <3>1. /\ c \in Call /\ Accepts(c) /\ n \in Nat
          /\ a \notin {c.from, c.to} => hist'[a] = hist[a]
          /\ a \in {c.from, c.to}
               => /\ Len(hist'[a]) = n + 1
                  /\ \A j \in 1..n : hist'[a][j] = hist[a][j]
                  /\ hist'[a][n + 1].by = r
                  /\ hist'[a][n + 1].amt
                       = (IF a = c.from THEN -c.amt ELSE c.amt)
      BY <2>3, PostingAddsRows
    <3>2. CASE hist'[a] = hist[a]
      BY <3>2 DEF OnlyOwnersSpend
    <3>3. CASE a \in {c.from, c.to} /\ i \in 1..n
      BY <3>1, <3>3 DEF OnlyOwnersSpend
    <3>4. CASE a \in {c.from, c.to} /\ i = n + 1
      <4>1. /\ c.amt \in Int /\ c.amt > 0 /\ c.user \notin Demo
            /\ c.kind \in Kinds
            /\ c.kind = "deposit" <=> c.from = None
            /\ c.kind = "bill" <=> c.to = None
            /\ None \notin Account
        BY <3>1, CallShape, BankAssumption DEF Accepts
      <4>2. a = c.from => Owner[a] = c.user
        BY <3>1, <4>1 DEF Accepts
      <4>3. a = c.to => Owner[a] \notin Demo
        BY <3>1, <4>1 DEF Accepts, Kinds
      <4>4. hist'[a][i].amt < 0 => a = c.from
        BY <3>1, <3>4, <4>1
      <4> QED
        BY <3>1, <3>4, <4>1, <4>2, <4>3, <4>4
    <3> QED
      BY <3>1, <3>2, <3>3, <3>4
  <2> QED
    BY <2>2, <2>3, StepPostsOrNot
<1> QED
  BY <1>1, <1>2, TypeCorrect, Locking, RowsMatch, PTL DEF Spec

-----------------------------------------------------------------------------

\* Everything the books of the bank owe: no overdraft, histories that run,
\* payments with their rows, keys that pay once, answers that are true, and
\* money spent by its owner alone.
THEOREM BooksRight == Spec => []BooksAreRight
BY NeverOverdrawn, HistoriesRun, RowsMatch, KeysPayOnce, AnswersTrue,
   OwnersSpend, PTL DEF BooksAreRight
=============================================================================
