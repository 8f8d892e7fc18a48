----------------------------- MODULE DeskProofs -------------------------------
(***************************************************************************)
(* Theorems about BankDesk, for any scenes the routes let through: any     *)
(* number of requests of any kinds, customers, accounts and rows: the      *)
(* shapes of a step, the types, the order of requests, and what is done    *)
(* once and told (OnceInv); what the desk allows and stops (RuleInv); and  *)
(* its books, what each account and each holding has in it being what it   *)
(* had at first and what requests have done to it (BookInv).               *)
(***************************************************************************)
EXTENDS BankDesk, FiniteSetTheorems, TLAPS

-----------------------------------------------------------------------------
(* The shapes of a step.                                                   *)

Moving == Statements \ {"idle", "over"}

\* The request goes on, with one row more or none.
GoesOn(r) ==
  \E step \in Moving :
    /\ Goto(r, step) /\ Unchanged(r)
    /\ UNCHANGED lock \/ \E row \in Row : Take(row, r)

\* The request is over, with nothing written.
Fails(r) == \E a : Refuse(r, a)

\* The request has done what it came for.
Acts(r) == \E money, told : money \in [Account -> Int] /\ Commit(r, money, told)

\* A purchase is declined, and the bank has frozen a card it is yet to tell of.
Declines(r) == Kind(r) = "charge" /\ \E a : Decline(r, a)
Freezes(r) ==
  /\ Kind(r) = "adminCard" /\ Goto(r, "tell")
  /\ outcome' = [outcome EXCEPT ![r] = "done"]
  /\ UNCHANGED <<bal, lock, call, notices, before>>

Shapes(r) == GoesOn(r) \/ Fails(r) \/ Acts(r) \/ Declines(r) \/ Freezes(r)

CardKinds == {"createCard", "setCard", "adminCard", "charge"}
AskKinds == {"ask", "pay", "transfer", "decline", "cancel"}
LoanKinds == {"loan", "decide"}
TicketKinds == {"openTicket", "reply", "solve"}
TradeKinds == {"trade", "send", "swap"}
AccessKinds ==
  {"login", "register", "setStatus", "open", "newKey", "revoke", "useKey",
   "visit", "logout", "endOthers"}

\* A request in a table of calls has the form its family gives it.
LEMMA CallForms ==
  ASSUME DeskTypeOK, NEW r \in Request
  PROVE  /\ CardCall(call[r]) /\ AskCall(call[r]) /\ LoanCall(call[r])
         /\ TicketCall(call[r]) /\ TradeCall(call[r]) /\ AccessCall(call[r])
BY PlanAssumption DEF DeskTypeOK

\* A move of money is a function on accounts, changed in one place or nowhere.
LEMMA Moneys ==
  /\ NoMoney \in [Account -> Int]
  /\ \A a : \A n \in Int : [NoMoney EXCEPT ![a] = n] \in [Account -> Int]
<1>1. NoMoney \in [Account -> Int]  BY DEF NoMoney
<1>2. ASSUME NEW a, NEW n \in Int  PROVE [NoMoney EXCEPT ![a] = n] \in [Account -> Int]
  BY <1>1
<1> QED  BY <1>1, <1>2

\* Every step of a card request has one of the shapes of a step.
LEMMA CardShapes ==
  ASSUME TypeOK, NEW r \in Request, CardStep(r)
  PROVE  Kind(r) \in CardKinds /\ InFlight(r) /\ Shapes(r)
<1> USE DEF CardKinds, Moving, Statements, At, InFlight
<1>0. DeskTypeOK /\ CardCall(call[r])  BY CallForms DEF TypeOK
<1>1. CASE CreateCard(r)
  BY <1>1, Moneys DEF CreateCard, Shapes, Fails, Acts
<1>2. CASE ReadCard(r)
  BY <1>2 DEF ReadCard, Shapes, Fails, GoesOn, Read
<1>3. CASE UpdateCard(r)
  BY <1>3, Moneys DEF UpdateCard, Shapes, Freezes, Acts
<1>4. CASE TellCard(r)
  BY <1>4, Moneys DEF TellCard, Shapes, Acts
<1>5. CASE ReadStatus(r)
  BY <1>5 DEF ReadStatus, Shapes, Fails, Declines, GoesOn, Read
<1>6. CASE SumSpent(r)
  BY <1>6 DEF SumSpent, Shapes, Fails, Declines, GoesOn, Read
<1>7. CASE DebitCard(r)
  <2>1. CardOf[call[r].card] \in Row
    BY <1>0, <1>7, CardAssumption, DeskAssumption DEF DebitCard, CardCall, Kind
  <2> QED  BY <1>7, <2>1 DEF DebitCard, Debit, Shapes, Declines, GoesOn
<1>8. CASE CommitCharge(r)
  <2>1. -call[r].amt \in Int  BY <1>0, <1>8 DEF CommitCharge, CardCall, Kind
  <2>2. [NoMoney EXCEPT ![CardOf[call[r].card]] = -call[r].amt] \in [Account -> Int]
    BY <2>1, Moneys
  <2> QED  BY <1>8, <2>2 DEF CommitCharge, Shapes, Acts
<1> QED  BY <1>1, <1>2, <1>3, <1>4, <1>5, <1>6, <1>7, <1>8 DEF CardStep

\* What a paid request or a transfer moves is a whole amount between two accounts.
LEMMA MovedType ==
  ASSUME NEW r \in Request, AskCall(call[r]), Kind(r) \in {"pay", "transfer"}
  PROVE  /\ From(r) \in Account /\ Into(r) \in Account /\ Amount(r) \in Nat \ {0}
         /\ Moved(r) \in [Account -> Int]
<1>1. From(r) \in Account  BY DEF From, AskCall, Kind
<1>2. Into(r) \in Account /\ Amount(r) \in Nat \ {0}
  BY AskAssumption DEF Into, Amount, AskCall, Kind
<1>3. Moved(r) \in [Account -> Int]  BY <1>2 DEF Moved
<1> QED  BY <1>1, <1>2, <1>3

\* Every step of a money request or a transfer has one of the shapes of a step.
LEMMA AskShapes ==
  ASSUME TypeOK, NEW r \in Request, AskStep(r)
  PROVE  Kind(r) \in AskKinds /\ InFlight(r) /\ Shapes(r)
<1> USE DEF AskKinds, Moving, Statements, At, InFlight
<1>0. DeskTypeOK /\ AskCall(call[r])  BY CallForms DEF TypeOK
<1>1. CASE CountPending(r)
  BY <1>1 DEF CountPending, Shapes, Fails, GoesOn, Read
<1>2. CASE InsertAsk(r)
  BY <1>2, Moneys DEF InsertAsk, Shapes, Acts
<1>3. CASE Claim(r)
  <2>1. call[r].ask \in Row  BY <1>0, <1>3, AskAssumption DEF Claim, AskCall, Kind
  <2> QED  BY <1>3, <2>1 DEF Claim, Shapes, Fails, GoesOn
<1>4. CASE LookUpKey(r)
  BY <1>4 DEF LookUpKey, Shapes, Fails, GoesOn, Read
<1>5. CASE DebitPayer(r)
  <2>1. From(r) \in Row  BY <1>0, <1>5, MovedType, DeskAssumption DEF DebitPayer
  <2> QED  BY <1>5, <2>1 DEF DebitPayer, Debit, Shapes, Fails, GoesOn
<1>6. CASE CreditPayee(r)
  <2>1. Into(r) \in Row  BY <1>0, <1>6, MovedType, DeskAssumption DEF CreditPayee
  <2> QED  BY <1>6, <2>1 DEF CreditPayee, Credit, Shapes, Fails, GoesOn
<1>7. CASE RecordTransfer(r)
  BY <1>7 DEF RecordTransfer, Shapes, Fails, GoesOn
<1>8. CASE CommitTransfer(r)
  <2>1. Moved(r) \in [Account -> Int]  BY <1>0, <1>8, MovedType DEF CommitTransfer
  <2> QED  BY <1>8, <2>1 DEF CommitTransfer, Shapes, Acts
<1>9. CASE CommitPay(r)
  <2>1. Moved(r) \in [Account -> Int]  BY <1>0, <1>9, MovedType DEF CommitPay
  <2> QED  BY <1>9, <2>1 DEF CommitPay, Shapes, Acts
<1>10. CASE DeclineAsk(r)
  BY <1>10, Moneys DEF DeclineAsk, Shapes, Fails, Acts
<1>11. CASE CancelAsk(r)
  BY <1>11, Moneys DEF CancelAsk, Shapes, Fails, Acts
<1> QED
  BY <1>1, <1>2, <1>3, <1>4, <1>5, <1>6, <1>7, <1>8, <1>9, <1>10, <1>11 DEF AskStep

\* Every step of a loan request has one of the shapes of a step.
LEMMA LoanShapes ==
  ASSUME TypeOK, NEW r \in Request, LoanStep(r)
  PROVE  Kind(r) \in LoanKinds /\ InFlight(r) /\ Shapes(r)
<1> USE DEF LoanKinds, Moving, Statements, At, InFlight
<1>0. DeskTypeOK /\ LoanCall(call[r])  BY CallForms DEF TypeOK
<1>1. CASE CountLoans(r)
  BY <1>1 DEF CountLoans, Shapes, Fails, GoesOn, Read
<1>2. CASE InsertLoan(r)
  BY <1>2, Moneys DEF InsertLoan, Shapes, Acts
<1>3. CASE LockLoan(r)
  <2>1. call[r].loan \in Row  BY <1>0, <1>3, LoanAssumption DEF LockLoan, LoanCall, Kind
  <2> QED  BY <1>3, <2>1 DEF LockLoan, Shapes, Fails, GoesOn
<1>4. CASE Fund(r)
  <2>1. LoanInto[call[r].loan] \in Row
    BY <1>0, <1>4, LoanAssumption, DeskAssumption DEF Fund, LoanCall, Kind
  <2> QED  BY <1>4, <2>1 DEF Fund, Credit, Shapes, GoesOn
<1>5. CASE CommitDecision(r)
  <2> DEFINE n == IF call[r].approve THEN LoanAmt[call[r].loan] ELSE 0
  <2>1. n \in Int  BY <1>0, <1>5, LoanAssumption DEF CommitDecision, LoanCall, Kind
  <2>2. [NoMoney EXCEPT ![LoanInto[call[r].loan]] = n] \in [Account -> Int]
    BY <2>1, Moneys
  <2> QED  BY <1>5, <2>2 DEF CommitDecision, Shapes, Acts
<1> QED  BY <1>1, <1>2, <1>3, <1>4, <1>5 DEF LoanStep

\* Every step of a support request has one of the shapes of a step.
LEMMA TicketShapes ==
  ASSUME TypeOK, NEW r \in Request, TicketStep(r)
  PROVE  Kind(r) \in TicketKinds /\ InFlight(r) /\ Shapes(r)
<1> USE DEF TicketKinds, Moving, Statements, At, InFlight
<1>1. CASE OpenTicket(r)
  BY <1>1, Moneys DEF OpenTicket, Shapes, Acts
<1>2. CASE InsertMessage(r)
  BY <1>2 DEF InsertMessage, Shapes, GoesOn, Read
<1>3. CASE SetStatus(r)
  BY <1>3, Moneys DEF SetStatus, Shapes, Acts
<1>4. CASE CheckSolved(r)
  BY <1>4 DEF CheckSolved, Shapes, Fails, GoesOn, Read
<1>5. CASE Solve(r)
  BY <1>5, Moneys DEF Solve, Shapes, Acts
<1> QED  BY <1>1, <1>2, <1>3, <1>4, <1>5 DEF TicketStep

\* A trade follows a quote: it buys or sells one holding, never both.
LEMMA QuoteType ==
  ASSUME NEW r \in Request, TradeCall(call[r]), Kind(r) = "trade"
  PROVE  /\ call[r].quote \in Quote /\ call[r].account \in Account
         /\ QuoteFor[call[r].quote].holding \in Holding
         /\ QuoteFor[call[r].quote].atoms \in Nat \ {0} /\ Net(r) \in Nat
         /\ Buys(r) \/ Sells(r)
         /\ ~(Buys(r) /\ Sells(r))
BY TradeAssumption DEF TradeCall, Kind, Net, Buys, Sells

\* What a trade, send or swap takes from a wallet and brings to one.
LEMMA HoldingType ==
  ASSUME NEW r \in Request, TradeCall(call[r]), Kind(r) \in TradeKinds
  PROVE  /\ ~Buys(r) => Source(r) \in Holding /\ AtomsOut(r) \in Nat \ {0}
         /\ ~Sells(r) => Target(r) \in Holding /\ AtomsIn(r) \in Nat \ {0}
<1>1. CASE Kind(r) = "trade"
  <2>1. /\ QuoteFor[call[r].quote].holding \in Holding
        /\ QuoteFor[call[r].quote].atoms \in Nat \ {0}
        /\ Buys(r) \/ Sells(r)
    BY <1>1, QuoteType
  <2> QED  BY <2>1 DEF Source, AtomsOut, Target, AtomsIn
<1>2. CASE Kind(r) \in {"send", "swap"}
  <2>1. /\ call[r].source \in Holding /\ call[r].target \in Holding
        /\ call[r].atoms \in Nat \ {0} /\ call[r].lands \in Nat \ {0}
    BY <1>2 DEF TradeCall, Kind
  <2>2. ~Buys(r) /\ ~Sells(r)  BY <1>2 DEF Buys, Sells
  <2> QED  BY <2>1, <2>2 DEF Source, AtomsOut, Target, AtomsIn
<1> QED  BY <1>1, <1>2 DEF TradeKinds

\* Every step of a trade, send or swap has one of the shapes of a step.
LEMMA TradeShapes ==
  ASSUME TypeOK, SidesOK, NEW r \in Request, TradeStep(r)
  PROVE  Kind(r) \in TradeKinds /\ InFlight(r) /\ Shapes(r)
<1> USE DEF TradeKinds, Moving, Statements, At, InFlight
<1>0. DeskTypeOK /\ TradeCall(call[r])  BY CallForms DEF TypeOK
<1>1. CASE ClaimQuote(r)
  <2>1. call[r].quote \in Row  BY <1>0, <1>1, QuoteType, TradeAssumption DEF ClaimQuote
  <2> QED  BY <1>1, <2>1 DEF ClaimQuote, Shapes, Fails, GoesOn
<1>2. CASE ReadHolding(r)
  BY <1>2 DEF ReadHolding, Reads, Shapes, GoesOn, Read
<1>3. CASE PayForCoin(r)
  <2>1. call[r].account \in Row  BY <1>0, <1>3, QuoteType, DeskAssumption DEF PayForCoin
  <2> QED  BY <1>3, <2>1 DEF PayForCoin, Debit, Shapes, Fails, GoesOn
<1>4. CASE PayOut(r)
  <2>1. call[r].account \in Row  BY <1>0, <1>4, QuoteType, DeskAssumption DEF PayOut
  <2> QED  BY <1>4, <2>1 DEF PayOut, Credit, Shapes, GoesOn
<1>5. CASE ReadSource(r)
  BY <1>5 DEF ReadSource, Reads, Shapes, GoesOn, Read
<1>6. CASE TakeCoin(r)
  <2>1. Source(r) \in Row
    BY <1>0, <1>6, HoldingType, TradeAssumption DEF TakeCoin, SidesOK
  <2>2. (IF Sells(r) THEN "payout" ELSE "look") \in Moving  OBVIOUS
  <2> QED  BY <1>6, <2>1, <2>2 DEF TakeCoin, Shapes, Fails, GoesOn
<1>7. CASE ReadTarget(r)
  BY <1>7 DEF ReadTarget, Reads, Shapes, GoesOn, Read
<1>8. CASE GiveCoin(r)
  <2>1. Target(r) \in Row
    BY <1>0, <1>8, HoldingType, TradeAssumption DEF GiveCoin, SidesOK
  <2> QED  BY <1>8, <2>1 DEF GiveCoin, Shapes, Fails, GoesOn
<1>9. CASE CommitTrade(r)
  <2> DEFINE n == (IF Buys(r) THEN -1 ELSE 1) * Net(r)
  <2>1. n \in Int  BY <1>0, <1>9, QuoteType DEF CommitTrade
  <2>2. [NoMoney EXCEPT ![call[r].account] = n] \in [Account -> Int]
    BY <2>1, Moneys
  <2> QED  BY <1>9, <2>2 DEF CommitTrade, Shapes, Acts
<1>10. CASE CommitMove(r)
  BY <1>10, Moneys DEF CommitMove, Shapes, Acts
<1> QED
  BY <1>1, <1>2, <1>3, <1>4, <1>5, <1>6, <1>7, <1>8, <1>9, <1>10 DEF TradeStep

\* Every step of a sign-in, session or key request has one of the shapes.
LEMMA AccessShapes ==
  ASSUME TypeOK, NEW r \in Request, AccessStep(r)
  PROVE  Kind(r) \in AccessKinds /\ InFlight(r) /\ Shapes(r)
<1> USE DEF AccessKinds, Moving, Statements, At, InFlight
<1>0. DeskTypeOK /\ AccessCall(call[r])  BY CallForms DEF TypeOK
<1>1. CASE CheckHold(r)  BY <1>1 DEF CheckHold, Shapes, Fails, GoesOn, Read
<1>2. CASE Verify(r)  BY <1>2 DEF Verify, Shapes, Fails, GoesOn, Read
<1>3. CASE CountFailure(r)  BY <1>3 DEF CountFailure, Shapes, Fails, GoesOn, Read
<1>4. CASE StartHold(r)  BY <1>4 DEF StartHold, Shapes, Fails
<1>5. CASE ClearHold(r)  BY <1>5 DEF ClearHold, Shapes, GoesOn, Read
<1>6. CASE OpenSession(r)  BY <1>6, Moneys DEF OpenSession, Shapes, Acts
<1>7. CASE CreateUser(r)  BY <1>7 DEF CreateUser, Shapes, Fails, GoesOn, Read
<1>8. CASE OpenStarters(r)  BY <1>8 DEF OpenStarters, Shapes, GoesOn, Read
<1>9. CASE CountAccounts(r)  BY <1>9 DEF CountAccounts, Shapes, Fails, GoesOn, Read
<1>10. CASE InsertAccount(r)  BY <1>10, Moneys DEF InsertAccount, Shapes, Acts
<1>11. CASE ReadSession(r)  BY <1>11 DEF ReadSession, Shapes, Fails, GoesOn, Read
<1>12. CASE Act(r)  BY <1>12, Moneys DEF Act, Shapes, Acts
<1>13. CASE EndSessions(r)  BY <1>13, Moneys DEF EndSessions, Shapes, Acts
<1>14. CASE WriteStatus(r)
  <2>1. UserOf(r) \in Row
    BY <1>0, <1>14, AccessAssumption DEF WriteStatus, AccessCall, UserOf, Kind
  <2> QED  BY <1>14, <2>1 DEF WriteStatus, Shapes, GoesOn
<1>15. CASE CommitStatus(r)  BY <1>15, Moneys DEF CommitStatus, Shapes, Acts
<1>16. CASE CountKeys(r)  BY <1>16 DEF CountKeys, Shapes, Fails, GoesOn, Read
<1>17. CASE InsertKey(r)  BY <1>17, Moneys DEF InsertKey, Shapes, Acts
<1>18. CASE RevokeKey(r)  BY <1>18, Moneys DEF RevokeKey, Shapes, Fails, Acts
<1>19. CASE ReadKey(r)  BY <1>19 DEF ReadKey, Shapes, Fails, GoesOn, Read
<1>20. CASE CountUse(r)  BY <1>20 DEF CountUse, Shapes, Fails, GoesOn, Read
<1> QED
  BY <1>1, <1>2, <1>3, <1>4, <1>5, <1>6, <1>7, <1>8, <1>9, <1>10, <1>11, <1>12, <1>13,
     <1>14, <1>15, <1>16, <1>17, <1>18, <1>19, <1>20 DEF AccessStep

\* Whatever serves a request is a step of its own, of one of these shapes.
LEMMA ServeShapes ==
  ASSUME TypeOK, SidesOK, NEW r \in Request, Serve(r)
  PROVE  InFlight(r) /\ Shapes(r)
BY CardShapes, AskShapes, LoanShapes, TicketShapes, TradeShapes, AccessShapes DEF Serve

-----------------------------------------------------------------------------
(* What a step leaves alone.                                               *)

\* r alone goes on; nobody else loses a row, and r keeps its own until it is over.
Frame(r) ==
  /\ InFlight(r)
  /\ UNCHANGED <<call, before>>
  /\ bal' \in [Account -> Int]
  /\ pc' \in [Request -> Statements] /\ pc'[r] # "idle"
  /\ outcome' \in [Request -> {"none", "done", "declined"}]
  /\ \A s \in Request \ {r} : pc'[s] = pc[s] /\ outcome'[s] = outcome[s]
  /\ lock' \in [Row -> Request \cup {None}]
  /\ \A row \in Row, s \in Request \ {r} : lock[row] = s => lock'[row] = s
  /\ pc'[r] # "over" => \A row \in Row : lock[row] = r => lock'[row] = r
  /\ \A n \in notices' : n.by \in Request
  /\ \A n \in notices : n \in notices'
  /\ \A n \in notices' : n \in notices \/ n.by = r

\* A request that lets go of its rows takes nobody else's row.
LEMMA LetGoFrame ==
  ASSUME DeskTypeOK, NEW r \in Request, LetGo(r)
  PROVE  /\ lock' \in [Row -> Request \cup {None}]
         /\ \A row \in Row, s \in Request \ {r} : lock[row] = s => lock'[row] = s
BY DEF DeskTypeOK, LetGo

\* A step of one of the shapes leaves every other request as it was.
LEMMA ShapeFrame ==
  ASSUME DeskTypeOK, NEW r \in Request, InFlight(r), Shapes(r)
  PROVE  /\ Frame(r)
         /\ outcome'[r] # outcome[r] =>
              \/ pc'[r] = "over"
              \/ Kind(r) = "adminCard" /\ pc'[r] = "tell"
<1> USE DEF Frame
<1>1. CASE GoesOn(r)
  <2>1. PICK step \in Moving :
          /\ Goto(r, step) /\ Unchanged(r)
          /\ UNCHANGED lock \/ \E row \in Row : Take(row, r)
    BY <1>1 DEF GoesOn
  <2>2. /\ lock' \in [Row -> Request \cup {None}]
        /\ \A row \in Row, s \in Request \ {r} : lock[row] = s => lock'[row] = s
        /\ \A row \in Row : lock[row] = r => lock'[row] = r
    BY <2>1, DeskAssumption DEF Take, Free, DeskTypeOK
  <2>3. step \in Statements /\ step # "idle"  BY DEF Moving
  <2> QED  BY <2>1, <2>2, <2>3 DEF Goto, Unchanged, DeskTypeOK
<1>2. CASE Fails(r)
  BY <1>2, LetGoFrame DEF Fails, Refuse, Finish, Unchanged, DeskTypeOK, Statements
<1>3. CASE Acts(r)
  <2>1. PICK money, told : money \in [Account -> Int] /\ Commit(r, money, told)
    BY <1>3 DEF Acts
  <2>2. bal' \in [Account -> Int]  BY <2>1 DEF Commit, DeskTypeOK
  <2> QED  BY <2>1, <2>2, LetGoFrame DEF Commit, Finish, DeskTypeOK, Statements
<1>4. CASE Declines(r)
  BY <1>4, LetGoFrame DEF Declines, Decline, Finish, DeskTypeOK, Statements
<1>5. CASE Freezes(r)
  BY <1>5 DEF Freezes, Goto, DeskTypeOK, Statements
<1> QED  BY <1>1, <1>2, <1>3, <1>4, <1>5 DEF Shapes

\* Serving a request leaves every other request as it was.
LEMMA ServeFrame ==
  ASSUME TypeOK, SidesOK, NEW r \in Request, Serve(r)
  PROVE  Frame(r)
BY ServeShapes, ShapeFrame DEF TypeOK

\* A request that breaks off ends, tells nobody and decides nothing.
LEMMA BreaksFrame ==
  ASSUME TypeOK, NEW r \in Request, Breaks(r)
  PROVE  Frame(r) /\ UNCHANGED <<outcome, notices>> /\ pc'[r] = "over"
<1>1. InFlight(r) /\ Fails(r)  BY DEF Breaks, Fails
<1>2. Frame(r)  BY <1>1, ShapeFrame DEF Shapes, TypeOK
<1> QED  BY <1>1, <1>2 DEF Fails, Refuse, Finish, Unchanged, TypeOK, DeskTypeOK

\* Every step serves a request, lets one arrive or break off, or is the
\* server's or the clock's.
Stops ==
  /\ UNCHANGED <<call, before, outcome, notices, bal>>
  /\ pc' \in [Request -> Statements]
  /\ \A r \in Request : pc'[r] = IF InFlight(r) THEN "over" ELSE pc[r]
  /\ lock' = [row \in Row |-> None]
  /\ EnsureStarters
  /\ UNCHANGED <<cardVars, askVars, loan, ticketVars, tradeVars>>

Arrives(r) ==
  /\ Begin(r) /\ HasToken(r)
  /\ UNCHANGED Tables

\* Every step serves, starts, breaks or stops a request, or is the clock's.
LEMMA StepKinds ==
  ASSUME TypeOK, SidesOK, [Next]_vars
  PROVE  \/ \E r \in Request : Serve(r) /\ Frame(r)
         \/ \E r \in Request : Arrives(r)
         \/ \E r \in Request : /\ Frame(r) /\ UNCHANGED <<outcome, notices, Tables>>
                               /\ pc'[r] = "over"
         \/ Stops
         \/ TimePasses /\ UNCHANGED <<deskVars, cardVars, askVars, loan, ticketVars, tradeVars>>
         \/ UNCHANGED vars
<1>1. CASE \E r \in Request : Serve(r)  BY <1>1, ServeFrame
<1>2. CASE (\E r \in Request : (Begin(r) /\ HasToken(r)) \/ Breaks(r)) /\ UNCHANGED Tables
  BY <1>2, BreaksFrame DEF Arrives
<1>3. CASE Restart
  <2>1. pc' \in [Request -> Statements]
    BY <1>3 DEF Restart, ServerStops, TypeOK, DeskTypeOK, Statements
  <2>2. \A r \in Request : pc'[r] = IF InFlight(r) THEN "over" ELSE pc[r]
    BY <1>3 DEF Restart, ServerStops
  <2> QED  BY <1>3, <2>1, <2>2 DEF Restart, ServerStops, Stops
<1>4. CASE TimePasses /\ UNCHANGED <<deskVars, cardVars, askVars, loan, ticketVars, tradeVars>>
  BY <1>4
<1>5. CASE UNCHANGED vars  BY <1>5
<1> QED  BY <1>1, <1>2, <1>3, <1>4, <1>5 DEF Next

-----------------------------------------------------------------------------
(* Types.                                                                  *)

\* The state every request has keeps its types.
LEMMA DeskTypes == TypeOK /\ SidesOK /\ [Next]_vars => DeskTypeOK'
<1> SUFFICES ASSUME TypeOK, SidesOK, [Next]_vars  PROVE DeskTypeOK'
  OBVIOUS
<1>0. DeskTypeOK  BY DEF TypeOK
<1>1. ASSUME NEW r \in Request, Frame(r)  PROVE DeskTypeOK'
  BY <1>0, <1>1 DEF Frame, DeskTypeOK
<1>2. ASSUME NEW r \in Request, Arrives(r)  PROVE DeskTypeOK'
  BY <1>0, <1>2 DEF Arrives, Begin, Goto, DeskTypeOK, Statements
<1>3. CASE Stops
  BY <1>0, <1>3 DEF Stops, DeskTypeOK
<1>4. CASE UNCHANGED deskVars
  BY <1>0, <1>4 DEF deskVars, DeskTypeOK
<1> QED  BY <1>1, <1>2, <1>3, <1>4, StepKinds DEF vars

CardRecord == [status : {"none", "active", "frozen"},
               by : {"nobody", "customer", "admin"}, limit : Nat]

\* A card that is changed is still a card.
LEMMA UpdatedType ==
  ASSUME NEW r \in Request, CardCall(call[r]), Kind(r) \in {"setCard", "adminCard"},
         NEW k \in CardRecord
  PROVE  Updated(r, k) \in CardRecord
<1>1. /\ call[r].status \in {None, "active", "frozen"}
      /\ call[r].limit \in Nat \cup {None}
  BY DEF CardCall, Kind
<1>2. k.status \in {"none", "active", "frozen"} /\ k.limit \in Nat
      /\ k.by \in {"nobody", "customer", "admin"}
  BY DEF CardRecord
<1> QED  BY <1>1, <1>2 DEF Updated, CardRecord

\* The cards keep their types.
LEMMA CardTypes ==
  ASSUME TypeOK, NEW r \in Request, CardStep(r)
  PROVE  CardTypeOK'
<1>0. CardTypeOK /\ CardCall(call[r])  BY CallForms DEF TypeOK
<1> DEFINE
      Kept == /\ card' = card
              /\ \/ seen' = seen
                 \/ call[r].card \in Card /\ seen' = [seen EXCEPT ![r] = card[call[r].card]]
<1>1. CASE Kept  BY <1>0, <1>1 DEF CardTypeOK
<1>2. CASE CreateCard(r)
  <2>1. NewCard \in CardRecord  BY CardAssumption DEF NewCard, CardRecord
  <2> QED  BY <1>0, <1>2, <2>1 DEF CreateCard, CardTypeOK, CardRecord
<1>3. CASE ReadCard(r)
  BY <1>0, <1>1, <1>3 DEF ReadCard, At, CardCall, Kind
<1>4. CASE UpdateCard(r)
  <2>1. call[r].card \in Card /\ Kind(r) \in {"setCard", "adminCard"}
    BY <1>0, <1>4 DEF UpdateCard, At, CardCall, Kind
  <2>2. Updated(r, card[call[r].card]) \in CardRecord
    BY <1>0, <2>1, UpdatedType DEF CardTypeOK, CardRecord
  <2> QED  BY <1>0, <1>4, <2>1, <2>2 DEF UpdateCard, CardTypeOK, CardRecord
<1>5. CASE ReadStatus(r)
  BY <1>0, <1>1, <1>5 DEF ReadStatus, At, CardCall, Kind
<1>6. CASE TellCard(r) \/ SumSpent(r) \/ DebitCard(r) \/ CommitCharge(r)
  BY <1>1, <1>6 DEF TellCard, SumSpent, DebitCard, CommitCharge, cardVars
<1> QED  BY <1>2, <1>3, <1>4, <1>5, <1>6 DEF CardStep

\* The money requests keep their types.
LEMMA AskTypes ==
  ASSUME TypeOK, NEW r \in Request, AskStep(r)
  PROVE  AskTypeOK'
<1>0. AskTypeOK /\ AskCall(call[r])  BY CallForms DEF TypeOK
<1>1. CASE UNCHANGED askVars  BY <1>0, <1>1 DEF AskTypeOK, askVars
<1>2. CASE CommitPay(r)  BY <1>0, <1>2 DEF CommitPay, AskTypeOK
<1>3. CASE InsertAsk(r) \/ DeclineAsk(r) \/ CancelAsk(r)
  BY <1>0, <1>3 DEF InsertAsk, DeclineAsk, CancelAsk, AskTypeOK
<1> QED
  BY <1>1, <1>2, <1>3 DEF AskStep, CountPending, Claim, LookUpKey, DebitPayer, CreditPayee,
                          RecordTransfer, CommitTransfer

\* The loans keep their types.
LEMMA LoanTypes ==
  ASSUME TypeOK, NEW r \in Request, LoanStep(r)
  PROVE  LoanTypeOK'
<1>0. LoanTypeOK  BY DEF TypeOK
<1> QED
  BY <1>0 DEF LoanStep, LoanTypeOK, CountLoans, InsertLoan, LockLoan, Fund, CommitDecision

\* The tickets keep their types.
LEMMA TicketTypes ==
  ASSUME TypeOK, NEW r \in Request, TicketStep(r)
  PROVE  TicketTypeOK'
<1>0. TicketTypeOK  BY DEF TypeOK
<1>1. ASSUME NEW status \in {"open", "answered", "solved"}, Becomes(r, status)
      PROVE  ticket' \in [Ticket -> {"none", "open", "answered", "solved"}]
  BY <1>0, <1>1 DEF TicketTypeOK, Becomes
<1>2. /\ \/ ticket' = ticket
         \/ \E status \in {"open", "answered", "solved"} : Becomes(r, status)
      /\ UNCHANGED messages \/ Says(r)
  BY DEF TicketStep, OpenTicket, InsertMessage, SetStatus, CheckSolved, Solve, ticketVars
<1>3. messages' \in [Ticket -> Seq(Request)]
  <2>1. call[r].ticket \in Ticket => Append(messages[call[r].ticket], r) \in Seq(Request)
    BY <1>0 DEF TicketTypeOK
  <2> QED  BY <1>0, <1>2, <2>1 DEF TicketTypeOK, Says
<1> QED  BY <1>0, <1>1, <1>2, <1>3 DEF TicketTypeOK

\* The share of a cost that goes with a part of a holding is a whole number.
LEMMA ShareType ==
  ASSUME NEW cost \in Int, NEW n \in Int, NEW qty \in Nat \ {0}
  PROVE  Share(cost, n, qty) \in Int
<1>1. 2 * cost * n + qty \in Int /\ 2 * qty \in Nat \ {0}
  <2>1. 2 * cost \in Int  OBVIOUS
  <2>2. 2 * cost * n \in Int  BY <2>1
  <2> QED  BY <2>2
<1>2. \A x \in Int, d \in Nat \ {0} : x \div d \in Int  OBVIOUS
<1> QED  BY <1>1, <1>2 DEF Share

\* A holding that gains atoms and cost is a holding.
LEMMA PlusType ==
  ASSUME NEW h \in HeldType, NEW a \in Int, NEW c \in Int
  PROVE  Plus(h, a, c) \in [atoms : Int, cost : Int]
BY DEF Plus, HeldType

\* What a trade leaves in the wallets are holdings.
LEMMA AfterType ==
  ASSUME TypeOK, NEW r \in Request, Kind(r) \in TradeKinds
  PROVE  /\ AfterOut(r) \in [Holding -> HeldType]
         /\ AfterIn(r, AfterOut(r)) \in [Holding -> HeldType]
<1>0. TradeTypeOK /\ TradeCall(call[r])  BY CallForms DEF TypeOK
<1>1. leaves[r] \in Int /\ hold \in [Holding -> HeldType]  BY <1>0 DEF TradeTypeOK
<1>2. AfterOut(r) \in [Holding -> HeldType]
  <2>1. CASE Buys(r)  BY <1>1, <2>1 DEF AfterOut
  <2>2. CASE ~Buys(r)
    <3>1. Source(r) \in Holding /\ -AtomsOut(r) \in Int /\ -leaves[r] \in Int
      BY <1>0, <1>1, <2>2, HoldingType
    <3>2. Plus(hold[Source(r)], -AtomsOut(r), -leaves[r]) \in HeldType
      BY <1>1, <3>1, PlusType DEF HeldType
    <3> QED  BY <1>1, <2>2, <3>1, <3>2 DEF AfterOut
  <2> QED  BY <2>1, <2>2
<1>3. CostIn(r) \in Int
  BY <1>0, <1>1, QuoteType DEF CostIn, Buys, TradeCall, Kind
<1>4. AfterIn(r, AfterOut(r)) \in [Holding -> HeldType]
  <2>1. CASE Sells(r)  BY <1>2, <2>1 DEF AfterIn
  <2>2. CASE ~Sells(r)
    <3>1. Target(r) \in Holding /\ AtomsIn(r) \in Int
      BY <1>0, <2>2, HoldingType
    <3>2. Plus(AfterOut(r)[Target(r)], AtomsIn(r), CostIn(r)) \in HeldType
      BY <1>2, <1>3, <3>1, PlusType DEF HeldType
    <3> QED  BY <1>2, <2>2, <3>1, <3>2 DEF AfterIn
  <2> QED  BY <2>1, <2>2
<1> QED  BY <1>2, <1>4

\* The accounts and the holdings keep their types.
LEMMA TradeTypes ==
  ASSUME TypeOK, SidesOK, NEW r \in Request, TradeStep(r)
  PROVE  TradeTypeOK'
<1>0. TradeTypeOK /\ TradeCall(call[r])  BY CallForms DEF TypeOK
<1>1. CASE UNCHANGED tradeVars  BY <1>0, <1>1 DEF TradeTypeOK, tradeVars
<1>2. ASSUME NEW h, h \in Holding, NEW step, Reads(r, h, step)
      PROVE  TradeTypeOK'
  BY <1>0, <1>2 DEF Reads, TradeTypeOK
<1>3. CASE ReadHolding(r)
  <2>1. Buys(r) => Target(r) \in Holding
    BY <1>0, <1>3, HoldingType DEF ReadHolding, At, TradeKinds, Buys, Sells
  <2>2. ~Buys(r) => Source(r) \in Holding
    BY <1>0, <1>3, HoldingType DEF ReadHolding, At, TradeKinds
  <2> QED  BY <1>2, <1>3, <2>1, <2>2 DEF ReadHolding
<1>4. CASE ReadSource(r)
  <2>1. Source(r) \in Holding
    BY <1>0, <1>4, HoldingType DEF ReadSource, At, TradeKinds, Buys
  <2> QED  BY <1>2, <1>4, <2>1 DEF ReadSource
<1>5. CASE ReadTarget(r)
  <2>1. Target(r) \in Holding
    BY <1>0, <1>5, HoldingType DEF ReadTarget, At, TradeKinds, Sells
  <2> QED  BY <1>2, <1>5, <2>1 DEF ReadTarget
<1>6. CASE TakeCoin(r)
  <2>1. AtomsOut(r) \in Nat \ {0}
    BY <1>0, <1>6, HoldingType DEF TakeCoin, At, TradeKinds, SidesOK
  <2>2. saw[r] # Nothing /\ saw[r].atoms >= AtomsOut(r) =>
          Share(saw[r].cost, AtomsOut(r), saw[r].atoms) \in Int
    <3> SUFFICES ASSUME saw[r] # Nothing, saw[r].atoms >= AtomsOut(r)
                 PROVE  Share(saw[r].cost, AtomsOut(r), saw[r].atoms) \in Int
      OBVIOUS
    <3>1. saw[r].cost \in Int /\ saw[r].atoms \in Int
      BY <1>0 DEF TradeTypeOK, HeldType
    <3>2. saw[r].atoms \in Nat \ {0} /\ AtomsOut(r) \in Int  BY <2>1, <3>1
    <3> QED  BY <3>1, <3>2, ShareType
  <2>3. leaves' \in [Request -> Int]  BY <1>0, <1>6, <2>2 DEF TakeCoin, TradeTypeOK
  <2> QED  BY <1>0, <1>6, <2>3 DEF TakeCoin, TradeTypeOK
<1>7. CASE CommitTrade(r)
  <2>1. AfterIn(r, AfterOut(r)) \in [Holding -> HeldType]
    BY <1>7, AfterType DEF CommitTrade, At, TradeKinds
  <2>2. call[r].quote \in Quote  BY <1>0, <1>7, QuoteType DEF CommitTrade, At
  <2> QED  BY <1>0, <1>7, <2>1, <2>2 DEF CommitTrade, TradeTypeOK
<1>8. CASE CommitMove(r)
  <2>1. AfterIn(r, AfterOut(r)) \in [Holding -> HeldType]
    BY <1>8, AfterType DEF CommitMove, At, TradeKinds
  <2> QED  BY <1>0, <1>8, <2>1 DEF CommitMove, TradeTypeOK
<1> QED
  BY <1>1, <1>3, <1>4, <1>5, <1>6, <1>7, <1>8
     DEF TradeStep, ClaimQuote, PayForCoin, PayOut, GiveCoin

HoldRecord == [failures : Nat, old : BOOLEAN, held : BOOLEAN]

\* Sessions, keys, members and counters keep their types.
LEMMA AccessTypes ==
  ASSUME TypeOK, NEW r \in Request, AccessStep(r)
  PROVE  AccessTypeOK'
<1>0. AccessTypeOK /\ AccessCall(call[r])  BY CallForms DEF TypeOK
<1> USE DEF At
<1>1. CASE UNCHANGED accessVars  BY <1>0, <1>1 DEF AccessTypeOK, accessVars
<1>2. NoHold \in HoldRecord /\ [NoHold EXCEPT !.held = TRUE] \in HoldRecord
  BY DEF NoHold, HoldRecord
<1>3. Kind(r) = "login" => Pair(r) \in User \X Client
  BY <1>0 DEF Pair, AccessCall, Kind
<1>4. ASSUME NEW h \in HoldRecord,
             Kind(r) = "login", holds' = [holds EXCEPT ![Pair(r)] = h],
             announced' \in {announced, announced \cup {Pair(r)}},
             UNCHANGED <<member, opened, sessions, keyOf, usage, passed>>
      PROVE  AccessTypeOK'
  <2>1. holds' \in [User \X Client -> HoldRecord]
    BY <1>0, <1>4 DEF AccessTypeOK, HoldRecord
  <2>2. announced' \subseteq User \X Client  BY <1>0, <1>3, <1>4 DEF AccessTypeOK
  <2> QED  BY <1>0, <1>4, <2>1, <2>2 DEF AccessTypeOK, HoldRecord
<1>5. CASE CountFailure(r)
  <2> DEFINE n == IF holds[Pair(r)].old THEN 1 ELSE holds[Pair(r)].failures + 1
  <2>1. n \in Nat  BY <1>0, <1>3, <1>5 DEF CountFailure, AccessTypeOK
  <2>2. [failures |-> n, old |-> FALSE, held |-> FALSE] \in HoldRecord
    BY <2>1 DEF HoldRecord
  <2> QED  BY <1>4, <1>5, <2>2 DEF CountFailure
<1>6. CASE StartHold(r)
  BY <1>1, <1>2, <1>4, <1>6 DEF StartHold, accessVars
<1>7. CASE ClearHold(r)  BY <1>2, <1>4, <1>7 DEF ClearHold
<1>8. CASE OpenSession(r) \/ EndSessions(r)
  BY <1>0, <1>8 DEF OpenSession, EndSessions, AccessTypeOK
<1>9. CASE CreateUser(r)  BY <1>0, <1>9 DEF CreateUser, AccessTypeOK
<1>10. CASE OpenStarters(r) \/ InsertAccount(r)
  BY <1>0, <1>10, AccessAssumption DEF OpenStarters, InsertAccount, AccessTypeOK
<1>11. CASE CommitStatus(r)
  BY <1>0, <1>11 DEF CommitStatus, AccessTypeOK, AccessCall, Kind
<1>12. CASE InsertKey(r) \/ RevokeKey(r)
  BY <1>0, <1>12 DEF InsertKey, RevokeKey, AccessTypeOK
<1>13. CASE CountUse(r)
  <2>1. call[r].key \in Key  BY <1>0, <1>13 DEF CountUse, AccessCall, Kind
  <2>2. usage[call[r].key] + 1 \in Nat /\ passed[call[r].key] + 1 \in Nat
    BY <1>0, <2>1 DEF AccessTypeOK
  <2>3. usage' \in [Key -> Nat]  BY <1>0, <1>13, <2>2 DEF CountUse, AccessTypeOK
  <2>4. passed' \in [Key -> Nat]  BY <1>0, <1>13, <2>2 DEF CountUse, AccessTypeOK
  <2> QED  BY <1>0, <1>13, <2>3, <2>4 DEF CountUse, AccessTypeOK
<1> QED
  BY <1>1, <1>5, <1>6, <1>7, <1>8, <1>9, <1>10, <1>11, <1>12, <1>13
     DEF AccessStep, CheckHold, Verify, CountAccounts, ReadSession, Act, WriteStatus,
         CountKeys, ReadKey

\* Every step keeps every type.
LEMMA TypesStep == TypeOK /\ SidesOK /\ [Next]_vars => TypeOK'
<1> SUFFICES ASSUME TypeOK, SidesOK, [Next]_vars  PROVE TypeOK'
  OBVIOUS
<1>0. DeskTypeOK'  BY DeskTypes
<1>1. /\ UNCHANGED cardVars => CardTypeOK'
      /\ UNCHANGED askVars => AskTypeOK'
      /\ UNCHANGED loan => LoanTypeOK'
      /\ UNCHANGED ticketVars => TicketTypeOK'
      /\ UNCHANGED tradeVars => TradeTypeOK'
      /\ UNCHANGED accessVars => AccessTypeOK'
  BY DEF TypeOK, CardTypeOK, AskTypeOK, LoanTypeOK, TicketTypeOK, TradeTypeOK, AccessTypeOK,
         cardVars, askVars, ticketVars, tradeVars, accessVars
<1>2. ASSUME NEW r \in Request, Serve(r)  PROVE TypeOK'
  BY <1>0, <1>1, <1>2, CardTypes, AskTypes, LoanTypes, TicketTypes, TradeTypes, AccessTypes
     DEF Serve, TypeOK
<1>3. CASE UNCHANGED Tables  BY <1>0, <1>1, <1>3 DEF Tables, TypeOK
<1>4. CASE Stops
  <2>1. AccessTypeOK'
    BY <1>4, AccessAssumption DEF Stops, EnsureStarters, TypeOK, AccessTypeOK
  <2> QED  BY <1>0, <1>1, <1>4, <2>1 DEF Stops, TypeOK
<1>5. CASE TimePasses /\ UNCHANGED <<deskVars, cardVars, askVars, loan, ticketVars, tradeVars>>
  <2>0. AccessTypeOK  BY DEF TypeOK
  <2>1. CASE HoldsRunOut
    <3>1. holds' = [p \in User \X Client |->
                      IF holds[p] = NoHold THEN NoHold
                      ELSE [failures |-> holds[p].failures, old |-> TRUE, held |-> FALSE]]
      BY <2>0, <2>1 DEF HoldsRunOut, AccessTypeOK
    <3>2. holds' \in [User \X Client -> HoldRecord]
      BY <2>0, <3>1 DEF AccessTypeOK, HoldRecord, NoHold
    <3>3. AccessTypeOK'  BY <2>0, <2>1, <3>2 DEF HoldsRunOut, AccessTypeOK, HoldRecord
    <3> QED  BY <1>0, <1>1, <1>5, <3>3 DEF TypeOK
  <2>2. CASE MinutePasses
    <3>1. AccessTypeOK'  BY <2>0, <2>2 DEF MinutePasses, AccessTypeOK
    <3> QED  BY <1>0, <1>1, <1>5, <3>1 DEF TypeOK
  <2> QED  BY <1>5, <2>1, <2>2 DEF TimePasses
<1> QED  BY <1>2, <1>3, <1>4, <1>5, StepKinds DEF Arrives, vars, Tables

-----------------------------------------------------------------------------
(* The steps of one family of requests, and those of all others.           *)

\* Requests of these kinds arrive, break off or wait.
Quiet(kinds) ==
  /\ call' = call
  /\ \A r \in Request : Kind(r) \in kinds =>
       /\ outcome'[r] = outcome[r]
       /\ pc[r] # "idle" => before'[r] = before[r] /\ pc'[r] \in {pc[r], "over"}
       /\ pc[r] = "idle" /\ pc'[r] # "idle" => Arrives(r) /\ pc'[r] = "start"
       /\ pc'[r] \notin {"idle", "over"} => \A row \in Row : lock[row] = r => lock'[row] = r

\* A step of a request of another kind is none of a family's requests.
LEMMA FrameQuiet ==
  ASSUME DeskTypeOK, NEW kinds, NEW r \in Request, Frame(r), Kind(r) \notin kinds
  PROVE  Quiet(kinds)
BY DEF Frame, Quiet, DeskTypeOK

\* A step that serves nobody leaves what requests have done as it was.
LEMMA OtherSteps ==
  ASSUME TypeOK, SidesOK, [Next]_vars, NEW kinds
  PROVE  \/ \E r \in Request : Serve(r) /\ Frame(r)
         \/ /\ Quiet(kinds)
            /\ UNCHANGED <<cardVars, askVars, loan, ticketVars, tradeVars>>
            /\ \/ UNCHANGED <<accessVars>>
               \/ EnsureStarters /\ \A r \in Request : pc'[r] \in {"idle", "over"}
               \/ TimePasses /\ UNCHANGED deskVars
<1>0. DeskTypeOK  BY DEF TypeOK
<1> USE <1>0
<1>1. ASSUME NEW r \in Request, Arrives(r)  PROVE Quiet(kinds)
  BY <1>1 DEF Arrives, Begin, Goto, Quiet, DeskTypeOK
<1>2. ASSUME NEW r \in Request, Frame(r), UNCHANGED outcome, pc'[r] = "over"
      PROVE  Quiet(kinds)
  BY <1>2 DEF Frame, Quiet, DeskTypeOK, InFlight
<1>3. CASE Stops
  <2>1. Quiet(kinds)
    BY <1>3 DEF Stops, Quiet, InFlight, DeskTypeOK
  <2>2. \A r \in Request : pc'[r] \in {"idle", "over"}  BY <1>3 DEF Stops, InFlight
  <2> QED  BY <1>3, <2>1, <2>2 DEF Stops
<1>4. UNCHANGED deskVars => Quiet(kinds)
  BY DEF deskVars, Quiet
<1> QED  BY <1>1, <1>2, <1>3, <1>4, StepKinds DEF vars, Tables, Arrives

\* The families of requests have no kind in common.
LEMMA Kinds ==
  /\ CardKinds \cap (AskKinds \cup LoanKinds \cup TicketKinds \cup TradeKinds \cup AccessKinds) = {}
  /\ AskKinds \cap (LoanKinds \cup TicketKinds \cup TradeKinds \cup AccessKinds) = {}
  /\ LoanKinds \cap (TicketKinds \cup TradeKinds \cup AccessKinds) = {}
  /\ TicketKinds \cap (TradeKinds \cup AccessKinds) = {}
  /\ TradeKinds \cap AccessKinds = {}
BY DEF CardKinds, AskKinds, LoanKinds, TicketKinds, TradeKinds, AccessKinds

\* One family's requests go on one at a time, and stand still otherwise.
LEMMA FamilySteps ==
  ASSUME TypeOK, SidesOK, [Next]_vars
  PROVE  /\ \/ \E r \in Request : CardStep(r) /\ Frame(r)
            \/ Quiet(CardKinds) /\ UNCHANGED cardVars
         /\ \/ \E r \in Request : AskStep(r) /\ Frame(r)
            \/ Quiet(AskKinds) /\ UNCHANGED askVars
         /\ \/ \E r \in Request : LoanStep(r) /\ Frame(r)
            \/ Quiet(LoanKinds) /\ UNCHANGED loan
         /\ \/ \E r \in Request : TicketStep(r) /\ Frame(r)
            \/ Quiet(TicketKinds) /\ UNCHANGED ticketVars
         /\ \/ \E r \in Request : TradeStep(r) /\ Frame(r)
            \/ Quiet(TradeKinds) /\ UNCHANGED tradeVars
         /\ \/ \E r \in Request : AccessStep(r) /\ Frame(r)
            \/ /\ Quiet(AccessKinds)
               /\ \/ UNCHANGED accessVars
                  \/ EnsureStarters /\ \A r \in Request : pc'[r] \in {"idle", "over"}
                  \/ TimePasses /\ UNCHANGED deskVars
<1>0. DeskTypeOK  BY DEF TypeOK
<1>1. CASE \E r \in Request : Serve(r) /\ Frame(r)
  <2>1. PICK r \in Request : Serve(r) /\ Frame(r)  BY <1>1
  <2>2. CASE CardStep(r) /\ UNCHANGED <<askVars, loan, ticketVars, tradeVars, accessVars>>
    <3>1. Kind(r) \in CardKinds  BY <2>2, CardShapes
    <3> QED  BY <1>0, <2>1, <2>2, <3>1, FrameQuiet, Kinds
  <2>3. CASE AskStep(r) /\ UNCHANGED <<cardVars, loan, ticketVars, tradeVars, accessVars>>
    <3>1. Kind(r) \in AskKinds  BY <2>3, AskShapes
    <3> QED  BY <1>0, <2>1, <2>3, <3>1, FrameQuiet, Kinds
  <2>4. CASE LoanStep(r) /\ UNCHANGED <<cardVars, askVars, ticketVars, tradeVars, accessVars>>
    <3>1. Kind(r) \in LoanKinds  BY <2>4, LoanShapes
    <3> QED  BY <1>0, <2>1, <2>4, <3>1, FrameQuiet, Kinds
  <2>5. CASE TicketStep(r) /\ UNCHANGED <<cardVars, askVars, loan, tradeVars, accessVars>>
    <3>1. Kind(r) \in TicketKinds  BY <2>5, TicketShapes
    <3> QED  BY <1>0, <2>1, <2>5, <3>1, FrameQuiet, Kinds
  <2>6. CASE TradeStep(r) /\ UNCHANGED <<cardVars, askVars, loan, ticketVars, accessVars>>
    <3>1. Kind(r) \in TradeKinds  BY <2>6, TradeShapes
    <3> QED  BY <1>0, <2>1, <2>6, <3>1, FrameQuiet, Kinds
  <2>7. CASE AccessStep(r) /\ UNCHANGED <<cardVars, askVars, loan, ticketVars, tradeVars>>
    <3>1. Kind(r) \in AccessKinds  BY <2>7, AccessShapes
    <3> QED  BY <1>0, <2>1, <2>7, <3>1, FrameQuiet, Kinds
  <2> QED  BY <2>1, <2>2, <2>3, <2>4, <2>5, <2>6, <2>7 DEF Serve
<1>2. CASE ~\E r \in Request : Serve(r) /\ Frame(r)
  <2>1. ASSUME NEW kinds
        PROVE  /\ Quiet(kinds)
               /\ UNCHANGED <<cardVars, askVars, loan, ticketVars, tradeVars>>
               /\ \/ UNCHANGED accessVars
                  \/ EnsureStarters /\ \A r \in Request : pc'[r] \in {"idle", "over"}
                  \/ TimePasses /\ UNCHANGED deskVars
    BY <1>2, OtherSteps
  <2> QED  BY <2>1
<1> QED  BY <1>1, <1>2

-----------------------------------------------------------------------------
(* Sides and order.                                                        *)

\* The side a trade takes is one of the two.
LEMMA SidesStep == TypeOK /\ SidesOK /\ [Next]_vars => SidesOK'
<1> SUFFICES ASSUME TypeOK, SidesOK, [Next]_vars  PROVE SidesOK'
  OBVIOUS
<1>0. DeskTypeOK  BY DEF TypeOK
<1>1. CASE Quiet(TradeKinds)
  BY <1>0, <1>1 DEF Quiet, SidesOK, At, Buys, Sells, Kind, TradeKinds
<1>2. ASSUME NEW r \in Request, TradeStep(r), Frame(r)  PROVE SidesOK'
  <2>1. /\ call' = call /\ \A s \in Request \ {r} : pc'[s] = pc[s]
    BY <1>2 DEF Frame
  <2>2. /\ At(r, {"trade"}, "pay")' => Buys(r)'
        /\ pc'[r] \in {"take", "payout"} => ~Buys(r)'
        /\ pc'[r] \in {"look", "give"} => ~Sells(r)'
    <3>0. /\ Buys(r)' <=> Buys(r)
          /\ Sells(r)' <=> Sells(r)
      BY <2>1 DEF Buys, Sells, Kind
    <3>1. TradeCall(call[r])  BY <1>0, CallForms
    <3>2. Kind(r) = "trade" => (Buys(r) \/ Sells(r)) /\ ~(Buys(r) /\ Sells(r))
      BY <3>1, QuoteType
    <3>3. Kind(r) # "trade" => ~Buys(r) /\ ~Sells(r)  BY DEF Buys, Sells
    <3>4. pc[r] = "take" => ~Buys(r)  BY DEF SidesOK
    <3>5. Kind(r)' = Kind(r)  BY <2>1 DEF Kind
    <3>6. CASE ClaimQuote(r) \/ ReadSource(r)
      BY <1>0, <3>0, <3>3, <3>5, <3>6
         DEF At, ClaimQuote, ReadSource, Read, Reads, Refuse, Goto, Finish, DeskTypeOK
    <3>7. CASE ReadHolding(r) \/ PayForCoin(r) \/ PayOut(r) \/ ReadTarget(r)
      BY <1>0, <3>0, <3>2, <3>3, <3>5, <3>7
         DEF At, ReadHolding, PayForCoin, PayOut, ReadTarget, Read, Reads, Refuse, Goto,
             Finish, Debit, Credit, DeskTypeOK, SidesOK
    <3>8. CASE TakeCoin(r)
      BY <1>0, <3>0, <3>2, <3>3, <3>4, <3>5, <3>8
         DEF At, TakeCoin, Refuse, Goto, Finish, DeskTypeOK
    <3>9. CASE GiveCoin(r) \/ CommitTrade(r) \/ CommitMove(r)
      BY <1>0, <3>9
         DEF At, GiveCoin, CommitTrade, CommitMove, Commit, Refuse, Goto, Finish, DeskTypeOK
    <3> QED  BY <1>2, <3>6, <3>7, <3>8, <3>9 DEF TradeStep
  <2> QED  BY <2>1, <2>2 DEF SidesOK, At, Buys, Sells, Kind
<1> QED  BY <1>1, <1>2, FamilySteps

\* InOrder is kept: whoever was over before a request began stays over.
LEMMA OrderStep == TypeOK /\ SidesOK /\ InOrder /\ [Next]_vars => InOrder'
<1> SUFFICES ASSUME TypeOK, SidesOK, InOrder, [Next]_vars  PROVE InOrder'
  OBVIOUS
<1>0. DeskTypeOK  BY DEF TypeOK
<1> USE <1>0
<1>1. ASSUME NEW r \in Request, Serve(r), Frame(r)  PROVE InOrder'
  <2>1. \/ outcome'[r] = outcome[r]
        \/ pc'[r] = "over"
        \/ Kind(r) = "adminCard" /\ pc'[r] = "tell"
    BY <1>1, ServeShapes, ShapeFrame
  <2>2. At(r, {"adminCard"}, "tell") /\ outcome'[r] = outcome[r] => pc'[r] = "over"
    <3> SUFFICES ASSUME At(r, {"adminCard"}, "tell")  PROVE pc'[r] = "over"
      OBVIOUS
    <3>1. TellCard(r)
      <4>1. CardStep(r)
        <5>1. Kind(r) \in CardKinds  BY DEF At, CardKinds
        <5> QED
          BY <1>1, <5>1, AskShapes, LoanShapes, TicketShapes, TradeShapes, AccessShapes, Kinds
             DEF Serve
      <4> QED
        BY <4>1 DEF At, CardStep, CreateCard, ReadCard, UpdateCard, ReadStatus, SumSpent,
                    DebitCard, CommitCharge
    <3> QED  BY <3>1 DEF TellCard, Commit, Finish, DeskTypeOK
  <2> QED  BY <1>1, <2>1, <2>2 DEF Frame, InOrder, At, Kind, InFlight, DeskTypeOK
<1>2. ASSUME NEW r \in Request, Arrives(r)  PROVE InOrder'
  BY <1>2 DEF Arrives, Begin, Goto, InOrder, At, Kind, DeskTypeOK
<1>3. ASSUME NEW r \in Request, Frame(r), UNCHANGED outcome, pc'[r] = "over"
      PROVE  InOrder'
  BY <1>3 DEF Frame, InOrder, At, Kind, InFlight, DeskTypeOK
<1>4. CASE Stops
  BY <1>4 DEF Stops, InOrder, At, Kind, InFlight, DeskTypeOK
<1>5. CASE UNCHANGED deskVars
  BY <1>5 DEF deskVars, InOrder, At, Kind
<1> QED  BY <1>1, <1>2, <1>3, <1>4, <1>5, StepKinds DEF vars

-----------------------------------------------------------------------------
\* The first scenes have their types, sides and order.
LEMMA Starts == Init => TypeOK /\ SidesOK /\ InOrder
<1> SUFFICES ASSUME Init  PROVE TypeOK /\ SidesOK /\ InOrder
  OBVIOUS
<1>1. DeskTypeOK /\ InOrder /\ SidesOK
  BY DeskAssumption DEF Init, DeskInit, DeskTypeOK, Statements, InOrder, SidesOK, At
<1>2. CardTypeOK
  BY CardAssumption DEF Init, CardInit, CardTypeOK, NewCard, NoCard
<1>3. AskTypeOK /\ LoanTypeOK
  BY DEF Init, AskInit, AskTypeOK, LoanInit, LoanTypeOK
<1>4. TicketTypeOK
  BY DEF Init, TicketInit, TicketTypeOK
<1>5. TradeTypeOK
  BY TradeAssumption DEF Init, TradeInit, TradeTypeOK, HeldType
<1>6. AccessTypeOK
  BY AccessAssumption DEF Init, AccessInit, AccessTypeOK, NoHold
<1> QED  BY <1>1, <1>2, <1>3, <1>4, <1>5, <1>6 DEF TypeOK

-----------------------------------------------------------------------------
(* Money requests.                                                         *)

\* A set of at most one thing has no two.
LEMMA AtMostOne ==
  ASSUME NEW S, IsFiniteSet(S)
  PROVE  Cardinality(S) <= 1 <=> \A x, y \in S : x = y
<1>1. CASE S = {}  BY <1>1, FS_EmptySet
<1>2. CASE S # {}
  <2>1. PICK x \in S : TRUE  BY <1>2
  <2>2. /\ IsFiniteSet(S \ {x}) /\ Cardinality(S) \in Nat
        /\ Cardinality(S \ {x}) = Cardinality(S) - 1 /\ Cardinality(S \ {x}) \in Nat
    BY <2>1, FS_RemoveElement, FS_CardinalityType
  <2>3. Cardinality(S \ {x}) = 0 <=> S \ {x} = {}  BY <2>2, FS_EmptySet
  <2>4. S \ {x} = {} <=> \A y, z \in S : y = z  BY <2>1
  <2> QED  BY <2>2, <2>3, <2>4
<1> QED  BY <1>1, <1>2

\* There are finitely many requests.
LEMMA FiniteRequests ==
  ASSUME NEW S, S \subseteq Request
  PROVE  IsFiniteSet(S) /\ Cardinality(S) \in Nat
BY DeskAssumption, FS_Subset, FS_CardinalityType

AskKept(r) ==
  /\ UNCHANGED askVars
  /\ outcome'[r] = outcome[r]
  /\ Kind(r) = "pay" /\ pc'[r] \in {"debit", "credit", "record", "commit"} =>
       lock'[call[r].ask] = r /\ ask[call[r].ask] = "pending"
  /\ Kind(r) \in {"pay", "transfer"} /\ pc'[r] = "commit" =>
       ~KeyTaken(r) /\ KeyHeld(r) = {}

\* A step of a money request that answers nothing keeps AskInv.
LEMMA AskKeeps ==
  ASSUME TypeOK, InOrder, AskInv, NEW r \in Request, Frame(r), AskKept(r), Kind(r) \in AskKinds
  PROVE  AskInv'
<1>0. DeskTypeOK /\ AskCall(call[r])  BY CallForms DEF TypeOK
<1>1. /\ call' = call /\ outcome' = outcome
  BY <1>0 DEF Frame, AskKept, DeskTypeOK
<1>2. ASSUME NEW q \in Ask  PROVE Answering(q)' = Answering(q)
  BY <1>1 DEF Answering, Kind
<1>3. /\ \A q \in Ask : ask'[q] \in {"none", "pending"} => Answering(q)' = {}
      /\ AnsweredOnce'
  <2>1. ask' = ask /\ paidBy' = paidBy  BY DEF AskKept, askVars
  <2> QED  BY <1>1, <1>2, <2>1 DEF AskInv, AnsweredOnce, Kind
<1>4. ASSUME NEW s \in Request
      PROVE  /\ Kind(s)' = "pay" /\ pc'[s] \in {"debit", "credit", "record", "commit"} =>
                  lock'[call'[s].ask] = s /\ ask'[call'[s].ask] = "pending"
             /\ Kind(s)' = "ask" /\ outcome'[s] # "done" => ask'[call'[s].ask] = "none"
  <2>0. AskCall(call[s])  BY <1>0, CallForms
  <2>1. Kind(s) = "pay" => call[s].ask \in Row  BY <2>0, AskAssumption DEF AskCall, Kind
  <2> QED  BY <1>1, <2>1 DEF AskInv, AskKept, askVars, Frame, Kind
<1>5. ASSUME NEW s \in Request, NEW t \in Request,
             s # t, Kind(s)' \in {"pay", "transfer"}, SameKey(s, t)'
      PROVE  ~(Settles(s)' /\ Settles(t)')
  <2>1. SameKey(s, t) /\ SameKey(t, s)
        /\ Kind(s) \in {"pay", "transfer"} /\ Kind(t) \in {"pay", "transfer"}
    BY <1>1, <1>5 DEF SameKey, Kind
  <2>2. ~(Settles(s) /\ Settles(t))  BY <1>5, <2>1 DEF AskInv
  <2>3. ASSUME NEW u \in Request \ {r}  PROVE Settles(u)' <=> Settles(u)
    BY DEF Settles, Frame
  <2>4. CASE s = r /\ pc'[r] = "commit"
    <3>1. ~Settles(t)  BY <1>5, <2>1, <2>4 DEF AskKept, KeyTaken, KeyHeld, Settles
    <3> QED  BY <1>5, <2>3, <2>4, <3>1
  <2>5. CASE t = r /\ pc'[r] = "commit"
    <3>1. ~Settles(s)  BY <1>5, <2>1, <2>5 DEF AskKept, KeyTaken, KeyHeld, Settles
    <3> QED  BY <1>5, <2>3, <2>5, <3>1
  <2>6. CASE pc'[r] # "commit" \/ r \notin {s, t}
    BY <1>1, <2>2, <2>3, <2>6 DEF Settles
  <2> QED  BY <2>4, <2>5, <2>6
<1> QED  BY <1>3, <1>4, <1>5 DEF AskInv

\* A step of somebody else keeps AskInv.
LEMMA AskQuiet ==
  ASSUME TypeOK, InOrder, AskInv, Quiet(AskKinds), UNCHANGED askVars
  PROVE  AskInv'
<1>0. DeskTypeOK  BY DEF TypeOK
<1>1. call' = call /\ ask' = ask /\ paidBy' = paidBy  BY DEF Quiet, askVars
<1>2. ASSUME NEW r \in Request, Kind(r) \in AskKinds
      PROVE  /\ outcome'[r] = outcome[r]
             /\ pc'[r] \notin {"idle", "start", "over"} =>
                  /\ pc'[r] = pc[r]
                  /\ \A row \in Row : lock[row] = r => lock'[row] = r
  BY <1>2 DEF Quiet
<1>3. ASSUME NEW q \in Ask  PROVE Answering(q)' = Answering(q)
  BY <1>1, <1>2 DEF Answering, Kind, AskKinds
<1>4. /\ \A q \in Ask : ask'[q] \in {"none", "pending"} => Answering(q)' = {}
      /\ AnsweredOnce'
  BY <1>1, <1>3 DEF AskInv, AnsweredOnce, Kind
<1>5. ASSUME NEW s \in Request
      PROVE  /\ Kind(s)' = "pay" /\ pc'[s] \in {"debit", "credit", "record", "commit"} =>
                  lock'[call'[s].ask] = s /\ ask'[call'[s].ask] = "pending"
             /\ Kind(s)' = "ask" /\ outcome'[s] # "done" => ask'[call'[s].ask] = "none"
  <2>0. AskCall(call[s])  BY <1>0, CallForms
  <2>1. Kind(s) = "pay" => call[s].ask \in Row  BY <2>0, AskAssumption DEF AskCall, Kind
  <2> QED  BY <1>1, <1>2, <2>1 DEF AskInv, Kind, AskKinds
<1>6. ASSUME NEW s \in Request, NEW t \in Request,
             s # t, Kind(s)' \in {"pay", "transfer"}, SameKey(s, t)'
      PROVE  ~(Settles(s)' /\ Settles(t)')
  BY <1>1, <1>2, <1>6 DEF AskInv, SameKey, Kind, AskKinds, Settles
<1> QED  BY <1>4, <1>5, <1>6 DEF AskInv

\* The step that answers, or makes, a money request.
AskChanged(r) ==
  LET q == call[r].ask IN
  /\ Kind(r) \in {"ask", "pay", "decline", "cancel"}
  /\ outcome[r] = "none" /\ outcome'[r] = "done" /\ pc'[r] = "over"
  /\ Kind(r) = "pay" => pc[r] = "commit"
  /\ Kind(r) # "ask" => ask[q] = "pending" /\ lock[q] \in {None, r}
  /\ ask' = [ask EXCEPT ![q] = CASE Kind(r) = "ask" -> "pending"
                                 [] Kind(r) = "pay" -> "paid"
                                 [] Kind(r) = "decline" -> "declined"
                                 [] OTHER -> "cancelled"]
  /\ paidBy' = IF Kind(r) = "pay" THEN [paidBy EXCEPT ![q] = r] ELSE paidBy

\* A step that answers a money request keeps AskInv.
LEMMA AskChanges ==
  ASSUME TypeOK, InOrder, AskInv, NEW r \in Request, Frame(r), AskChanged(r)
  PROVE  AskInv'
<1>0. DeskTypeOK /\ AskCall(call[r]) /\ AskTypeOK  BY CallForms DEF TypeOK
<1> USE <1>0
<1>1. call' = call /\ \A s \in Request \ {r} : outcome'[s] = outcome[s] /\ pc'[s] = pc[s]
  BY DEF Frame
<1>2. PICK q \in Ask : q = call[r].ask  BY DEF AskChanged, AskCall, Kind
<1>3. ASSUME NEW p \in Ask \ {q}
      PROVE Answering(p)' = Answering(p) /\ ask'[p] = ask[p] /\ paidBy'[p] = paidBy[p]
  BY <1>1, <1>2 DEF Answering, Kind, AskTypeOK, AskChanged
<1>4. ask[q] = IF Kind(r) = "ask" THEN "none" ELSE "pending"
  BY <1>2 DEF AskInv, AskChanged
<1>5. Answering(q) = {}  BY <1>4 DEF AskInv
<1>6. Answering(q)' = IF Kind(r) = "ask" THEN {} ELSE {r}
  BY <1>1, <1>2, <1>5 DEF Answering, Kind, AskChanged
<1>7. paidBy[q] = None  BY <1>4 DEF AskInv, AnsweredOnce, AskTypeOK
<1>8. \A s \in Request : Kind(s)' = Kind(s)  BY <1>1 DEF Kind
<1>9. AnsweredOnce'
  <2>1. ASSUME NEW p \in Ask \ {q}
        PROVE  /\ Cardinality(Answering(p))' <= 1
               /\ ask'[p] = "paid" <=> paidBy'[p] # None
               /\ ask'[p] = "paid" => Answering(p)' = {paidBy'[p]}
               /\ ask'[p] \in {"declined", "cancelled"} =>
                    \A s \in Answering(p)' : Kind(s)' # "pay"
    <3>1. \A s \in Answering(p) : s \in Request  BY DEF Answering
    <3> QED  BY <1>3, <1>8, <3>1 DEF AskInv, AnsweredOnce
  <2>2. Cardinality(Answering(q))' <= 1
    BY <1>6, FS_EmptySet, FS_Singleton
  <2>3. r # None  BY DeskAssumption
  <2>4. /\ ask'[q] = "paid" <=> paidBy'[q] # None
        /\ ask'[q] = "paid" => Answering(q)' = {paidBy'[q]}
        /\ ask'[q] \in {"declined", "cancelled"} =>
             \A s \in Answering(q)' : Kind(s)' # "pay"
    BY <1>2, <1>6, <1>7, <1>8, <2>3 DEF AskTypeOK, AskChanged
  <2> QED  BY <2>1, <2>2, <2>4 DEF AnsweredOnce
<1>10. ASSUME NEW p \in Ask, ask'[p] \in {"none", "pending"}
       PROVE  Answering(p)' = {}
  <2>1. CASE p = q  BY <1>2, <1>6, <1>10, <2>1 DEF AskTypeOK, AskChanged
  <2>2. CASE p # q  BY <1>3, <1>10, <2>2 DEF AskInv
  <2> QED  BY <2>1, <2>2
<1>11. ASSUME NEW s \in Request
       PROVE  /\ Kind(s)' = "pay" /\ pc'[s] \in {"debit", "credit", "record", "commit"} =>
                   lock'[call'[s].ask] = s /\ ask'[call'[s].ask] = "pending"
              /\ Kind(s)' = "ask" /\ outcome'[s] # "done" => ask'[call'[s].ask] = "none"
  <2>0. AskCall(call[s])  BY CallForms
  <2>1. CASE s = r  BY <1>8, <2>1 DEF AskChanged
  <2>2. CASE s # r /\ Kind(s) = "pay" /\ pc'[s] \in {"debit", "credit", "record", "commit"}
    <3>1. call[s].ask \in Ask /\ call[s].ask \in Row
      BY <2>0, <2>2, AskAssumption DEF AskCall, Kind
    <3>2. lock[call[s].ask] = s /\ ask[call[s].ask] = "pending"
      BY <1>1, <2>2 DEF AskInv
    <3>3. lock'[call[s].ask] = s  BY <2>2, <3>1, <3>2 DEF Frame
    <3>4. call[s].ask # q
      BY <1>2, <1>4, <2>2, <3>2, DeskAssumption DEF AskChanged
    <3> QED  BY <1>1, <1>3, <2>2, <3>1, <3>2, <3>3, <3>4 DEF Kind
  <2>3. CASE s # r /\ Kind(s) = "ask" /\ outcome'[s] # "done"
    <3>1. call[s].ask \in Ask /\ ask[call[s].ask] = "none"
      BY <1>1, <2>0, <2>3 DEF AskInv, AskCall, Kind
    <3>2. call[s].ask # q
      <4>1. CASE Kind(r) = "ask"
        BY <1>2, <2>3, <4>1, PlanAssumption DEF DeskTypeOK, Kind
      <4>2. CASE Kind(r) # "ask"
        BY <1>4, <3>1, <4>2
      <4> QED  BY <4>1, <4>2
    <3> QED  BY <1>1, <1>3, <2>3, <3>1, <3>2 DEF Kind
  <2> QED  BY <1>8, <2>1, <2>2, <2>3
<1>12. ASSUME NEW s \in Request, NEW t \in Request,
              s # t, Kind(s)' \in {"pay", "transfer"}, SameKey(s, t)'
       PROVE  ~(Settles(s)' /\ Settles(t)')
  <2>1. SameKey(s, t) /\ Kind(s) \in {"pay", "transfer"} /\ Kind(t) \in {"pay", "transfer"}
    BY <1>1, <1>12 DEF SameKey, Kind
  <2>2. ~(Settles(s) /\ Settles(t))  BY <1>12, <2>1 DEF AskInv
  <2>3. ASSUME NEW u \in Request, Kind(u) \in {"pay", "transfer"}
        PROVE  Settles(u)' => Settles(u)
    BY <1>1, <2>3 DEF Settles, AskChanged
  <2> QED  BY <2>1, <2>2, <2>3
<1> QED  BY <1>9, <1>10, <1>11, <1>12 DEF AskInv

\* A plain transfer answers nobody.
LEMMA TransferCommits ==
  ASSUME TypeOK, InOrder, AskInv, NEW r \in Request, Frame(r),
         At(r, {"transfer"}, "commit"), outcome'[r] = "done", UNCHANGED askVars
  PROVE  AskInv'
<1>0. DeskTypeOK  BY DEF TypeOK
<1>1. call' = call /\ \A s \in Request \ {r} : outcome'[s] = outcome[s] /\ pc'[s] = pc[s]
  BY DEF Frame
<1>2. \A s \in Request : Kind(s)' = Kind(s)  BY <1>1 DEF Kind
<1>3. ask' = ask /\ paidBy' = paidBy  BY DEF askVars
<1>4. ASSUME NEW q \in Ask  PROVE Answering(q)' = Answering(q)
  BY <1>1, <1>2 DEF Answering, At
<1>5. /\ \A q \in Ask : ask'[q] \in {"none", "pending"} => Answering(q)' = {}
      /\ AnsweredOnce'
  BY <1>2, <1>3, <1>4 DEF AskInv, AnsweredOnce, Answering
<1>6. ASSUME NEW s \in Request
      PROVE  /\ Kind(s)' = "pay" /\ pc'[s] \in {"debit", "credit", "record", "commit"} =>
                  lock'[call'[s].ask] = s /\ ask'[call'[s].ask] = "pending"
             /\ Kind(s)' = "ask" /\ outcome'[s] # "done" => ask'[call'[s].ask] = "none"
  <2>0. AskCall(call[s])  BY <1>0, CallForms
  <2>1. Kind(s) = "pay" => call[s].ask \in Row  BY <2>0, AskAssumption DEF AskCall, Kind
  <2> QED  BY <1>1, <1>2, <1>3, <2>1 DEF AskInv, Frame, At
<1>7. ASSUME NEW s \in Request, NEW t \in Request,
             s # t, Kind(s)' \in {"pay", "transfer"}, SameKey(s, t)'
      PROVE  ~(Settles(s)' /\ Settles(t)')
  <2>1. SameKey(s, t) /\ Kind(s) \in {"pay", "transfer"}
    BY <1>1, <1>7 DEF SameKey, Kind
  <2>2. \A u \in Request : Settles(u)' => Settles(u)  BY <1>1 DEF Settles, At
  <2> QED  BY <1>7, <2>1, <2>2 DEF AskInv
<1> QED  BY <1>5, <1>6, <1>7 DEF AskInv

\* A money request is answered once: every step keeps AskInv.
LEMMA AskHolds ==
  ASSUME TypeOK, SidesOK, InOrder, AskInv, [Next]_vars
  PROVE  AskInv'
<1>0. DeskTypeOK  BY DEF TypeOK
<1>1. CASE Quiet(AskKinds) /\ UNCHANGED askVars  BY <1>1, AskQuiet
<1>2. ASSUME NEW r \in Request, AskStep(r), Frame(r)  PROVE AskInv'
  <2>0. AskCall(call[r]) /\ Kind(r) \in AskKinds  BY <1>0, <1>2, CallForms, AskShapes
  <2>1. outcome[r] = "none"  BY <1>2 DEF InOrder, Frame, InFlight, At, AskStep, CountPending,
      InsertAsk, Claim, LookUpKey, DebitPayer, CreditPayee, RecordTransfer, CommitTransfer,
      CommitPay, DeclineAsk, CancelAsk
  <2>2. CASE CountPending(r) \/ Claim(r) \/ LookUpKey(r)
    <3>1. Claim(r) => call[r].ask \in Row  BY <2>0, AskAssumption DEF Claim, At, AskCall, Kind
    <3>2. AskKept(r)
      BY <1>0, <2>2, <3>1 DEF CountPending, Claim, LookUpKey, At, AskKept, Read, Refuse, Goto,
           Finish, Unchanged, Take, DeskTypeOK
    <3> QED  BY <1>2, <2>0, <3>2, AskKeeps
  <2>3. CASE DebitPayer(r) \/ CreditPayee(r) \/ RecordTransfer(r)
    <3>1. Kind(r) = "pay" => call[r].ask \in Row  BY <2>0, AskAssumption DEF AskCall, Kind
    <3>2. /\ UNCHANGED askVars /\ outcome' = outcome
          /\ pc'[r] = "commit" => ~KeyTaken(r) /\ KeyHeld(r) = {}
      BY <1>0, <2>3 DEF DebitPayer, CreditPayee, RecordTransfer, At, Refuse, Goto, Finish,
           Unchanged, Debit, Credit, DeskTypeOK
    <3>3. pc[r] \in {"debit", "credit", "record"}
      BY <2>3 DEF DebitPayer, CreditPayee, RecordTransfer, At
    <3>4. AskKept(r)
      BY <1>2, <3>1, <3>2, <3>3 DEF AskKept, AskInv, Frame
    <3> QED  BY <1>2, <2>0, <3>4, AskKeeps
  <2>4. CASE CommitTransfer(r)
    BY <1>0, <1>2, <2>4, TransferCommits DEF CommitTransfer, Commit, DeskTypeOK
  <2>5. CASE InsertAsk(r)
    <3>1. AskChanged(r)
      BY <1>0, <2>1, <2>5 DEF InsertAsk, At, Commit, Finish, AskChanged, DeskTypeOK
    <3> QED  BY <1>2, <3>1, AskChanges
  <2>6. CASE CommitPay(r)
    <3>1. ask[call[r].ask] = "pending" /\ lock[call[r].ask] = r
      BY <2>6 DEF CommitPay, At, AskInv
    <3>2. AskChanged(r)
      BY <1>0, <2>1, <2>6, <3>1 DEF CommitPay, At, Commit, Finish, AskChanged, DeskTypeOK
    <3> QED  BY <1>2, <3>2, AskChanges
  <2>7. CASE DeclineAsk(r) \/ CancelAsk(r)
    <3>1. CASE ask[call[r].ask] # "pending"
      <4>1. AskKept(r)
        BY <1>0, <2>7, <3>1 DEF DeclineAsk, CancelAsk, At, Refuse, Finish, Unchanged, AskKept,
             DeskTypeOK, askVars
      <4> QED  BY <1>2, <2>0, <4>1, AskKeeps
    <3>2. CASE ask[call[r].ask] = "pending"
      <4>1. AskChanged(r)
        BY <1>0, <2>1, <2>7, <3>2 DEF DeclineAsk, CancelAsk, At, Free, Commit, Finish,
             AskChanged, DeskTypeOK
      <4> QED  BY <1>2, <4>1, AskChanges
    <3> QED  BY <3>1, <3>2
  <2> QED  BY <1>2, <2>2, <2>3, <2>4, <2>5, <2>6, <2>7 DEF AskStep
<1> QED  BY <1>1, <1>2, FamilySteps

-----------------------------------------------------------------------------
(* Loans.                                                                  *)

Deciders(l) == {r \in Request : /\ Kind(r) = "decide" /\ call[r].loan = l
                                /\ outcome[r] = "done"}

\* DecidedOnce, in pairs.
Decided == \A l \in Loan :
  /\ \A r, s \in Deciders(l) : r = s
  /\ \A r \in Deciders(l) : loan[l] = IF call[r].approve THEN "approved" ELSE "rejected"

\* A loan decided once has no two deciders.
LEMMA DecidedPairs == (DecidedOnce <=> Decided) /\ (DecidedOnce' <=> Decided')
<1>1. ASSUME NEW l \in Loan
      PROVE  /\ Cardinality(Deciders(l)) <= 1 <=> \A r, s \in Deciders(l) : r = s
             /\ Cardinality(Deciders(l)') <= 1 <=> \A r, s \in Deciders(l)' : r = s
  <2>1. Deciders(l) \subseteq Request /\ Deciders(l)' \subseteq Request  BY DEF Deciders
  <2>2. IsFiniteSet(Deciders(l)) /\ IsFiniteSet(Deciders(l)')  BY <2>1, FiniteRequests
  <2> QED  BY <2>2, AtMostOne
<1>2. /\ DecidedOnce <=> \A l \in Loan :
           /\ Cardinality(Deciders(l)) <= 1
           /\ \A r \in Deciders(l) : loan[l] = IF call[r].approve THEN "approved" ELSE "rejected"
      /\ DecidedOnce' <=> \A l \in Loan :
           /\ Cardinality(Deciders(l)') <= 1
           /\ \A r \in Deciders(l)' :
                loan'[l] = IF call'[r].approve THEN "approved" ELSE "rejected"
  BY DEF DecidedOnce, Deciders
<1> QED  BY <1>1, <1>2 DEF Decided

\* What one request decides or asks for: LoanInv is about each, and Decided.
LoanPart(r) ==
  /\ Kind(r) = "decide" /\ pc[r] \in {"fund", "commit"} =>
       lock[call[r].loan] = r /\ loan[call[r].loan] = "pending"
  /\ Kind(r) = "loan" /\ outcome[r] # "done" => loan[call[r].loan] = "none"
  /\ Kind(r) = "decide" /\ outcome[r] = "done" =>
       loan[call[r].loan] \notin {"none", "pending"}

\* LoanInv, request by request.
LEMMA LoanParts ==
  /\ LoanInv <=> (\A r \in Request : LoanPart(r)) /\ Decided
  /\ LoanInv' <=> (\A r \in Request : LoanPart(r)') /\ Decided'
<1>1. LoanInv <=> (\A r \in Request : LoanPart(r)) /\ DecidedOnce  BY DEF LoanInv, LoanPart
<1>2. LoanInv' <=> (\A r \in Request : LoanPart(r)') /\ DecidedOnce'  BY DEF LoanInv, LoanPart
<1> QED  BY <1>1, <1>2, DecidedPairs

\* A loan r asked for or decided has changed, nothing else.
LoanChanged(r) ==
  LET l == call[r].loan IN
  /\ Kind(r) \in {"loan", "decide"}
  /\ outcome[r] = "none" /\ outcome'[r] = "done" /\ pc'[r] = "over"
  /\ Kind(r) = "decide" => pc[r] = "commit"
  /\ loan' = [loan EXCEPT ![l] = IF Kind(r) = "loan" THEN "pending"
                                 ELSE IF call[r].approve THEN "approved" ELSE "rejected"]

\* A step that decides a loan keeps LoanInv.
LEMMA LoanChanges ==
  ASSUME TypeOK, InOrder, LoanInv, NEW r \in Request, Frame(r), LoanChanged(r)
  PROVE  LoanInv'
<1>0. DeskTypeOK /\ LoanCall(call[r]) /\ LoanTypeOK  BY CallForms DEF TypeOK
<1> USE <1>0
<1>1. call' = call /\ \A s \in Request \ {r} : outcome'[s] = outcome[s] /\ pc'[s] = pc[s]
  BY DEF Frame
<1>2. PICK l \in Loan : l = call[r].loan  BY DEF LoanChanged, LoanCall, Kind
<1>3. \A m \in Loan \ {l} : loan'[m] = loan[m]  BY <1>2 DEF LoanChanged, LoanTypeOK
<1>4. loan[l] = IF Kind(r) = "loan" THEN "none" ELSE "pending"
  BY <1>2, LoanParts DEF LoanPart, LoanChanged
<1>5. \A s \in Request : Kind(s)' = Kind(s)  BY <1>1 DEF Kind
<1>6. loan'[l] = IF Kind(r) = "loan" THEN "pending"
                 ELSE IF call[r].approve THEN "approved" ELSE "rejected"
  BY <1>2 DEF LoanChanged, LoanTypeOK
<1>7. Deciders(l) = {}  BY <1>4, LoanParts DEF LoanPart, Deciders
<1>8. Deciders(l)' = IF Kind(r) = "decide" THEN {r} ELSE {}
  BY <1>1, <1>2, <1>5, <1>7 DEF Deciders, LoanChanged
<1>9. ASSUME NEW m \in Loan \ {l}  PROVE Deciders(m)' = Deciders(m)
  BY <1>1, <1>2, <1>5 DEF Deciders, LoanChanged
<1>10. Decided'
  <2>1. ASSUME NEW m \in Loan \ {l}
        PROVE  /\ \A s, t \in Deciders(m)' : s = t
               /\ \A s \in Deciders(m)' :
                    loan'[m] = IF call'[s].approve THEN "approved" ELSE "rejected"
    BY <1>1, <1>3, <1>9, LoanParts DEF Decided
  <2>2. /\ \A s, t \in Deciders(l)' : s = t
        /\ \A s \in Deciders(l)' :
             loan'[l] = IF call'[s].approve THEN "approved" ELSE "rejected"
    BY <1>1, <1>6, <1>8
  <2> QED  BY <2>1, <2>2 DEF Decided
<1>11. ASSUME NEW s \in Request  PROVE LoanPart(s)'
  <2>0. LoanCall(call[s])  BY CallForms
  <2>1. CASE s = r  BY <1>1, <1>2, <1>5, <1>6, <2>1 DEF LoanPart, LoanChanged
  <2>2. CASE s # r
    <3>1. LoanPart(s)  BY LoanParts
    <3>2. Kind(s) \in {"loan", "decide"} => call[s].loan \in Loan /\ call[s].loan \in Row
      BY <2>0, LoanAssumption DEF LoanCall, Kind
    <3>3. \A row \in Row : lock[row] = s => lock'[row] = s  BY <2>2 DEF Frame
    <3>4. CASE call[s].loan # l
      BY <1>1, <1>3, <1>5, <2>2, <3>1, <3>2, <3>3, <3>4 DEF LoanPart
    <3>5. CASE call[s].loan = l
      <4>1. CASE Kind(r) = "loan"
        <5>1. Kind(s) # "loan"
          BY <1>2, <2>2, <3>5, <4>1, PlanAssumption DEF DeskTypeOK, Kind
        <5> QED  BY <1>1, <1>4, <1>5, <2>2, <3>1, <3>5, <4>1, <5>1 DEF LoanPart
      <4>2. CASE Kind(r) = "decide"
        <5>1. lock[l] = r  BY <1>2, <4>2, LoanParts DEF LoanPart, LoanChanged
        <5> QED
          BY <1>1, <1>4, <1>5, <1>6, <2>2, <3>1, <3>5, <4>2, <5>1 DEF LoanPart
      <4> QED  BY <4>1, <4>2 DEF LoanChanged
    <3> QED  BY <3>4, <3>5
  <2> QED  BY <2>1, <2>2
<1> QED  BY <1>10, <1>11, LoanParts

\* A loan is decided once: every step keeps LoanInv.
LEMMA LoanHolds ==
  ASSUME TypeOK, SidesOK, InOrder, LoanInv, [Next]_vars
  PROVE  LoanInv'
<1>0. DeskTypeOK  BY DEF TypeOK
<1> USE <1>0
<1>1. ASSUME call' = call, loan' = loan,
             \A r \in Request : Kind(r) \in LoanKinds => outcome'[r] = outcome[r],
             \A r \in Request : Kind(r) = "decide" /\ pc'[r] \in {"fund", "commit"} =>
               lock'[call[r].loan] = r /\ loan[call[r].loan] = "pending"
      PROVE  LoanInv'
  <2>1. \A r \in Request : Kind(r)' = Kind(r)  BY <1>1 DEF Kind
  <2>2. ASSUME NEW r \in Request  PROVE LoanPart(r)'
    BY <1>1, <2>1, LoanParts DEF LoanPart, LoanKinds
  <2>3. \A l \in Loan : Deciders(l)' = Deciders(l)
    BY <1>1, <2>1 DEF Deciders, LoanKinds
  <2>4. \A l \in Loan : Deciders(l) \subseteq Request  BY DEF Deciders
  <2>5. Decided'  BY <1>1, <2>3, <2>4, LoanParts DEF Decided
  <2> QED  BY <2>2, <2>5, LoanParts
<1>2. \A s \in Request : Kind(s) = "decide" => call[s].loan \in Row
  BY CallForms, LoanAssumption DEF LoanCall, Kind
<1>3. CASE Quiet(LoanKinds) /\ UNCHANGED loan
  BY <1>1, <1>2, <1>3, LoanParts DEF Quiet, LoanPart, LoanKinds
<1>4. ASSUME NEW r \in Request, LoanStep(r), Frame(r)  PROVE LoanInv'
  <2>1. outcome[r] = "none"
    BY <1>4 DEF InOrder, Frame, InFlight, At, LoanStep, CountLoans, InsertLoan, LockLoan,
         Fund, CommitDecision
  <2>2. CASE InsertLoan(r) \/ CommitDecision(r)
    <3>1. LoanChanged(r)
      <4>1. CASE InsertLoan(r)
        BY <2>1, <4>1 DEF InsertLoan, At, Commit, Finish, LoanChanged, DeskTypeOK
      <4>2. CASE CommitDecision(r)
        BY <2>1, <4>2 DEF CommitDecision, At, Commit, Finish, LoanChanged, DeskTypeOK
      <4> QED  BY <2>2, <4>1, <4>2
    <3> QED  BY <1>4, <3>1, LoanChanges
  <2>3. CASE CountLoans(r) \/ LockLoan(r) \/ Fund(r)
    <3>1. loan' = loan /\ call' = call /\ outcome' = outcome
      BY <2>3 DEF CountLoans, LockLoan, Fund, Read, Refuse, Unchanged, Credit
    <3>2. Kind(r) = "decide" /\ pc'[r] \in {"fund", "commit"} =>
            lock'[call[r].loan] = r /\ loan[call[r].loan] = "pending"
      <4>1. CASE CountLoans(r)  BY <4>1 DEF CountLoans, At
      <4>2. CASE LockLoan(r)
        BY <1>2, <4>2 DEF LockLoan, At, Refuse, Finish, Take, Goto, DeskTypeOK
      <4>3. CASE Fund(r)
        BY <1>2, <1>4, <4>3, LoanParts DEF Fund, At, LoanPart, Frame
      <4> QED  BY <2>3, <4>1, <4>2, <4>3
    <3>3. \A s \in Request \ {r} : Kind(s) = "decide" /\ pc'[s] \in {"fund", "commit"} =>
            lock'[call[s].loan] = s /\ loan[call[s].loan] = "pending"
      BY <1>2, <1>4, LoanParts DEF Frame, LoanPart
    <3> QED  BY <1>1, <3>1, <3>2, <3>3
  <2> QED  BY <1>4, <2>2, <2>3 DEF LoanStep
<1> QED  BY <1>3, <1>4, FamilySteps

-----------------------------------------------------------------------------
(* Starter accounts.                                                       *)

\* The accounts a customer opened are counted by a natural number.
LEMMA MoreType == \A u \in User : More(u) \in Nat /\ More(u)' \in Nat
<1>1. ASSUME NEW S  PROVE Cardinality({r \in S \cap Request : TRUE}) \in Nat
  BY FiniteRequests
<1>2. ASSUME NEW u \in User
      PROVE  /\ {r \in Done({"open"}) : UserOf(r) = u} \subseteq Request
             /\ {r \in Done({"open"}) : UserOf(r) = u}' \subseteq Request
  BY DEF Done
<1> QED  BY <1>2, FiniteRequests DEF More

\* A step that opens no account leaves the count.
LEMMA MoreKept ==
  ASSUME call' = call, \A r \in Request : Kind(r) = "open" => outcome'[r] = outcome[r]
  PROVE  \A u \in User : More(u)' = More(u)
<1> SUFFICES ASSUME NEW u \in User  PROVE More(u)' = More(u)
  OBVIOUS
<1>1. {r \in Done({"open"}) : UserOf(r) = u}' = {r \in Done({"open"}) : UserOf(r) = u}
  BY DEF Done, UserOf, Kind
<1> QED  BY <1>1 DEF More

\* An account that is opened counts once, and for its owner only.
LEMMA MoreGrows ==
  ASSUME DeskTypeOK, NEW r \in Request, Frame(r), Kind(r) = "open",
         outcome[r] # "done", outcome'[r] = "done"
  PROVE  \A u \in User : More(u)' = IF UserOf(r) = u THEN More(u) + 1 ELSE More(u)
<1> SUFFICES ASSUME NEW u \in User
             PROVE  More(u)' = IF UserOf(r) = u THEN More(u) + 1 ELSE More(u)
  OBVIOUS
<1>1. PICK S : S = {s \in Done({"open"}) : UserOf(s) = u}  OBVIOUS
<1>2. S \subseteq Request /\ r \notin S  BY <1>1 DEF Done
<1>3. IsFiniteSet(S)  BY <1>2, FiniteRequests
<1>4. {s \in Done({"open"}) : UserOf(s) = u}' = IF UserOf(r) = u THEN S \cup {r} ELSE S
  BY <1>1 DEF Done, UserOf, Kind, Frame
<1>5. Cardinality(S \cup {r}) = Cardinality(S) + 1  BY <1>2, <1>3, FS_AddElement
<1> QED  BY <1>1, <1>4, <1>5 DEF More

\* What one sign-up is owed.
SignUpOK(r) ==
  /\ At(r, {"register"}, "starter") =>
       member[UserOf(r)] # "none" /\ opened[UserOf(r)] = More(UserOf(r))
  /\ At(r, {"register"}, "session") \/ (Kind(r) = "register" /\ outcome[r] = "done") =>
       opened[UserOf(r)] >= Starter
Alone ==
  \A r, s \in Request :
    r # s /\ At(r, {"register"}, "starter") /\ At(s, {"register"}, "starter")
      => UserOf(r) # UserOf(s)
Opens == \A u \in User :
  /\ opened[u] \in {More(u), Starter + More(u)}
  /\ member[u] = "none" => opened[u] = More(u)

\* StarterInv, request by request.
LEMMA StarterParts ==
  /\ TypeOK => (StarterInv <=> Opens /\ Alone /\ \A r \in Request : SignUpOK(r))
  /\ TypeOK' => (StarterInv' <=> Opens' /\ Alone' /\ \A r \in Request : SignUpOK(r)')
<1>1. ASSUME TypeOK
      PROVE  StarterInv <=> Opens /\ Alone /\ \A r \in Request : SignUpOK(r)
  <2>1. \A r \in Request : Kind(r) = "register" => UserOf(r) \in User
    BY <1>1, CallForms DEF TypeOK, AccessCall, UserOf, Kind
  <2> QED  BY <2>1 DEF StarterInv, StartersOnce, Opens, Alone, SignUpOK, Done, At
<1>2. ASSUME TypeOK'
      PROVE  StarterInv' <=> Opens' /\ Alone' /\ \A r \in Request : SignUpOK(r)'
  <2>1. \A r \in Request : Kind(r)' = "register" => UserOf(r)' \in User
    BY <1>2, PlanAssumption DEF TypeOK, DeskTypeOK, AccessCall, UserOf, Kind
  <2> QED  BY <2>1 DEF StarterInv, StartersOnce, Opens, Alone, SignUpOK, Done, At
<1> QED  BY <1>1, <1>2

\* Starter accounts are made once: every step keeps StarterInv.
LEMMA StarterHolds ==
  ASSUME TypeOK, SidesOK, InOrder, StarterInv, [Next]_vars
  PROVE  StarterInv'
<1>0. DeskTypeOK /\ AccessTypeOK  BY DEF TypeOK
<1>T. TypeOK'  BY TypesStep
<1> USE <1>0
<1>1. Opens /\ Alone /\ \A r \in Request : SignUpOK(r)  BY StarterParts
<1>2. \A u \in User : More(u) \in Nat /\ opened[u] \in Nat  BY MoreType DEF AccessTypeOK
<1>3. Starter \in Nat \ {0} /\ Starter \in Int  BY AccessAssumption
<1>4. \A r \in Request : Kind(r) \in {"register", "open", "setStatus"} => UserOf(r) \in User
  BY CallForms DEF AccessCall, UserOf, Kind
\* Nobody gets on, and no account is opened.
<1>5. ASSUME call' = call, UNCHANGED <<member, opened>>,
             \A r \in Request :
               /\ Kind(r) \in {"open", "register"} => outcome'[r] = outcome[r]
               /\ At(r, {"register"}, "starter")' => At(r, {"register"}, "starter")
               /\ At(r, {"register"}, "session")' => At(r, {"register"}, "session")
      PROVE  StarterInv'
  <2>1. \A u \in User : More(u)' = More(u)  BY <1>5, MoreKept
  <2>2. \A r \in Request : Kind(r)' = Kind(r) /\ UserOf(r)' = UserOf(r)
    BY <1>5 DEF Kind, UserOf
  <2>3. Opens'  BY <1>1, <1>5, <2>1 DEF Opens
  <2>4. Alone'  BY <1>1, <1>5, <2>2 DEF Alone
  <2>5. ASSUME NEW r \in Request  PROVE SignUpOK(r)'
    BY <1>1, <1>4, <1>5, <2>1, <2>2 DEF SignUpOK, At
  <2> QED  BY <1>T, <2>3, <2>4, <2>5, StarterParts
<1>6. CASE Quiet(AccessKinds)
           /\ \/ UNCHANGED accessVars
              \/ TimePasses /\ UNCHANGED deskVars
  <2>1. UNCHANGED <<member, opened>>
    BY <1>6 DEF accessVars, TimePasses, HoldsRunOut, MinutePasses
  <2>2. call' = call  BY <1>6 DEF Quiet
  <2>3. ASSUME NEW r \in Request, Kind(r) \in {"open", "register"}
        PROVE  /\ outcome'[r] = outcome[r]
               /\ pc'[r] \in {"starter", "session"} => pc[r] = pc'[r]
    BY <1>6, <2>3 DEF Quiet, AccessKinds
  <2> QED  BY <1>5, <2>1, <2>2, <2>3 DEF At, Kind
<1>7. CASE Quiet(AccessKinds) /\ EnsureStarters
           /\ \A r \in Request : pc'[r] \in {"idle", "over"}
  <2>1. /\ call' = call
        /\ \A r \in Request : Kind(r) \in {"open", "register"} => outcome'[r] = outcome[r]
    BY <1>7 DEF Quiet, AccessKinds
  <2>2. \A u \in User : More(u)' = More(u)  BY <2>1, MoreKept
  <2>3. member' = member
        /\ \A u \in User : opened'[u] = IF member[u] # "none" /\ opened[u] = 0 THEN Starter
                                                                           ELSE opened[u]
    BY <1>7 DEF EnsureStarters
  <2>4. Opens'
    <3>1. \A u \in User : opened[u] = 0 => More(u) = 0
      BY <1>1, <1>2, <1>3 DEF Opens
    <3> QED  BY <1>1, <1>2, <1>3, <2>2, <2>3, <3>1 DEF Opens
  <2>5. Alone'  BY <1>7 DEF Alone, At
  <2>6. ASSUME NEW r \in Request  PROVE SignUpOK(r)'
    BY <1>1, <1>2, <1>3, <1>4, <1>7, <2>1, <2>3 DEF SignUpOK, At, Kind, UserOf
  <2> QED  BY <1>T, <2>4, <2>5, <2>6, StarterParts
<1>8. ASSUME NEW r \in Request, AccessStep(r), Frame(r)  PROVE StarterInv'
  <2>1. outcome[r] = "none"
    <3>1. Kind(r) \in AccessKinds /\ InFlight(r)  BY <1>8, AccessShapes
    <3> QED  BY <3>1 DEF InOrder, InFlight, At, AccessKinds
  <2>2. call' = call /\ \A s \in Request \ {r} : pc'[s] = pc[s] /\ outcome'[s] = outcome[s]
    BY <1>8 DEF Frame
  <2>3. \A s \in Request : Kind(s)' = Kind(s) /\ UserOf(s)' = UserOf(s)
    BY <2>2 DEF Kind, UserOf
  <2>4. CASE /\ UNCHANGED <<member, opened>>
             /\ Kind(r) \in {"open", "register"} => outcome'[r] = outcome[r]
             /\ Kind(r) = "register" => pc'[r] = "over"
    BY <1>5, <2>2, <2>3, <2>4 DEF At
  <2>5. CASE OpenSession(r)
    <3>1. UNCHANGED <<member, opened>> /\ pc'[r] = "over"
      BY <2>5 DEF OpenSession, Commit, Finish, DeskTypeOK
    <3>2. \A u \in User : More(u)' = More(u)
      BY <2>2, <2>5, MoreKept DEF OpenSession, At
    <3>3. Opens' /\ Alone'
      BY <1>1, <2>2, <2>3, <3>1, <3>2 DEF Opens, Alone, At
    <3>4. ASSUME NEW s \in Request  PROVE SignUpOK(s)'
      BY <1>1, <1>4, <2>2, <2>3, <2>5, <3>1, <3>2 DEF SignUpOK, At, OpenSession
    <3> QED  BY <1>T, <3>3, <3>4, StarterParts
  <2>6. CASE CreateUser(r) /\ member[UserOf(r)] = "none"
    <3>1. /\ member' = [member EXCEPT ![UserOf(r)] = "active"]
          /\ opened' = opened /\ pc'[r] = "starter" /\ outcome' = outcome
          /\ Kind(r) = "register"
      BY <2>6 DEF CreateUser, At, Read, Goto, Unchanged, DeskTypeOK
    <3>2. \A u \in User : More(u)' = More(u)  BY <2>2, <3>1, MoreKept
    <3>3. UserOf(r) \in User  BY <1>4, <3>1
    <3>4. /\ member'[UserOf(r)] = "active"
          /\ \A u \in User \ {UserOf(r)} : member'[u] = member[u]
      BY <3>1, <3>3 DEF AccessTypeOK
    <3>5. Opens'  BY <1>1, <3>1, <3>2, <3>4 DEF Opens
    <3>6. Alone'
      BY <1>1, <2>2, <2>3, <2>6 DEF Alone, At, SignUpOK
    <3>7. opened[UserOf(r)] = More(UserOf(r))  BY <1>1, <2>6, <3>3 DEF Opens
    <3>8. ASSUME NEW s \in Request  PROVE SignUpOK(s)'
      BY <1>1, <1>4, <2>2, <2>3, <3>1, <3>2, <3>4, <3>7, <2>1 DEF SignUpOK, At
    <3> QED  BY <1>T, <3>5, <3>6, <3>8, StarterParts
  <2>7. CASE OpenStarters(r)
    <3>1. /\ opened' = [opened EXCEPT ![UserOf(r)] = @ + Starter]
          /\ member' = member /\ pc'[r] = "session" /\ outcome' = outcome
          /\ At(r, {"register"}, "starter")
      BY <2>7 DEF OpenStarters, Read, Goto, Unchanged, DeskTypeOK
    <3>2. \A u \in User : More(u)' = More(u)  BY <2>2, <3>1, MoreKept
    <3>3. UserOf(r) \in User  BY <1>4, <3>1 DEF At
    <3>4. /\ opened'[UserOf(r)] = More(UserOf(r)) + Starter
          /\ member[UserOf(r)] # "none"
          /\ \A u \in User \ {UserOf(r)} : opened'[u] = opened[u]
      BY <1>1, <3>1, <3>3 DEF SignUpOK, AccessTypeOK
    <3>5. Opens'
      BY <1>1, <1>2, <1>3, <3>1, <3>2, <3>3, <3>4 DEF Opens
    <3>6. Alone'  BY <1>1, <2>2, <2>3, <3>1 DEF Alone, At
    <3>7. ASSUME NEW s \in Request  PROVE SignUpOK(s)'
      <4>1. CASE s = r
        BY <1>2, <1>3, <2>1, <2>3, <3>1, <3>2, <3>3, <3>4, <4>1 DEF SignUpOK, At
      <4>2. CASE s # r /\ UserOf(s) # UserOf(r)
        BY <1>1, <1>4, <2>2, <2>3, <3>1, <3>2, <3>4, <4>2 DEF SignUpOK, At
      <4>3. CASE s # r /\ UserOf(s) = UserOf(r)
        <5>1. ~At(s, {"register"}, "starter")  BY <1>1, <3>1, <4>3 DEF Alone
        <5>2. opened'[UserOf(s)] >= Starter  BY <1>2, <1>3, <3>3, <3>4, <4>3
        <5> QED  BY <2>2, <2>3, <4>3, <5>1, <5>2 DEF SignUpOK, At
      <4> QED  BY <4>1, <4>2, <4>3
    <3> QED  BY <1>T, <3>5, <3>6, <3>7, StarterParts
  <2>8. CASE InsertAccount(r)
    <3>1. /\ opened' = [opened EXCEPT ![UserOf(r)] = @ + 1]
          /\ member' = member /\ pc'[r] = "over" /\ outcome'[r] = "done"
          /\ Kind(r) = "open"
      BY <2>8 DEF InsertAccount, At, Commit, Finish, DeskTypeOK
    <3>2. \A u \in User : More(u)' = IF UserOf(r) = u THEN More(u) + 1 ELSE More(u)
      BY <1>8, <2>1, <3>1, MoreGrows
    <3>3. UserOf(r) \in User  BY <1>4, <3>1
    <3>4. \A u \in User : opened'[u] = IF UserOf(r) = u THEN opened[u] + 1 ELSE opened[u]
      BY <3>1, <3>3 DEF AccessTypeOK
    <3>5. Opens'
      <4>1. ASSUME NEW u \in User
            PROVE  /\ opened'[u] \in {More(u)', Starter + More(u)'}
                   /\ member'[u] = "none" => opened'[u] = More(u)'
        BY <1>1, <1>2, <1>3, <3>1, <3>2, <3>4 DEF Opens
      <4> QED  BY <4>1 DEF Opens
    <3>6. Alone'  BY <1>1, <2>2, <2>3, <3>1 DEF Alone, At
    <3>7. ASSUME NEW s \in Request  PROVE SignUpOK(s)'
      <4>1. CASE Kind(s) = "register"
        <5>1. s # r /\ UserOf(s) \in User  BY <1>4, <3>1, <4>1
        <5>2. opened[UserOf(s)] = More(UserOf(s)) => opened'[UserOf(s)] = More(UserOf(s))'
          <6>1. ASSUME NEW u \in User, opened[u] = More(u)  PROVE opened'[u] = More(u)'
            BY <1>2, <3>2, <3>4, <6>1
          <6> QED  BY <2>3, <5>1, <6>1
        <5>3. opened[UserOf(s)] >= Starter => opened'[UserOf(s)] >= Starter
          BY <1>2, <1>3, <3>4, <5>1
        <5> QED  BY <1>1, <2>2, <2>3, <3>1, <5>1, <5>2, <5>3 DEF SignUpOK, At
      <4>2. CASE Kind(s) # "register"
        BY <2>3, <4>2 DEF SignUpOK, At
      <4> QED  BY <4>1, <4>2
    <3> QED  BY <1>T, <3>5, <3>6, <3>7, StarterParts
  <2>9. CASE CommitStatus(r)
    <3>1. /\ member' = [member EXCEPT ![UserOf(r)] = call[r].to]
          /\ opened' = opened /\ Kind(r) = "setStatus"
      BY <2>9 DEF CommitStatus, At
    <3>2. UserOf(r) \in User /\ call[r].to # "none"
      BY <1>4, <3>1, CallForms DEF AccessCall, Kind
    <3>3. \A u \in User : member'[u] = "none" => member[u] = "none"
      BY <3>1, <3>2 DEF AccessTypeOK
    <3>4. \A u \in User : member[u] # "none" => member'[u] # "none"
      BY <3>3
    <3>5. \A u \in User : More(u)' = More(u)  BY <2>2, <3>1, MoreKept
    <3>6. Opens' /\ Alone'
      BY <1>1, <2>2, <2>3, <3>1, <3>3, <3>5 DEF Opens, Alone, At
    <3>7. ASSUME NEW s \in Request  PROVE SignUpOK(s)'
      BY <1>1, <1>4, <2>2, <2>3, <3>1, <3>4, <3>5 DEF SignUpOK, At
    <3> QED  BY <1>T, <3>6, <3>7, StarterParts
  <2>10. CASE CheckHold(r) \/ Verify(r) \/ CountFailure(r) \/ StartHold(r) \/ ClearHold(r)
    BY <2>4, <2>10 DEF CheckHold, Verify, CountFailure, StartHold, ClearHold, At, accessVars
  <2>11. CASE ReadSession(r) \/ Act(r) \/ EndSessions(r) \/ WriteStatus(r)
    BY <2>4, <2>11 DEF ReadSession, Act, EndSessions, WriteStatus, At, accessVars
  <2>12. CASE CountKeys(r) \/ InsertKey(r) \/ RevokeKey(r) \/ ReadKey(r) \/ CountUse(r)
    BY <2>4, <2>12 DEF CountKeys, InsertKey, RevokeKey, ReadKey, CountUse, At, accessVars
  <2>13. CASE CreateUser(r) /\ member[UserOf(r)] # "none"
    BY <2>4, <2>13 DEF CreateUser, At, Refuse, Finish, Unchanged, DeskTypeOK
  <2>14. CASE CountAccounts(r)
    BY <2>4, <2>14 DEF CountAccounts, At, Refuse, Read, Unchanged, accessVars
  <2> QED
    BY <1>8, <2>5, <2>6, <2>7, <2>8, <2>9, <2>10, <2>11, <2>12, <2>13, <2>14 DEF AccessStep
<1> QED  BY <1>6, <1>7, <1>8, FamilySteps

-----------------------------------------------------------------------------
(* Tickets.                                                                *)

\* A ticket shows its last word: every step keeps ShowsTheLastWord.
LEMMA WordHolds ==
  ASSUME TypeOK, SidesOK, InOrder, ShowsTheLastWord, [Next]_vars
  PROVE  ShowsTheLastWord'
<1>0. DeskTypeOK /\ TicketTypeOK  BY DEF TypeOK
<1> USE <1>0
<1>1. ASSUME call' = call, ticket' = ticket,
             \A r \in Request : Kind(r) \in TicketKinds =>
               /\ outcome'[r] = outcome[r]
               /\ outcome[r] # "none" => before'[r] = before[r]
      PROVE  ShowsTheLastWord'
  <2> SUFFICES ASSUME NEW t \in Ticket, NEW r \in ActsOn(t)',
                      \A s \in ActsOn(t)' \ {r} : s \in before'[r]
               PROVE  ticket'[t] = LeavesIt(r)'
    BY DEF ShowsTheLastWord
  <2>1. ActsOn(t)' = ActsOn(t)  BY <1>1 DEF ActsOn, Kind, TicketKinds
  <2>2. before'[r] = before[r]  BY <1>1, <2>1 DEF ActsOn, TicketKinds
  <2>3. LeavesIt(r)' = LeavesIt(r)  BY <1>1 DEF LeavesIt, Kind
  <2> QED  BY <1>1, <2>1, <2>2, <2>3 DEF ShowsTheLastWord
<1>2. CASE Quiet(TicketKinds) /\ UNCHANGED ticketVars
  BY <1>1, <1>2 DEF Quiet, ticketVars, InOrder
<1>3. ASSUME NEW r \in Request, TicketStep(r), Frame(r)  PROVE ShowsTheLastWord'
  <2>1. call' = call /\ before' = before /\ InFlight(r)
        /\ \A s \in Request \ {r} : pc'[s] = pc[s] /\ outcome'[s] = outcome[s]
    BY <1>3 DEF Frame
  <2>2. CASE InsertMessage(r) \/ CheckSolved(r)
    BY <1>1, <2>1, <2>2 DEF InsertMessage, CheckSolved, Read, Refuse, Unchanged, ticketVars
  <2>3. CASE OpenTicket(r) \/ SetStatus(r) \/ Solve(r)
    <3>1. Kind(r) \in TicketKinds /\ TicketCall(call[r])
      BY <1>3, TicketShapes, CallForms
    <3>2. PICK t \in Ticket : t = call[r].ticket
      BY <3>1 DEF TicketCall, TicketKinds, Kind
    <3>3. ticket' = [ticket EXCEPT ![t] = LeavesIt(r)]
      <4>1. CASE OpenTicket(r)  BY <3>2, <4>1 DEF OpenTicket, Becomes, LeavesIt, At
      <4>2. CASE SetStatus(r)  BY <3>2, <4>2 DEF SetStatus, Becomes, LeavesIt, At
      <4>3. CASE Solve(r)  BY <3>2, <4>3 DEF Solve, Becomes, LeavesIt, At
      <4> QED  BY <2>3, <4>1, <4>2, <4>3
    <3>4. \A s \in Request : LeavesIt(s)' = LeavesIt(s)  BY <2>1 DEF LeavesIt, Kind
    <3>5. outcome'[r] = "done"  BY <2>3 DEF OpenTicket, SetStatus, Solve, Commit, DeskTypeOK
    <3> SUFFICES ASSUME NEW u \in Ticket, NEW s \in ActsOn(u)',
                        \A q \in ActsOn(u)' \ {s} : q \in before'[s]
                 PROVE  ticket'[u] = LeavesIt(s)'
      BY DEF ShowsTheLastWord
    <3>6. CASE u # t
      <4>1. ActsOn(u)' = ActsOn(u)  BY <2>1, <3>2, <3>6 DEF ActsOn, Kind
      <4>2. ticket'[u] = ticket[u]  BY <3>3, <3>6 DEF TicketTypeOK
      <4>3. s \in Request  BY <4>1 DEF ActsOn
      <4> QED  BY <2>1, <3>4, <4>1, <4>2, <4>3 DEF ShowsTheLastWord
    <3>7. CASE u = t
      <4>1. r \in ActsOn(u)'  BY <2>1, <3>1, <3>2, <3>5, <3>7 DEF ActsOn, Kind, TicketKinds
      <4>2. s \in Request /\ r \notin before[s]
        BY <2>1 DEF ActsOn, InOrder, InFlight
      <4>3. s = r  BY <2>1, <4>1, <4>2
      <4> QED  BY <3>3, <3>4, <3>7, <4>3 DEF TicketTypeOK
    <3> QED  BY <3>6, <3>7
  <2> QED  BY <1>3, <2>2, <2>3 DEF TicketStep
<1> QED  BY <1>2, <1>3, FamilySteps

-----------------------------------------------------------------------------
(* Notifications.                                                          *)

\* r writes what its act deserves, or nothing.
Tells(r) ==
  \/ notices' = notices /\ outcome'[r] = outcome[r]
  \/ Kind(r) = "adminCard"
  \/ /\ outcome'[r] # "none"
     /\ \E told : /\ notices' = notices \cup {[to |-> n[1], kind |-> n[2], by |-> r] : n \in told}
                  /\ told = Deserved(r)'

\* A commit that tells what its act deserves is told of.
LEMMA CommitTells ==
  ASSUME DeskTypeOK, NEW r \in Request, NEW money, NEW told, Commit(r, money, told),
         told = Deserved(r)'
  PROVE  Tells(r)
BY DEF Commit, Tells, DeskTypeOK

\* A step that decides nothing tells nobody.
LEMMA RefuseTells ==
  ASSUME DeskTypeOK, NEW r \in Request, Unchanged(r)
  PROVE  Tells(r)
BY DEF Unchanged, Tells

\* A purchase that is turned down tells nobody.
LEMMA DeclineTells ==
  ASSUME DeskTypeOK, NEW r \in Request, NEW a, Decline(r, a), Kind(r) = "charge"
  PROVE  Tells(r)
<1>1. outcome'[r] = "declined" /\ call' = call  BY DEF Decline, DeskTypeOK
<1>2. PICK told : told = {<<Holder[call[r].card], "card_declined">>}  OBVIOUS
<1>3. told = Deserved(r)'  BY <1>1, <1>2 DEF Deserved
<1>4. PICK p : p = <<Holder[call[r].card], "card_declined">>  OBVIOUS
<1>5. p[1] = Holder[call[r].card] /\ p[2] = "card_declined" /\ told = {p}  BY <1>2, <1>4
<1>6. {[to |-> n[1], kind |-> n[2], by |-> r] : n \in {p}}
     = {[to |-> p[1], kind |-> p[2], by |-> r]}
  OBVIOUS
<1>7. notices' = notices \cup {[to |-> n[1], kind |-> n[2], by |-> r] : n \in told}
  BY <1>5, <1>6 DEF Decline
<1> QED  BY <1>1, <1>3, <1>7 DEF Tells

\* What each kind of act deserves.
LEMMA Deserves ==
  ASSUME NEW r \in Request, call' = call, outcome'[r] = "done"
  PROVE  LET c == call[r] IN
         /\ Kind(r) = "ask" => Deserved(r)' = {<<c.payer, "request_received">>}
         /\ Kind(r) \in {"pay", "decline"} =>
              Deserved(r)' = {<<AskBy[c.ask], "request_answered">>}
         /\ Kind(r) = "transfer" =>
              Deserved(r)' = IF c.payee = c.user THEN {} ELSE {<<c.payee, "money_received">>}
         /\ Kind(r) = "trade" => Deserved(r)' = {<<c.user, "money_received">>}
         /\ Kind(r) = "send" => Deserved(r)' = {<<c.payee, "money_received">>}
         /\ Kind(r) = "decide" => Deserved(r)' = {<<LoanOf[c.loan], "loan_decided">>}
         /\ Kind(r) = "reply" /\ c.staff \in BOOLEAN =>
              Deserved(r)' = IF Answers(r) THEN {<<Writer[c.ticket], "support_reply">>} ELSE {}
         /\ Kind(r) = "solve" => Deserved(r)' = {<<Writer[c.ticket], "support_solved">>}
         /\ Kind(r) \notin {"ask", "pay", "decline", "transfer", "trade", "send", "decide",
                            "reply", "solve"} => Deserved(r)' = {}
BY DEF Deserved, Kind, Answers

\* A notice is a customer and what they are told.
LEMMA DeservedPairs ==
  ASSUME NEW r \in Request
  PROVE  \A n \in Deserved(r)' : n = <<n[1], n[2]>>
BY DEF Deserved

\* Every step of a request tells exactly what it did.
LEMMA ServeTells ==
  ASSUME TypeOK, SidesOK, NEW r \in Request, Serve(r), Frame(r)
  PROVE  Tells(r)
<1>0. DeskTypeOK  BY DEF TypeOK
<1> USE <1>0
<1>1. /\ call' = call
      /\ Kind(r) \in {"reply"} => call[r].staff \in BOOLEAN
  BY CallForms DEF Frame, TicketCall, Kind
<1>2. \A money, told : Commit(r, money, told) => outcome'[r] = "done"
  BY DEF Commit, DeskTypeOK
<1>3. CASE CardStep(r)
  <2>1. CASE CreateCard(r)
    BY <1>1, <1>2, <2>1, CommitTells, RefuseTells, Deserves DEF CreateCard, At, Refuse
  <2>2. CASE ReadCard(r)
    BY <2>2, RefuseTells DEF ReadCard, Refuse, Read
  <2>3. CASE UpdateCard(r)
    BY <1>1, <1>2, <2>3, CommitTells, Deserves DEF UpdateCard, At, Tells
  <2>4. CASE TellCard(r)
    BY <2>4 DEF TellCard, At, Tells
  <2>5. CASE ReadStatus(r)
    BY <2>5, RefuseTells, DeclineTells DEF ReadStatus, At, Refuse, Read
  <2>6. CASE SumSpent(r)
    BY <2>6, RefuseTells, DeclineTells DEF SumSpent, At, Read
  <2>7. CASE DebitCard(r)
    BY <2>7, RefuseTells, DeclineTells DEF DebitCard, Debit, At
  <2>8. CASE CommitCharge(r)
    BY <1>1, <1>2, <2>8, CommitTells, Deserves DEF CommitCharge, At
  <2> QED  BY <1>3, <2>1, <2>2, <2>3, <2>4, <2>5, <2>6, <2>7, <2>8 DEF CardStep
<1>4. CASE AskStep(r)
  <2>1. CASE CountPending(r) \/ Claim(r) \/ LookUpKey(r) \/ DebitPayer(r) \/ CreditPayee(r)
             \/ RecordTransfer(r)
    BY <2>1, RefuseTells DEF CountPending, Claim, LookUpKey, DebitPayer, CreditPayee,
         RecordTransfer, Refuse, Read, Debit, Credit
  <2>2. CASE InsertAsk(r) \/ CommitPay(r) \/ CommitTransfer(r)
    BY <1>1, <1>2, <2>2, CommitTells, Deserves DEF InsertAsk, CommitPay, CommitTransfer, At
  <2>3. CASE DeclineAsk(r) \/ CancelAsk(r)
    BY <1>1, <1>2, <2>3, CommitTells, RefuseTells, Deserves DEF DeclineAsk, CancelAsk, At,
      Refuse
  <2> QED  BY <1>4, <2>1, <2>2, <2>3 DEF AskStep
<1>5. CASE LoanStep(r)
  <2>1. CASE CountLoans(r) \/ LockLoan(r) \/ Fund(r)
    BY <2>1, RefuseTells DEF CountLoans, LockLoan, Fund, Refuse, Read, Credit
  <2>2. CASE InsertLoan(r) \/ CommitDecision(r)
    BY <1>1, <1>2, <2>2, CommitTells, Deserves DEF InsertLoan, CommitDecision, At
  <2> QED  BY <1>5, <2>1, <2>2 DEF LoanStep
<1>6. CASE TicketStep(r)
  <2>1. CASE InsertMessage(r) \/ CheckSolved(r)
    BY <2>1, RefuseTells DEF InsertMessage, CheckSolved, Refuse, Read
  <2>2. CASE OpenTicket(r) \/ Solve(r)
    BY <1>1, <1>2, <2>2, CommitTells, Deserves DEF OpenTicket, Solve, At
  <2>3. CASE SetStatus(r)
    BY <1>1, <1>2, <2>3, CommitTells, Deserves DEF SetStatus, At
  <2> QED  BY <1>6, <2>1, <2>2, <2>3 DEF TicketStep
<1>7. CASE TradeStep(r)
  <2>1. CASE ClaimQuote(r) \/ ReadHolding(r) \/ PayForCoin(r) \/ PayOut(r) \/ ReadSource(r)
    BY <2>1, RefuseTells DEF ClaimQuote, ReadHolding, PayForCoin, PayOut, ReadSource, Refuse,
         Read, Reads, Debit, Credit
  <2>2. CASE TakeCoin(r) \/ ReadTarget(r) \/ GiveCoin(r)
    BY <2>2, RefuseTells DEF TakeCoin, ReadTarget, GiveCoin, Refuse, Read, Reads
  <2>3. CASE CommitTrade(r) \/ CommitMove(r)
    BY <1>1, <1>2, <2>3, CommitTells, Deserves DEF CommitTrade, CommitMove, At
  <2> QED  BY <1>7, <2>1, <2>2, <2>3 DEF TradeStep
<1>8. CASE AccessStep(r)
  <2>0. Kind(r) \in AccessKinds  BY <1>8, AccessShapes
  <2>1. ASSUME NEW money, Commit(r, money, {})  PROVE Tells(r)
    BY <1>1, <1>2, <2>0, <2>1, CommitTells, Deserves DEF AccessKinds
  <2>2. Unchanged(r) \/ \E money : Commit(r, money, {})
    BY <1>8 DEF AccessStep, CheckHold, Verify, CountFailure, StartHold, ClearHold, OpenSession,
         CreateUser, OpenStarters, CountAccounts, InsertAccount, ReadSession, Act, EndSessions,
         WriteStatus, CommitStatus, CountKeys, InsertKey, RevokeKey, ReadKey, CountUse, Read,
         Refuse
  <2> QED  BY <2>1, <2>2, RefuseTells
<1> QED  BY <1>3, <1>4, <1>5, <1>6, <1>7, <1>8 DEF Serve

\* Every act is told once: every step keeps ToldOfEveryAct.
LEMMA ToldHolds ==
  ASSUME TypeOK, SidesOK, InOrder, ToldOfEveryAct, [Next]_vars
  PROVE  ToldOfEveryAct'
<1>0. DeskTypeOK  BY DEF TypeOK
<1> USE <1>0
<1>1. ASSUME NEW s \in Request, call' = call, outcome'[s] = outcome[s],
             \A n \in notices' : n \in notices \/ n.by # s,
             \A n \in notices : n \in notices',
             Kind(s)' # "adminCard"
      PROVE  Told(s)' = Deserved(s)'
  <2>1. Deserved(s)' = Deserved(s)  BY <1>1 DEF Deserved, Answers, Kind
  <2>2. Told(s)' = Told(s)  BY <1>1 DEF Told
  <2> QED  BY <1>1, <2>1, <2>2 DEF ToldOfEveryAct, Kind
<1>2. CASE call' = call /\ outcome' = outcome /\ notices' = notices
  BY <1>1, <1>2 DEF ToldOfEveryAct
<1>3. ASSUME NEW r \in Request, Serve(r), Frame(r)  PROVE ToldOfEveryAct'
  <2>1. /\ call' = call /\ \A s \in Request \ {r} : outcome'[s] = outcome[s]
        /\ \A n \in notices : n \in notices'
        /\ \A n \in notices' : n \in notices \/ n.by = r
    BY <1>3 DEF Frame
  <2>2. ASSUME NEW s \in Request \ {r}, Kind(s)' # "adminCard"  PROVE Told(s)' = Deserved(s)'
    BY <1>1, <2>1, <2>2
  <2>3. ASSUME Kind(r)' # "adminCard"  PROVE Told(r)' = Deserved(r)'
    <3>1. Kind(r) # "adminCard"  BY <2>1, <2>3 DEF Kind
    <3>2. CASE notices' = notices /\ outcome'[r] = outcome[r]
      BY <2>1, <2>3, <3>1, <3>2 DEF Told, Deserved, Answers, Kind, ToldOfEveryAct
    <3>3. ASSUME NEW told, told = Deserved(r)',
                 notices' = notices \cup {[to |-> n[1], kind |-> n[2], by |-> r] : n \in told}
          PROVE  Told(r)' = Deserved(r)'
      <4>1. outcome[r] = "none"  BY <1>3, <3>1 DEF Frame, InOrder, InFlight, At
      <4>2. Told(r) = {}  BY <3>1, <4>1 DEF ToldOfEveryAct, Deserved
      <4>3. \A n \in notices : n.by # r  BY <4>2 DEF Told
      <4>4. \A n \in told : n = <<n[1], n[2]>>  BY <3>3, DeservedPairs
      <4>5. \A n \in told : <<n[1], n[2]>> \in Told(r)'
        <5> SUFFICES ASSUME NEW n \in told  PROVE <<n[1], n[2]>> \in Told(r)'
          OBVIOUS
        <5>1. PICK m : m = [to |-> n[1], kind |-> n[2], by |-> r]  OBVIOUS
        <5>2. m \in notices' /\ m.by = r /\ m.to = n[1] /\ m.kind = n[2]  BY <3>3, <5>1
        <5> QED  BY <5>2 DEF Told
      <4>6. ASSUME NEW p \in Told(r)'  PROVE p \in told
        <5>1. PICK m \in notices' : m.by = r /\ p = <<m.to, m.kind>>  BY <4>6 DEF Told
        <5>2. PICK n \in told : m = [to |-> n[1], kind |-> n[2], by |-> r]
          BY <3>3, <4>3, <5>1
        <5>3. p = <<n[1], n[2]>>  BY <5>1, <5>2
        <5> QED  BY <4>4, <5>2, <5>3
      <4>7. \A p : p \in Told(r)' <=> p \in told  BY <4>4, <4>5, <4>6
      <4> QED  BY <3>3, <4>7
    <3> QED  BY <1>3, <3>1, <3>2, <3>3, ServeTells DEF Tells
  <2> QED  BY <2>2, <2>3 DEF ToldOfEveryAct
<1> QED
  BY <1>2, <1>3, StepKinds DEF Arrives, Begin, Frame, Stops, vars, deskVars

-----------------------------------------------------------------------------
(* The inductive invariant.                                                *)

\* In the first scene no request has begun.
LEMMA NobodyYet ==
  ASSUME Init
  PROVE  \A r \in Request : pc[r] = "idle" /\ outcome[r] = "none" /\ before[r] = {}
BY DEF Init, DeskInit

\* AskInv holds in the first scenes.
LEMMA AsksStart == Init => AskInv
<1> SUFFICES ASSUME Init  PROVE AskInv
  OBVIOUS
<1>1. call \in Plan  BY DEF Init, DeskInit
<1>2. ask = [q \in Ask |-> IF q \in Asked THEN "pending" ELSE "none"]
      /\ paidBy = [q \in Ask |-> None]
  BY DEF Init, AskInit
<1>3. ASSUME NEW q \in Ask  PROVE Answering(q) = {}
  BY NobodyYet DEF Answering
<1>4. AnsweredOnce
  BY <1>2, <1>3, FS_EmptySet DEF AnsweredOnce
<1>5. ASSUME NEW r \in Request, Kind(r) = "ask"  PROVE ask[call[r].ask] = "none"
  BY <1>1, <1>2, <1>5, PlanAssumption DEF AskCall, Kind
<1> QED  BY <1>3, <1>4, <1>5, NobodyYet DEF AskInv, Settles

\* LoanInv holds in the first scenes.
LEMMA LoansStart == Init => LoanInv
<1> SUFFICES ASSUME Init  PROVE LoanInv
  OBVIOUS
<1>1. call \in Plan /\ loan = [l \in Loan |-> IF l \in Applied THEN "pending" ELSE "none"]
  BY DEF Init, DeskInit, LoanInit
<1>2. ASSUME NEW r \in Request, Kind(r) = "loan"  PROVE loan[call[r].loan] = "none"
  BY <1>1, <1>2, PlanAssumption DEF LoanCall, Kind
<1>3. Decided  BY NobodyYet DEF Decided, Deciders
<1> QED  BY <1>2, <1>3, NobodyYet, LoanParts DEF LoanPart

\* StarterInv holds in the first scenes.
LEMMA StartersStart == Init => StarterInv
<1> SUFFICES ASSUME Init  PROVE StarterInv
  OBVIOUS
<1>1. TypeOK  BY Starts
<1>2. ASSUME NEW u \in User  PROVE More(u) = 0
  <2>1. {r \in Done({"open"}) : UserOf(r) = u} = {}  BY NobodyYet DEF Done
  <2> QED  BY <2>1, FS_EmptySet DEF More
<1>3. Opens  BY <1>2, AccessAssumption DEF Opens, Init, AccessInit
<1>4. Alone /\ \A r \in Request : SignUpOK(r)  BY NobodyYet DEF Alone, SignUpOK, At
<1> QED  BY <1>1, <1>3, <1>4, StarterParts

\* What DoneOnceAndTold says beyond the invariants it follows from.
LEMMA OnceParts ==
  AskInv /\ LoanInv /\ StarterInv /\ ShowsTheLastWord /\ ToldOfEveryAct => DoneOnceAndTold
<1>1. AskInv => KeyPaysOnce
  BY DEF AskInv, KeyPaysOnce, Settles
<1> QED  BY <1>1 DEF AskInv, LoanInv, StarterInv, DoneOnceAndTold

\* OnceInv is inductive: the types, the order of requests, and what the desk
\* has done once and told of.  Every first scene has it, and every step of a
\* request, of the server (a request breaks off, or all of them do) and of the
\* clock keeps it.
THEOREM OnceInductive == Spec => []OnceInv
<1>1. Init => OnceInv
  <2> SUFFICES ASSUME Init  PROVE OnceInv
    OBVIOUS
  <2>1. ShowsTheLastWord  BY NobodyYet DEF ShowsTheLastWord, ActsOn
  <2>2. ToldOfEveryAct
    <3>1. notices = {}  BY DEF Init, DeskInit
    <3> QED  BY <3>1, NobodyYet DEF ToldOfEveryAct, Told, Deserved
  <2> QED  BY <2>1, <2>2, Starts, AsksStart, LoansStart, StartersStart, OnceParts DEF OnceInv
<1>2. OnceInv /\ [Next]_vars => OnceInv'
  <2> SUFFICES ASSUME OnceInv, [Next]_vars  PROVE OnceInv'
    OBVIOUS
  <2>1. /\ TypeOK /\ SidesOK /\ InOrder /\ AskInv /\ LoanInv /\ StarterInv
        /\ ShowsTheLastWord /\ ToldOfEveryAct
    BY DEF OnceInv, DoneOnceAndTold
  <2>2. TypeOK' /\ SidesOK' /\ InOrder'  BY <2>1, TypesStep, SidesStep, OrderStep
  <2>3. AskInv' /\ LoanInv' /\ StarterInv'
    BY <2>1, AskHolds, LoanHolds, StarterHolds
  <2>4. ShowsTheLastWord' /\ ToldOfEveryAct'
    BY <2>1, WordHolds, ToldHolds
  <2>5. DoneOnceAndTold'
    BY <2>3, <2>4 DEF AskInv, KeyPaysOnce, Settles, LoanInv, StarterInv, DoneOnceAndTold
  <2> QED  BY <2>2, <2>3, <2>5 DEF OnceInv
<1> QED  BY <1>1, <1>2, PTL DEF Spec

\* At every moment each table, each request and each row holds what it may.
THEOREM TypeCorrect == Spec => []TypeOK
BY OnceInductive, PTL DEF OnceInv

\* A money request is answered once, a loan decided once, the starter accounts
\* made once, a ticket shows the last word said, and every act is told of to
\* those it concerns, once: whatever requests interleave, break off or meet.
THEOREM DoneOnce == Spec => []DoneOnceAndTold
BY OnceInductive, PTL DEF OnceInv

-----------------------------------------------------------------------------
(* What the desk allows and stops, and its books.  The first lemmas are     *)
(* about sums over finite sets.                                            *)

\* A set of naturals has a least element.
LEMMA Least ==
  ASSUME NEW S \in SUBSET Nat, S # {}
  PROVE  \E x \in S : \A y \in S : x <= y
<1> DEFINE below == {0..n : n \in S}
<1>1. below \subseteq FiniteSubsetsOf(Nat) /\ below # {}
  <2>1. \A n \in S : 0..n \subseteq Nat /\ IsFiniteSet(0..n)  BY FS_Interval
  <2> QED  BY <2>1 DEF FiniteSubsetsOf
<1>2. PICK b \in below : \A a \in below : <<a, b>> \notin StrictSubsetOrdering(Nat)
  <2> HIDE DEF below
  <2> QED  BY <1>1, FS_StrictSubsetOrderingWellFounded, WFMin
<1>3. PICK x \in S : b = 0..x  OBVIOUS
<1>4. ASSUME NEW y \in S  PROVE x <= y
  <2> SUFFICES ASSUME y < x PROVE FALSE  OBVIOUS
  <2>1. <<0..y, b>> \notin StrictSubsetOrdering(Nat)  BY <1>2
  <2>2. 0..y \subseteq 0..x /\ x \in 0..x /\ x \notin 0..y /\ 0..x \subseteq Nat  OBVIOUS
  <2>3. 0..y # 0..x  BY <2>2
  <2>4. <<0..y, 0..x>> \in (SUBSET Nat) \X (SUBSET Nat)  BY <2>2
  <2> QED  BY <1>3, <2>1, <2>2, <2>3, <2>4 DEF StrictSubsetOrdering
<1> QED  BY <1>4

-----------------------------------------------------------------------------
(* Sums over finite sets.                                                  *)

First(s) == CHOOSE x \in s : TRUE

\* g adds up F over every set of S.
Table(F, S, g) ==
  g = [s \in SUBSET S |-> IF s = {} THEN 0 ELSE F[First(s)] + g[s \ {First(s)}]]

\* What the library computes is the entry of some table, if there is one.
LEMMA SumIsInATable ==
  ASSUME NEW F, NEW S, NEW g, Table(F, S, g)
  PROVE  \E h : Table(F, S, h) /\ SumFunctionOnSet(F, S) = h[S]
BY DEF SumFunctionOnSet, FoldFunctionOnSet, MapThenFoldSet, Table, First

\* The sets of a finite set that make a claim false have a smallest one.
LEMMA Smallest ==
  ASSUME NEW S, IsFiniteSet(S), NEW Bad \in SUBSET (SUBSET S), Bad # {}
  PROVE  \E b \in Bad : \A x \in b : b \ {x} \notin Bad
<1> DEFINE sizes == {Cardinality(b) : b \in Bad}
<1>1. \A b \in Bad : IsFiniteSet(b) /\ Cardinality(b) \in Nat
  BY FS_Subset, FS_CardinalityType
<1>2. PICK b \in Bad : \A c \in Bad : Cardinality(b) <= Cardinality(c)
  <2>1. sizes \in SUBSET Nat /\ sizes # {}  BY <1>1
  <2>2. \E n \in sizes : \A m \in sizes : n <= m
    <3> HIDE DEF sizes
    <3> QED  BY <2>1, Least
  <2> QED  BY <2>2
<1>3. ASSUME NEW x \in b, b \ {x} \in Bad  PROVE FALSE
  <2>1. Cardinality(b \ {x}) = Cardinality(b) - 1  BY <1>1, <1>3, FS_RemoveElement
  <2> QED  BY <1>1, <1>2, <1>3, <2>1
<1> QED  BY <1>3

\* The element a sum starts with is one of the set's.
LEMMA FirstIn == ASSUME NEW s, s # {} PROVE First(s) \in s
BY DEF First

\* Every finite set has a table.
LEMMA TableExists ==
  ASSUME NEW F, NEW S, IsFiniteSet(S)
  PROVE  \E g : Table(F, S, g)
<1> DEFINE Upto(n, g) ==
      \A s \in SUBSET S : Cardinality(s) <= n =>
        g[s] = IF s = {} THEN 0 ELSE F[First(s)] + g[s \ {First(s)}]
    bad == {n \in Nat : ~ \E g : Upto(n, g)}
<1>1. \A s \in SUBSET S : IsFiniteSet(s) /\ Cardinality(s) \in Nat
  BY FS_Subset, FS_CardinalityType
<1>2. \A s \in SUBSET S : s # {} =>
        /\ s \ {First(s)} \in SUBSET S
        /\ Cardinality(s \ {First(s)}) = Cardinality(s) - 1
  BY <1>1, FirstIn, FS_RemoveElement
<1>3. bad = {}
  <2> SUFFICES ASSUME bad # {} PROVE FALSE  OBVIOUS
  <2>1. PICK n \in bad : \A m \in bad : n <= m
    <3>1. bad \in SUBSET Nat  OBVIOUS
    <3> HIDE DEF bad
    <3> QED  BY <3>1, Least
  <2>2. n # 0
    <3>1. Upto(0, [s \in SUBSET S |-> 0])
      <4> SUFFICES ASSUME NEW s \in SUBSET S, Cardinality(s) <= 0 PROVE s = {}  OBVIOUS
      <4> QED  BY <1>1, FS_EmptySet
    <3> QED  BY ZenonT(60), <2>1, <3>1
  <2>3. n - 1 \in Nat /\ n \in Nat  BY <2>2
  <2>4. PICK g : Upto(n - 1, g)
    <3>1. n - 1 \notin bad
      <4> HIDE DEF bad
      <4> QED  BY <2>1, <2>3
    <3> HIDE DEF Upto
    <3> QED  BY <2>3, <3>1
  <2> DEFINE h == [s \in SUBSET S |->
        IF Cardinality(s) <= n - 1 THEN g[s]
        ELSE F[First(s)] + g[s \ {First(s)}]]
  <2>5. Upto(n, h)
    <3> SUFFICES ASSUME NEW s \in SUBSET S, Cardinality(s) <= n
                 PROVE  h[s] = IF s = {} THEN 0 ELSE F[First(s)] + h[s \ {First(s)}]
      OBVIOUS
    <3>1. CASE s = {}
      <4>1. Cardinality(s) = 0  BY <3>1, FS_EmptySet
      <4>2. Cardinality(s) <= n - 1  BY <2>3, <4>1
      <4>3. g[s] = 0  BY <2>4, <3>1, <4>2
      <4> QED  BY <3>1, <4>2, <4>3
    <3>2. CASE s # {}
      <4>1. Cardinality(s \ {First(s)}) <= n - 1 /\ s \ {First(s)} \in SUBSET S
        BY <1>1, <1>2, <2>3, <3>2
      <4>2. h[s \ {First(s)}] = g[s \ {First(s)}]  BY <4>1
      <4>3. CASE Cardinality(s) <= n - 1  BY <2>4, <3>2, <4>2, <4>3
      <4>4. CASE ~(Cardinality(s) <= n - 1)  BY <3>2, <4>2, <4>4
      <4> QED  BY <4>3, <4>4
    <3> QED  BY <3>1, <3>2
  <2> HIDE DEF Upto
  <2> QED  BY <2>1, <2>5
<1>4. PICK g : Upto(Cardinality(S), g)
  <2>1. Cardinality(S) \in Nat  BY FS_CardinalityType
  <2> HIDE DEF Upto
  <2> QED  BY <1>3, <2>1
<1> DEFINE h == [s \in SUBSET S |-> g[s]]
<1>5. \A s \in SUBSET S :
        h[s] = IF s = {} THEN 0 ELSE F[First(s)] + h[s \ {First(s)}]
  <2>1. \A s \in SUBSET S : Cardinality(s) <= Cardinality(S)  BY FS_Subset
  <2> QED  BY <1>2, <1>4, <2>1
<1>6. Table(F, S, h)  BY <1>5 DEF Table
<1> QED  BY <1>6

\* Two tables agree on the sets they share, where the functions do.
LEMMA TablesAgree ==
  ASSUME NEW F, NEW G, NEW S, NEW T, NEW g, NEW h, IsFiniteSet(S),
         Table(F, S, g), Table(G, T, h), S \subseteq T,
         \A x \in S : F[x] = G[x]
  PROVE  \A s \in SUBSET S : g[s] = h[s]
<1> DEFINE bad == {s \in SUBSET S : g[s] # h[s]}
<1> SUFFICES ASSUME bad # {} PROVE FALSE  OBVIOUS
<1>1. PICK b \in bad : \A x \in b : b \ {x} \notin bad
  <2>1. bad \in SUBSET (SUBSET S)  OBVIOUS
  <2> HIDE DEF bad
  <2> QED  BY <2>1, Smallest
<1>2. g[b] = IF b = {} THEN 0 ELSE F[First(b)] + g[b \ {First(b)}]  BY DEF Table
<1>3. h[b] = IF b = {} THEN 0 ELSE G[First(b)] + h[b \ {First(b)}]  BY DEF Table
<1>4. b # {} => /\ F[First(b)] = G[First(b)]
                /\ g[b \ {First(b)}] = h[b \ {First(b)}]
  BY <1>1, FirstIn
<1> QED  BY <1>2, <1>3, <1>4

\* What the sum of a finite set is made of.
LEMMA SumOfFirst ==
  ASSUME NEW F, NEW S, IsFiniteSet(S), NEW T \in SUBSET S
  PROVE  SumFunctionOnSet(F, T) =
           IF T = {} THEN 0
           ELSE F[First(T)] + SumFunctionOnSet(F, T \ {First(T)})
<1>1. IsFiniteSet(T) /\ IsFiniteSet(T \ {First(T)})  BY FS_Subset
<1>2. PICK g : Table(F, T, g) /\ SumFunctionOnSet(F, T) = g[T]
  BY <1>1, TableExists, SumIsInATable
<1>3. PICK h : /\ Table(F, T \ {First(T)}, h)
               /\ SumFunctionOnSet(F, T \ {First(T)}) = h[T \ {First(T)}]
  BY <1>1, TableExists, SumIsInATable
<1>4. g[T \ {First(T)}] = h[T \ {First(T)}]
  BY <1>1, <1>2, <1>3, TablesAgree
<1>5. g[T] = IF T = {} THEN 0 ELSE F[First(T)] + g[T \ {First(T)}]
  BY <1>2 DEF Table
<1> QED  BY <1>2, <1>3, <1>4, <1>5

\* The sum depends on the values it adds up.
LEMMA SumSame ==
  ASSUME NEW F, NEW G, NEW S, IsFiniteSet(S), \A x \in S : F[x] = G[x]
  PROVE  SumFunctionOnSet(F, S) = SumFunctionOnSet(G, S)
<1>1. PICK g : Table(F, S, g) /\ SumFunctionOnSet(F, S) = g[S]
  BY TableExists, SumIsInATable
<1>2. PICK h : Table(G, S, h) /\ SumFunctionOnSet(G, S) = h[S]
  BY TableExists, SumIsInATable
<1>3. g[S] = h[S]  BY <1>1, <1>2, TablesAgree
<1> QED  BY <1>1, <1>2, <1>3

\* The sum of nothing is 0.
LEMMA SumOfNone == ASSUME NEW F PROVE SumFunctionOnSet(F, {}) = 0
BY SumOfFirst, FS_EmptySet

\* Sums of integers are integers.
LEMMA SumInt ==
  ASSUME NEW F, NEW S, IsFiniteSet(S), \A x \in S : F[x] \in Int
  PROVE  \A T \in SUBSET S : SumFunctionOnSet(F, T) \in Int
<1> DEFINE bad == {T \in SUBSET S : SumFunctionOnSet(F, T) \notin Int}
<1> SUFFICES ASSUME bad # {} PROVE FALSE  OBVIOUS
<1>1. PICK b \in bad : \A x \in b : b \ {x} \notin bad
  <2>1. bad \in SUBSET (SUBSET S)  OBVIOUS
  <2> HIDE DEF bad
  <2> QED  BY <2>1, Smallest
<1>2. b # {} /\ First(b) \in b  BY SumOfNone, FirstIn
<1>3. SumFunctionOnSet(F, b \ {First(b)}) \in Int  BY <1>1, <1>2
<1>4. SumFunctionOnSet(F, b) = F[First(b)] + SumFunctionOnSet(F, b \ {First(b)})
  BY <1>2, SumOfFirst
<1> QED  BY <1>2, <1>3, <1>4

\* Whatever is added up last, the sum is the same.
LEMMA SumRemove ==
  ASSUME NEW F, NEW S, IsFiniteSet(S), \A x \in S : F[x] \in Int
  PROVE  \A T \in SUBSET S : \A x \in T :
           SumFunctionOnSet(F, T) = F[x] + SumFunctionOnSet(F, T \ {x})
<1> DEFINE
      Right(T) == \A x \in T : SumFunctionOnSet(F, T) = F[x] + SumFunctionOnSet(F, T \ {x})
      bad == {T \in SUBSET S : ~Right(T)}
<1> SUFFICES ASSUME bad # {} PROVE FALSE  OBVIOUS
<1>1. PICK b \in bad : \A x \in b : b \ {x} \notin bad
  <2>1. bad \in SUBSET (SUBSET S)  OBVIOUS
  <2> HIDE DEF bad
  <2> QED  BY <2>1, Smallest
<1>2. b \in SUBSET S /\ b # {} /\ First(b) \in b  BY FirstIn
<1>3. \A x \in b : Right(b \ {x})
  <2> HIDE DEF Right
  <2> QED  BY <1>1, <1>2
<1>4. SumFunctionOnSet(F, b) = F[First(b)] + SumFunctionOnSet(F, b \ {First(b)})
  BY <1>2, SumOfFirst
<1>5. ASSUME NEW x \in b
      PROVE  SumFunctionOnSet(F, b) = F[x] + SumFunctionOnSet(F, b \ {x})
  <2> DEFINE c == First(b)
             both == (b \ {c}) \ {x}
  <2>1. CASE x = c  BY <1>4, <2>1
  <2>2. CASE x # c
    <3>1. SumFunctionOnSet(F, b \ {c}) = F[x] + SumFunctionOnSet(F, both)
      BY <1>2, <1>3, <2>2
    <3>2. SumFunctionOnSet(F, b \ {x}) = F[c] + SumFunctionOnSet(F, both)
      <4>1. both = (b \ {x}) \ {c}  OBVIOUS
      <4>2. c \in b \ {x}  BY <1>2, <2>2
      <4> HIDE DEF both, c
      <4> QED  BY <1>3, <4>1, <4>2
    <3>3. SumFunctionOnSet(F, both) \in Int  BY <1>2, SumInt
    <3>4. /\ F[x] \in Int /\ F[c] \in Int
          /\ SumFunctionOnSet(F, b \ {c}) \in Int /\ SumFunctionOnSet(F, b \ {x}) \in Int
      BY <1>2, SumInt
    <3>5. SumFunctionOnSet(F, b) = F[c] + SumFunctionOnSet(F, b \ {c})  BY <1>4
    <3> HIDE DEF both, c
    <3> QED  BY <3>1, <3>2, <3>3, <3>4, <3>5
  <2> QED  BY <2>1, <2>2
<1> QED  BY <1>1, <1>5

\* One more thing is added up.
LEMMA SumAdd ==
  ASSUME NEW F, NEW S, IsFiniteSet(S), NEW x, x \notin S,
         \A y \in S \cup {x} : F[y] \in Int
  PROVE  /\ SumFunctionOnSet(F, S) \in Int
         /\ SumFunctionOnSet(F, S \cup {x}) = F[x] + SumFunctionOnSet(F, S)
<1>1. IsFiniteSet(S \cup {x})  BY FS_AddElement
<1>2. SumFunctionOnSet(F, S) \in Int  BY <1>1, SumInt
<1>3. SumFunctionOnSet(F, S \cup {x}) = F[x] + SumFunctionOnSet(F, (S \cup {x}) \ {x})
  BY <1>1, SumRemove
<1>4. (S \cup {x}) \ {x} = S  OBVIOUS
<1> QED  BY <1>2, <1>3, <1>4

\* One value changes.
LEMMA SumChange ==
  ASSUME NEW F, NEW G, NEW S, IsFiniteSet(S), NEW x \in S,
         \A y \in S : F[y] \in Int /\ G[y] \in Int,
         \A y \in S \ {x} : F[y] = G[y]
  PROVE  /\ SumFunctionOnSet(F, S) \in Int
         /\ SumFunctionOnSet(G, S) = SumFunctionOnSet(F, S) + (G[x] - F[x])
<1>1. IsFiniteSet(S \ {x})  BY FS_RemoveElement
<1>2. SumFunctionOnSet(F, S \ {x}) = SumFunctionOnSet(G, S \ {x})  BY <1>1, SumSame
<1>3. /\ SumFunctionOnSet(F, S) = F[x] + SumFunctionOnSet(F, S \ {x})
      /\ SumFunctionOnSet(G, S) = G[x] + SumFunctionOnSet(G, S \ {x})
  BY SumRemove
<1>4. SumFunctionOnSet(F, S \ {x}) \in Int /\ SumFunctionOnSet(F, S) \in Int
  BY SumInt
<1> QED  BY <1>2, <1>3, <1>4

-----------------------------------------------------------------------------
(* What has happened stays so.                                             *)

\* What a request has done stays done, and what it met at its start stays met.
LEMMA Past ==
  ASSUME OnceInv, [Next]_vars
  PROVE  /\ call' = call
         /\ \A r \in Request :
              /\ pc[r] # "idle" => pc'[r] # "idle" /\ before'[r] = before[r]
              /\ pc[r] = "over" => pc'[r] = "over" /\ outcome'[r] = outcome[r]
              /\ outcome[r] = "done" => outcome'[r] = "done"
              /\ pc[r] = "idle" /\ pc'[r] # "idle" =>
                   /\ pc'[r] = "start" /\ outcome'[r] = "none"
                   /\ before'[r] = {s \in Request : pc[s] = "over"}
<1>0. DeskTypeOK /\ TypeOK /\ SidesOK /\ InOrder  BY DEF OnceInv, TypeOK
<1> USE <1>0
<1>1. ASSUME NEW r \in Request, Serve(r), Frame(r)
      PROVE  outcome[r] = "done" => outcome'[r] = "done"
  <2> SUFFICES ASSUME outcome[r] = "done"  PROVE outcome'[r] = "done"
    OBVIOUS
  <2>1. At(r, {"adminCard"}, "tell")  BY <1>1 DEF InOrder, Frame, InFlight
  <2>2. CardStep(r)
    <3>1. Kind(r) \in CardKinds  BY <2>1 DEF At, CardKinds
    <3> QED
      BY <1>1, <3>1, AskShapes, LoanShapes, TicketShapes, TradeShapes, AccessShapes, Kinds
         DEF Serve
  <2>3. TellCard(r)
    BY <2>1, <2>2 DEF At, CardStep, CreateCard, ReadCard, UpdateCard, ReadStatus, SumSpent,
                      DebitCard, CommitCharge
  <2> QED  BY <2>3 DEF TellCard, Commit, DeskTypeOK
<1>2. CASE \E r \in Request : Serve(r) /\ Frame(r)
  BY <1>1, <1>2 DEF Frame, InFlight, InOrder
<1>3. CASE \E r \in Request : Arrives(r)
  BY <1>3 DEF Arrives, Begin, Goto, DeskTypeOK, InOrder
<1>4. CASE \E r \in Request : /\ Frame(r) /\ UNCHANGED <<outcome, notices, Tables>>
                              /\ pc'[r] = "over"
  BY <1>4 DEF Frame, InFlight
<1>5. CASE Stops
  BY <1>5 DEF Stops, InFlight
<1>6. CASE UNCHANGED deskVars
  BY <1>6 DEF deskVars
<1> QED  BY <1>2, <1>3, <1>4, <1>5, <1>6, StepKinds DEF vars

\* Two requests under way meet.
LEMMA UnderWay ==
  ASSUME InOrder, NEW r \in Request, NEW s \in Request, InFlight(r), InFlight(s)
  PROVE  Met(r, s)
BY DEF InOrder, InFlight, Met

\* Those who came one after the other did so at every step before.
LEMMA TurnsBefore ==
  ASSUME OnceInv, [Next]_vars, NEW S \in SUBSET Request
  PROVE  /\ InTurn(Begun(S))' => InTurn(Begun(S))
         /\ \A r, s \in Begun(S) : Met(r, s)' <=> Met(r, s)
<1>1. \A r, s \in Begun(S) : Met(r, s)' <=> Met(r, s)  BY Past DEF Begun, Met
<1>2. \A r \in Begun(S) : r \in Begun(S)'  BY Past DEF Begun
<1> QED  BY <1>1, <1>2 DEF InTurn

\* Of those who came one after the other, one at most is under way.
LEMMA OneUnderWay ==
  ASSUME OnceInv, NEW S \in SUBSET Request, InTurn(Begun(S))
  PROVE  \A r, s \in S : InFlight(r) /\ InFlight(s) => r = s
BY UnderWay DEF OnceInv, InTurn, Begun, InFlight

-----------------------------------------------------------------------------
(* Cards.                                                                  *)

\* A limit that a card was given stays one of its limits.
LEMMA LimitsGrow ==
  ASSUME OnceInv, [Next]_vars, NEW k
  PROVE  \A n \in Limits(k) : n \in Limits(k)' /\ n \in Nat
<1>0. DeskTypeOK  BY DEF OnceInv, TypeOK
<1> SUFFICES ASSUME NEW n \in Limits(k)  PROVE n \in Limits(k)' /\ n \in Nat
  OBVIOUS
<1>1. CASE n = StartLimit  BY <1>1, CardAssumption DEF Limits
<1>2. ASSUME NEW q \in Request, Kind(q) \in {"setCard", "adminCard"}, call[q].card = k,
             call[q].limit # None, outcome[q] = "done", n = call[q].limit
      PROVE  n \in Limits(k)' /\ n \in Nat
  <2>1. n \in Nat  BY <1>0, <1>2, CallForms DEF CardCall, Kind
  <2>2. Kind(q)' = Kind(q) /\ call' = call /\ outcome'[q] = "done"
    BY <1>2, Past DEF Kind
  <2> QED  BY <1>2, <2>1, <2>2 DEF Limits
<1> QED  BY <1>1, <1>2 DEF Limits

\* Who froze a card, and who can thaw it, is settled when they are over.
LEMMA CardSame ==
  ASSUME OnceInv, [Next]_vars, NEW k
  PROVE  /\ Activates(k)' = Activates(k)
         /\ \A s \in Request : Froze(s, k) => Froze(s, k)' /\ pc[s] # "idle"
         /\ \A s \in Request : pc[s] = "over" => (Froze(s, k)' <=> Froze(s, k))
<1>1. call' = call /\ \A r \in Request : Kind(r)' = Kind(r)  BY Past DEF Kind
<1>2. Activates(k)' = Activates(k)  BY <1>1 DEF Activates, Unfreezes
<1> QED  BY <1>1, <1>2, Past DEF Froze, OnceInv, InOrder

\* Whoever may have thawed a card may have done so ever after.
LEMMA ThawsStay ==
  ASSUME OnceInv, [Next]_vars, NEW k, NEW r \in Request, pc[r] # "idle", Thaws(r, k)
  PROVE  Thaws(r, k)'
<1>0. DeskTypeOK /\ InOrder  BY DEF OnceInv, TypeOK
<1> SUFFICES ASSUME NEW s, s \in before'[r], Froze(s, k)'
             PROVE  \E u \in Activates(k)' :
                      pc'[u] # "idle" /\ u \notin before'[s] /\ r \notin before'[u]
  BY DEF Thaws
<1>1. s \in before[r] /\ s \in Request /\ pc[s] = "over"
  BY <1>0, Past DEF DeskTypeOK, InOrder
<1>2. Froze(s, k)  BY <1>1, CardSame
<1>3. PICK u \in Activates(k) : pc[u] # "idle" /\ u \notin before[s] /\ r \notin before[u]
  BY <1>1, <1>2 DEF Thaws
<1>4. u \in Request  BY DEF Activates
<1> QED  BY <1>1, <1>3, <1>4, Past, CardSame

\* A card's freeze and limit are what was last asked for.
Iced(k) ==
  \A s \in Request :
    Froze(s, k) => \/ card[k].status = "frozen"
                   \/ \E u \in Activates(k) : outcome[u] = "done" /\ u \notin before[s]
Limited(k) == \E n \in Limits(k) : card[k].limit <= n

\* A card that is left alone stays frozen and keeps one of its limits.
LEMMA CardKept ==
  ASSUME OnceInv, CardInv, [Next]_vars, NEW k \in Card, card'[k] = card[k],
         \A s \in Request : Froze(s, k)' => Froze(s, k)
  PROVE  Iced(k)' /\ Limited(k)'
<1>0. InOrder  BY DEF OnceInv
<1>1. Iced(k) /\ Limited(k)  BY DEF CardInv, Iced, Limited
<1>2. Limited(k)'  BY <1>1, LimitsGrow DEF Limited
<1>3. ASSUME NEW s \in Request, Froze(s, k)'
      PROVE  \/ card'[k].status = "frozen"
             \/ \E u \in Activates(k)' : outcome'[u] = "done" /\ u \notin before'[s]
  <2>1. Froze(s, k) /\ pc[s] # "idle"  BY <1>3, CardSame
  <2>2. CASE card[k].status = "frozen"  BY <2>2
  <2>3. CASE \E u \in Activates(k) : outcome[u] = "done" /\ u \notin before[s]
    <3>1. PICK u \in Activates(k) : outcome[u] = "done" /\ u \notin before[s]  BY <2>3
    <3>2. u \in Request  BY DEF Activates
    <3> QED  BY <2>1, <3>1, <3>2, Past, CardSame
  <2> QED  BY <1>1, <2>1, <2>2, <2>3 DEF Iced
<1> QED  BY <1>2, <1>3 DEF Iced

\* A card is written over by r.
LEMMA CardWritten ==
  ASSUME OnceInv, CardInv, [Next]_vars, NEW r \in Request, Frame(r),
         NEW k \in Card, call[r].card = k, outcome'[r] = "done",
         \/ Kind(r) = "createCard" /\ card'[k] = NewCard
         \/ Kind(r) \in {"setCard", "adminCard"} /\ card'[k] = Updated(r, card[k])
  PROVE  Iced(k)' /\ Limited(k)'
<1>0. DeskTypeOK /\ InOrder /\ CardTypeOK  BY DEF OnceInv, TypeOK
<1>1. Iced(k) /\ Limited(k)  BY DEF CardInv, Iced, Limited
<1>2. call' = call /\ \A s \in Request : Kind(s)' = Kind(s)  BY Past DEF Kind
<1>3. /\ InFlight(r) /\ \A s \in Request : r \notin before[s] /\ r \notin before'[s]
  BY <1>0 DEF Frame, InFlight, InOrder
<1>4. Kind(r) \in {"setCard", "adminCard"} =>
        call[r].status \in {None, "active", "frozen"} /\ call[r].limit \in Nat \cup {None}
  BY <1>0, CallForms DEF CardCall, Kind
<1>5. Limited(k)'
  <2>1. CASE Kind(r) = "createCard"
    BY <2>1, CardAssumption DEF Limited, Limits, NewCard
  <2>2. CASE Kind(r) \in {"setCard", "adminCard"} /\ call[r].limit = None
    <3>1. card'[k].limit = card[k].limit  BY <2>2 DEF Updated
    <3> QED  BY <1>1, <3>1, LimitsGrow DEF Limited
  <2>3. CASE Kind(r) \in {"setCard", "adminCard"} /\ call[r].limit # None
    <3>1. card'[k].limit = call[r].limit /\ call[r].limit \in Nat  BY <1>4, <2>3 DEF Updated
    <3>2. call[r].limit \in Limits(k)'  BY <1>2, <2>3 DEF Limits
    <3> QED  BY <3>1, <3>2 DEF Limited
  <2> QED  BY <2>1, <2>2, <2>3
<1>6. ASSUME NEW s \in Request, Froze(s, k)'
      PROVE  \/ card'[k].status = "frozen"
             \/ \E u \in Activates(k)' : outcome'[u] = "done" /\ u \notin before'[s]
  <2>1. CASE r \in Activates(k)  BY <1>3, <2>1, CardSame
  <2>2. CASE r \notin Activates(k)
    <3>1. Kind(r) \in {"setCard", "adminCard"} /\ call[r].status # "active"
      BY <2>2 DEF Activates, Unfreezes
    <3>2. CASE call[r].status = "frozen"
      BY <3>1, <3>2, CardAssumption DEF Updated
    <3>3. CASE call[r].status = None
      <4>1. card'[k].status = card[k].status  BY <3>1, <3>3 DEF Updated
      <4>2. Froze(s, k) /\ pc[s] # "idle"
        <5>1. s # r  BY <1>2, <1>6, <3>3, CardAssumption DEF Froze
        <5>2. Froze(s, k)  BY <1>2, <1>6, <5>1 DEF Frame, Froze
        <5> QED  BY <5>2, CardSame
      <4>3. CASE card[k].status = "frozen"  BY <4>1, <4>3
      <4>4. CASE \E u \in Activates(k) : outcome[u] = "done" /\ u \notin before[s]
        <5>1. PICK u \in Activates(k) : outcome[u] = "done" /\ u \notin before[s]  BY <4>4
        <5>2. u \in Request  BY DEF Activates
        <5> QED  BY <4>2, <5>1, <5>2, Past, CardSame
      <4> QED  BY <1>1, <4>2, <4>3, <4>4 DEF Iced
    <3> QED  BY <1>4, <3>1, <3>2, <3>3
  <2> QED  BY <2>1, <2>2
<1> QED  BY <1>5, <1>6 DEF Iced

\* Every step keeps the frozen cards frozen and the limits given.
LEMMA CardsHold ==
  ASSUME OnceInv, CardInv, [Next]_vars, NEW k \in Card
  PROVE  Iced(k)' /\ Limited(k)'
<1>0. DeskTypeOK /\ TypeOK /\ SidesOK /\ CardTypeOK  BY DEF OnceInv, TypeOK
<1> USE <1>0
<1>1. CASE Quiet(CardKinds) /\ UNCHANGED cardVars
  <2>1. \A s \in Request : Froze(s, k)' => Froze(s, k)
    BY <1>1 DEF Quiet, CardKinds, Froze, Kind
  <2> QED  BY <1>1, <2>1, CardKept DEF cardVars
<1>2. ASSUME NEW r \in Request, CardStep(r), Frame(r)  PROVE Iced(k)' /\ Limited(k)'
  <2>1. CardCall(call[r]) /\ Kind(r) \in CardKinds  BY <1>2, CallForms, CardShapes
  <2>2. call' = call /\ \A s \in Request : Kind(s)' = Kind(s)  BY Past DEF Kind
  <2>3. CASE card'[k] = card[k] /\ (outcome'[r] = "done" => ~Froze(r, k)' \/ outcome[r] = "done")
    <3>1. \A s \in Request : Froze(s, k)' => Froze(s, k)
      BY <1>2, <2>2, <2>3 DEF Frame, Froze
    <3> QED  BY <2>3, <3>1, CardKept
  <2>4. CASE CreateCard(r) /\ call[r].card = k /\ card' # card
    <3>1. outcome'[r] = "done" /\ card'[k] = NewCard /\ Kind(r) = "createCard"
      BY <2>4 DEF CreateCard, At, Commit, DeskTypeOK, CardTypeOK
    <3> QED  BY <1>2, <2>4, <3>1, CardWritten
  <2>5. CASE UpdateCard(r) /\ call[r].card = k
    <3>1. /\ outcome'[r] = "done" /\ card'[k] = Updated(r, card[k])
          /\ Kind(r) \in {"setCard", "adminCard"}
      BY <2>5 DEF UpdateCard, At, Commit, DeskTypeOK, CardTypeOK
    <3> QED  BY <1>2, <2>5, <3>1, CardWritten
  <2>6. CASE \/ CreateCard(r) /\ (call[r].card # k \/ card' = card)
             \/ UpdateCard(r) /\ call[r].card # k
    <3>1. card'[k] = card[k]  BY <2>6 DEF CreateCard, UpdateCard, CardTypeOK
    <3>2. ~Froze(r, k)'  BY <2>2, <2>6 DEF Froze, CreateCard, At
    <3> QED  BY <2>3, <3>1, <3>2
  <2>7. CASE ReadCard(r)
    <3>1. card' = card /\ outcome' = outcome  BY <2>7 DEF ReadCard, Refuse, Read, Unchanged
    <3> QED  BY <2>3, <3>1
  <2>8. CASE TellCard(r)
    <3>1. card' = card  BY <2>8 DEF TellCard, cardVars
    <3>2. outcome[r] = "done"  BY <2>8 DEF TellCard, CardInv
    <3> QED  BY <2>3, <3>1, <3>2
  <2>9. CASE ReadStatus(r) \/ SumSpent(r) \/ DebitCard(r) \/ CommitCharge(r)
    <3>1. card' = card  BY <2>9 DEF ReadStatus, SumSpent, DebitCard, CommitCharge, cardVars
    <3>2. ~Froze(r, k)'
      BY <2>2, <2>9 DEF Froze, ReadStatus, SumSpent, DebitCard, CommitCharge, At
    <3> QED  BY <2>3, <3>1, <3>2
  <2> QED  BY <1>2, <2>4, <2>5, <2>6, <2>7, <2>8, <2>9 DEF CardStep
<1> QED  BY <1>1, <1>2, FamilySteps

-----------------------------------------------------------------------------
(* Purchases.                                                              *)

\* What a card spent is a sum of finitely many amounts.
LEMMA SpentType ==
  ASSUME DeskTypeOK, NEW k
  PROVE  /\ Approved(k) \subseteq Request /\ IsFiniteSet(Approved(k))
         /\ \A r \in Approved(k) : call[r].amt \in Nat
         /\ Spent(k) \in Int
<1>1. Approved(k) \subseteq Request /\ IsFiniteSet(Approved(k))
  BY FiniteRequests DEF Approved
<1>2. \A r \in Approved(k) : call[r].amt \in Nat  BY CallForms DEF Approved, CardCall, Kind
<1>3. PICK F : F = [r \in Request |-> call[r].amt]  OBVIOUS
<1>4. \A r \in Approved(k) : F[r] \in Int  BY <1>1, <1>2, <1>3
<1>5. SumFunctionOnSet(F, Approved(k)) \in Int  BY <1>1, <1>4, SumInt
<1> QED  BY <1>1, <1>2, <1>3, <1>5 DEF Spent

\* What a step buys with a card.
LEMMA Buying ==
  ASSUME OnceInv, [Next]_vars, NEW k
  PROVE  \/ Approved(k)' = Approved(k) /\ Spent(k)' = Spent(k)
         \/ \E r \in Request :
              /\ CommitCharge(r) /\ Frame(r) /\ k = call[r].card
              /\ r \notin Approved(k) /\ Approved(k)' = Approved(k) \cup {r}
              /\ Spent(k)' = Spent(k) + call[r].amt
<1>0. DeskTypeOK /\ TypeOK /\ SidesOK /\ InOrder  BY DEF OnceInv, TypeOK
<1> USE <1>0
<1>1. call' = call /\ \A s \in Request : Kind(s)' = Kind(s)  BY Past DEF Kind
<1>2. Approved(k)' = Approved(k) => Spent(k)' = Spent(k)  BY <1>1 DEF Spent
<1>3. CASE Quiet(CardKinds)
  <2>1. Approved(k)' = Approved(k)
    BY <1>1, <1>3 DEF Quiet, CardKinds, Approved
  <2> QED  BY <1>2, <2>1
<1>4. ASSUME NEW r \in Request, CardStep(r), Frame(r), ~CommitCharge(r)
      PROVE  Approved(k)' = Approved(k) /\ Spent(k)' = Spent(k)
  <2>1. Kind(r) = "charge" => outcome[r] # "done" /\ outcome'[r] # "done"
    <3>1. outcome[r] # "done" \/ Kind(r) # "charge"
      BY <1>4 DEF Frame, InOrder, InFlight, At
    <3>2. Kind(r) = "charge" => ReadStatus(r) \/ SumSpent(r) \/ DebitCard(r)
      BY <1>4 DEF CardStep, CreateCard, ReadCard, UpdateCard, TellCard, At
    <3> QED
      BY <3>1, <3>2 DEF ReadStatus, SumSpent, DebitCard, Debit, Read, Refuse, Decline,
        Unchanged,
                        DeskTypeOK
  <2>2. Approved(k)' = Approved(k)
    BY <1>1, <1>4, <2>1 DEF Frame, Approved
  <2> QED  BY <1>2, <2>2
<1>5. ASSUME NEW r \in Request, CommitCharge(r), Frame(r)
      PROVE  \/ Approved(k)' = Approved(k) /\ Spent(k)' = Spent(k)
             \/ /\ k = call[r].card
                /\ r \notin Approved(k) /\ Approved(k)' = Approved(k) \cup {r}
                /\ Spent(k)' = Spent(k) + call[r].amt
  <2>1. /\ outcome[r] # "done" /\ outcome'[r] = "done" /\ Kind(r) = "charge"
    BY <1>5 DEF CommitCharge, Commit, At, InOrder, DeskTypeOK
  <2>2. CASE k # call[r].card
    <3>1. Approved(k)' = Approved(k)  BY <1>1, <1>5, <2>1, <2>2 DEF Frame, Approved
    <3> QED  BY <1>2, <3>1
  <2> SUFFICES ASSUME k = call[r].card
               PROVE  /\ r \notin Approved(k) /\ Approved(k)' = Approved(k) \cup {r}
                      /\ Spent(k)' = Spent(k) + call[r].amt
    BY <2>2
  <2>3. k = call[r].card  OBVIOUS
  <2>4. r \notin Approved(k) /\ Approved(k)' = Approved(k) \cup {r}
    BY <1>1, <1>5, <2>1, <2>3 DEF Frame, Approved
  <2>5. call[r].amt \in Nat  BY <2>1, CallForms DEF CardCall, Kind
  <2>6. PICK F : F = [s \in Request |-> call[s].amt]  OBVIOUS
  <2>7. \A s \in Approved(k) \cup {r} : F[s] \in Int  BY <2>5, <2>6, SpentType
  <2>8. SumFunctionOnSet(F, Approved(k) \cup {r}) = F[r] + SumFunctionOnSet(F, Approved(k))
    BY <2>4, <2>7, SpentType, SumAdd
  <2>9. Spent(k)' = Spent(k) + call[r].amt
    <3>1. Spent(k)' = SumFunctionOnSet(F, Approved(k) \cup {r})
      BY <1>1, <2>4, <2>6 DEF Spent
    <3>2. Spent(k) = SumFunctionOnSet(F, Approved(k))  BY <2>6 DEF Spent
    <3>3. F[r] = call[r].amt /\ Spent(k) \in Int  BY <2>6, SpentType
    <3> QED  BY <2>5, <2>8, <3>1, <3>2, <3>3
  <2> QED  BY <2>4, <2>9
<1> QED  BY <1>3, <1>4, <1>5, FamilySteps

\* What a purchase on its way has seen.
Fits(r) ==
  \/ pc[r] = "sum"
  \/ \E q \in Approved(call[r].card) : Met(r, q)
  \/ Spent(call[r].card) + call[r].amt <= seen[r].limit
Looked(r) ==
  Kind(r) = "charge" /\ pc[r] \in {"sum", "debit", "commit"} =>
    /\ Thaws(r, call[r].card)
    /\ \E n \in Limits(call[r].card) : seen[r].limit <= n
    /\ Fits(r)

\* One that stands still.
LEMMA LookedStays ==
  ASSUME OnceInv, [Next]_vars, NEW r \in Request, Looked(r),
         Kind(r) = "charge", pc[r] \in {"sum", "debit", "commit"},
         pc'[r] \in {pc[r], "over"}, seen'[r] = seen[r]
  PROVE  Looked(r)'
<1>0. DeskTypeOK /\ InOrder  BY DEF OnceInv, TypeOK
<1> USE <1>0
<1>1. call' = call /\ Kind(r)' = Kind(r)  BY Past DEF Kind
<1> SUFFICES ASSUME pc'[r] = pc[r]
             PROVE  /\ Thaws(r, call[r].card)'
                    /\ \E n \in Limits(call[r].card)' : seen'[r].limit <= n
                    /\ Fits(r)'
  BY <1>1 DEF Looked
<1>2. PICK k : k = call[r].card  OBVIOUS
<1>3. Thaws(r, call[r].card)'
  <2>1. Thaws(r, k)'  BY <1>2, ThawsStay DEF Looked
  <2> QED  BY <1>1, <1>2, <2>1
<1>4. \E n \in Limits(call[r].card)' : seen'[r].limit <= n
  <2>1. \E n \in Limits(k)' : seen'[r].limit <= n  BY <1>2, LimitsGrow DEF Looked
  <2> QED  BY <1>1, <1>2, <2>1
<1>5. \A q \in Approved(k) : q \in Request /\ pc[q] = "over"
  BY DEF Approved, InOrder, At
<1>6. \A q \in Approved(k) : q \in Approved(k)'  BY Buying
<1>7. CASE \E q \in Approved(k) : Met(r, q)
  <2>1. PICK q \in Approved(k) : Met(r, q)  BY <1>7
  <2>2. Met(r, q)'  BY <1>5, <2>1, Past DEF Met
  <2> QED  BY <1>1, <1>2, <1>3, <1>4, <1>6, <2>1, <2>2 DEF Fits
<1>8. CASE pc[r] = "sum"  BY <1>3, <1>4, <1>8 DEF Fits
<1>9. CASE Spent(k) + call[r].amt <= seen[r].limit
  <2>1. CASE Spent(k)' = Spent(k)  BY <1>1, <1>2, <1>3, <1>4, <1>9, <2>1 DEF Fits
  <2>2. CASE Spent(k)' # Spent(k)
    <3>1. PICK q \in Request : CommitCharge(q) /\ Frame(q) /\ q \in Approved(k)' /\ pc'[q] = "over"
      BY <2>2, Buying DEF CommitCharge, Commit, Finish, DeskTypeOK
    <3>2. InFlight(q) /\ InFlight(r) /\ q # r
      BY <3>1 DEF Frame, InFlight
    <3>3. Met(r, q)'  BY <3>2, UnderWay, Past DEF Met, InFlight
    <3> QED  BY <1>1, <1>2, <1>3, <1>4, <3>1, <3>3 DEF Fits
  <2> QED  BY <2>1, <2>2
<1> QED  BY <1>2, <1>7, <1>8, <1>9 DEF Looked, Fits

\* What a purchase saw when it looked still bounds what it may spend.
LEMMA BoughtHolds ==
  ASSUME OnceInv, CardInv, [Next]_vars
  PROVE  \A r \in Request : Looked(r)'
<1>0. DeskTypeOK /\ TypeOK /\ SidesOK /\ InOrder /\ CardTypeOK  BY DEF OnceInv, TypeOK
<1> USE <1>0
<1>1. \A r \in Request : Looked(r)  BY DEF CardInv, Looked, Fits
<1>2. call' = call /\ \A r \in Request : Kind(r)' = Kind(r)  BY Past DEF Kind
\* Whoever does nothing keeps it.
<1>3. ASSUME NEW r \in Request, Kind(r) = "charge", pc'[r] \in {pc[r], "over", "start", "idle"},
             seen'[r] = seen[r]
      PROVE  Looked(r)'
  <2>1. CASE pc'[r] \in {"over", "start", "idle"}  BY <2>1 DEF Looked
  <2>2. CASE pc'[r] = pc[r] /\ pc[r] \in {"sum", "debit", "commit"}
    BY <1>1, <1>3, <2>2, LookedStays
  <2>3. CASE pc'[r] = pc[r] /\ pc[r] \notin {"sum", "debit", "commit"}
    BY <2>3 DEF Looked
  <2> QED  BY <1>3, <2>1, <2>2, <2>3
<1>4. CASE Quiet(CardKinds) /\ UNCHANGED cardVars
  <2>1. ASSUME NEW r \in Request, Kind(r) = "charge"  PROVE Looked(r)'
    BY <1>3, <1>4, <2>1 DEF Quiet, CardKinds, cardVars
  <2>2. \A r \in Request : Kind(r) # "charge" => Looked(r)'  BY <1>2 DEF Looked
  <2> QED  BY <2>1, <2>2
<1>5. ASSUME NEW r \in Request, CardStep(r), Frame(r)
      PROVE  \A s \in Request : Looked(s)'
  <2>1. ASSUME NEW s \in Request \ {r}  PROVE Looked(s)'
    <3>1. pc'[s] = pc[s] /\ seen'[s] = seen[s]
      BY <1>5 DEF Frame, CardTypeOK, CardStep, CreateCard, ReadCard, UpdateCard, TellCard,
           ReadStatus, SumSpent, DebitCard, CommitCharge, cardVars
    <3>2. CASE Kind(s) = "charge"  BY <1>3, <3>1, <3>2
    <3>3. CASE Kind(s) # "charge"  BY <1>2, <3>3 DEF Looked
    <3> QED  BY <3>2, <3>3
  <2>2. Looked(r)'
    <3>0. CardCall(call[r]) /\ InFlight(r)  BY <1>5, CallForms, CardShapes
    <3>1. CASE Kind(r) # "charge"  BY <1>2, <3>1 DEF Looked
    <3>2. CASE pc'[r] = "over"  BY <3>2 DEF Looked
    <3>3. CASE ReadStatus(r) /\ pc'[r] # "over"
      <4>1. PICK k \in Card : k = call[r].card  BY <3>0, <3>3 DEF ReadStatus, At, CardCall, Kind
      <4>2. /\ card[k].status \notin {"none", "frozen"}
            /\ pc'[r] = "sum" /\ seen'[r] = card[k] /\ pc[r] = "start"
        BY <3>3, <4>1 DEF ReadStatus, At, Refuse, Decline, Finish, Read, Goto, DeskTypeOK,
             CardTypeOK
      <4>3. Thaws(r, k)
        <5> SUFFICES ASSUME NEW s, s \in before[r], Froze(s, k)
                     PROVE  \E u \in Activates(k) :
                              pc[u] # "idle" /\ u \notin before[s] /\ r \notin before[u]
          BY DEF Thaws
        <5>1. s \in Request  BY DEF DeskTypeOK
        <5>2. PICK u \in Activates(k) : outcome[u] = "done" /\ u \notin before[s]
          BY <4>2, <5>1 DEF CardInv
        <5>3. u \in Request  BY DEF Activates
        <5>4. pc[u] # "idle" /\ r \notin before[u]
          BY <3>0, <5>2, <5>3 DEF InOrder, InFlight
        <5> QED  BY <5>2, <5>4
      <4>4. Thaws(r, k)'  BY <4>2, <4>3, ThawsStay
      <4>5. \E n \in Limits(k)' : seen'[r].limit <= n
        BY <4>2, LimitsGrow DEF CardInv
      <4>6. Thaws(r, call[r].card)' /\ \E n \in Limits(call[r].card)' : seen'[r].limit <= n
        BY <1>2, <4>1, <4>4, <4>5
      <4> QED  BY <4>2, <4>6 DEF Looked, Fits
    <3>4. CASE (SumSpent(r) \/ DebitCard(r)) /\ pc'[r] # "over"
      <4>1. PICK k : k = call[r].card  OBVIOUS
      <4>2. /\ pc[r] \in {"sum", "debit"} /\ pc'[r] \in {"debit", "commit"}
            /\ Kind(r) = "charge" /\ seen' = seen
            /\ outcome' = outcome
        BY <3>4 DEF SumSpent, DebitCard, At, Decline, Finish, Read, Debit, Goto, DeskTypeOK,
             Unchanged, cardVars
      <4>3. Thaws(r, k) /\ (\E n \in Limits(k) : seen[r].limit <= n) /\ Fits(r)
        BY <1>1, <4>1, <4>2 DEF Looked
      <4>4. Thaws(r, k)' /\ \E n \in Limits(k)' : seen'[r].limit <= n
        BY <4>2, <4>3, ThawsStay, LimitsGrow
      <4>5. Approved(k)' = Approved(k) /\ Spent(k)' = Spent(k)
        <5>1. Approved(k)' = Approved(k)  BY <1>2, <4>2 DEF Approved
        <5> QED  BY <1>2, <5>1 DEF Spent
      <4>6. (\E q \in Approved(k) : Met(r, q)) \/ Spent(k) + call[r].amt <= seen[r].limit
        <5>1. CASE SumSpent(r)
          <6>1. ~(Spent(k) + call[r].amt > seen[r].limit)
            BY <3>4, <4>1, <5>1 DEF SumSpent, Decline, Finish, DeskTypeOK
          <6>2. Spent(k) \in Int /\ call[r].amt \in Nat /\ seen[r].limit \in Nat
            BY <3>0, <4>2, SpentType DEF CardCall, Kind, CardTypeOK
          <6> QED  BY <6>1, <6>2
        <5>2. CASE DebitCard(r)
          BY <4>1, <4>3, <5>2 DEF DebitCard, At, Fits
        <5> QED  BY <3>4, <5>1, <5>2
      <4>7. (\E q \in Approved(k)' : Met(r, q)') \/ Spent(k)' + call'[r].amt <= seen'[r].limit
        <5>1. \A q \in Approved(k) : q \in Request /\ pc[q] # "idle"
          BY DEF Approved, InOrder
        <5>2. \A q \in Approved(k) : Met(r, q) => Met(r, q)'
          BY <4>2, <5>1, Past DEF Met
        <5> QED  BY <1>2, <4>2, <4>5, <4>6, <5>2
      <4>8. /\ Thaws(r, call[r].card)' /\ \E n \in Limits(call[r].card)' : seen'[r].limit <= n
            /\ Fits(r)'
        BY <1>2, <4>1, <4>4, <4>7 DEF Fits
      <4> QED  BY <4>8 DEF Looked
    <3>5. CASE CommitCharge(r)
      BY <3>2, <3>5 DEF CommitCharge, Commit, Finish, DeskTypeOK
    <3> QED
      BY <1>5, <3>1, <3>2, <3>3, <3>4, <3>5
         DEF CardStep, CreateCard, ReadCard, UpdateCard, TellCard, At
  <2> QED  BY <2>1, <2>2
<1> QED  BY <1>4, <1>5, FamilySteps

\* The rules of purchases hold after every step.
LEMMA PurchasesHold ==
  ASSUME OnceInv, CardInv, [Next]_vars
  PROVE  FrozenBuysNothing' /\ LimitHoldsInTurn'
<1>0. DeskTypeOK /\ InOrder /\ CardTypeOK  BY DEF OnceInv, TypeOK
<1> USE <1>0
<1>1. call' = call  BY Past
<1>2. \A r \in Request : Looked(r)  BY DEF CardInv, Looked, Fits
<1>3. ASSUME NEW k \in Card, NEW r \in Approved(k)'  PROVE Thaws(r, k)'
  <2>1. CASE r \in Approved(k)
    <3>1. r \in Request /\ pc[r] # "idle"  BY <2>1 DEF Approved, InOrder
    <3> QED  BY <2>1, <3>1, ThawsStay DEF CardInv, FrozenBuysNothing
  <2>2. CASE r \notin Approved(k)
    <3>1. CommitCharge(r) /\ r \in Request /\ k = call[r].card  BY <2>2, Buying
    <3>2. Thaws(r, k) /\ pc[r] # "idle"  BY <1>2, <3>1 DEF CommitCharge, At, Looked
    <3> QED  BY <3>1, <3>2, ThawsStay
  <2> QED  BY <2>1, <2>2
<1>4. ASSUME NEW k \in Card, InTurn(Approved(k))'
      PROVE  \E n \in Limits(k)' : Spent(k)' <= n
  <2>1. \A r, s \in Approved(k)' : r # s => ~Met(r, s)'  BY <1>4 DEF InTurn
  <2>2. \A r \in Approved(k) : r \in Approved(k)'  BY Buying
  <2>3. \A r \in Approved(k) : r \in Request /\ pc[r] # "idle"  BY DEF Approved, InOrder
  <2>4. CASE Approved(k)' = Approved(k) /\ Spent(k)' = Spent(k)
    <3>1. InTurn(Approved(k))  BY <2>1, <2>2, <2>3, Past DEF InTurn, Met
    <3> QED  BY <2>4, <3>1, LimitsGrow DEF CardInv, LimitHoldsInTurn
  <2>5. CASE ~(Approved(k)' = Approved(k) /\ Spent(k)' = Spent(k))
    <3>1. PICK r \in Request : /\ CommitCharge(r) /\ k = call[r].card
                               /\ r \notin Approved(k) /\ Approved(k)' = Approved(k) \cup {r}
                               /\ Spent(k)' = Spent(k) + call[r].amt
      BY <2>5, Buying
    <3>2. pc[r] = "commit" /\ Kind(r) = "charge"  BY <3>1 DEF CommitCharge, At
    <3>3. \A q \in Approved(k) : ~Met(r, q)
      BY <2>1, <2>3, <3>1, <3>2, Past DEF Met
    <3>4. Spent(k) + call[r].amt <= seen[r].limit  BY <1>2, <3>1, <3>2, <3>3 DEF Looked, Fits
    <3>5. PICK n \in Limits(k) : seen[r].limit <= n  BY <1>2, <3>1, <3>2 DEF Looked
    <3>6. /\ Spent(k) \in Int /\ call[r].amt \in Nat
          /\ seen[r].limit \in Nat /\ n \in Nat /\ n \in Limits(k)'
      BY <3>2, SpentType, CallForms, LimitsGrow DEF CardCall, Kind, CardTypeOK
    <3> QED  BY <3>1, <3>4, <3>5, <3>6
  <2> QED  BY <2>4, <2>5
<1> QED  BY <1>3, <1>4 DEF FrozenBuysNothing, LimitHoldsInTurn

\* Every step keeps CardInv.
LEMMA CardHolds ==
  ASSUME OnceInv, CardInv, [Next]_vars
  PROVE  CardInv'
<1>0. DeskTypeOK /\ TypeOK /\ SidesOK /\ InOrder  BY DEF OnceInv, TypeOK
<1>1. ASSUME NEW r \in Request, At(r, {"adminCard"}, "tell")'  PROVE outcome'[r] = "done"
  <2>1. Kind(r) = "adminCard" /\ pc'[r] = "tell"  BY <1>1, Past DEF At, Kind
  <2>2. CASE Quiet(CardKinds)
    BY <2>1, <2>2, Past DEF Quiet, CardKinds, CardInv, At
  <2>3. ASSUME NEW s \in Request, CardStep(s), Frame(s)  PROVE outcome'[r] = "done"
    <3>1. CASE s # r
      BY <2>1, <2>3, <3>1, Past DEF Frame, CardInv, At
    <3>2. CASE s = r
      BY <1>0, <2>1, <2>3, <3>2 DEF CardStep, CreateCard, ReadCard, UpdateCard, TellCard,
           ReadStatus, SumSpent, DebitCard, CommitCharge, At, Read, Refuse, Commit, Goto,
           Finish,
           DeskTypeOK
    <3> QED  BY <3>1, <3>2
  <2> QED  BY <1>0, <2>2, <2>3, FamilySteps
<1>2. \A k \in Card : Iced(k)' /\ Limited(k)'  BY CardsHold
<1>3. \A r \in Request : Looked(r)'  BY BoughtHolds
<1>4. FrozenBuysNothing' /\ LimitHoldsInTurn'  BY PurchasesHold
<1> QED  BY <1>1, <1>2, <1>3, <1>4 DEF CardInv, Iced, Limited, Looked, Fits

-----------------------------------------------------------------------------
(* Caps.                                                                   *)

\* What the cap asks of the money requests of u, and of who has counted them.
AskRoom(u) ==
  InTurn(Begun(Asks(u))) =>
    /\ Cardinality(PendingOf(u)) <= MaxPending
    /\ \A r \in Asks(u) : pc[r] = "insert" => Cardinality(PendingOf(u)) < MaxPending
Askers == {AskBy[x] : x \in Ask}

\* AskCapInv, customer by customer.
LEMMA AskRoomParts ==
  /\ DeskTypeOK => (AskCapInv <=> \A u \in Askers : AskRoom(u))
  /\ DeskTypeOK' => (AskCapInv' <=> \A u \in Askers : AskRoom(u)')
<1>1. ASSUME DeskTypeOK  PROVE AskCapInv <=> \A u \in Askers : AskRoom(u)
  <2>1. \A r \in Request : Kind(r) = "ask" => call[r].user \in Askers
    BY <1>1, CallForms DEF AskCall, Askers, Kind
  <2>2. AskCapInv => \A u \in Askers : AskRoom(u)
    BY DEF AskCapInv, AskCapHoldsInTurn, AskRoom, Askers, Asks, At
  <2>3. (\A u \in Askers : AskRoom(u)) => AskCapInv
    BY <2>1 DEF AskCapInv, AskCapHoldsInTurn, AskRoom, Askers, Asks, At
  <2> QED  BY <2>2, <2>3
<1>2. ASSUME DeskTypeOK'  PROVE AskCapInv' <=> \A u \in Askers : AskRoom(u)'
  <2>1. \A r \in Request : Kind(r)' = "ask" => call'[r].user \in Askers
    BY <1>2, PlanAssumption DEF DeskTypeOK, AskCall, Askers, Kind
  <2>2. AskCapInv' => \A u \in Askers : AskRoom(u)'
    BY DEF AskCapInv, AskCapHoldsInTurn, AskRoom, Askers, Asks, At
  <2>3. (\A u \in Askers : AskRoom(u)') => AskCapInv'
    BY <2>1 DEF AskCapInv, AskCapHoldsInTurn, AskRoom, Askers, Asks, At
  <2> QED  BY <2>2, <2>3
<1> QED  BY <1>1, <1>2

\* Open money requests stay under their cap: every step keeps AskCapInv.
LEMMA AskCapHolds ==
  ASSUME OnceInv, AskCapInv, [Next]_vars
  PROVE  AskCapInv'
<1>0. DeskTypeOK /\ TypeOK /\ SidesOK /\ InOrder /\ AskTypeOK /\ DeskTypeOK'
  BY TypesStep DEF OnceInv, TypeOK
<1> USE <1>0
<1>1. call' = call /\ \A r \in Request : Kind(r)' = Kind(r)  BY Past DEF Kind
<1> SUFFICES ASSUME NEW u \in Askers  PROVE AskRoom(u)'
  BY AskRoomParts
<1>2. AskRoom(u)  BY AskRoomParts
<1>3. Asks(u)' = Asks(u) /\ Asks(u) \in SUBSET Request  BY <1>1 DEF Asks
<1>4. InTurn(Begun(Asks(u)))' => InTurn(Begun(Asks(u)))
  <2>1. PICK S : S = Asks(u)  OBVIOUS
  <2>2. InTurn(Begun(S))' => InTurn(Begun(S))  BY <1>3, <2>1, TurnsBefore
  <2> QED  BY <1>3, <2>1, <2>2 DEF InTurn, Begun, Met
<1>5. /\ IsFiniteSet(PendingOf(u)) /\ Cardinality(PendingOf(u)) \in Nat
      /\ IsFiniteSet(PendingOf(u)') /\ Cardinality(PendingOf(u)') \in Nat
  <2>1. PendingOf(u) \subseteq Ask /\ PendingOf(u)' \subseteq Ask  BY DEF PendingOf
  <2> QED  BY <2>1, AskAssumption, FS_Subset, FS_CardinalityType
<1>6. MaxPending \in Nat  BY AskAssumption
\* Nothing is added.
<1>7. ASSUME PendingOf(u)' \subseteq PendingOf(u),
             \A r \in Asks(u) : pc'[r] = "insert" =>
               pc[r] = "insert" \/ Cardinality(PendingOf(u)) < MaxPending
      PROVE  AskRoom(u)'
  <2>1. Cardinality(PendingOf(u)') <= Cardinality(PendingOf(u))  BY <1>5, <1>7, FS_Subset
  <2> QED  BY <1>2, <1>3, <1>4, <1>5, <1>6, <1>7, <2>1 DEF AskRoom
<1>8. CASE Quiet(AskKinds) /\ UNCHANGED askVars
  <2>1. PendingOf(u)' = PendingOf(u)  BY <1>8 DEF PendingOf, askVars
  <2>2. \A r \in Asks(u) : pc'[r] = "insert" => pc[r] = "insert"
    BY <1>8 DEF Quiet, Asks, AskKinds
  <2> QED  BY <1>7, <2>1, <2>2
<1>9. ASSUME NEW r \in Request, AskStep(r), Frame(r)  PROVE AskRoom(u)'
  <2>0. AskCall(call[r]) /\ InFlight(r)  BY <1>9, CallForms, AskShapes
  <2>1. \A s \in Request \ {r} : pc'[s] = pc[s]  BY <1>9 DEF Frame
  <2>2. CASE InsertAsk(r) /\ call[r].user = u
    <3>1. r \in Asks(u) /\ pc[r] = "insert" /\ pc'[r] = "over"
      BY <2>2 DEF InsertAsk, At, Asks, Commit, Finish, DeskTypeOK
    <3>2. PendingOf(u)' \subseteq PendingOf(u) \cup {call[r].ask}
      BY <2>2 DEF InsertAsk, PendingOf, AskTypeOK
    <3>3. /\ IsFiniteSet(PendingOf(u) \cup {call[r].ask})
          /\ Cardinality(PendingOf(u)') <= Cardinality(PendingOf(u) \cup {call[r].ask})
          /\ Cardinality(PendingOf(u) \cup {call[r].ask}) <= Cardinality(PendingOf(u)) + 1
          /\ Cardinality(PendingOf(u) \cup {call[r].ask}) \in Nat
      <4>1. IsFiniteSet(PendingOf(u) \cup {call[r].ask})
            /\ Cardinality(PendingOf(u) \cup {call[r].ask}) =
                 IF call[r].ask \in PendingOf(u) THEN Cardinality(PendingOf(u))
                                              ELSE Cardinality(PendingOf(u)) + 1
        BY <1>5, FS_AddElement
      <4> QED  BY <1>5, <3>2, <4>1, FS_Subset
    <3>4. InTurn(Begun(Asks(u))) => \A s \in Asks(u) : pc'[s] # "insert"
      <4> SUFFICES ASSUME InTurn(Begun(Asks(u))), NEW s \in Asks(u), pc'[s] = "insert"
                   PROVE FALSE
        OBVIOUS
      <4>1. s # r /\ InFlight(s)  BY <2>1, <3>1 DEF InFlight, Asks
      <4>2. PICK S : S = Asks(u)  OBVIOUS
      <4> QED  BY <1>3, <2>0, <3>1, <4>1, <4>2, OneUnderWay
    <3> QED  BY <1>2, <1>3, <1>4, <1>5, <1>6, <3>1, <3>3, <3>4 DEF AskRoom
  <2>3. CASE ~(InsertAsk(r) /\ call[r].user = u)
    <3>1. PendingOf(u)' \subseteq PendingOf(u)
      BY <1>9, <2>0, <2>3 DEF AskStep, PendingOf, AskTypeOK, askVars, AskCall, CountPending,
        InsertAsk, Claim, LookUpKey,
         DebitPayer, CreditPayee, RecordTransfer, CommitTransfer, CommitPay, DeclineAsk,
         CancelAsk, At, Kind
    <3>2. r \in Asks(u) /\ pc'[r] = "insert" => Cardinality(PendingOf(u)) < MaxPending
      <4> SUFFICES ASSUME r \in Asks(u), pc'[r] = "insert"
                   PROVE Cardinality(PendingOf(u)) < MaxPending
        OBVIOUS
      <4>1. CountPending(r)
        <5>1. Kind(r) = "ask" /\ call[r].user = u  BY DEF Asks
        <5> QED  BY <1>9, <2>3, <5>1 DEF AskStep, CountPending, InsertAsk, Claim, LookUpKey,
         DebitPayer, CreditPayee, RecordTransfer, CommitTransfer, CommitPay, DeclineAsk,
         CancelAsk, At
      <4> QED  BY <1>5, <1>6, <4>1 DEF CountPending, Asks, Refuse, Finish, DeskTypeOK
    <3> QED  BY <1>3, <1>7, <2>1, <3>1, <3>2
  <2> QED  BY <2>2, <2>3
<1> QED  BY <1>8, <1>9, FamilySteps

\* What the cap asks of the loans of u, and of who has counted them.
LoanRoom(u) ==
  InTurn(Begun(Borrows(u))) =>
    /\ Cardinality(WaitingLoans(u)) <= MaxLoans
    /\ \A r \in Borrows(u) : pc[r] = "insert" => Cardinality(WaitingLoans(u)) < MaxLoans
Borrowers == {LoanOf[x] : x \in Loan}

\* LoanCapInv, customer by customer.
LEMMA LoanRoomParts ==
  /\ DeskTypeOK => (LoanCapInv <=> \A u \in Borrowers : LoanRoom(u))
  /\ DeskTypeOK' => (LoanCapInv' <=> \A u \in Borrowers : LoanRoom(u)')
<1>1. ASSUME DeskTypeOK  PROVE LoanCapInv <=> \A u \in Borrowers : LoanRoom(u)
  <2>1. \A r \in Request : Kind(r) = "loan" => call[r].user \in Borrowers
    BY <1>1, CallForms DEF LoanCall, Borrowers, Kind
  <2>2. LoanCapInv => \A u \in Borrowers : LoanRoom(u)
    BY DEF LoanCapInv, LoanCapHoldsInTurn, LoanRoom, Borrowers, Borrows, At
  <2>3. (\A u \in Borrowers : LoanRoom(u)) => LoanCapInv
    BY <2>1 DEF LoanCapInv, LoanCapHoldsInTurn, LoanRoom, Borrowers, Borrows, At
  <2> QED  BY <2>2, <2>3
<1>2. ASSUME DeskTypeOK'  PROVE LoanCapInv' <=> \A u \in Borrowers : LoanRoom(u)'
  <2>1. \A r \in Request : Kind(r)' = "loan" => call'[r].user \in Borrowers
    BY <1>2, PlanAssumption DEF DeskTypeOK, LoanCall, Borrowers, Kind
  <2>2. LoanCapInv' => \A u \in Borrowers : LoanRoom(u)'
    BY DEF LoanCapInv, LoanCapHoldsInTurn, LoanRoom, Borrowers, Borrows, At
  <2>3. (\A u \in Borrowers : LoanRoom(u)') => LoanCapInv'
    BY <2>1 DEF LoanCapInv, LoanCapHoldsInTurn, LoanRoom, Borrowers, Borrows, At
  <2> QED  BY <2>2, <2>3
<1> QED  BY <1>1, <1>2

\* Pending loans stay under their cap: every step keeps LoanCapInv.
LEMMA LoanCapHolds ==
  ASSUME OnceInv, LoanCapInv, [Next]_vars
  PROVE  LoanCapInv'
<1>0. DeskTypeOK /\ TypeOK /\ SidesOK /\ InOrder /\ LoanTypeOK /\ DeskTypeOK'
  BY TypesStep DEF OnceInv, TypeOK
<1> USE <1>0
<1>1. call' = call /\ \A r \in Request : Kind(r)' = Kind(r)  BY Past DEF Kind
<1> SUFFICES ASSUME NEW u \in Borrowers  PROVE LoanRoom(u)'
  BY LoanRoomParts
<1>2. LoanRoom(u)  BY LoanRoomParts
<1>3. Borrows(u)' = Borrows(u) /\ Borrows(u) \in SUBSET Request  BY <1>1 DEF Borrows
<1>4. InTurn(Begun(Borrows(u)))' => InTurn(Begun(Borrows(u)))
  <2>1. PICK S : S = Borrows(u)  OBVIOUS
  <2>2. InTurn(Begun(S))' => InTurn(Begun(S))  BY <1>3, <2>1, TurnsBefore
  <2> QED  BY <1>3, <2>1, <2>2 DEF InTurn, Begun, Met
<1>5. /\ IsFiniteSet(WaitingLoans(u)) /\ Cardinality(WaitingLoans(u)) \in Nat
      /\ IsFiniteSet(WaitingLoans(u)') /\ Cardinality(WaitingLoans(u)') \in Nat
  <2>1. WaitingLoans(u) \subseteq Loan /\ WaitingLoans(u)' \subseteq Loan  BY DEF WaitingLoans
  <2> QED  BY <2>1, LoanAssumption, FS_Subset, FS_CardinalityType
<1>6. MaxLoans \in Nat  BY LoanAssumption
\* Nothing is added.
<1>7. ASSUME WaitingLoans(u)' \subseteq WaitingLoans(u),
             \A r \in Borrows(u) : pc'[r] = "insert" =>
               pc[r] = "insert" \/ Cardinality(WaitingLoans(u)) < MaxLoans
      PROVE  LoanRoom(u)'
  <2>1. Cardinality(WaitingLoans(u)') <= Cardinality(WaitingLoans(u))  BY <1>5, <1>7, FS_Subset
  <2> QED  BY <1>2, <1>3, <1>4, <1>5, <1>6, <1>7, <2>1 DEF LoanRoom
<1>8. CASE Quiet(LoanKinds) /\ UNCHANGED loan
  <2>1. WaitingLoans(u)' = WaitingLoans(u)  BY <1>8 DEF WaitingLoans
  <2>2. \A r \in Borrows(u) : pc'[r] = "insert" => pc[r] = "insert"
    BY <1>8 DEF Quiet, Borrows, LoanKinds
  <2> QED  BY <1>7, <2>1, <2>2
<1>9. ASSUME NEW r \in Request, LoanStep(r), Frame(r)  PROVE LoanRoom(u)'
  <2>0. LoanCall(call[r]) /\ InFlight(r)  BY <1>9, CallForms, LoanShapes
  <2>1. \A s \in Request \ {r} : pc'[s] = pc[s]  BY <1>9 DEF Frame
  <2>2. CASE InsertLoan(r) /\ call[r].user = u
    <3>1. r \in Borrows(u) /\ pc[r] = "insert" /\ pc'[r] = "over"
      BY <2>2 DEF InsertLoan, At, Borrows, Commit, Finish, DeskTypeOK
    <3>2. WaitingLoans(u)' \subseteq WaitingLoans(u) \cup {call[r].loan}
      BY <2>2 DEF InsertLoan, WaitingLoans, LoanTypeOK
    <3>3. /\ IsFiniteSet(WaitingLoans(u) \cup {call[r].loan})
          /\ Cardinality(WaitingLoans(u)') <= Cardinality(WaitingLoans(u) \cup {call[r].loan})
          /\ Cardinality(WaitingLoans(u) \cup {call[r].loan}) <= Cardinality(WaitingLoans(u)) + 1
          /\ Cardinality(WaitingLoans(u) \cup {call[r].loan}) \in Nat
      <4>1. IsFiniteSet(WaitingLoans(u) \cup {call[r].loan})
            /\ Cardinality(WaitingLoans(u) \cup {call[r].loan}) =
                 IF call[r].loan \in WaitingLoans(u) THEN Cardinality(WaitingLoans(u))
                                              ELSE Cardinality(WaitingLoans(u)) + 1
        BY <1>5, FS_AddElement
      <4> QED  BY <1>5, <3>2, <4>1, FS_Subset
    <3>4. InTurn(Begun(Borrows(u))) => \A s \in Borrows(u) : pc'[s] # "insert"
      <4> SUFFICES ASSUME InTurn(Begun(Borrows(u))), NEW s \in Borrows(u), pc'[s] = "insert"
                   PROVE FALSE
        OBVIOUS
      <4>1. s # r /\ InFlight(s)  BY <2>1, <3>1 DEF InFlight, Borrows
      <4>2. PICK S : S = Borrows(u)  OBVIOUS
      <4> QED  BY <1>3, <2>0, <3>1, <4>1, <4>2, OneUnderWay
    <3> QED  BY <1>2, <1>3, <1>4, <1>5, <1>6, <3>1, <3>3, <3>4 DEF LoanRoom
  <2>3. CASE ~(InsertLoan(r) /\ call[r].user = u)
    <3>1. WaitingLoans(u)' \subseteq WaitingLoans(u)
      BY <1>9, <2>0, <2>3 DEF LoanStep, WaitingLoans, LoanTypeOK, LoanCall, CountLoans,
        InsertLoan, LockLoan, Fund,
         CommitDecision, At, Kind
    <3>2. r \in Borrows(u) /\ pc'[r] = "insert" => Cardinality(WaitingLoans(u)) < MaxLoans
      <4> SUFFICES ASSUME r \in Borrows(u), pc'[r] = "insert"
                   PROVE Cardinality(WaitingLoans(u)) < MaxLoans
        OBVIOUS
      <4>1. CountLoans(r)
        <5>1. Kind(r) = "loan" /\ call[r].user = u  BY DEF Borrows
        <5> QED  BY <1>9, <2>3, <5>1 DEF LoanStep, CountLoans, InsertLoan, LockLoan, Fund,
         CommitDecision, At
      <4> QED  BY <1>5, <1>6, <4>1 DEF CountLoans, Borrows, Refuse, Finish, DeskTypeOK
    <3> QED  BY <1>3, <1>7, <2>1, <3>1, <3>2
  <2> QED  BY <2>2, <2>3
<1> QED  BY <1>8, <1>9, FamilySteps

-----------------------------------------------------------------------------
(* Accounts and keys.                                                      *)

\* Who adds a key or an account for a customer does not change.
LEMMA AddsTurn ==
  ASSUME OnceInv, [Next]_vars, NEW u
  PROVE  /\ Adds(u)' = Adds(u) /\ Adds(u) \in SUBSET Request
         /\ InTurn(Begun(Adds(u)))' => InTurn(Begun(Adds(u)))
<1>1. call' = call /\ \A r \in Request : Kind(r)' = Kind(r)  BY Past DEF Kind
<1>2. Adds(u)' = Adds(u) /\ Adds(u) \in SUBSET Request  BY <1>1 DEF Adds, UserOf
<1>3. PICK S : S = Adds(u)  OBVIOUS
<1>4. InTurn(Begun(S))' => InTurn(Begun(S))  BY <1>2, <1>3, TurnsBefore
<1> QED  BY <1>2, <1>3, <1>4 DEF InTurn, Begun, Met

\* A customer has finitely many active keys.
LEMMA KeysFinite ==
  ASSUME NEW u
  PROVE  /\ IsFiniteSet(ActiveKeys(u)) /\ Cardinality(ActiveKeys(u)) \in Nat
         /\ IsFiniteSet(ActiveKeys(u)') /\ Cardinality(ActiveKeys(u)') \in Nat
<1>1. ASSUME NEW f, NEW S, S \subseteq Request, NEW T, T \subseteq {f[r] : r \in S}
      PROVE  IsFiniteSet(T) /\ Cardinality(T) \in Nat
  <2>1. IsFiniteSet(S)  BY <1>1, FiniteRequests
  <2>2. PICK g : g = [r \in S |-> f[r]]  OBVIOUS
  <2>3. PICK I : I = {f[r] : r \in S}  OBVIOUS
  <2>4. g \in Surjection(S, I)  BY <2>2, <2>3 DEF Surjection
  <2>5. IsFiniteSet(I)  BY <2>1, <2>4, FS_Surjection
  <2> QED  BY <1>1, <2>3, <2>5, FS_Subset, FS_CardinalityType
<1>2. IsFiniteSet(ActiveKeys(u)) /\ Cardinality(ActiveKeys(u)) \in Nat
  <2>1. PICK f : f = [r \in Request |-> call[r].key]  OBVIOUS
  <2>2. PICK S : S = {q \in Request : Kind(q) = "newKey" /\ UserOf(q) = u /\ outcome[q] = "done"}
    OBVIOUS
  <2>3. ActiveKeys(u) \subseteq {f[r] : r \in S}  BY <2>1, <2>2 DEF ActiveKeys, KeysOf
  <2> QED  BY <1>1, <2>2, <2>3
<1>3. IsFiniteSet(ActiveKeys(u)') /\ Cardinality(ActiveKeys(u)') \in Nat
  <2>1. PICK f : f = [r \in Request |-> call'[r].key]  OBVIOUS
  <2>2. PICK S : S = {q \in Request : Kind(q)' = "newKey" /\ UserOf(q)' = u /\ outcome'[q] = "done"}
    OBVIOUS
  <2>3. ActiveKeys(u)' \subseteq {f[r] : r \in S}  BY <2>1, <2>2 DEF ActiveKeys, KeysOf
  <2> QED  BY <1>1, <2>2, <2>3
<1> QED  BY <1>2, <1>3

\* The keys of a customer are the ones they made.
LEMMA KeysStay ==
  ASSUME OnceInv, [Next]_vars, NEW u,
         \A q \in Request : Kind(q) = "newKey" /\ UserOf(q) = u /\ outcome[q] # "done" =>
           outcome'[q] # "done"
  PROVE  KeysOf(u)' = KeysOf(u)
BY Past DEF KeysOf, Kind, UserOf

\* A step makes a customer at most one key.
LEMMA KeysStep ==
  ASSUME OnceInv, [Next]_vars, NEW u
  PROVE  \/ ActiveKeys(u)' \subseteq ActiveKeys(u)
         \/ \E r \in Request : /\ InsertKey(r) /\ Frame(r) /\ UserOf(r) = u
                               /\ ActiveKeys(u)' \subseteq ActiveKeys(u) \cup {call[r].key}
<1>0. DeskTypeOK /\ TypeOK /\ SidesOK /\ InOrder /\ AccessTypeOK  BY DEF OnceInv, TypeOK
<1> USE <1>0
<1>1. call' = call /\ \A r \in Request : Kind(r)' = Kind(r)  BY Past DEF Kind
<1>2. CASE UNCHANGED keyOf /\ \A q \in Request : Kind(q) = "newKey" => outcome'[q] = outcome[q]
  BY <1>2, KeysStay DEF ActiveKeys
<1>3. CASE Quiet(AccessKinds)
           /\ \/ UNCHANGED accessVars
              \/ EnsureStarters /\ \A r \in Request : pc'[r] \in {"idle", "over"}
              \/ TimePasses /\ UNCHANGED deskVars
  BY <1>2, <1>3 DEF Quiet, AccessKinds, accessVars, EnsureStarters, TimePasses, HoldsRunOut,
       MinutePasses
<1>4. ASSUME NEW r \in Request, AccessStep(r), Frame(r)
      PROVE  \/ ActiveKeys(u)' \subseteq ActiveKeys(u)
             \/ /\ InsertKey(r) /\ UserOf(r) = u
                /\ ActiveKeys(u)' \subseteq ActiveKeys(u) \cup {call[r].key}
  <2>1. \A s \in Request \ {r} : outcome'[s] = outcome[s]  BY <1>4 DEF Frame
  <2>2. CASE InsertKey(r) /\ UserOf(r) = u
    <3>1. keyOf' = [keyOf EXCEPT ![call[r].key] = "active"]  BY <2>2 DEF InsertKey
    <3>2. KeysOf(u)' \subseteq KeysOf(u) \cup {call[r].key}
      BY <1>1, <2>1 DEF KeysOf, UserOf
    <3>3. keyOf \in [Key -> {"none", "active", "revoked"}]  BY DEF AccessTypeOK
    <3>4. \A k \in KeysOf(u) : k \in Key
      BY CallForms DEF KeysOf, AccessCall, Kind
    <3> QED  BY <2>2, <3>1, <3>2, <3>3, <3>4 DEF ActiveKeys
  <2>3. CASE InsertKey(r) /\ UserOf(r) # u
    <3>1. keyOf' = [keyOf EXCEPT ![call[r].key] = "active"] /\ Kind(r) = "newKey"
      BY <2>3 DEF InsertKey, At
    <3>2. KeysOf(u)' = KeysOf(u)  BY <2>1, <2>3, KeysStay
    <3>3. call[r].key \notin KeysOf(u)
      <4> SUFFICES ASSUME NEW q \in Request, Kind(q) = "newKey", UserOf(q) = u,
                          call[q].key = call[r].key
                   PROVE  FALSE
        BY DEF KeysOf
      <4>1. q # r  BY <2>3
      <4> QED  BY <3>1, <4>1, PlanAssumption DEF DeskTypeOK, Kind
    <3>4. \A k \in KeysOf(u) : keyOf'[k] = keyOf[k]
      BY <3>1, <3>3, CallForms DEF KeysOf, AccessCall, Kind, AccessTypeOK
    <3> QED  BY <3>2, <3>4 DEF ActiveKeys
  <2>4. CASE RevokeKey(r)
    <3>1. KeysOf(u)' = KeysOf(u)  BY <2>1, <2>4, KeysStay DEF RevokeKey, At
    <3>2. \A k \in KeysOf(u) : keyOf'[k] = "active" => keyOf[k] = "active"
      <4>1. keyOf' = keyOf \/ keyOf' = [keyOf EXCEPT ![call[r].key] = "revoked"]
        BY <2>4 DEF RevokeKey
      <4>2. \A k \in KeysOf(u) : k \in DOMAIN keyOf
        BY CallForms DEF KeysOf, AccessCall, Kind, AccessTypeOK
      <4> QED  BY <4>1, <4>2
    <3> QED  BY <3>1, <3>2 DEF ActiveKeys
  <2>5. CASE ~InsertKey(r) /\ ~RevokeKey(r)
    <3>1. keyOf' = keyOf
      BY <1>4, <2>5 DEF AccessStep, CheckHold, Verify, CountFailure, StartHold, ClearHold,
           OpenSession, CreateUser, OpenStarters, CountAccounts, InsertAccount, ReadSession,
           Act,
           EndSessions, WriteStatus, CommitStatus, CountKeys, ReadKey, CountUse, accessVars
    <3>2. Kind(r) = "newKey" => outcome'[r] = outcome[r]
      <4>1. Kind(r) = "newKey" => CountKeys(r)
        BY <1>4, <2>5 DEF At, AccessStep, CheckHold, Verify, CountFailure, StartHold, ClearHold,
             OpenSession, CreateUser, OpenStarters, CountAccounts, InsertAccount, ReadSession,
             Act, EndSessions, WriteStatus, CommitStatus, ReadKey, CountUse
      <4> QED  BY <4>1 DEF CountKeys, Refuse, Read, Unchanged
    <3>3. KeysOf(u)' = KeysOf(u)  BY <2>1, <3>2, KeysStay
    <3> QED  BY <3>1, <3>3 DEF ActiveKeys
  <2> QED  BY <2>2, <2>3, <2>4, <2>5
<1> QED  BY <1>3, <1>4, FamilySteps

\* Who has opened accounts before.
CapOK(r) ==
  /\ Kind(r) = "open" /\ pc[r] # "idle" => member[UserOf(r)] # "none"
  /\ At(r, {"register"}, "starter") =>
       \A o \in before[r] : ~(Kind(o) = "open" /\ UserOf(o) = UserOf(r))

\* A customer is made or locked by a request of their own.
LEMMA MembersStay ==
  ASSUME OnceInv, [Next]_vars, NEW u \in User
  PROVE  /\ member[u] # "none" => member'[u] # "none"
         /\ member'[u] # member[u] =>
              \E r \in Request : Frame(r) /\ UserOf(r) = u /\ (CreateUser(r) \/ CommitStatus(r))
<1>0. DeskTypeOK /\ TypeOK /\ SidesOK /\ AccessTypeOK  BY DEF OnceInv, TypeOK
<1> USE <1>0
<1>1. ASSUME NEW r \in Request, AccessStep(r), Frame(r)
      PROVE  /\ member[u] # "none" => member'[u] # "none"
             /\ member'[u] # member[u] => UserOf(r) = u /\ (CreateUser(r) \/ CommitStatus(r))
  <2>0. AccessCall(call[r])  BY CallForms
  <2>1. CASE CreateUser(r)  BY <2>1 DEF CreateUser, AccessTypeOK
  <2>2. CASE CommitStatus(r)
    BY <2>0, <2>2 DEF CommitStatus, At, AccessTypeOK, AccessCall, Kind
  <2>3. CASE ~CreateUser(r) /\ ~CommitStatus(r)
    BY <1>1, <2>3 DEF AccessStep, CheckHold, Verify, CountFailure, StartHold, ClearHold,
         OpenSession, OpenStarters, CountAccounts, InsertAccount, ReadSession, Act, EndSessions,
         WriteStatus, CountKeys, InsertKey, RevokeKey, ReadKey, CountUse, accessVars
  <2> QED  BY <2>1, <2>2, <2>3
<1>2. CASE UNCHANGED member  BY <1>2
<1> QED
  BY <1>1, <1>2, FamilySteps DEF accessVars, EnsureStarters, TimePasses, HoldsRunOut,
    MinutePasses

\* What a request counted still bounds what it may add.
LEMMA CapParts ==
  ASSUME OnceInv, CapInv, [Next]_vars
  PROVE  \A r \in Request : CapOK(r)'
<1>0. DeskTypeOK /\ TypeOK /\ SidesOK /\ InOrder /\ AccessTypeOK  BY DEF OnceInv, TypeOK
<1> USE <1>0
<1> SUFFICES ASSUME NEW r \in Request  PROVE CapOK(r)'
  OBVIOUS
<1>1. call' = call /\ \A s \in Request : Kind(s)' = Kind(s) /\ UserOf(s)' = UserOf(s)
  BY Past DEF Kind, UserOf
<1>2. CapOK(r)  BY DEF CapInv, CapOK
<1>3. Kind(r) \in {"open", "register"} => UserOf(r) \in User
  BY CallForms DEF AccessCall, UserOf, Kind
<1>4. ASSUME Kind(r) = "open", pc'[r] # "idle"  PROVE member'[UserOf(r)] # "none"
  <2>1. CASE pc[r] = "idle"
    <3>1. Arrives(r)
      <4>1. CASE Quiet(AccessKinds)  BY <1>4, <2>1, <4>1 DEF Quiet, AccessKinds
      <4>2. ASSUME NEW s \in Request, AccessStep(s), Frame(s)  PROVE FALSE
        BY <1>4, <2>1, <4>2 DEF Frame, InFlight
      <4> QED  BY <4>1, <4>2, FamilySteps
    <3>2. member' = member /\ member[UserOf(r)] # "none"
      BY <1>4, <3>1 DEF Arrives, HasToken, Tables, accessVars
    <3> QED  BY <3>2
  <2>2. CASE pc[r] # "idle"  BY <1>2, <1>3, <1>4, <2>2, MembersStay DEF CapOK
  <2> QED  BY <2>1, <2>2
<1>5. ASSUME At(r, {"register"}, "starter")'
      PROVE  \A o \in before'[r] : ~(Kind(o)' = "open" /\ UserOf(o)' = UserOf(r)')
  <2>0. Kind(r) = "register" /\ pc'[r] = "starter"  BY <1>1, <1>5 DEF At
  <2>1. CASE pc[r] = "starter"
    BY <1>1, <1>2, <2>0, <2>1, Past DEF CapOK, At, DeskTypeOK
  <2>2. CASE pc[r] # "starter"
    <3>1. CreateUser(r)
      <4>1. CASE Quiet(AccessKinds)
        BY <2>0, <2>2, <4>1 DEF Quiet, AccessKinds
      <4>2. ASSUME NEW s \in Request, AccessStep(s), Frame(s)  PROVE CreateUser(r)
        <5>1. s = r  BY <2>0, <2>2, <4>2 DEF Frame
        <5>2. CASE OpenStarters(r) \/ OpenSession(r)
          BY <2>0, <5>2 DEF OpenStarters, OpenSession, Read, Goto, Commit, Finish, DeskTypeOK
        <5>3. ~(OpenStarters(r) \/ OpenSession(r)) => CreateUser(r)
          BY <2>0, <4>2, <5>1 DEF At, AccessStep, CheckHold, Verify, CountFailure, StartHold,
             ClearHold, CountAccounts, InsertAccount, ReadSession, Act, EndSessions,
             WriteStatus,
             CommitStatus, CountKeys, InsertKey, RevokeKey, ReadKey, CountUse
        <5> QED  BY <5>2, <5>3
      <4> QED  BY <4>1, <4>2, FamilySteps
    <3>2. member[UserOf(r)] = "none" /\ pc[r] # "idle"
      BY <2>0, <3>1 DEF CreateUser, At, Refuse, Finish, DeskTypeOK
    <3>3. \A o \in before[r] : o \in Request /\ pc[o] = "over"  BY DEF InOrder, DeskTypeOK
    <3>4. \A o \in before[r] : ~(Kind(o) = "open" /\ UserOf(o) = UserOf(r))
      BY <3>2, <3>3 DEF CapInv
    <3> QED  BY <1>1, <3>2, <3>3, <3>4, Past
  <2> QED  BY <2>1, <2>2
<1> QED  BY <1>1, <1>4, <1>5 DEF CapOK

-----------------------------------------------------------------------------
\* What the cap asks of the accounts of u and of their keys.
OpenRoom(u) ==
  InTurn(Begun(Adds(u))) =>
    /\ opened[u] <= MaxAccounts
    /\ \A r \in Adds(u) : At(r, {"open"}, "insert") => opened[u] < MaxAccounts
KeyRoom(u) ==
  InTurn(Begun(Adds(u))) =>
    /\ Cardinality(ActiveKeys(u)) <= MaxKeys
    /\ \A r \in Adds(u) : At(r, {"newKey"}, "insert") => Cardinality(ActiveKeys(u)) < MaxKeys

\* CapInv, customer by customer and request by request.
LEMMA RoomParts ==
  /\ DeskTypeOK => (CapInv <=> /\ \A u \in User : OpenRoom(u) /\ KeyRoom(u)
                               /\ \A r \in Request : CapOK(r))
  /\ DeskTypeOK' => (CapInv' <=> /\ \A u \in User : OpenRoom(u)' /\ KeyRoom(u)'
                                 /\ \A r \in Request : CapOK(r)')
<1>1. ASSUME DeskTypeOK
      PROVE  CapInv <=> /\ \A u \in User : OpenRoom(u) /\ KeyRoom(u)
                        /\ \A r \in Request : CapOK(r)
  <2>1. \A r \in Request : Kind(r) \in {"open", "newKey"} =>
        UserOf(r) \in User /\ r \in Adds(UserOf(r))
    BY <1>1, CallForms DEF AccessCall, Adds, UserOf, Kind
  <2>2. CapInv => \A u \in User : OpenRoom(u) /\ KeyRoom(u)
    BY DEF CapInv, CapsHoldInTurn, OpenRoom, KeyRoom, Adds
  <2>3. CapInv => \A r \in Request : CapOK(r)
    BY DEF CapInv, CapOK
  <2>4. (\A u \in User : OpenRoom(u) /\ KeyRoom(u)) /\ (\A r \in Request : CapOK(r)) => CapInv
    BY <2>1 DEF CapInv, CapsHoldInTurn, OpenRoom, KeyRoom, CapOK, At
  <2> QED  BY <2>2, <2>3, <2>4
<1>2. ASSUME DeskTypeOK'
      PROVE  CapInv' <=> /\ \A u \in User : OpenRoom(u)' /\ KeyRoom(u)'
                         /\ \A r \in Request : CapOK(r)'
  <2>1. \A r \in Request : Kind(r)' \in {"open", "newKey"} =>
           UserOf(r)' \in User /\ r \in Adds(UserOf(r))'
    BY <1>2, PlanAssumption DEF DeskTypeOK, AccessCall, Adds, UserOf, Kind
  <2>2. CapInv' => \A u \in User : OpenRoom(u)' /\ KeyRoom(u)'
    BY DEF CapInv, CapsHoldInTurn, OpenRoom, KeyRoom, Adds
  <2>3. CapInv' => \A r \in Request : CapOK(r)'
    BY DEF CapInv, CapOK
  <2>4. (\A u \in User : OpenRoom(u)' /\ KeyRoom(u)') /\ (\A r \in Request : CapOK(r)') => CapInv'
    BY <2>1 DEF CapInv, CapsHoldInTurn, OpenRoom, KeyRoom, CapOK, At
  <2> QED  BY <2>2, <2>3, <2>4
<1> QED  BY <1>1, <1>2

\* While one of them is under way, no other is.
LEMMA AloneInTurn ==
  ASSUME OnceInv, NEW S \in SUBSET Request, InTurn(Begun(S)), NEW r \in S, InFlight(r)
  PROVE  \A s \in S \ {r} : pc[s] \in {"idle", "over"}
BY OneUnderWay DEF InFlight

\* The accounts of a customer stay under their cap.
LEMMA OpenRoomHolds ==
  ASSUME OnceInv, CapInv, [Next]_vars, NEW u \in User
  PROVE  OpenRoom(u)'
<1>0. DeskTypeOK /\ TypeOK /\ SidesOK /\ InOrder /\ AccessTypeOK /\ StarterInv
  BY DEF OnceInv, TypeOK
<1> USE <1>0
<1>1. call' = call /\ \A r \in Request : Kind(r)' = Kind(r) /\ UserOf(r)' = UserOf(r)
  BY Past DEF Kind, UserOf
<1>2. OpenRoom(u) /\ \A r \in Request : CapOK(r)  BY RoomParts
<1>3. /\ Adds(u)' = Adds(u) /\ Adds(u) \in SUBSET Request
      /\ InTurn(Begun(Adds(u)))' => InTurn(Begun(Adds(u)))
  BY AddsTurn
<1>4. /\ opened[u] \in Nat /\ MaxAccounts \in Nat /\ Starter \in Nat /\ Starter <= MaxAccounts
      /\ opened[u] \in Int /\ MaxAccounts \in Int
  BY AccessAssumption DEF AccessTypeOK
\* Nothing is added.
<1>5. ASSUME opened'[u] = opened[u],
             \A r \in Adds(u) : At(r, {"open"}, "insert")' =>
               At(r, {"open"}, "insert") \/ opened[u] < MaxAccounts
      PROVE  OpenRoom(u)'
  BY <1>2, <1>3, <1>5 DEF OpenRoom
<1>6. CASE Quiet(AccessKinds)
           /\ \/ UNCHANGED accessVars
              \/ TimePasses /\ UNCHANGED deskVars
  <2>1. opened' = opened  BY <1>6 DEF accessVars, TimePasses, HoldsRunOut, MinutePasses
  <2>2. \A r \in Adds(u) : At(r, {"open"}, "insert")' => At(r, {"open"}, "insert")
    BY <1>1, <1>3, <1>6 DEF Quiet, At, AccessKinds
  <2> QED  BY <1>5, <2>1, <2>2
<1>7. CASE EnsureStarters /\ \A r \in Request : pc'[r] \in {"idle", "over"}
  <2>1. opened'[u] \in {Starter, opened[u]}  BY <1>7 DEF EnsureStarters
  <2>2. \A r \in Adds(u) : ~At(r, {"open"}, "insert")'  BY <1>3, <1>7 DEF At
  <2> QED  BY <1>2, <1>3, <1>4, <2>1, <2>2 DEF OpenRoom
<1>8. ASSUME NEW r \in Request, AccessStep(r), Frame(r)  PROVE OpenRoom(u)'
  <2>0. AccessCall(call[r]) /\ InFlight(r)  BY <1>8, CallForms, AccessShapes
  <2>1. \A s \in Request \ {r} : pc'[s] = pc[s]  BY <1>8 DEF Frame
  <2>2. ASSUME r \in Adds(u), pc'[r] # "insert",
               InTurn(Begun(Adds(u))) => opened'[u] <= MaxAccounts
        PROVE  OpenRoom(u)'
    <3>1. InTurn(Begun(Adds(u))) => \A s \in Adds(u) : pc'[s] # "insert"
      <4> SUFFICES ASSUME InTurn(Begun(Adds(u))), NEW s \in Adds(u), pc'[s] = "insert"
                   PROVE  FALSE
        OBVIOUS
      <4>1. PICK S : S = Adds(u)  OBVIOUS
      <4>2. s \in S \ {r} /\ S \in SUBSET Request  BY <1>3, <2>2, <4>1
      <4>3. pc[s] \in {"idle", "over"}  BY <2>0, <2>2, <4>1, <4>2, AloneInTurn
      <4> QED  BY <2>1, <4>2, <4>3
    <3> QED  BY <1>3, <2>2, <3>1 DEF OpenRoom, At
  <2>3. CASE OpenStarters(r) /\ UserOf(r) = u
    <3>1. /\ At(r, {"register"}, "starter") /\ pc'[r] = "session"
          /\ opened' = [opened EXCEPT ![u] = @ + Starter]
      BY <2>3 DEF OpenStarters, Read, Goto, DeskTypeOK
    <3>2. r \in Adds(u)  BY <2>3, <3>1 DEF Adds, At
    <3>3. opened[u] = More(u)  BY <2>3, <3>1 DEF StarterInv
    <3>4. ASSUME InTurn(Begun(Adds(u)))  PROVE opened'[u] <= MaxAccounts
      <4>1. ASSUME NEW o \in Done({"open"}), UserOf(o) = u  PROVE FALSE
        <5>1. o \in Request /\ Kind(o) = "open" /\ outcome[o] = "done"  BY <4>1 DEF Done
        <5>2. o \in Begun(Adds(u)) /\ r \in Begun(Adds(u)) /\ o # r
          BY <3>1, <3>2, <4>1, <5>1 DEF Begun, Adds, At, InOrder
        <5>3. o \in before[r] \/ r \in before[o]  BY <3>4, <5>2 DEF InTurn, Met
        <5>4. r \notin before[o]  BY <3>1, <5>1 DEF InOrder, At
        <5> QED  BY <1>2, <2>3, <3>1, <4>1, <5>1, <5>3, <5>4 DEF CapOK
      <4>2. {o \in Done({"open"}) : UserOf(o) = u} = {}  BY <4>1
      <4>3. More(u) = 0  BY <4>2, FS_EmptySet DEF More
      <4> QED  BY <1>4, <3>1, <3>3, <4>3 DEF AccessTypeOK
    <3> QED  BY <2>2, <3>1, <3>2, <3>4
  <2>4. CASE InsertAccount(r) /\ UserOf(r) = u
    <3>1. /\ At(r, {"open"}, "insert") /\ pc'[r] = "over"
          /\ opened' = [opened EXCEPT ![u] = @ + 1]
      BY <2>4 DEF InsertAccount, Commit, Finish, DeskTypeOK
    <3>2. r \in Adds(u)  BY <2>4, <3>1 DEF Adds, At
    <3>3. opened'[u] = opened[u] + 1  BY <3>1 DEF AccessTypeOK
    <3>4. InTurn(Begun(Adds(u))) => opened[u] < MaxAccounts  BY <1>2, <3>1, <3>2 DEF OpenRoom
    <3> QED  BY <1>4, <2>2, <3>1, <3>2, <3>3, <3>4
  <2>5. CASE CountAccounts(r) /\ UserOf(r) = u
    <3>1. opened' = opened  BY <2>5 DEF CountAccounts, accessVars
    <3>2. At(r, {"open"}, "insert")' => opened[u] < MaxAccounts
      <4>1. CASE opened[u] >= MaxAccounts
        <5>1. Refuse(r, "too many")  BY <2>5, <4>1 DEF CountAccounts
        <5> QED  BY <5>1 DEF At, Refuse, Finish, DeskTypeOK
      <4> QED  BY <1>4, <4>1
    <3> QED  BY <1>1, <1>3, <1>5, <2>1, <3>1, <3>2 DEF At
  <2>6. CASE ~(UserOf(r) = u /\ (OpenStarters(r) \/ InsertAccount(r) \/ CountAccounts(r)))
    <3>1. opened'[u] = opened[u]
      <4>1. CASE OpenStarters(r) \/ InsertAccount(r)
        BY <2>6, <4>1 DEF OpenStarters, InsertAccount, AccessTypeOK
      <4>2. CASE ~OpenStarters(r) /\ ~InsertAccount(r)
        BY <1>8, <4>2 DEF AccessStep, CheckHold, Verify, CountFailure, StartHold, ClearHold,
           OpenSession, CreateUser, CountAccounts, ReadSession, Act, EndSessions, WriteStatus,
           CommitStatus, CountKeys, InsertKey, RevokeKey, ReadKey, CountUse, accessVars
      <4> QED  BY <4>1, <4>2
    <3>2. r \in Adds(u) => ~At(r, {"open"}, "insert")'
      <4> SUFFICES ASSUME r \in Adds(u), At(r, {"open"}, "insert")'  PROVE FALSE
        OBVIOUS
      <4>1. Kind(r) = "open" /\ UserOf(r) = u /\ pc'[r] = "insert"
        BY <1>1 DEF Adds, At
      <4> QED
        BY <1>8, <2>6, <4>1 DEF At, AccessStep, CheckHold, Verify, CountFailure, StartHold,
           ClearHold, OpenSession, CreateUser, OpenStarters, ReadSession, Act, EndSessions,
           WriteStatus, CommitStatus, CountKeys, InsertKey, RevokeKey, ReadKey, CountUse
    <3> QED  BY <1>1, <1>3, <1>5, <2>1, <3>1, <3>2 DEF At
  <2> QED  BY <2>3, <2>4, <2>5, <2>6
<1> QED  BY <1>6, <1>7, <1>8, FamilySteps

\* The active keys of a customer stay under their cap.
LEMMA KeyRoomHolds ==
  ASSUME OnceInv, CapInv, [Next]_vars, NEW u \in User
  PROVE  KeyRoom(u)'
<1>0. DeskTypeOK /\ TypeOK /\ SidesOK /\ InOrder /\ AccessTypeOK
  BY DEF OnceInv, TypeOK
<1> USE <1>0
<1>1. call' = call /\ \A r \in Request : Kind(r)' = Kind(r) /\ UserOf(r)' = UserOf(r)
  BY Past DEF Kind, UserOf
<1>2. KeyRoom(u)  BY RoomParts
<1>3. /\ Adds(u)' = Adds(u) /\ Adds(u) \in SUBSET Request
      /\ InTurn(Begun(Adds(u)))' => InTurn(Begun(Adds(u)))
  BY AddsTurn
<1>4. /\ IsFiniteSet(ActiveKeys(u)) /\ Cardinality(ActiveKeys(u)) \in Nat
      /\ IsFiniteSet(ActiveKeys(u)') /\ Cardinality(ActiveKeys(u)') \in Nat
      /\ MaxKeys \in Nat
  BY KeysFinite, AccessAssumption
<1>5. CASE ActiveKeys(u)' \subseteq ActiveKeys(u)
  <2>1. Cardinality(ActiveKeys(u)') <= Cardinality(ActiveKeys(u))  BY <1>4, <1>5, FS_Subset
  <2>2. \A r \in Adds(u) : At(r, {"newKey"}, "insert")' =>
          At(r, {"newKey"}, "insert") \/ Cardinality(ActiveKeys(u)) < MaxKeys
    <3>1. CASE Quiet(AccessKinds)
      BY <1>1, <1>3, <3>1 DEF Quiet, At, AccessKinds
    <3>2. ASSUME NEW r \in Request, AccessStep(r), Frame(r), r \in Adds(u),
                 At(r, {"newKey"}, "insert")'
          PROVE  Cardinality(ActiveKeys(u)) < MaxKeys
      <4>1. Kind(r) = "newKey" /\ UserOf(r) = u /\ pc'[r] = "insert"
        BY <1>1, <3>2 DEF Adds, At
      <4>2. ~InsertKey(r)
        BY <4>1 DEF InsertKey, Commit, Finish, DeskTypeOK
      <4>3. CountKeys(r)
        BY <3>2, <4>1, <4>2 DEF At, AccessStep, CheckHold, Verify, CountFailure, StartHold,
           ClearHold, OpenSession, CreateUser, OpenStarters, CountAccounts, InsertAccount,
           ReadSession, Act, EndSessions, WriteStatus, CommitStatus, RevokeKey, ReadKey,
           CountUse
      <4>4. CASE Cardinality(ActiveKeys(u)) >= MaxKeys
        <5>1. Refuse(r, "too many")  BY <4>1, <4>3, <4>4 DEF CountKeys
        <5> QED  BY <4>1, <5>1 DEF Refuse, Finish, DeskTypeOK
      <4> QED  BY <1>4, <4>4
    <3>3. ASSUME NEW r \in Request, AccessStep(r), Frame(r),
                 NEW s \in Adds(u), At(s, {"newKey"}, "insert")', s # r
          PROVE  At(s, {"newKey"}, "insert")
      BY <1>1, <1>3, <3>3 DEF Frame, At
    <3> QED  BY <3>1, <3>2, <3>3, FamilySteps
  <2> QED  BY <1>2, <1>3, <1>4, <2>1, <2>2 DEF KeyRoom
<1>6. ASSUME NEW r \in Request, InsertKey(r), Frame(r), UserOf(r) = u,
             ActiveKeys(u)' \subseteq ActiveKeys(u) \cup {call[r].key}
      PROVE  KeyRoom(u)'
  <2>1. At(r, {"newKey"}, "insert") /\ pc'[r] = "over" /\ InFlight(r)
    BY <1>6 DEF InsertKey, Commit, Finish, DeskTypeOK, At, InFlight
  <2>2. r \in Adds(u)  BY <1>6, <2>1 DEF Adds, At
  <2>3. /\ IsFiniteSet(ActiveKeys(u) \cup {call[r].key})
        /\ Cardinality(ActiveKeys(u) \cup {call[r].key}) =
             IF call[r].key \in ActiveKeys(u) THEN Cardinality(ActiveKeys(u))
                                              ELSE Cardinality(ActiveKeys(u)) + 1
    BY <1>4, FS_AddElement
  <2>4. Cardinality(ActiveKeys(u)') <= Cardinality(ActiveKeys(u) \cup {call[r].key})
    BY <1>6, <2>3, FS_Subset
  <2>5. Cardinality(ActiveKeys(u)') <= Cardinality(ActiveKeys(u)) + 1
    BY <1>4, <2>3, <2>4
  <2>6. InTurn(Begun(Adds(u))) => \A s \in Adds(u) : pc'[s] # "insert"
    <3> SUFFICES ASSUME InTurn(Begun(Adds(u))), NEW s \in Adds(u), pc'[s] = "insert"
                 PROVE  FALSE
      OBVIOUS
    <3>1. PICK S : S = Adds(u)  OBVIOUS
    <3>2. s \in S \ {r} /\ S \in SUBSET Request  BY <1>3, <2>1, <3>1
    <3>3. pc[s] \in {"idle", "over"}  BY <2>1, <2>2, <3>1, <3>2, AloneInTurn
    <3> QED  BY <1>6, <3>2, <3>3 DEF Frame
  <2>7. InTurn(Begun(Adds(u))) => Cardinality(ActiveKeys(u)) < MaxKeys
    BY <1>2, <2>1, <2>2 DEF KeyRoom
  <2> QED  BY <1>3, <1>4, <2>5, <2>6, <2>7 DEF KeyRoom, At
<1> QED  BY <1>5, <1>6, KeysStep

\* Every step keeps CapInv.
LEMMA CapHolds ==
  ASSUME OnceInv, CapInv, [Next]_vars
  PROVE  CapInv'
<1>1. DeskTypeOK' /\ \A r \in Request : CapOK(r)'
  BY TypesStep, CapParts DEF OnceInv, TypeOK
<1>2. \A u \in User : OpenRoom(u)' /\ KeyRoom(u)'  BY OpenRoomHolds, KeyRoomHolds
<1> QED  BY <1>1, <1>2, RoomParts

-----------------------------------------------------------------------------
\* A key is let in no oftener than its rate: every step keeps RateInv.
LEMMA RateKept ==
  ASSUME OnceInv, RateInv, [Next]_vars
  PROVE  RateInv'
<1>0. DeskTypeOK /\ TypeOK /\ SidesOK /\ AccessTypeOK  BY DEF OnceInv, TypeOK
<1> USE <1>0
<1>1. Rate \in Nat  BY AccessAssumption
<1>2. CASE UNCHANGED <<usage, passed>>  BY <1>2 DEF RateInv, RateHolds
<1>3. CASE MinutePasses
  BY <1>1, <1>3 DEF MinutePasses, RateInv, RateHolds
<1>4. ASSUME NEW r \in Request, AccessStep(r)  PROVE RateInv'
  <2>1. CASE CountUse(r)
    <3>1. call[r].key \in Key
      BY <2>1, CallForms DEF CountUse, At, AccessCall, Kind
    <3>2. CASE usage[call[r].key] + 1 <= Rate
      BY <1>1, <2>1, <3>1, <3>2 DEF CountUse, RateInv, RateHolds, AccessTypeOK
    <3>3. CASE ~(usage[call[r].key] + 1 <= Rate)
      BY <1>1, <2>1, <3>1, <3>3 DEF CountUse, RateInv, RateHolds, AccessTypeOK
    <3> QED  BY <3>2, <3>3
  <2>2. CASE ~CountUse(r)
    BY <1>2, <1>4, <2>2 DEF AccessStep, CheckHold, Verify, CountFailure, StartHold, ClearHold,
       OpenSession, CreateUser, OpenStarters, CountAccounts, InsertAccount, ReadSession, Act,
       EndSessions, WriteStatus, CommitStatus, CountKeys, InsertKey, RevokeKey, ReadKey,
       accessVars
  <2> QED  BY <2>1, <2>2
<1> QED
  BY <1>2, <1>3, <1>4, FamilySteps DEF accessVars, EnsureStarters, TimePasses, HoldsRunOut

-----------------------------------------------------------------------------
(* The hold.                                                               *)

PastCheck(r) == Kind(r) = "login" /\ pc[r] \in {"verify", "count", "hold", "clear"}

\* What is asked of the hold of p.
HoldOK(p) ==
  p \in announced /\ InTurn(Begun(LogIns(p))) =>
    holds[p].held /\ \A r \in LogIns(p) : ~PastCheck(r)

\* HoldInv, phone by phone.
LEMMA HoldParts == (HoldInv <=> \A p : HoldOK(p)) /\ (HoldInv' <=> \A p : HoldOK(p)')
<1>1. HoldInv <=> \A p : HoldOK(p)
  BY DEF HoldInv, HoldStandsInTurn, HoldOK, PastCheck, LogIns
<1>2. HoldInv' <=> \A p : HoldOK(p)'
  BY DEF HoldInv, HoldStandsInTurn, HoldOK, PastCheck, LogIns
<1> QED  BY <1>1, <1>2

\* A held sign-in stays out: every step keeps HoldInv.
LEMMA HoldKept ==
  ASSUME OnceInv, HoldInv, [Next]_vars
  PROVE  HoldInv'
<1>0. DeskTypeOK /\ TypeOK /\ SidesOK /\ InOrder /\ AccessTypeOK  BY DEF OnceInv, TypeOK
<1> USE <1>0
<1>1. call' = call /\ \A r \in Request : Kind(r)' = Kind(r) /\ Pair(r)' = Pair(r)
  BY Past DEF Kind, Pair
<1> SUFFICES ASSUME NEW p \in User \X Client  PROVE HoldOK(p)'
  <2>1. AccessTypeOK'  BY TypesStep DEF TypeOK
  <2>2. ASSUME NEW q, q \notin User \X Client  PROVE HoldOK(q)'
    BY <2>1, <2>2 DEF HoldOK, AccessTypeOK
  <2> QED  BY <2>2, HoldParts
<1>2. HoldOK(p)  BY HoldParts
<1>3. LogIns(p)' = LogIns(p) /\ LogIns(p) \in SUBSET Request  BY <1>1 DEF LogIns
<1>4. InTurn(Begun(LogIns(p)))' => InTurn(Begun(LogIns(p)))
  <2>1. PICK S : S = LogIns(p)  OBVIOUS
  <2>2. InTurn(Begun(S))' => InTurn(Begun(S))  BY <1>3, <2>1, TurnsBefore
  <2> QED  BY <1>3, <2>1, <2>2 DEF InTurn, Begun, Met
\* The hold stays as it was, and nobody new gets past the check.
<1>5. ASSUME p \in announced' => p \in announced, holds'[p] = holds[p],
             \A r \in LogIns(p) : PastCheck(r)' => PastCheck(r) \/ ~holds[p].held
      PROVE  HoldOK(p)'
  BY <1>2, <1>3, <1>4, <1>5 DEF HoldOK
<1>6. CASE Quiet(AccessKinds) /\ UNCHANGED <<holds, announced>>
  <2>1. \A r \in LogIns(p) : PastCheck(r)' => PastCheck(r)
    BY <1>1, <1>3, <1>6 DEF Quiet, PastCheck, AccessKinds
  <2> QED  BY <1>5, <1>6, <2>1
<1>7. CASE HoldsRunOut
  BY <1>7 DEF HoldsRunOut, HoldOK
<1>8. ASSUME NEW r \in Request, AccessStep(r), Frame(r)  PROVE HoldOK(p)'
  <2>0. AccessCall(call[r]) /\ InFlight(r)  BY <1>8, CallForms, AccessShapes
  <2>1. \A s \in Request \ {r} : pc'[s] = pc[s]  BY <1>8 DEF Frame
  <2>2. \A s \in LogIns(p) \ {r} : PastCheck(s)' => PastCheck(s)
    BY <1>1, <1>3, <2>1 DEF PastCheck
  \* Another's hold.
  <2>3. CASE r \notin LogIns(p)
    <3>1. holds'[p] = holds[p] /\ (p \in announced' => p \in announced)
      <4>1. CASE CountFailure(r) \/ StartHold(r) \/ ClearHold(r)
        <5>1. Kind(r) = "login" /\ Pair(r) # p
          BY <2>3, <4>1 DEF CountFailure, StartHold, ClearHold, At, LogIns
        <5>2. /\ holds' = holds \/ \E h : holds' = [holds EXCEPT ![Pair(r)] = h]
              /\ announced' = announced \/ announced' = announced \cup {Pair(r)}
          BY <4>1 DEF CountFailure, StartHold, ClearHold
        <5> QED  BY <5>1, <5>2 DEF AccessTypeOK
      <4>2. CASE ~CountFailure(r) /\ ~StartHold(r) /\ ~ClearHold(r)
        BY <1>8, <4>2 DEF AccessStep, CheckHold, Verify, OpenSession, CreateUser, OpenStarters,
           CountAccounts, InsertAccount, ReadSession, Act, EndSessions, WriteStatus,
           CommitStatus,
           CountKeys, InsertKey, RevokeKey, ReadKey, CountUse, accessVars
      <4> QED  BY <4>1, <4>2
    <3> QED  BY <1>5, <2>2, <2>3, <3>1
  <2>4. CASE r \in LogIns(p)
    <3>0. Kind(r) = "login" /\ Pair(r) = p /\ p \in User \X Client
      BY <2>0, <2>4 DEF LogIns, Pair, AccessCall, Kind
    <3>1. CASE CheckHold(r)
      <4>1. holds' = holds /\ announced' = announced  BY <3>1 DEF CheckHold, accessVars
      <4>2. PastCheck(r)' => ~holds[p].held
        BY <3>0, <3>1 DEF CheckHold, PastCheck, Refuse, Finish, DeskTypeOK
      <4> QED  BY <1>5, <2>2, <4>1, <4>2
    <3>2. CASE PastCheck(r) /\ p \in announced
      <4>1. ~InTurn(Begun(LogIns(p)))  BY <1>2, <2>4, <3>2 DEF HoldOK
      <4> QED  BY <1>4, <4>1 DEF HoldOK
    <3>3. CASE StartHold(r) /\ p \notin announced
      <4>1. CASE holds[p] = NoHold
        BY <3>0, <3>3, <4>1 DEF StartHold, HoldOK
      <4>2. CASE holds[p] # NoHold
        <5>1. holds'[p].held
          BY <3>0, <3>3, <4>2 DEF StartHold, NoHold, AccessTypeOK
        <5>2. InTurn(Begun(LogIns(p))) => \A s \in LogIns(p) : ~PastCheck(s)'
          <6> SUFFICES ASSUME InTurn(Begun(LogIns(p))), NEW s \in LogIns(p), PastCheck(s)'
                       PROVE  FALSE
            OBVIOUS
          <6>1. pc'[r] = "over"
            BY <3>0, <3>3, <4>2 DEF StartHold, Refuse, Finish, DeskTypeOK
          <6>2. s # r /\ PastCheck(s)  BY <2>2, <6>1 DEF PastCheck
          <6>3. PICK S : S = LogIns(p)  OBVIOUS
          <6>4. s \in S \ {r} /\ S \in SUBSET Request  BY <1>3, <6>2, <6>3
          <6>5. pc[s] \in {"idle", "over"}  BY <2>0, <2>4, <6>3, <6>4, AloneInTurn
          <6> QED  BY <6>2, <6>5 DEF PastCheck
        <5> QED  BY <1>3, <1>4, <5>1, <5>2 DEF HoldOK
      <4> QED  BY <4>1, <4>2
    <3>4. CASE p \notin announced /\ ~StartHold(r)
      <4>1. p \notin announced'
        BY <1>8, <3>4 DEF AccessStep, CheckHold, Verify, CountFailure, ClearHold, OpenSession,
           CreateUser, OpenStarters, CountAccounts, InsertAccount, ReadSession, Act,
           EndSessions,
           WriteStatus, CommitStatus, CountKeys, InsertKey, RevokeKey, ReadKey, CountUse,
           accessVars
      <4> QED  BY <4>1 DEF HoldOK
    <3>5. CASE ~PastCheck(r) /\ ~CheckHold(r)
      <4>1. OpenSession(r)
        BY <1>8, <3>0, <3>5 DEF PastCheck, AccessStep, At, Verify, CountFailure, StartHold,
           ClearHold, CreateUser, OpenStarters, CountAccounts, InsertAccount, ReadSession, Act,
           EndSessions, WriteStatus, CommitStatus, CountKeys, InsertKey, RevokeKey, ReadKey,
           CountUse
      <4>2. pc'[r] = "over"  BY <4>1 DEF OpenSession, Commit, Finish, DeskTypeOK
      <4> QED  BY <1>5, <2>2, <4>1, <4>2 DEF OpenSession, PastCheck
    <3> QED  BY <3>1, <3>2, <3>3, <3>4, <3>5
  <2> QED  BY <2>3, <2>4
<1> QED
  BY <1>6, <1>7, <1>8, FamilySteps DEF accessVars, EnsureStarters, TimePasses, MinutePasses

-----------------------------------------------------------------------------
(* Who is stopped.                                                         *)

\* A request about access gets on, or is done, by a step of its own.
LEMMA OwnStep ==
  ASSUME OnceInv, [Next]_vars, NEW r \in Request, Kind(r) \in AccessKinds,
         outcome'[r] # outcome[r] \/ pc'[r] \notin {pc[r], "start", "over"}
  PROVE  AccessStep(r) /\ Frame(r)
<1>0. TypeOK /\ SidesOK /\ InOrder  BY DEF OnceInv
<1>1. CASE Quiet(AccessKinds)
  BY <1>1 DEF Quiet
<1>2. ASSUME NEW s \in Request, AccessStep(s), Frame(s)  PROVE s = r
  BY <1>2 DEF Frame
<1> QED  BY <1>0, <1>1, <1>2, FamilySteps

\* A session that appears is opened by its own request.
LEMMA SessionsStep ==
  ASSUME OnceInv, [Next]_vars, NEW t \in sessions', t \notin sessions
  PROVE  t \in Request /\ OpenSession(t) /\ Frame(t)
<1>0. TypeOK /\ SidesOK  BY DEF OnceInv
<1>1. CASE UNCHANGED sessions  BY <1>1
<1>2. ASSUME NEW r \in Request, AccessStep(r), Frame(r)  PROVE OpenSession(t) /\ t = r
  <2>1. CASE OpenSession(r)  BY <2>1 DEF OpenSession
  <2>2. CASE EndSessions(r) \/ CommitStatus(r)  BY <2>2 DEF EndSessions, CommitStatus
  <2>3. CASE ~OpenSession(r) /\ ~EndSessions(r) /\ ~CommitStatus(r)
    BY <1>2, <2>3 DEF AccessStep, CheckHold, Verify, CountFailure, StartHold, ClearHold,
       CreateUser, OpenStarters, CountAccounts, InsertAccount, ReadSession, Act,
       WriteStatus, CountKeys, InsertKey, RevokeKey, ReadKey, CountUse, accessVars
  <2> QED  BY <2>1, <2>2, <2>3
<1> QED
  BY <1>0, <1>1, <1>2, FamilySteps DEF accessVars, EnsureStarters, TimePasses, HoldsRunOut,
    MinutePasses

\* A lock that a request met stays met.
LEMMA LocksMet ==
  ASSUME OnceInv, [Next]_vars, NEW t \in Request, pc[t] # "idle"
  PROVE  MetALock(t) => MetALock(t)'
BY Past DEF MetALock, Met, Kind, UserOf

\* Whoever comes to open a session was not locked then.
LEMMA EnteringStep ==
  ASSUME OnceInv, [Next]_vars, NEW t \in Request, Entering(t)', ~Entering(t)
  PROVE  UserOf(t) \in User /\ member'[UserOf(t)] # "locked"
<1>0. DeskTypeOK /\ TypeOK /\ SidesOK /\ AccessTypeOK  BY DEF OnceInv, TypeOK
<1> USE <1>0
<1>1. call' = call /\ Kind(t)' = Kind(t)  BY Past DEF Kind
<1>2. Kind(t) \in {"login", "register"} /\ UserOf(t) \in User
  BY <1>1, CallForms DEF Entering, AccessCall, UserOf, Kind
<1>3. AccessStep(t)
  BY <1>1, <1>2, OwnStep DEF Entering, AccessKinds
<1>4. CASE CreateUser(t)
  <2>1. CASE member[UserOf(t)] # "none"
    <3>1. Refuse(t, "taken")  BY <1>4, <2>1 DEF CreateUser
    <3> QED  BY <1>1, <3>1 DEF Refuse, Finish, DeskTypeOK, Entering
  <2>2. CASE member[UserOf(t)] = "none"
    BY <1>2, <1>4, <2>2 DEF CreateUser, AccessTypeOK
  <2> QED  BY <2>1, <2>2
<1>5. CASE Verify(t)
  <2>1. member' = member  BY <1>5 DEF Verify, accessVars
  <2>2. CASE call[t].right /\ member[UserOf(t)] # "locked"  BY <1>2, <2>1, <2>2
  <2>3. CASE ~call[t].right
    <3>1. pc'[t] = "count"  BY <1>5, <2>3 DEF Verify, Read, Goto, DeskTypeOK
    <3> QED  BY <1>1, <3>1 DEF Entering
  <2>4. CASE call[t].right /\ member[UserOf(t)] = "locked"
    <3>1. Refuse(t, "locked")  BY <1>5, <2>4 DEF Verify
    <3> QED  BY <1>1, <3>1 DEF Refuse, Finish, DeskTypeOK, Entering
  <2> QED  BY <2>2, <2>3, <2>4
<1>6. CASE ~CreateUser(t) /\ ~Verify(t)
  <2>1. pc[t] \notin {"clear", "starter", "session"}
    <3>1. pc[t] # "clear" \/ Kind(t) = "register"  BY <1>2 DEF Entering
    <3>2. pc[t] # "starter" \/ Kind(t) = "login"  BY <1>2 DEF Entering
    <3>3. pc[t] # "session"  BY <1>2 DEF Entering
    <3>4. CASE pc[t] \in {"clear", "starter"}
      BY <1>2, <1>3, <3>1, <3>2, <3>4 DEF AccessStep, At, CheckHold, Verify, CountFailure,
         StartHold, ClearHold, OpenSession, CreateUser, OpenStarters, CountAccounts,
         InsertAccount, ReadSession, Act, EndSessions, WriteStatus, CommitStatus, CountKeys,
         InsertKey, RevokeKey, ReadKey, CountUse
    <3> QED  BY <3>3, <3>4
  <2>2. CheckHold(t) \/ CountFailure(t) \/ StartHold(t)
    BY <1>2, <1>3, <1>6, <2>1 DEF AccessStep, At, ClearHold, OpenSession, OpenStarters,
       CountAccounts, InsertAccount, ReadSession, Act, EndSessions, WriteStatus, CommitStatus,
       CountKeys, InsertKey, RevokeKey, ReadKey, CountUse
  <2>3. pc'[t] \in {"verify", "hold", "over"}
    BY <2>2 DEF CheckHold, CountFailure, StartHold, Read, Goto, Refuse, Finish, DeskTypeOK
  <2> QED  BY <1>1, <2>3 DEF Entering
<1> QED  BY <1>4, <1>5, <1>6

\* A lock ends sessions: every step keeps SessionInv.
LEMMA SessionKept ==
  ASSUME OnceInv, SessionInv, [Next]_vars
  PROVE  SessionInv'
<1>0. DeskTypeOK /\ TypeOK /\ SidesOK /\ InOrder /\ AccessTypeOK  BY DEF OnceInv, TypeOK
<1> USE <1>0
<1>1. call' = call /\ \A r \in Request : Kind(r)' = Kind(r) /\ UserOf(r)' = UserOf(r)
  BY Past DEF Kind, UserOf
<1>2. ASSUME NEW t \in sessions'
      PROVE  t \in Done({"login", "register"})'
  <2>1. CASE t \in sessions
    BY <1>1, <2>1, Past DEF SessionInv, Done
  <2>2. CASE t \notin sessions
    <3>1. t \in Request /\ OpenSession(t)  BY <2>2, SessionsStep
    <3> QED  BY <1>1, <3>1 DEF OpenSession, Done, At, Commit, DeskTypeOK
  <2> QED  BY <2>1, <2>2
<1>3. ASSUME NEW t \in Request, t \in sessions' \/ Entering(t)', member'[UserOf(t)] = "locked"
      PROVE  MetALock(t)'
  <2>1. t \in sessions \/ Entering(t)
    <3>1. CASE t \in sessions' /\ t \notin sessions
      BY <3>1, SessionsStep DEF OpenSession, At, Entering
    <3>2. CASE Entering(t)' /\ ~Entering(t)
      BY <1>3, <3>2, EnteringStep
    <3> QED  BY <1>3, <3>1, <3>2
  <2>2. pc[t] # "idle" /\ Kind(t) \in {"login", "register"}
    BY <2>1 DEF SessionInv, Done, Entering, InOrder
  <2>3. UserOf(t) \in User  BY <2>2, CallForms DEF AccessCall, UserOf, Kind
  <2>4. CASE member[UserOf(t)] = "locked"
    BY <2>1, <2>2, <2>4, LocksMet DEF SessionInv
  <2>5. CASE member[UserOf(t)] # "locked"
    <3>1. PICK r \in Request : /\ Frame(r) /\ UserOf(r) = UserOf(t)
                               /\ CreateUser(r) \/ CommitStatus(r)
      BY <1>3, <2>3, <2>5, MembersStay
    <3>2. CommitStatus(r)
      BY <1>3, <2>3, <2>5, <3>1 DEF CreateUser, AccessTypeOK
    <3>3. /\ At(r, {"setStatus"}, "commit") /\ call[r].to = "locked"
          /\ sessions' = {s \in sessions : UserOf(s) # UserOf(r)}
      <4>1. member' = [member EXCEPT ![UserOf(r)] = call[r].to]  BY <3>2 DEF CommitStatus
      <4>2. call[r].to = "locked"  BY <1>3, <2>3, <3>1, <4>1 DEF AccessTypeOK
      <4> QED  BY <3>2, <4>2 DEF CommitStatus
    <3>4. t # r /\ t \notin sessions'  BY <2>2, <3>1, <3>3 DEF At
    <3>5. InFlight(t)
      <4>1. pc'[t] \notin {"idle", "over"}  BY <1>3, <3>4 DEF Entering
      <4> QED  BY <3>1, <3>4, <4>1 DEF Frame, InFlight
    <3>6. InFlight(r)  BY <3>3 DEF At, InFlight
    <3>7. Met(r, t)  BY <3>5, <3>6, UnderWay
    <3>8. MetALock(t)  BY <3>1, <3>3, <3>6, <3>7 DEF MetALock, At, InFlight
    <3> QED  BY <2>2, <3>8, LocksMet
  <2> QED  BY <2>4, <2>5
<1> QED  BY <1>1, <1>2, <1>3 DEF SessionInv

-----------------------------------------------------------------------------
\* Keys are made once, and a revoked one stays so.
KeysMade == \A k \in Key : keyOf[k] # "none" => \E s \in Done({"newKey"}) : call[s].key = k

\* A key is made once, and once revoked stays revoked.
LEMMA KeyOnce ==
  ASSUME OnceInv, KeysMade, [Next]_vars, NEW k \in Key
  PROVE  /\ keyOf[k] # "none" => keyOf'[k] \in {keyOf[k], "revoked"}
         /\ keyOf[k] = "revoked" => keyOf'[k] = "revoked"
         /\ keyOf[k] = "none" /\ keyOf'[k] # "none" =>
              \E r \in Request : InsertKey(r) /\ Frame(r) /\ call[r].key = k
<1>0. DeskTypeOK /\ TypeOK /\ SidesOK /\ InOrder /\ AccessTypeOK  BY DEF OnceInv, TypeOK
<1> USE <1>0
<1>1. CASE UNCHANGED keyOf  BY <1>1
<1>2. ASSUME NEW r \in Request, AccessStep(r), Frame(r)
      PROVE  /\ keyOf[k] # "none" => keyOf'[k] \in {keyOf[k], "revoked"}
             /\ keyOf[k] = "revoked" => keyOf'[k] = "revoked"
             /\ keyOf[k] = "none" /\ keyOf'[k] # "none" => InsertKey(r) /\ call[r].key = k
  <2>1. CASE InsertKey(r)
    <3>1. At(r, {"newKey"}, "insert") /\ keyOf' = [keyOf EXCEPT ![call[r].key] = "active"]
      BY <2>1 DEF InsertKey
    <3>2. call[r].key = k => keyOf[k] = "none"
      <4> SUFFICES ASSUME call[r].key = k, keyOf[k] # "none"  PROVE FALSE
        OBVIOUS
      <4>1. PICK s \in Done({"newKey"}) : call[s].key = k  BY DEF KeysMade
      <4>2. s # r  BY <3>1, <4>1 DEF Done, InOrder, At
      <4> QED  BY <3>1, <4>1, <4>2, PlanAssumption DEF Done, At, Kind, DeskTypeOK
    <3> QED  BY <2>1, <3>1, <3>2 DEF AccessTypeOK
  <2>2. CASE RevokeKey(r)
    <3>1. CASE keyOf[call[r].key] = "active"
      BY <2>2, <3>1 DEF RevokeKey, AccessTypeOK
    <3>2. CASE keyOf[call[r].key] # "active"
      BY <2>2, <3>2 DEF RevokeKey
    <3> QED  BY <3>1, <3>2
  <2>3. CASE ~InsertKey(r) /\ ~RevokeKey(r)
    BY <1>2, <2>3 DEF AccessStep, CheckHold, Verify, CountFailure, StartHold, ClearHold,
       OpenSession, CreateUser, OpenStarters, CountAccounts, InsertAccount, ReadSession, Act,
       EndSessions, WriteStatus, CommitStatus, CountKeys, ReadKey, CountUse, accessVars
  <2> QED  BY <2>1, <2>2, <2>3
<1> QED
  BY <1>1, <1>2, FamilySteps DEF accessVars, EnsureStarters, TimePasses, HoldsRunOut,
    MinutePasses

\* Nobody was locked before r who was not when r began.
LEMMA LocksBefore ==
  ASSUME OnceInv, [Next]_vars, NEW r \in Request, pc[r] # "idle", NEW u
  PROVE  LockedBefore(u, r)' => LockedBefore(u, r)
<1> SUFFICES ASSUME LockedBefore(u, r)'  PROVE LockedBefore(u, r)
  OBVIOUS
<1>0. DeskTypeOK /\ InOrder  BY DEF OnceInv, TypeOK
<1>1. call' = call /\ before'[r] = before[r]
      /\ \A s \in Request : Kind(s)' = Kind(s) /\ UserOf(s)' = UserOf(s)
  BY Past DEF Kind, UserOf
<1>2. PICK s \in before'[r] \cap Done({"setStatus"})' :
        /\ UserOf(s)' = u /\ call'[s].to = "locked"
        /\ \A t \in Request :
             Kind(t)' = "setStatus" /\ UserOf(t)' = u /\ call'[t].to = "active" =>
               t \in before'[s] \/ r \in before'[t] \/ pc'[t] = "idle"
  BY DEF LockedBefore
<1>3. s \in Request /\ s \in before[r] /\ pc[s] = "over"
  BY <1>0, <1>1, <1>2 DEF InOrder, DeskTypeOK
<1>4. s \in Done({"setStatus"})  BY <1>1, <1>2, <1>3, Past DEF Done
<1>5. ASSUME NEW t \in Request, Kind(t) = "setStatus", UserOf(t) = u, call[t].to = "active"
      PROVE  t \in before[s] \/ r \in before[t] \/ pc[t] = "idle"
  <2>1. t \in before'[s] \/ r \in before'[t] \/ pc'[t] = "idle"  BY <1>1, <1>2, <1>5
  <2> QED  BY <1>3, <2>1, Past
<1> QED  BY <1>1, <1>2, <1>3, <1>4, <1>5 DEF LockedBefore

EndedBefore(r) == \E s \in before[r] \cap Done({"logout"}) : call[s].by = call[r].by
RevokedBefore(r) == \E s \in before[r] \cap Done({"revoke"}) : call[s].key = call[r].key

\* A session ended, or a key revoked, before a request began was so then.
LEMMA EndsBefore ==
  ASSUME OnceInv, [Next]_vars, NEW r \in Request, pc[r] # "idle"
  PROVE  /\ EndedBefore(r)' => EndedBefore(r)
         /\ RevokedBefore(r)' => RevokedBefore(r)
<1>0. DeskTypeOK /\ InOrder  BY DEF OnceInv, TypeOK
<1>1. call' = call /\ before'[r] = before[r] /\ \A s \in Request : Kind(s)' = Kind(s)
  BY Past DEF Kind
<1>2. ASSUME NEW kinds, NEW s \in before'[r], s \in Done(kinds)'
      PROVE  s \in before[r] \cap Done(kinds)
  BY <1>0, <1>1, <1>2, Past DEF InOrder, DeskTypeOK, Done
<1> QED  BY <1>1, <1>2 DEF EndedBefore, RevokedBefore

\* A key that was made belongs to nobody new.
LEMMA KeysOwned ==
  ASSUME OnceInv, KeysMade, [Next]_vars, NEW u, NEW k \in Key, keyOf[k] # "none",
         k \in KeysOf(u)'
  PROVE  k \in KeysOf(u)
<1>0. DeskTypeOK  BY DEF OnceInv, TypeOK
<1>1. call' = call /\ \A s \in Request : Kind(s)' = Kind(s) /\ UserOf(s)' = UserOf(s)
  BY Past DEF Kind, UserOf
<1>2. PICK r \in Request : Kind(r) = "newKey" /\ UserOf(r) = u /\ call[r].key = k
  BY <1>1 DEF KeysOf
<1>3. PICK s \in Done({"newKey"}) : call[s].key = k  BY DEF KeysMade
<1>4. s = r  BY <1>0, <1>2, <1>3, PlanAssumption DEF Done, Kind, DeskTypeOK
<1> QED  BY <1>2, <1>3, <1>4 DEF Done, KeysOf

\* What lets a request act: nobody stopped it before it began.
VisitClear(r) == ~LockedBefore(UserOf(call[r].by), r) /\ ~EndedBefore(r)
KeyClear(r) ==
  /\ \A u \in User : call[r].key \in KeysOf(u) => ~LockedBefore(u, r)
  /\ ~RevokedBefore(r)

\* A visit or a key that may be let in stays so.
LEMMA ClearStays ==
  ASSUME OnceInv, KeysMade, [Next]_vars, NEW r \in Request, pc[r] # "idle"
  PROVE  /\ VisitClear(r) => VisitClear(r)'
         /\ call[r].key \in Key /\ keyOf[call[r].key] # "none" /\ KeyClear(r) => KeyClear(r)'
<1>1. call' = call  BY Past
<1>2. ASSUME VisitClear(r)  PROVE VisitClear(r)'
  <2>1. PICK u : u = UserOf(call[r].by)  OBVIOUS
  <2>2. UserOf(call[r].by)' = u  BY <1>1, <2>1 DEF UserOf
  <2>3. ~LockedBefore(u, r)'  BY <1>2, <2>1, LocksBefore DEF VisitClear
  <2>4. ~LockedBefore(UserOf(call[r].by), r)'  BY <2>2, <2>3 DEF LockedBefore
  <2> QED  BY <1>2, <2>4, EndsBefore DEF VisitClear
<1>3. ASSUME call[r].key \in Key, keyOf[call[r].key] # "none", KeyClear(r)  PROVE KeyClear(r)'
  <2>1. ASSUME NEW u \in User, call'[r].key \in KeysOf(u)'  PROVE ~LockedBefore(u, r)'
    <3>1. PICK k \in Key : k = call[r].key  BY <1>3
    <3>2. k \in KeysOf(u)  BY <1>1, <1>3, <2>1, <3>1, KeysOwned
    <3> QED  BY <1>3, <3>1, <3>2, LocksBefore DEF KeyClear
  <2> QED  BY <1>3, <2>1, EndsBefore DEF KeyClear
<1> QED  BY <1>2, <1>3

-----------------------------------------------------------------------------
LocksStand ==
  \A s \in Done({"setStatus"}) :
    call[s].to = "locked" =>
      \/ member[UserOf(s)] = "locked"
      \/ \E t \in Done({"setStatus"}) :
           UserOf(t) = UserOf(s) /\ call[t].to = "active" /\ t \notin before[s]
TokenOK(r) ==
  /\ Kind(r) \in {"visit", "logout", "endOthers"} /\ pc[r] # "idle" =>
       outcome[call[r].by] = "done"
  /\ Kind(r) \in {"useKey", "revoke"} /\ pc[r] # "idle" => keyOf[call[r].key] # "none"
LetIn(r) ==
  /\ At(r, {"visit"}, "act") \/ r \in Done({"visit"}) => VisitClear(r)
  /\ \/ Kind(r) = "useKey" /\ pc[r] \in {"rate", "act"}
     \/ r \in Done({"useKey"})
     => KeyClear(r)
EndsStand == \A s \in Done({"logout"}) : call[s].by \notin sessions
RevokesStand == \A s \in Done({"revoke"}) : keyOf[call[s].key] = "revoked"

\* StopInv, request by request.
LEMMA StopParts ==
  /\ StopInv <=> /\ LocksStand /\ KeysMade /\ EndsStand /\ RevokesStand
                 /\ \A r \in Request : TokenOK(r) /\ LetIn(r)
  /\ StopInv' <=> /\ LocksStand' /\ KeysMade' /\ EndsStand' /\ RevokesStand'
                  /\ \A r \in Request : TokenOK(r)' /\ LetIn(r)'
<1> USE DEF LocksStand, KeysMade, EndsStand, RevokesStand, TokenOK, LetIn, VisitClear, KeyClear,
            EndedBefore, RevokedBefore
<1>1. StopInv => /\ LocksStand /\ KeysMade /\ EndsStand /\ RevokesStand
                 /\ \A r \in Request : TokenOK(r) /\ LetIn(r)
  BY DEF StopInv, StoppedMeansStopped
<1>2. /\ LocksStand /\ KeysMade /\ EndsStand /\ RevokesStand
      /\ \A r \in Request : TokenOK(r) /\ LetIn(r)
      => StopInv
  BY DEF StopInv, StoppedMeansStopped, Done
<1>3. StopInv' => /\ LocksStand' /\ KeysMade' /\ EndsStand' /\ RevokesStand'
                  /\ \A r \in Request : TokenOK(r)' /\ LetIn(r)'
  BY DEF StopInv, StoppedMeansStopped
<1>4. /\ LocksStand' /\ KeysMade' /\ EndsStand' /\ RevokesStand'
      /\ \A r \in Request : TokenOK(r)' /\ LetIn(r)'
      => StopInv'
  BY DEF StopInv, StoppedMeansStopped, Done
<1> QED  BY <1>1, <1>2, <1>3, <1>4

\* A customer locked and never unlocked is locked.
LEMMA LocksStandKept ==
  ASSUME OnceInv, LocksStand, [Next]_vars
  PROVE  LocksStand'
<1>0. DeskTypeOK /\ TypeOK /\ SidesOK /\ InOrder /\ AccessTypeOK  BY DEF OnceInv, TypeOK
<1> USE <1>0
<1>1. call' = call /\ \A r \in Request : Kind(r)' = Kind(r) /\ UserOf(r)' = UserOf(r)
  BY Past DEF Kind, UserOf
<1> SUFFICES ASSUME NEW s \in Request, Kind(s) = "setStatus", outcome'[s] = "done",
                    call[s].to = "locked"
             PROVE  \/ member'[UserOf(s)] = "locked"
                    \/ \E t \in Request :
                         /\ Kind(t) = "setStatus" /\ outcome'[t] = "done"
                         /\ UserOf(t) = UserOf(s) /\ call[t].to = "active" /\ t \notin before'[s]
  BY <1>1 DEF LocksStand, Done
<1>2. UserOf(s) \in User  BY CallForms DEF AccessCall, UserOf, Kind
<1>3. CASE outcome[s] # "done"
  <2>1. AccessStep(s)  BY <1>3, OwnStep DEF AccessKinds
  <2>2. CommitStatus(s)
    <3>1. ~WriteStatus(s)  BY <1>3 DEF WriteStatus, Unchanged
    <3> QED
      BY <2>1, <3>1 DEF AccessStep, At, CheckHold, Verify, CountFailure, StartHold, ClearHold,
         OpenSession, CreateUser, OpenStarters, CountAccounts, InsertAccount, ReadSession, Act,
         EndSessions, CountKeys, InsertKey, RevokeKey, ReadKey, CountUse
  <2> QED  BY <1>2, <2>2 DEF CommitStatus, AccessTypeOK
<1>4. CASE outcome[s] = "done"
  <2>1. pc[s] = "over" /\ before'[s] = before[s]  BY <1>4, Past DEF InOrder, At
  <2>2. CASE member[UserOf(s)] # "locked"
    <3>1. PICK t \in Done({"setStatus"}) :
            UserOf(t) = UserOf(s) /\ call[t].to = "active" /\ t \notin before[s]
      BY <1>4, <2>2 DEF LocksStand, Done
    <3> QED  BY <2>1, <3>1, Past DEF Done
  <2>3. CASE member[UserOf(s)] = "locked" /\ member'[UserOf(s)] # "locked"
    <3>1. PICK t \in Request : /\ Frame(t) /\ UserOf(t) = UserOf(s)
                               /\ CreateUser(t) \/ CommitStatus(t)
      BY <1>2, <2>3, MembersStay
    <3>2. CommitStatus(t)  BY <2>3, <3>1 DEF CreateUser
    <3>3. /\ At(t, {"setStatus"}, "commit") /\ outcome'[t] = "done"
          /\ member' = [member EXCEPT ![UserOf(t)] = call[t].to]
      BY <3>2 DEF CommitStatus, Commit, DeskTypeOK
    <3>4. call[t].to = "active"
      BY <1>2, <2>3, <3>1, <3>3, CallForms DEF AccessCall, AccessTypeOK, At, Kind
    <3>5. t \notin before[s]  BY <3>3 DEF InOrder, At
    <3> QED  BY <2>1, <3>1, <3>3, <3>4, <3>5 DEF At
  <2> QED  BY <2>2, <2>3
<1> QED  BY <1>3, <1>4

\* Keys are made by the requests that did so.
LEMMA KeysMadeKept ==
  ASSUME OnceInv, KeysMade, [Next]_vars
  PROVE  KeysMade'
<1>0. DeskTypeOK  BY DEF OnceInv, TypeOK
<1>1. call' = call /\ \A r \in Request : Kind(r)' = Kind(r)  BY Past DEF Kind
<1> SUFFICES ASSUME NEW k \in Key, keyOf'[k] # "none"
             PROVE  \E s \in Request : Kind(s) = "newKey" /\ outcome'[s] = "done" /\ call[s].key = k
  BY <1>1 DEF KeysMade, Done
<1>2. CASE keyOf[k] # "none"  BY <1>2, Past DEF KeysMade, Done
<1>3. CASE keyOf[k] = "none"
  <2>1. PICK r \in Request : InsertKey(r) /\ call[r].key = k  BY <1>3, KeyOnce
  <2> QED  BY <1>0, <2>1 DEF InsertKey, At, Commit, DeskTypeOK
<1> QED  BY <1>2, <1>3

\* What a visit, a log-out or the use of a key does when it is done.
LEMMA DoneSteps ==
  ASSUME OnceInv, [Next]_vars, NEW r \in Request, outcome[r] # "done", outcome'[r] = "done"
  PROVE  /\ Kind(r) \in {"visit", "useKey"} => Act(r)
         /\ Kind(r) = "logout" => EndSessions(r)
         /\ Kind(r) = "revoke" => RevokeKey(r) /\ keyOf[call[r].key] = "active"
<1>1. Kind(r) \in AccessKinds => AccessStep(r)  BY OwnStep
<1>2. CASE Kind(r) \in {"visit", "useKey"}
  <2>1. AccessStep(r)  BY <1>1, <1>2 DEF AccessKinds
  <2>2. ~ReadSession(r) /\ ~ReadKey(r) /\ ~CountUse(r)
    BY DEF ReadSession, ReadKey, CountUse, Read, Refuse, Unchanged
  <2> QED
    BY <1>2, <2>1, <2>2 DEF AccessStep, At, CheckHold, Verify, CountFailure, StartHold,
      ClearHold,
       OpenSession, CreateUser, OpenStarters, CountAccounts, InsertAccount, EndSessions,
       WriteStatus, CommitStatus, CountKeys, InsertKey, RevokeKey
<1>3. CASE Kind(r) \in {"logout", "revoke"}
  <2>1. AccessStep(r)  BY <1>1, <1>3 DEF AccessKinds
  <2>2. EndSessions(r) \/ RevokeKey(r)
    BY <1>3, <2>1 DEF AccessStep, At, CheckHold, Verify, CountFailure, StartHold, ClearHold,
       OpenSession, CreateUser, OpenStarters, CountAccounts, InsertAccount, ReadSession, Act,
       WriteStatus, CommitStatus, CountKeys, InsertKey, ReadKey, CountUse
  <2>3. RevokeKey(r) => keyOf[call[r].key] = "active"
    BY DEF RevokeKey, Refuse, Unchanged
  <2> QED  BY <1>3, <2>2, <2>3 DEF EndSessions, RevokeKey, At
<1> QED  BY <1>2, <1>3

\* A token belongs to the request that opened its session.
LEMMA TokensKept ==
  ASSUME OnceInv, KeysMade, \A r \in Request : TokenOK(r), [Next]_vars, NEW r \in Request
  PROVE  TokenOK(r)'
<1>0. DeskTypeOK /\ TypeOK /\ SidesOK /\ InOrder  BY DEF OnceInv, TypeOK
<1> USE <1>0
<1>1. call' = call /\ Kind(r)' = Kind(r)  BY Past DEF Kind
<1>2. Kind(r) \in {"visit", "logout", "endOthers"} => call[r].by \in Request
  BY CallForms DEF AccessCall, Kind
<1>3. Kind(r) \in {"useKey", "revoke"} => call[r].key \in Key
  BY CallForms DEF AccessCall, Kind
<1>4. CASE pc[r] # "idle"
  BY <1>1, <1>2, <1>3, <1>4, Past, KeyOnce DEF TokenOK
<1>5. CASE pc[r] = "idle" /\ pc'[r] # "idle" /\ Kind(r) \in AccessKinds
  <2>1. Arrives(r)
    <3>1. CASE Quiet(AccessKinds)  BY <1>5, <3>1 DEF Quiet
    <3>2. ASSUME NEW s \in Request, AccessStep(s), Frame(s)  PROVE FALSE
      BY <1>5, <3>2 DEF Frame, InFlight
    <3> QED  BY <3>1, <3>2, FamilySteps
  <2>2. UNCHANGED <<keyOf, outcome>>  BY <2>1 DEF Arrives, Begin, Tables, accessVars
  <2> QED  BY <1>1, <2>1, <2>2 DEF Arrives, HasToken, TokenOK
<1> QED  BY <1>1, <1>4, <1>5 DEF TokenOK, AccessKinds

\* A session that was ended is over.
LEMMA EndsKept ==
  ASSUME OnceInv, EndsStand, \A r \in Request : TokenOK(r), [Next]_vars
  PROVE  EndsStand'
<1>0. DeskTypeOK /\ TypeOK /\ SidesOK /\ InOrder  BY DEF OnceInv, TypeOK
<1> USE <1>0
<1>1. call' = call /\ \A r \in Request : Kind(r)' = Kind(r)  BY Past DEF Kind
<1> SUFFICES ASSUME NEW s \in Request, Kind(s) = "logout", outcome'[s] = "done"
             PROVE  call[s].by \notin sessions'
  BY <1>1 DEF EndsStand, Done
<1>2. CASE outcome[s] # "done"
  <2>1. EndSessions(s)  BY <1>2, DoneSteps
  <2> QED  BY <2>1 DEF EndSessions
<1>3. CASE outcome[s] = "done"
  <2>1. call[s].by \notin sessions  BY <1>3 DEF EndsStand, Done
  <2>2. call[s].by \in Request /\ outcome[call[s].by] = "done"
    <3>1. pc[s] # "idle"  BY <1>3 DEF InOrder
    <3> QED  BY <3>1, CallForms DEF TokenOK, AccessCall, Kind
  <2>3. Kind(call[s].by) \in {"login", "register"}
    BY PlanAssumption DEF DeskTypeOK, Kind
  <2>4. ~OpenSession(call[s].by)
    BY <2>2, <2>3 DEF OpenSession, At, InOrder
  <2>5. ASSUME NEW t, t = call[s].by  PROVE t \notin sessions'
    BY <2>1, <2>4, <2>5, SessionsStep
  <2> QED  BY <2>5
<1> QED  BY <1>2, <1>3

\* A key that was revoked is revoked.
LEMMA RevokesKept ==
  ASSUME OnceInv, KeysMade, RevokesStand, [Next]_vars
  PROVE  RevokesStand'
<1>0. DeskTypeOK /\ AccessTypeOK  BY DEF OnceInv, TypeOK
<1>1. call' = call /\ \A r \in Request : Kind(r)' = Kind(r)  BY Past DEF Kind
<1> SUFFICES ASSUME NEW s \in Request, Kind(s) = "revoke", outcome'[s] = "done"
             PROVE  keyOf'[call[s].key] = "revoked"
  BY <1>1 DEF RevokesStand, Done
<1>2. call[s].key \in Key  BY <1>0, CallForms DEF AccessCall, Kind
<1>3. CASE outcome[s] # "done"
  <2>1. RevokeKey(s) /\ keyOf[call[s].key] = "active"  BY <1>3, DoneSteps
  <2> QED  BY <1>0, <1>2, <2>1 DEF RevokeKey, AccessTypeOK
<1>4. CASE outcome[s] = "done"
  <2>1. keyOf[call[s].key] = "revoked"  BY <1>4 DEF RevokesStand, Done
  <2> QED  BY <1>2, <2>1, KeyOnce
<1> QED  BY <1>3, <1>4

-----------------------------------------------------------------------------
\* A customer who is not locked now was not locked for good before r began.
LEMMA NotLocked ==
  ASSUME OnceInv, LocksStand, NEW r \in Request, InFlight(r), NEW u,
         member[u] # "locked"
  PROVE  ~LockedBefore(u, r)
<1>0. DeskTypeOK /\ InOrder  BY DEF OnceInv, TypeOK
<1> SUFFICES ASSUME LockedBefore(u, r)  PROVE FALSE
  OBVIOUS
<1>1. PICK s \in before[r] \cap Done({"setStatus"}) :
        /\ UserOf(s) = u /\ call[s].to = "locked"
        /\ \A t \in Request : Kind(t) = "setStatus" /\ UserOf(t) = u /\ call[t].to = "active"
                                => t \in before[s] \/ r \in before[t] \/ pc[t] = "idle"
  BY DEF LockedBefore
<1>2. PICK t \in Done({"setStatus"}) :
        UserOf(t) = UserOf(s) /\ call[t].to = "active" /\ t \notin before[s]
  BY <1>1 DEF LocksStand
<1>3. t \in Request /\ Kind(t) = "setStatus" /\ pc[t] # "idle"  BY <1>0, <1>2 DEF Done, InOrder
<1>4. r \in before[t]  BY <1>1, <1>2, <1>3
<1> QED  BY <1>0, <1>3, <1>4 DEF InOrder, InFlight

\* Whoever is let in was not stopped before.
LEMMA LetInKept ==
  ASSUME OnceInv, StopInv, [Next]_vars, NEW r \in Request
  PROVE  LetIn(r)'
<1>0. DeskTypeOK /\ TypeOK /\ SidesOK /\ InOrder /\ AccessTypeOK  BY DEF OnceInv, TypeOK
<1> USE <1>0
<1>1. call' = call /\ Kind(r)' = Kind(r)  BY Past DEF Kind
<1>2. LocksStand /\ KeysMade /\ EndsStand /\ RevokesStand /\ TokenOK(r) /\ LetIn(r)
  BY StopParts
<1>3. \A s \in before[r] : s \in Request  BY DEF DeskTypeOK
<1>4. ASSUME Kind(r) = "visit", pc'[r] = "act" \/ outcome'[r] = "done"
      PROVE  pc[r] # "idle" /\ VisitClear(r)
  <2>1. CASE pc[r] = "act" \/ outcome[r] = "done"
    BY <1>2, <1>4, <2>1 DEF LetIn, At, Done, InOrder
  <2>2. CASE pc[r] # "act" /\ outcome[r] # "done"
    <3>1. outcome'[r] # "done"  BY <1>4, <2>2, DoneSteps DEF Act, At
    <3>2. AccessStep(r)  BY <1>4, <2>2, <3>1, OwnStep DEF AccessKinds
    <3>3. ReadSession(r)
      BY <1>4, <2>2, <3>2 DEF AccessStep, At, CheckHold, Verify, CountFailure, StartHold,
         ClearHold, OpenSession, CreateUser, OpenStarters, CountAccounts, InsertAccount, Act,
         EndSessions, WriteStatus, CommitStatus, CountKeys, InsertKey, RevokeKey, ReadKey,
         CountUse
    <3>4. call[r].by \in sessions /\ member[UserOf(call[r].by)] = "active"
      <4>1. ~Refuse(r, "signed out")
        BY <1>4, <3>1 DEF Refuse, Finish, DeskTypeOK
      <4> QED  BY <3>3, <4>1 DEF ReadSession
    <3>5. InFlight(r)  BY <3>3 DEF ReadSession, At, InFlight
    <3>6. ~LockedBefore(UserOf(call[r].by), r)
      <4>1. PICK u : u = UserOf(call[r].by)  OBVIOUS
      <4> QED  BY <1>2, <3>4, <3>5, <4>1, NotLocked
    <3>7. ~EndedBefore(r)  BY <1>2, <1>3, <3>4 DEF EndedBefore, EndsStand
    <3> QED  BY <3>5, <3>6, <3>7 DEF VisitClear, InFlight
  <2> QED  BY <2>1, <2>2
<1>5. ASSUME Kind(r) = "useKey", pc'[r] \in {"rate", "act"} \/ outcome'[r] = "done"
      PROVE  pc[r] # "idle" /\ KeyClear(r)
  <2>1. CASE pc[r] \in {"rate", "act"} \/ outcome[r] = "done"
    BY <1>2, <1>5, <2>1 DEF LetIn, Done, InOrder
  <2>2. CASE pc[r] \notin {"rate", "act"} /\ outcome[r] # "done"
    <3>1. outcome'[r] # "done"  BY <1>5, <2>2, DoneSteps DEF Act, At
    <3>2. AccessStep(r)  BY <1>5, <2>2, <3>1, OwnStep DEF AccessKinds
    <3>3. ReadKey(r)
      BY <1>5, <2>2, <3>2 DEF AccessStep, At, CheckHold, Verify, CountFailure, StartHold,
         ClearHold, OpenSession, CreateUser, OpenStarters, CountAccounts, InsertAccount,
         ReadSession, Act, EndSessions, WriteStatus, CommitStatus, CountKeys, InsertKey,
         RevokeKey, CountUse
    <3>4. /\ keyOf[call[r].key] = "active"
          /\ \A u \in User : call[r].key \in KeysOf(u) => member[u] = "active"
      <4>1. ~Refuse(r, "invalid")
        BY <1>5, <3>1 DEF Refuse, Finish, DeskTypeOK
      <4> QED  BY <3>3, <4>1 DEF ReadKey
    <3>5. InFlight(r)  BY <3>3 DEF ReadKey, At, InFlight
    <3>6. \A u \in User : call[r].key \in KeysOf(u) => ~LockedBefore(u, r)
      <4>1. ASSUME NEW u \in User, call[r].key \in KeysOf(u)  PROVE member[u] # "locked"
        BY <3>4, <4>1
      <4> QED  BY <1>2, <3>5, <4>1, NotLocked
    <3>7. ~RevokedBefore(r)  BY <1>2, <1>3, <3>4 DEF RevokedBefore, RevokesStand
    <3> QED  BY <3>5, <3>6, <3>7 DEF KeyClear, InFlight
  <2> QED  BY <2>1, <2>2
<1>6. Kind(r) = "useKey" /\ pc[r] # "idle" => call[r].key \in Key /\ keyOf[call[r].key] # "none"
  BY <1>2, CallForms DEF TokenOK, AccessCall, Kind
<1>7. At(r, {"visit"}, "act")' \/ r \in Done({"visit"})' => VisitClear(r)'
  BY <1>1, <1>2, <1>4, ClearStays DEF At, Done
<1>8. (Kind(r)' = "useKey" /\ pc'[r] \in {"rate", "act"}) \/ r \in Done({"useKey"})' => KeyClear(r)'
  BY <1>1, <1>2, <1>5, <1>6, ClearStays DEF Done
<1> QED  BY <1>7, <1>8 DEF LetIn

\* Every step keeps StopInv.
LEMMA StopKept ==
  ASSUME OnceInv, StopInv, [Next]_vars
  PROVE  StopInv'
<1>1. /\ LocksStand /\ KeysMade /\ EndsStand /\ RevokesStand
      /\ \A r \in Request : TokenOK(r) /\ LetIn(r)
  BY StopParts
<1>2. LocksStand' /\ KeysMade' /\ EndsStand' /\ RevokesStand'
  BY <1>1, LocksStandKept, KeysMadeKept, EndsKept, RevokesKept
<1>3. \A r \in Request : TokenOK(r)' /\ LetIn(r)'  BY <1>1, TokensKept, LetInKept
<1> QED  BY <1>2, <1>3, StopParts

-----------------------------------------------------------------------------
(* The first scene.                                                        *)

\* CardInv holds in the first scenes.
LEMMA CardsStart == Init => CardInv
<1> SUFFICES ASSUME Init  PROVE CardInv
  OBVIOUS
<1>1. card = [k \in Card |-> IF k \in Issued THEN NewCard ELSE NoCard]
  BY DEF Init, CardInit
<1>2. StartLimit \in Nat  BY CardAssumption
<1>3. ASSUME NEW k \in Card
      PROVE  Approved(k) = {} /\ StartLimit \in Limits(k) /\ card[k].limit <= StartLimit
             /\ \A s \in Request : ~Froze(s, k)
  BY <1>1, <1>2, NobodyYet DEF Approved, Limits, Froze, NewCard, NoCard
<1>4. FrozenBuysNothing  BY <1>3 DEF FrozenBuysNothing
<1>5. LimitHoldsInTurn
  <2>1. ASSUME NEW k \in Card  PROVE Spent(k) <= StartLimit
    <3>1. Approved(k) = {}  BY <1>3
    <3>2. Spent(k) = 0  BY <3>1, SumOfNone DEF Spent
    <3> QED  BY <1>2, <3>2
  <2> QED  BY <1>3, <2>1 DEF LimitHoldsInTurn
<1>6. \A r \in Request : pc[r] = "idle"  BY NobodyYet
<1>7. \A k \in Card : /\ \A s \in Request : ~Froze(s, k)
                      /\ \E n \in Limits(k) : card[k].limit <= n
  BY <1>3
<1>8. \A r \in Request : At(r, {"adminCard"}, "tell") => outcome[r] = "done"
  BY <1>6 DEF At
<1> QED  BY <1>4, <1>5, <1>6, <1>7, <1>8 DEF CardInv

\* The caps hold in the first scenes.
LEMMA CapsStart == Init => AskCapInv /\ LoanCapInv /\ CapInv
<1> SUFFICES ASSUME Init  PROVE AskCapInv /\ LoanCapInv /\ CapInv
  OBVIOUS
<1>0. \A r \in Request : pc[r] = "idle" /\ outcome[r] = "none"  BY NobodyYet
<1>1. AskCapInv
  <2>1. ask = [q \in Ask |-> IF q \in Asked THEN "pending" ELSE "none"]
    BY DEF Init, AskInit
  <2>2. ASSUME NEW q \in Ask  PROVE Cardinality(PendingOf(AskBy[q])) <= MaxPending
    <3>1. PendingOf(AskBy[q]) = {p \in Asked : AskBy[p] = AskBy[q]}
      BY <2>1, AskAssumption DEF PendingOf
    <3> QED  BY <3>1, AskAssumption
  <2> QED  BY <1>0, <2>2 DEF AskCapInv, AskCapHoldsInTurn, At
<1>2. LoanCapInv
  <2>1. loan = [l \in Loan |-> IF l \in Applied THEN "pending" ELSE "none"]
    BY DEF Init, LoanInit
  <2>2. ASSUME NEW l \in Loan  PROVE Cardinality(WaitingLoans(LoanOf[l])) <= MaxLoans
    <3>1. WaitingLoans(LoanOf[l]) = {m \in Applied : LoanOf[m] = LoanOf[l]}
      BY <2>1, LoanAssumption DEF WaitingLoans
    <3> QED  BY <3>1, LoanAssumption
  <2> QED  BY <1>0, <2>2 DEF LoanCapInv, LoanCapHoldsInTurn, At
<1>3. CapInv
  <2>1. ASSUME NEW u \in User
        PROVE  opened[u] <= MaxAccounts /\ Cardinality(ActiveKeys(u)) <= MaxKeys
    <3>1. ActiveKeys(u) = {}  BY <1>0 DEF ActiveKeys, KeysOf
    <3>2. Cardinality(ActiveKeys(u)) = 0 /\ MaxKeys \in Nat
      BY <3>1, FS_EmptySet, AccessAssumption
    <3>3. opened[u] \in {0, Starter}  BY DEF Init, AccessInit
    <3> QED  BY <3>2, <3>3, AccessAssumption
  <2> QED  BY <1>0, <2>1 DEF CapInv, CapsHoldInTurn, At
<1> QED  BY <1>1, <1>2, <1>3

\* The stops hold in the first scenes.
LEMMA StopsStart == Init => HoldInv /\ RateInv /\ StopInv /\ SessionInv
<1> SUFFICES ASSUME Init  PROVE HoldInv /\ RateInv /\ StopInv /\ SessionInv
  OBVIOUS
<1>0. \A r \in Request : pc[r] = "idle" /\ outcome[r] = "none"  BY NobodyYet
<1>1. /\ sessions = {} /\ announced = {} /\ \A k \in Key : keyOf[k] = "none"
      /\ usage = [k \in Key |-> 0] /\ passed = [k \in Key |-> 0]
  BY DEF Init, AccessInit
<1>2. HoldInv /\ RateInv
  BY <1>1, AccessAssumption DEF HoldInv, HoldStandsInTurn, RateInv, RateHolds
<1>3. SessionInv  BY <1>0, <1>1 DEF SessionInv, Entering
<1>4. /\ LocksStand /\ KeysMade /\ EndsStand /\ RevokesStand
      /\ \A r \in Request : TokenOK(r) /\ LetIn(r)
  BY <1>0, <1>1 DEF LocksStand, KeysMade, EndsStand, RevokesStand, TokenOK, LetIn, Done, At
<1> QED  BY <1>2, <1>3, <1>4, StopParts

-----------------------------------------------------------------------------
\* RuleInv is inductive with OnceInv: the rules of cards, caps, rates, holds,
\* sessions and stops.
THEOREM RulesInductive == Spec => []RuleInv
<1>1. Init => RuleInv  BY CardsStart, CapsStart, StopsStart DEF RuleInv
<1>2. OnceInv /\ RuleInv /\ [Next]_vars => RuleInv'
  BY CardHolds, AskCapHolds, LoanCapHolds, CapHolds, HoldKept, RateKept, StopKept, SessionKept
     DEF RuleInv
<1>3. Spec => []OnceInv  BY OnceInductive
<1> QED  BY <1>1, <1>2, <1>3, PTL DEF Spec

\* A card that was frozen before a purchase began buys nothing unless somebody may
\* have unfrozen it since; a visit or a key goes through only if nobody locked the
\* customer, ended the session or revoked the key before it began; a lock ends the
\* sessions there are; a hold that was told stands while log-ins come in turn.
THEOREM Stopped == Spec => []StopsStand
<1>1. RuleInv => StopsStand
  BY DEF RuleInv, CardInv, StopInv, SessionInv, HoldInv, StopsStand,
    LockEndsSessions, Done
<1> QED  BY <1>1, RulesInductive, PTL

\* Where the code counts first and writes later, requests that come in turn keep to
\* a card's limit and to the caps on open money requests, pending loans, accounts
\* and active keys; the rate of a key holds whatever requests come at once.
THEOREM Capped == Spec => []CapsHold
<1>1. RuleInv => CapsHold
  BY DEF RuleInv, CardInv, AskCapInv, LoanCapInv, CapInv, RateInv, CapsHold
<1> QED  BY <1>1, RulesInductive, PTL

-----------------------------------------------------------------------------
(* Money.                                                                  *)

PayKinds == {"charge", "pay", "transfer", "decide", "trade"}

\* What a request has added to an account is a whole amount, and nothing if it
\* does not pay or is not done.
LEMMA EffectType ==
  ASSUME TypeOK, call' = call, NEW r \in Request, NEW a \in Account
  PROVE  /\ Effect(r, a) \in Int /\ Effect(r, a)' \in Int
         /\ Kind(r) \notin PayKinds \/ outcome[r] # "done" => Effect(r, a) = 0
         /\ Kind(r) \notin PayKinds \/ outcome'[r] # "done" => Effect(r, a)' = 0
<1>0. /\ CardCall(call[r]) /\ AskCall(call[r]) /\ LoanCall(call[r]) /\ TradeCall(call[r])
  BY CallForms DEF TypeOK
<1>1. CASE Kind(r) \notin PayKinds
  BY <1>1 DEF Effect, PayKinds, Kind
<1>2. CASE Kind(r) = "charge"
  BY <1>0, <1>2 DEF Effect, CardCall, Kind, PayKinds
<1>3. CASE Kind(r) \in {"pay", "transfer"}
  <2>1. Moved(r)[a] \in Int  BY <1>0, <1>3, MovedType
  <2>2. Moved(r)' = Moved(r)  BY DEF Moved, Kind, Into, From, Amount
  <2> QED  BY <1>3, <2>1, <2>2 DEF Effect, PayKinds, Kind
<1>4. CASE Kind(r) = "decide"
  <2>1. LoanAmt[call[r].loan] \in Int
    BY <1>0, <1>4, LoanAssumption DEF LoanCall, Kind
  <2> QED  BY <1>4, <2>1 DEF Effect, PayKinds, Kind
<1>5. CASE Kind(r) = "trade"
  <2>1. Net(r) \in Int /\ Net(r)' = Net(r) /\ Buys(r)' = Buys(r)
    BY <1>0, <1>5, QuoteType DEF Net, Buys, Kind
  <2> QED  BY <1>5, <2>1 DEF Effect, PayKinds, Kind
<1> QED  BY <1>1, <1>2, <1>3, <1>4, <1>5 DEF PayKinds

Pays(r) ==
  \/ CommitCharge(r) \/ CommitTransfer(r) \/ CommitPay(r)
  \/ CommitDecision(r) \/ CommitTrade(r)

Abides(r) ==
  /\ \A a \in Account : bal'[a] = bal[a]
  /\ Kind(r) \in PayKinds => outcome'[r] # "done"

\* A request that commits without money, or does not commit, moves none.
LEMMA AbidesBy ==
  ASSUME TypeOK, InOrder, NEW r \in Request, InFlight(r)
  PROVE  /\ \A told : Commit(r, NoMoney, told) /\ Kind(r) \notin PayKinds => Abides(r)
         /\ \A a : Refuse(r, a) => Abides(r)
         /\ \A a : Decline(r, a) => Abides(r)
         /\ \A step : Read(r, step) => Abides(r)
         /\ \A step : Goto(r, step) /\ Unchanged(r) => Abides(r)
<1>0. DeskTypeOK  BY DEF TypeOK
<1>1. Kind(r) \in PayKinds => outcome[r] = "none"
  BY <1>0 DEF InOrder, InFlight, PayKinds, At, DeskTypeOK
<1>2. \A told : Commit(r, NoMoney, told) /\ Kind(r) \notin PayKinds => Abides(r)
  BY <1>0 DEF Commit, NoMoney, Abides, DeskTypeOK
<1>3. Unchanged(r) => Abides(r)  BY <1>0, <1>1 DEF Unchanged, Abides, DeskTypeOK
<1>4. \A a : Decline(r, a) => Abides(r)  BY <1>0 DEF Decline, Abides, DeskTypeOK
<1> QED  BY <1>2, <1>3, <1>4 DEF Refuse, Read

\* Only five commits move money.
LEMMA MoneySteps ==
  ASSUME TypeOK, SidesOK, InOrder, NEW r \in Request, Serve(r)
  PROVE  Pays(r) \/ Abides(r)
<1> SUFFICES ASSUME ~Pays(r)  PROVE Abides(r)
  OBVIOUS
<1>0. InFlight(r)  BY ServeShapes
<1> DEFINE
      NoMore == \A told : Commit(r, NoMoney, told) /\ Kind(r) \notin PayKinds => Abides(r)
      Stays == /\ \A a : Refuse(r, a) => Abides(r)
               /\ \A a : Decline(r, a) => Abides(r)
               /\ \A step : Read(r, step) => Abides(r)
               /\ \A step : Goto(r, step) /\ Unchanged(r) => Abides(r)
<1>1. NoMore /\ Stays  BY <1>0, AbidesBy
<1> USE <1>1 DEF PayKinds, At, Pays
<1>2. CASE CardStep(r)
  <2>1. CASE UpdateCard(r) /\ Kind(r) = "adminCard"
    BY <2>1 DEF UpdateCard, Abides, TypeOK, DeskTypeOK
  <2> QED
    BY <1>2, <2>1 DEF CardStep, CreateCard, ReadCard, UpdateCard, TellCard, ReadStatus, SumSpent,
                      DebitCard, Debit
<1>3. CASE AskStep(r)
  BY <1>3 DEF AskStep, CountPending, InsertAsk, Claim, LookUpKey, DebitPayer, Debit,
              CreditPayee, Credit, RecordTransfer, DeclineAsk, CancelAsk
<1>4. CASE LoanStep(r)
  BY <1>4 DEF LoanStep, CountLoans, InsertLoan, LockLoan, Fund, Credit
<1>5. CASE TicketStep(r)
  BY <1>5 DEF TicketStep, OpenTicket, InsertMessage, SetStatus, CheckSolved, Solve
<1>6. CASE TradeStep(r)
  BY <1>6 DEF TradeStep, ClaimQuote, ReadHolding, Reads, PayForCoin, Debit, PayOut, Credit,
              ReadSource, TakeCoin, ReadTarget, GiveCoin, CommitMove
<1>7. CASE AccessStep(r)
  BY <1>7 DEF AccessStep, CheckHold, Verify, CountFailure, StartHold, ClearHold, OpenSession,
              CreateUser, OpenStarters, CountAccounts, InsertAccount, ReadSession, Act,
              EndSessions, WriteStatus, CommitStatus, CountKeys, InsertKey, RevokeKey,
              ReadKey, CountUse
<1> QED  BY <1>2, <1>3, <1>4, <1>5, <1>6, <1>7 DEF Serve

\* A payment moves what its effect says, from the one account that it has debited.
LEMMA PaysEffect ==
  ASSUME TypeOK, SidesOK, InOrder, NEW r \in Request, Pays(r)
  PROVE  \A a \in Account :
           /\ bal'[a] = bal[a] + Effect(r, a)'
           /\ bal'[a] >= bal[a] \/ (Debited(r) /\ a = Payer(r) /\ bal'[a] >= bal[a] - Price(r))
<1> SUFFICES ASSUME NEW a \in Account
             PROVE  /\ bal'[a] = bal[a] + Effect(r, a)'
                    /\ \/ bal'[a] >= bal[a]
                       \/ Debited(r) /\ a = Payer(r) /\ bal'[a] >= bal[a] - Price(r)
  OBVIOUS
<1>0. /\ DeskTypeOK /\ bal \in [Account -> Int]
      /\ CardCall(call[r]) /\ AskCall(call[r]) /\ LoanCall(call[r]) /\ TradeCall(call[r])
  BY CallForms DEF TypeOK, DeskTypeOK
<1>1. ASSUME NEW money \in [Account -> Int], NEW told, Commit(r, money, told)
      PROVE  /\ outcome'[r] = "done" /\ call' = call
             /\ bal'[a] = bal[a] + money[a] /\ bal[a] \in Int /\ money[a] \in Int
  BY <1>0, <1>1 DEF Commit, DeskTypeOK
<1>2. CASE CommitCharge(r)
  <2> DEFINE n == -call[r].amt
             money == [NoMoney EXCEPT ![CardOf[call[r].card]] = n]
  <2>1. Kind(r) = "charge" /\ pc[r] = "commit" /\ Commit(r, money, {})
    BY <1>2 DEF CommitCharge, At
  <2>2. call[r].amt \in Nat  BY <1>0, <2>1 DEF CardCall, Kind
  <2>3. money \in [Account -> Int]  BY <2>2, Moneys
  <2>4. money[a] = IF CardOf[call[r].card] = a THEN n ELSE 0  BY DEF NoMoney
  <2>5. /\ outcome'[r] = "done" /\ call' = call /\ bal'[a] = bal[a] + money[a] /\ bal[a] \in Int
    <3> HIDE DEF money
    <3> QED  BY <1>1, <2>1, <2>3
  <2>6. Effect(r, a)' = money[a]  BY <2>1, <2>4, <2>5 DEF Effect, Kind
  <2>7. Debited(r) /\ Payer(r) = CardOf[call[r].card] /\ Price(r) = call[r].amt
    BY <2>1 DEF Debited, Payer, Price
  <2> QED  BY <2>2, <2>4, <2>5, <2>6, <2>7
<1>3. CASE CommitTransfer(r) \/ CommitPay(r)
  <2>1. /\ Kind(r) \in {"pay", "transfer"} /\ pc[r] = "commit"
        /\ \E told : Commit(r, Moved(r), told)
    BY <1>3 DEF CommitTransfer, CommitPay, At
  <2>2. /\ From(r) \in Account /\ Into(r) \in Account /\ Amount(r) \in Nat
        /\ Moved(r) \in [Account -> Int]
    BY <1>0, <2>1, MovedType
  <2>3. /\ outcome'[r] = "done" /\ call' = call
        /\ bal'[a] = bal[a] + Moved(r)[a] /\ bal[a] \in Int
    BY <1>1, <2>1, <2>2
  <2>4. Effect(r, a)' = Moved(r)[a]
    BY <2>1, <2>3 DEF Effect, Kind, Moved, Into, From, Amount
  <2>5. Debited(r) /\ Payer(r) = From(r) /\ Price(r) = Amount(r)
    BY <2>1 DEF Debited, Payer, Price
  <2>6. Moved(r)[a] = (IF a = Into(r) THEN Amount(r) ELSE 0)
                      - (IF a = From(r) THEN Amount(r) ELSE 0)
    BY DEF Moved
  <2> QED  BY <2>2, <2>3, <2>4, <2>5, <2>6
<1>4. CASE CommitDecision(r)
  <2> DEFINE n == IF call[r].approve THEN LoanAmt[call[r].loan] ELSE 0
             money == [NoMoney EXCEPT ![LoanInto[call[r].loan]] = n]
  <2>1. Kind(r) = "decide" /\ \E told : Commit(r, money, told)
    BY <1>4 DEF CommitDecision, At
  <2>2. n \in Nat /\ LoanInto[call[r].loan] \in Account
    BY <1>0, <2>1, LoanAssumption DEF LoanCall, Kind
  <2>3. money \in [Account -> Int]  BY <2>2, Moneys
  <2>4. money[a] = IF LoanInto[call[r].loan] = a THEN n ELSE 0  BY DEF NoMoney
  <2>5. /\ outcome'[r] = "done" /\ call' = call /\ bal'[a] = bal[a] + money[a] /\ bal[a] \in Int
    <3> HIDE DEF money
    <3> QED  BY <1>1, <2>1, <2>3
  <2>6. Effect(r, a)' = money[a]  BY <2>1, <2>4, <2>5 DEF Effect, Kind
  <2> QED  BY <2>2, <2>4, <2>5, <2>6
<1>5. CASE CommitTrade(r)
  <2> DEFINE n == (IF Buys(r) THEN -1 ELSE 1) * Net(r)
             money == [NoMoney EXCEPT ![call[r].account] = n]
  <2>1. Kind(r) = "trade" /\ pc[r] = "commit" /\ \E told : Commit(r, money, told)
    BY <1>5 DEF CommitTrade, At
  <2>2. Net(r) \in Nat /\ call[r].account \in Account  BY <1>0, <2>1, QuoteType
  <2>3. n = IF Buys(r) THEN -Net(r) ELSE Net(r)  BY <2>2
  <2>4. money \in [Account -> Int]  BY <2>2, <2>3, Moneys
  <2>5. money[a] = IF call[r].account # a THEN 0 ELSE n  BY DEF NoMoney
  <2>6. /\ outcome'[r] = "done" /\ call' = call /\ bal'[a] = bal[a] + money[a] /\ bal[a] \in Int
    <3> HIDE DEF money
    <3> QED  BY <1>1, <2>1, <2>4
  <2> HIDE DEF n
  <2>7. Effect(r, a)' = money[a]
    BY <2>1, <2>3, <2>5, <2>6 DEF Effect, Kind, Buys, Net
  <2>8. Buys(r) => Debited(r) /\ Payer(r) = call[r].account /\ Price(r) = Net(r)
    BY <2>1 DEF Debited, Payer, Price
  <2> QED  BY <2>2, <2>3, <2>5, <2>6, <2>7, <2>8
<1> QED  BY <1>2, <1>3, <1>4, <1>5 DEF Pays

\* Who has taken money has taken some of an account.
LEMMA PayerType ==
  ASSUME TypeOK, NEW r \in Request, Debited(r)
  PROVE  Payer(r) \in Account /\ Price(r) \in Nat /\ InFlight(r)
<1>0. CardCall(call[r]) /\ AskCall(call[r]) /\ TradeCall(call[r])
  BY CallForms DEF TypeOK
<1>1. CASE Kind(r) = "charge"
  BY <1>0, <1>1, CardAssumption DEF Debited, Payer, Price, InFlight, CardCall, Kind, Buys
<1>2. CASE Kind(r) \in {"pay", "transfer"}
  BY <1>0, <1>2, MovedType DEF Debited, Payer, Price, InFlight, Buys
<1>3. CASE Kind(r) = "trade"
  BY <1>0, <1>3, QuoteType DEF Debited, Payer, Price, InFlight
<1> QED  BY <1>1, <1>2, <1>3 DEF Debited, Buys

\* The checked debit takes the account's row, and the account covers it.
LEMMA DebitedStep ==
  ASSUME TypeOK, SidesOK, NEW r \in Request, Serve(r), Frame(r), Debited(r)'
  PROVE  Debited(r) \/ (lock'[Payer(r)] = r /\ bal'[Payer(r)] >= Price(r))
<1> SUFFICES ASSUME ~Debited(r)  PROVE lock'[Payer(r)] = r /\ bal'[Payer(r)] >= Price(r)
  OBVIOUS
<1>0. DeskTypeOK /\ call' = call  BY DEF TypeOK, Frame
<1>1. /\ CardCall(call[r]) /\ AskCall(call[r]) /\ TradeCall(call[r])
  BY <1>0, CallForms
<1>2. /\ pc'[r] # pc[r] /\ pc'[r] \in {"credit", "record", "commit", "give"}
      /\ Kind(r) \in {"charge", "pay", "transfer", "trade"}
      /\ Kind(r) = "charge" => pc'[r] = "commit"
      /\ Kind(r) = "trade" => Buys(r) /\ pc'[r] \in {"give", "commit"} /\ pc[r] # "give"
      /\ Kind(r) \in {"pay", "transfer"} =>
           pc'[r] \in {"credit", "record", "commit"} /\ pc[r] \notin {"credit", "record"}
  BY <1>0 DEF Debited, Kind, Buys
<1>3. CASE Kind(r) = "charge"
  <2>1. CardStep(r)
    BY <1>3, AskShapes, LoanShapes, TicketShapes, TradeShapes, AccessShapes
       DEF Serve, AskKinds, LoanKinds, TicketKinds, TradeKinds, AccessKinds
  <2>2. DebitCard(r)
    BY <1>0, <1>2, <1>3, <2>1
       DEF CardStep, CreateCard, ReadCard, UpdateCard, TellCard, ReadStatus, SumSpent,
           CommitCharge, At, Refuse, Decline, Commit, Finish, Read, Goto, DeskTypeOK
  <2>3. Debit(r, CardOf[call[r].card], call[r].amt, "commit")
    BY <1>0, <1>2, <2>2 DEF DebitCard, Decline, Finish, DeskTypeOK
  <2>4. CardOf[call[r].card] \in Row
    BY <1>1, <1>3, CardAssumption, DeskAssumption DEF CardCall, Kind
  <2> QED
    BY <1>0, <1>3, <2>3, <2>4 DEF Debit, Take, Unchanged, Payer, Price, DeskTypeOK
<1>4. CASE Kind(r) \in {"pay", "transfer"}
  <2>1. AskStep(r)
    BY <1>4, CardShapes, LoanShapes, TicketShapes, TradeShapes, AccessShapes
       DEF Serve, CardKinds, LoanKinds, TicketKinds, TradeKinds, AccessKinds
  <2>2. DebitPayer(r)
    BY <1>0, <1>2, <1>4, <2>1
       DEF AskStep, CountPending, InsertAsk, Claim, LookUpKey, CreditPayee, RecordTransfer,
           CommitTransfer, CommitPay, DeclineAsk, CancelAsk, At, Refuse, Commit, Finish, Read,
           Goto, DeskTypeOK
  <2>3. Debit(r, From(r), Amount(r), "credit")
    BY <1>0, <1>2, <2>2 DEF DebitPayer, Refuse, Finish, DeskTypeOK
  <2>4. From(r) \in Row  BY <1>1, <1>4, MovedType, DeskAssumption
  <2> QED
    BY <1>0, <1>4, <2>3, <2>4 DEF Debit, Take, Unchanged, Payer, Price, DeskTypeOK
<1>5. CASE Kind(r) = "trade"
  <2>1. TradeStep(r)
    BY <1>5, CardShapes, LoanShapes, TicketShapes, AskShapes, AccessShapes
       DEF Serve, CardKinds, LoanKinds, TicketKinds, AskKinds, AccessKinds
  <2>2. PayForCoin(r)
    BY <1>0, <1>2, <1>5, <2>1
       DEF TradeStep, ClaimQuote, ReadHolding, Reads, PayOut, ReadSource, TakeCoin, ReadTarget,
           GiveCoin, CommitTrade, CommitMove, At, Refuse, Commit, Finish, Read, Goto, Credit,
           SidesOK, Buys, Sells, DeskTypeOK
  <2>3. Debit(r, call[r].account, Net(r), "give")
    BY <1>0, <1>2, <2>2 DEF PayForCoin, Refuse, Finish, DeskTypeOK
  <2>4. call[r].account \in Row  BY <1>1, <1>5, QuoteType, DeskAssumption
  <2> QED
    BY <1>0, <1>5, <2>3, <2>4 DEF Debit, Take, Unchanged, Payer, Price, DeskTypeOK
<1> QED  BY <1>2, <1>3, <1>4, <1>5

\* A step that serves nobody: what is done and what accounts hold stands, and
\* who goes on keeps their rows.
Rests ==
  /\ UNCHANGED <<bal, outcome, call>>
  /\ \A s \in Request : \/ pc'[s] \in {"idle", "start", "over"}
                        \/ pc'[s] = pc[s] /\ \A row \in Row : lock[row] = s => lock'[row] = s

\* Every step of the desk serves one request by its routes, or rests.
LEMMA ServesOrRests ==
  ASSUME TypeOK, SidesOK, [Next]_vars
  PROVE  (\E r \in Request : Serve(r) /\ Frame(r)) \/ Rests
<1>0. DeskTypeOK  BY DEF TypeOK
<1>1. ASSUME NEW r \in Request, Serve(r)  PROVE Frame(r)  BY <1>1, ServeFrame
<1>2. ASSUME NEW r \in Request, Begin(r)  PROVE Rests
  BY <1>0, <1>2 DEF Begin, Goto, Rests, DeskTypeOK
<1>3. ASSUME NEW r \in Request, Breaks(r)  PROVE Rests
  <2>1. Frame(r) /\ UNCHANGED outcome /\ pc'[r] = "over"  BY <1>3, BreaksFrame
  <2>2. UNCHANGED <<bal, call>>  BY <1>3 DEF Breaks, Refuse, Unchanged
  <2> QED  BY <2>1, <2>2 DEF Frame, Rests
<1>4. CASE Restart
  BY <1>0, <1>4 DEF Restart, ServerStops, Rests, InFlight, DeskTypeOK
<1>5. CASE UNCHANGED deskVars  BY <1>5 DEF deskVars, Rests
<1> QED  BY <1>1, <1>2, <1>3, <1>4, <1>5 DEF Next, vars

\* Money is explained, and who has taken some keeps the row that covers it.
LEMMA MoneyHolds == OnceInv /\ MoneyInv /\ [Next]_vars => MoneyInv'
<1> SUFFICES ASSUME OnceInv, MoneyInv, [Next]_vars  PROVE MoneyInv'
  OBVIOUS
<1>0. TypeOK /\ DeskTypeOK /\ SidesOK /\ InOrder /\ TypeOK'
  BY TypesStep DEF OnceInv, TypeOK
<1> USE <1>0
<1> DEFINE Effects(a) == [r \in Request |-> Effect(r, a)]
<1>1. CASE Rests
  <2>1. \A r \in Request, a \in Account : Effect(r, a)' = Effect(r, a)
    BY <1>1 DEF Rests, Effect, Kind, Moved, Into, From, Amount, Buys, Net
  <2>2. ASSUME NEW a \in Account
        PROVE  bal'[a] = Opening[a] + SumFunction(Effects(a))' /\ bal'[a] >= 0
    <3>1. Effects(a)' = Effects(a)  BY <2>1
    <3>2. SumFunction(Effects(a))' = SumFunction(Effects(a))  BY <3>1
    <3>3. bal[a] = Opening[a] + SumFunction(Effects(a)) /\ bal[a] >= 0
      BY DEF MoneyInv, MoneyIsExplained
    <3> QED  BY <1>1, <3>2, <3>3 DEF Rests
  <2>3. ASSUME NEW s \in Request, Debited(s)'
        PROVE  lock'[Payer(s)'] = s /\ bal'[Payer(s)'] >= Price(s)'
    <3>1. Debited(s) /\ pc'[s] = pc[s] /\ Payer(s)' = Payer(s) /\ Price(s)' = Price(s)
      BY <1>1, <2>3 DEF Rests, Debited, Payer, Price, Kind, Buys, Net, From, Amount
    <3>2. Payer(s) \in Row  BY <3>1, PayerType, DeskAssumption
    <3>3. lock[Payer(s)] = s /\ bal[Payer(s)] >= Price(s)  BY <3>1 DEF MoneyInv
    <3>4. lock'[Payer(s)] = s
      BY <1>1, <2>3, <3>1, <3>2, <3>3 DEF Rests, Debited
    <3> QED  BY <1>1, <3>1, <3>3, <3>4 DEF Rests
  <2> QED  BY <2>2, <2>3 DEF MoneyInv, MoneyIsExplained
<1>2. ASSUME NEW r \in Request, Serve(r), Frame(r)  PROVE MoneyInv'
  <2>0. call' = call /\ bal' \in [Account -> Int] /\ InFlight(r)  BY <1>2 DEF Frame
  <2>1. ASSUME NEW a \in Account
        PROVE  /\ bal'[a] = bal[a] + (Effect(r, a)' - Effect(r, a))
               /\ \/ bal'[a] >= bal[a]
                  \/ Debited(r) /\ a = Payer(r) /\ bal'[a] >= bal[a] - Price(r)
    <3>0. bal[a] \in Int /\ Effect(r, a) \in Int /\ Effect(r, a)' \in Int
      BY <2>0, EffectType DEF DeskTypeOK
    <3>1. CASE Pays(r)
      <4>1. Kind(r) \in PayKinds
        BY <3>1 DEF Pays, CommitCharge, CommitTransfer, CommitPay, CommitDecision,
                    CommitTrade, At, PayKinds
      <4>2. outcome[r] = "none"
        BY <2>0, <4>1 DEF InOrder, InFlight, At, PayKinds
      <4>3. Effect(r, a) = 0  BY <2>0, <4>2, EffectType
      <4> QED  BY <3>0, <3>1, <4>3, PaysEffect
    <3>2. CASE Abides(r)
      <4>1. CASE Kind(r) \in PayKinds
        <5>1. outcome[r] = "none" /\ outcome'[r] # "done"
          BY <2>0, <3>2, <4>1 DEF InOrder, InFlight, At, PayKinds, Abides
        <5>2. Effect(r, a) = 0 /\ Effect(r, a)' = 0  BY <2>0, <5>1, EffectType
        <5> QED  BY <3>0, <3>2, <5>2 DEF Abides
      <4>2. CASE Kind(r) \notin PayKinds
        <5>1. Effect(r, a) = 0 /\ Effect(r, a)' = 0
          BY <2>0, <4>2 DEF Effect, Kind, PayKinds
        <5> QED  BY <3>0, <3>2, <5>1 DEF Abides
      <4> QED  BY <4>1, <4>2
    <3> QED  BY <1>2, <3>1, <3>2, MoneySteps
  <2>2. ASSUME NEW a \in Account
        PROVE  bal'[a] = Opening[a] + SumFunction(Effects(a))' /\ bal'[a] >= 0
    <3>0. bal[a] = Opening[a] + SumFunction(Effects(a)) /\ bal[a] >= 0
      BY DEF MoneyInv, MoneyIsExplained
    <3>1. \A s \in Request \ {r} : Effect(s, a)' = Effect(s, a)
      BY <1>2 DEF Frame, Effect, Kind, Moved, Into, From, Amount, Buys, Net
    <3>2. \A s \in Request : Effect(s, a) \in Int /\ Effect(s, a)' \in Int
      BY <2>0, EffectType
    <3> DEFINE F == Effects(a)
               G == [s \in Request |-> Effect(s, a)']
    <3>3. /\ SumFunctionOnSet(F, Request) \in Int
          /\ SumFunctionOnSet(G, Request) = SumFunctionOnSet(F, Request) + (G[r] - F[r])
      <4>1. /\ \A s \in Request : F[s] \in Int /\ G[s] \in Int
            /\ \A s \in Request \ {r} : F[s] = G[s]
            /\ IsFiniteSet(Request)
        BY <3>1, <3>2, DeskAssumption
      <4> HIDE DEF F, G
      <4> QED  BY <4>1, SumChange
    <3>4. G[r] = Effect(r, a)' /\ F[r] = Effect(r, a)  OBVIOUS
    <3>5. SumFunction(Effects(a)) = SumFunctionOnSet(F, Request)  BY DEF SumFunction
    <3>6. SumFunction(Effects(a))' = SumFunctionOnSet(G, Request)  BY DEF SumFunction
    <3>7. bal[a] \in Int /\ bal'[a] \in Int /\ Opening[a] \in Int
      BY <2>0, DeskAssumption DEF DeskTypeOK
    <3>8. bal'[a] = Opening[a] + SumFunction(Effects(a))'
      <4> HIDE DEF F, G, Effects
      <4> QED  BY <2>1, <3>0, <3>2, <3>3, <3>4, <3>5, <3>6, <3>7
    <3>9. bal'[a] >= 0
      <4>1. CASE Debited(r) /\ a = Payer(r) /\ bal'[a] >= bal[a] - Price(r)
        <5>1. bal[a] >= Price(r) /\ Price(r) \in Nat  BY <4>1, PayerType DEF MoneyInv
        <5> QED  BY <3>7, <4>1, <5>1
      <4> QED  BY <2>1, <3>0, <3>7, <4>1
    <3> QED  BY <3>8, <3>9
  <2>3. ASSUME NEW s \in Request, Debited(s)'
        PROVE  lock'[Payer(s)'] = s /\ bal'[Payer(s)'] >= Price(s)'
    <3>1. Payer(s)' = Payer(s) /\ Price(s)' = Price(s)
      BY <2>0 DEF Payer, Price, Kind, Net, From, Amount
    <3>2. CASE s = r
      <4>1. CASE Debited(r)
        <5>1. /\ Payer(r) \in Account /\ Payer(r) \in Row /\ Price(r) \in Nat
              /\ lock[Payer(r)] = r /\ bal[Payer(r)] >= Price(r)
          BY <4>1, PayerType, DeskAssumption DEF MoneyInv
        <5>2. pc'[r] # "over"  BY <2>3, <3>2 DEF Debited
        <5>3. lock'[Payer(r)] = r  BY <1>2, <5>1, <5>2 DEF Frame
        <5>4. bal'[Payer(r)] = bal[Payer(r)]
          <6>1. ~Pays(r)
            BY <5>2 DEF Pays, CommitCharge, CommitTransfer, CommitPay, CommitDecision,
                        CommitTrade, Commit, Finish, DeskTypeOK
          <6> QED  BY <1>2, <5>1, <6>1, MoneySteps DEF Abides
        <5> QED  BY <3>1, <3>2, <5>1, <5>3, <5>4
      <4>2. CASE ~Debited(r)
        BY <1>2, <2>3, <3>1, <3>2, <4>2, DebitedStep
      <4> QED  BY <4>1, <4>2
    <3>3. CASE s # r
      <4>1. Debited(s)
        BY <1>2, <2>3, <3>3 DEF Frame, Debited, Kind, Buys
      <4>2. /\ Payer(s) \in Account /\ Payer(s) \in Row /\ Price(s) \in Nat
            /\ lock[Payer(s)] = s /\ bal[Payer(s)] >= Price(s)
        BY <4>1, PayerType, DeskAssumption DEF MoneyInv
      <4>3. lock'[Payer(s)] = s  BY <1>2, <3>3, <4>2 DEF Frame
      <4>4. ~(Debited(r) /\ Payer(s) = Payer(r))  BY <3>3, <4>2 DEF MoneyInv
      <4>5. bal'[Payer(s)] >= bal[Payer(s)]  BY <2>1, <4>2, <4>4
      <4>6. bal'[Payer(s)] \in Int /\ bal[Payer(s)] \in Int  BY <2>0, <4>2 DEF DeskTypeOK
      <4> QED  BY <3>1, <4>2, <4>3, <4>5, <4>6
    <3> QED  BY <3>2, <3>3
  <2> QED  BY <2>2, <2>3 DEF MoneyInv, MoneyIsExplained
<1> QED  BY <1>1, <1>2, ServesOrRests

-----------------------------------------------------------------------------
(* Coins.                                                                  *)

\* The share of a cost that goes with some of a holding is not below zero.
LEMMA ShareOfSome ==
  ASSUME NEW cost \in Nat, NEW n \in Nat, NEW qty \in Nat \ {0}
  PROVE  Share(cost, n, qty) >= 0
<1>1. 2 * cost * n \in Nat
  <2>1. 2 * cost \in Nat  OBVIOUS
  <2> QED  BY <2>1
<1>2. \A x \in Nat, d \in Nat \ {0} : x \div d \in Nat  OBVIOUS
<1>3. 2 * cost * n + qty \in Nat /\ 2 * qty \in Nat \ {0}  BY <1>1
<1>4. Share(cost, n, qty) \in Nat  BY <1>2, <1>3 DEF Share
<1> QED  BY <1>4

\* All of the cost of a holding goes with all of it.
LEMMA ShareOfAll ==
  ASSUME NEW cost \in Int, NEW qty \in Nat \ {0}
  PROVE  Share(cost, qty, qty) = cost
<1>1. \A d \in Nat \ {0}, q, k \in Int : 0 <= k /\ k < d => (d * q + k) \div d = q
  OBVIOUS
<1>2. 2 * cost * qty = (2 * qty) * cost  OBVIOUS
<1>3. 2 * qty \in Nat \ {0} /\ qty \in Int /\ 0 <= qty /\ qty < 2 * qty  OBVIOUS
<1>4. ((2 * qty) * cost + qty) \div (2 * qty) = cost  BY <1>1, <1>3
<1> QED  BY <1>2, <1>4 DEF Share

\* What a request asks for does not change, nor what follows from that.
LEMMA CoinTerms ==
  ASSUME call' = call
  PROVE  /\ Trading' = Trading
         /\ \A r : /\ Kind(r)' = Kind(r) /\ Buys(r)' = Buys(r) /\ Sells(r)' = Sells(r)
                   /\ Source(r)' = Source(r) /\ Target(r)' = Target(r)
                   /\ AtomsOut(r)' = AtomsOut(r) /\ AtomsIn(r)' = AtomsIn(r)
                   /\ Net(r)' = Net(r)
         /\ \A r, h : CoinEffect(r, h)' = CoinEffect(r, h)
BY DEF Kind, Trading, Buys, Sells, Source, Target, AtomsOut, AtomsIn, Net, CoinEffect

\* Requests and holdings are what they were when call, hold and what is done stand.
LEMMA BooksStand ==
  ASSUME OnceInv, CoinInv, call' = call, hold' = hold, Traded' = Traded,
         \A s \in Traded : before'[s] = before[s] /\ leaves'[s] = leaves[s]
  PROVE  EmptyCostsNothing' /\ SwapsCostNothing' /\ CoinsAreExplained'
<1>1. EmptyCostsNothing'
  BY DEF CoinInv, EmptyCostsNothing, InTurn, Met
<1>2. SwapsCostNothing'
  <2>1. ASSUME NEW m  PROVE [s \in Traded |-> AddsCost(s, m)]' = [s \in Traded |-> AddsCost(s, m)]
    <3>1. \A s \in Traded : AddsCost(s, m)' = AddsCost(s, m)
      BY CoinTerms DEF AddsCost
    <3> QED  BY <3>1
  <2>2. ASSUME NEW m  PROVE CostsOf(hold, m)' = CostsOf(hold, m)
    BY DEF CostsOf
  <2>3. ASSUME NEW u \in {h.user : h \in Holding}
        PROVE  CostsOf(hold, Owned(u))' =
                 CostsOf(Held, Owned(u)) + SumFunction([r \in Traded |-> AddsCost(r, Owned(u))])'
    <3>1. CostsOf(hold, Owned(u)) =
            CostsOf(Held, Owned(u)) + SumFunction([r \in Traded |-> AddsCost(r, Owned(u))])
      BY DEF CoinInv, SwapsCostNothing
    <3>2. SumFunction([r \in Traded |-> AddsCost(r, Owned(u))])'
            = SumFunction([r \in Traded |-> AddsCost(r, Owned(u))])
      BY <2>1
    <3> QED  BY <2>2, <3>1, <3>2
  <2> QED  BY <2>3 DEF SwapsCostNothing
<1>3. CoinsAreExplained'
  <2>1. ASSUME NEW h \in Holding
        PROVE  /\ AtomsOf(hold[h])' =
                    AtomsOf(Held[h]) + SumFunction([r \in Traded |-> CoinEffect(r, h)])'
               /\ AtomsOf(hold[h])' >= 0 /\ CostOf(hold[h])' >= 0
    <3>1. /\ AtomsOf(hold[h]) =
                    AtomsOf(Held[h]) + SumFunction([r \in Traded |-> CoinEffect(r, h)])
          /\ AtomsOf(hold[h]) >= 0 /\ CostOf(hold[h]) >= 0
      BY DEF CoinInv, CoinsAreExplained
    <3>2. [r \in Traded |-> CoinEffect(r, h)]' = [r \in Traded |-> CoinEffect(r, h)]
      BY CoinTerms
    <3>3. SumFunction([r \in Traded |-> CoinEffect(r, h)])'
            = SumFunction([r \in Traded |-> CoinEffect(r, h)])
      BY <3>2
    <3>4. AtomsOf(hold[h])' = AtomsOf(hold[h]) /\ CostOf(hold[h])' = CostOf(hold[h])
      BY DEF AtomsOf, CostOf
    <3> QED  BY <3>1, <3>3, <3>4
  <2>2. ASSUME NEW r \in Traded', NEW s \in Traded',
               r # s, Kind(r)' = "trade", Kind(s)' = "trade"
        PROVE  call'[r].quote # call'[s].quote
    BY <2>2, CoinTerms DEF CoinInv, CoinsAreExplained
  <2> QED  BY <2>1, <2>2 DEF CoinsAreExplained
<1> QED  BY <1>1, <1>2, <1>3

\* A request that is done stays as it was.
LEMMA TradedOver ==
  ASSUME OnceInv, NEW r \in Traded
  PROVE  r \in Request /\ r \in Trading /\ pc[r] = "over" /\ outcome[r] = "done"
BY DEF OnceInv, InOrder, Traded, Trading, At

\* Steps of others than traders keep CoinInv.
LEMMA CoinsQuiet ==
  ASSUME OnceInv, CoinInv, Quiet(TradeKinds), UNCHANGED tradeVars
  PROVE  CoinInv'
<1>0. DeskTypeOK /\ TypeOK /\ TradeTypeOK /\ InOrder  BY DEF OnceInv, TypeOK
<1>1. call' = call /\ hold' = hold /\ used' = used /\ saw' = saw /\ leaves' = leaves
  BY DEF Quiet, tradeVars
<1>2. Trading' = Trading /\ Trading = {r \in Request : Kind(r) \in TradeKinds}
  BY <1>1, CoinTerms DEF Trading, TradeKinds
<1>3. Traded' = Traded  BY <1>2 DEF Traded, Quiet
<1>4. \A s \in Traded : before'[s] = before[s]
  BY <1>2, TradedOver DEF Quiet
<1>5. EmptyCostsNothing' /\ SwapsCostNothing' /\ CoinsAreExplained'
  BY <1>1, <1>3, <1>4, BooksStand
<1>6. ASSUME NEW s \in Trading, pc'[s] \notin {"idle", "start", "over"}
      PROVE  /\ pc'[s] = pc[s]
             /\ \A row \in Row : lock[row] = s => lock'[row] = s
             /\ InTurn(Traded \cup {s})' => InTurn(Traded \cup {s})
  <2>1. pc'[s] = pc[s] /\ before'[s] = before[s] /\ \A row \in Row : lock[row] = s => lock'[row] = s
    BY <1>2, <1>6 DEF Quiet
  <2> QED  BY <1>3, <1>4, <2>1 DEF InTurn, Met
<1>7. ASSUME NEW s \in Request  PROVE QuoteHeld(s)'
  <2> SUFFICES ASSUME Kind(s) = "trade"  PROVE QuoteHeld(s)'
    BY <1>1, CoinTerms DEF QuoteHeld
  <2>1. s \in Trading /\ call[s].quote \in Row
    BY <1>0, CallForms, QuoteType, TradeAssumption DEF Trading
  <2>2. outcome'[s] = outcome[s]  BY <1>2, <2>1 DEF Quiet
  <2> QED  BY <1>1, <1>6, <2>1, <2>2 DEF CoinInv, QuoteHeld
<1>8. ASSUME NEW s \in Request  PROVE ReadingOK(s)'
  <2>1. AtomsOf(saw[s])' >= 0 /\ CostOf(saw[s])' >= 0
    BY <1>1 DEF CoinInv, ReadingOK, AtomsOf, CostOf
  <2>2. ASSUME s \in Trading, pc'[s] = "take", saw'[s] # Nothing
        PROVE  /\ hold'[Source(s)] # Nothing
               /\ InTurn(Traded \cup {s})' => saw'[s] = hold'[Source(s)]
    <3>1. pc[s] = "take" /\ (InTurn(Traded \cup {s})' => InTurn(Traded \cup {s}))
      BY <1>6, <2>2
    <3>2. ReadingOK(s)  BY DEF CoinInv
    <3> QED  BY <1>1, <2>2, <3>1, <3>2 DEF ReadingOK
  <2>3. s \in Trading' <=> s \in Trading  BY <1>2
  <2>4. Source(s)' = Source(s)  BY <1>1, CoinTerms
  <2> QED  BY <2>1, <2>2, <2>3, <2>4 DEF ReadingOK
<1>9. ASSUME NEW s \in Request  PROVE Covered(s)'
  <2> SUFFICES ASSUME Gives(s)'  PROVE Covered(s)'
    BY DEF Covered
  <2>1. Gives(s) /\ s \in Trading  BY <1>1, <1>2, <1>6, CoinTerms DEF Gives
  <2>2. Source(s) \in Row
    BY <1>0, <2>1, CallForms, HoldingType, TradeAssumption DEF Gives, Trading, TradeKinds
  <2>3. lock'[Source(s)] = s  BY <1>6, <2>1, <2>2 DEF CoinInv, Covered, Gives
  <2> QED  BY ZenonT(60), <1>1, <1>6, <2>1, <2>3, CoinTerms DEF CoinInv, Covered, Gives
<1> QED  BY <1>5, <1>7, <1>8, <1>9 DEF CoinInv

\* What a step of a trade, send or swap does before its commit.
LEMMA TradeMoves ==
  ASSUME TypeOK, SidesOK, NEW r \in Request, TradeStep(r), Frame(r),
         ~CommitTrade(r), ~CommitMove(r)
  PROVE  /\ hold' = hold /\ used' = used /\ outcome' = outcome
         /\ \A s \in Request \ {r} : saw'[s] = saw[s] /\ leaves'[s] = leaves[s]
         /\ saw'[r] = saw[r] \/ \E h \in Holding : saw'[r] = hold[h]
         /\ pc'[r] = "take" => saw'[r] = hold[Source(r)]
         /\ ~Buys(r) /\ pc'[r] \in {"payout", "look", "give", "commit"} =>
              \/ pc[r] \in {"payout", "look", "give", "commit"} /\ leaves'[r] = leaves[r]
              \/ TakeCoin(r)
         /\ Kind(r) = "trade" /\ pc[r] = "start" /\ pc'[r] # "over" =>
              Take(call[r].quote, r) /\ call[r].quote \notin used
<1>0. /\ DeskTypeOK /\ TradeTypeOK /\ TradeCall(call[r]) /\ Kind(r) \in TradeKinds
      /\ pc' \in [Request -> Statements]
  BY CallForms, TradeShapes DEF TypeOK, Frame
<1>1. /\ ~Buys(r) => Source(r) \in Holding
      /\ ~Sells(r) => Target(r) \in Holding
  BY <1>0, HoldingType
<1>2. ~(Buys(r) /\ Sells(r))  BY DEF Buys, Sells
<1> USE DEF At
<1>3. CASE ClaimQuote(r)
  BY <1>0, <1>3 DEF ClaimQuote, Refuse, Finish, Goto, Unchanged, tradeVars, DeskTypeOK
<1>4. CASE ReadHolding(r)
  BY <1>0, <1>1, <1>2, <1>4 DEF ReadHolding, Reads, Read, Goto, Unchanged, DeskTypeOK, TradeTypeOK
<1>5. CASE PayForCoin(r)
  BY <1>0, <1>5 DEF PayForCoin, Debit, Refuse, Finish, Goto, Unchanged, tradeVars,
                         DeskTypeOK, SidesOK
<1>6. CASE PayOut(r)
  BY <1>0, <1>6 DEF PayOut, Credit, Goto, Unchanged, tradeVars, DeskTypeOK
<1>7. CASE ReadSource(r)
  BY <1>0, <1>1, <1>7 DEF ReadSource, Reads, Read, Goto, Unchanged, DeskTypeOK, TradeTypeOK, Buys
<1>8. CASE TakeCoin(r)
  BY <1>0, <1>8 DEF TakeCoin, Refuse, Finish, Goto, Unchanged, DeskTypeOK, TradeTypeOK
<1>9. CASE ReadTarget(r)
  BY <1>0, <1>1, <1>9 DEF ReadTarget, Reads, Read, Goto, Unchanged, DeskTypeOK, TradeTypeOK, Sells
<1>10. CASE GiveCoin(r)
  BY <1>0, <1>10 DEF GiveCoin, Refuse, Finish, Goto, Unchanged, tradeVars, DeskTypeOK
<1> QED  BY <1>3, <1>4, <1>5, <1>6, <1>7, <1>8, <1>9, <1>10 DEF TradeStep

\* Coin that is taken is covered by its holding, and takes its share of the cost.
LEMMA TakingOK ==
  ASSUME OnceInv, CoinInv, NEW r \in Request, TakeCoin(r), pc'[r] # "over", call' = call,
         hold' = hold, Traded' = Traded, before' = before
  PROVE  Covered(r)'
<1>0. DeskTypeOK /\ TypeOK /\ TradeTypeOK /\ SidesOK /\ TradeCall(call[r])
  BY CallForms DEF OnceInv, TypeOK
<1> DEFINE h == Source(r)
           n == AtomsOut(r)
           out == Share(saw[r].cost, n, saw[r].atoms)
<1>1. /\ Kind(r) \in TradeKinds /\ pc[r] = "take" /\ ~Buys(r)
      /\ saw[r] # Nothing /\ saw[r].atoms >= n
      /\ hold[h].atoms >= n /\ hold[h].cost >= out
      /\ Take(h, r)
      /\ leaves' = [leaves EXCEPT ![r] = out]
  BY <1>0 DEF TakeCoin, At, TradeKinds, Refuse, Finish, SidesOK, DeskTypeOK
<1>2. h \in Holding /\ h \in Row /\ n \in Nat \ {0}
  BY <1>0, <1>1, HoldingType, TradeAssumption
<1>3. hold[h] # Nothing /\ (InTurn(Traded \cup {r}) => saw[r] = hold[h])
  BY <1>1 DEF CoinInv, ReadingOK, Trading, TradeKinds
<1>4. out >= 0
  <2>1. saw[r].atoms \in Nat \ {0} /\ saw[r].cost \in Nat
    <3>1. saw[r].atoms \in Int /\ saw[r].cost \in Int
      BY <1>0, <1>1 DEF TradeTypeOK, HeldType
    <3>2. saw[r].cost >= 0  BY <1>1 DEF CoinInv, ReadingOK, CostOf
    <3> QED  BY <1>1, <1>2, <3>1, <3>2
  <2> QED  BY <1>2, <2>1, ShareOfSome
<1>5. lock'[h] = r /\ leaves'[r] = out
  BY <1>0, <1>1, <1>2 DEF Take, DeskTypeOK, TradeTypeOK
<1>6. Source(r)' = h /\ AtomsOut(r)' = n /\ (InTurn(Traded \cup {r})' <=> InTurn(Traded \cup {r}))
  BY CoinTerms DEF InTurn, Met
<1> HIDE DEF h, n, out
<1>7. InTurn(Traded \cup {r}) => out = Share(hold[h].cost, n, hold[h].atoms)
  BY <1>3 DEF out
<1> QED  BY <1>1, <1>3, <1>4, <1>5, <1>6, <1>7 DEF Covered

\* Steps before the commit keep CoinInv.
LEMMA CoinsPrepare ==
  ASSUME OnceInv, CoinInv, NEW r \in Request, TradeStep(r), Frame(r),
         ~CommitTrade(r), ~CommitMove(r)
  PROVE  CoinInv'
<1>0. DeskTypeOK /\ TypeOK /\ TradeTypeOK /\ SidesOK /\ InOrder /\ TradeCall(call[r])
  BY CallForms DEF OnceInv, TypeOK
<1>1. /\ call' = call /\ before' = before /\ InFlight(r) /\ r \in Trading
      /\ \A s \in Request \ {r} : pc'[s] = pc[s]
      /\ \A row \in Row, s \in Request \ {r} : lock[row] = s => lock'[row] = s
      /\ pc'[r] # "over" => \A row \in Row : lock[row] = r => lock'[row] = r
  BY <1>0, TradeShapes DEF Frame, Trading, TradeKinds
<1>2. /\ hold' = hold /\ used' = used /\ outcome' = outcome
      /\ \A s \in Request \ {r} : saw'[s] = saw[s] /\ leaves'[s] = leaves[s]
  BY <1>0, TradeMoves
<1>3. Trading' = Trading /\ Traded' = Traded /\ r \notin Traded
  <2>1. Trading' = Trading  BY <1>1, CoinTerms
  <2>2. r \notin Traded  BY <1>1, TradedOver DEF InFlight
  <2> QED  BY <1>2, <2>1, <2>2 DEF Traded
<1>4. EmptyCostsNothing' /\ SwapsCostNothing' /\ CoinsAreExplained'
  <2>1. \A s \in Traded : before'[s] = before[s] /\ leaves'[s] = leaves[s]
    BY <1>1, <1>2, <1>3, TradedOver
  <2> QED  BY <1>1, <1>2, <1>3, <2>1, BooksStand
<1>5. ASSUME NEW s
      PROVE  InTurn(Traded \cup {s})' <=> InTurn(Traded \cup {s})
  BY <1>1, <1>3 DEF InTurn, Met
<1>6. ASSUME NEW s \in Request
      PROVE  /\ Kind(s)' = Kind(s) /\ Buys(s)' = Buys(s) /\ Source(s)' = Source(s)
             /\ AtomsOut(s)' = AtomsOut(s) /\ QuoteHeld(s) /\ ReadingOK(s) /\ Covered(s)
  BY <1>1, CoinTerms DEF CoinInv
<1>7. ASSUME NEW s \in Request  PROVE QuoteHeld(s)'
  <2> SUFFICES ASSUME Kind(s) = "trade"  PROVE QuoteHeld(s)'
    BY <1>6 DEF QuoteHeld
  <2>1. call[s].quote \in Row
    BY <1>0, CallForms, QuoteType, TradeAssumption
  <2>2. CASE s # r  BY <1>1, <1>2, <1>6, <2>1, <2>2 DEF QuoteHeld
  <2>3. CASE s = r /\ pc[r] # "start"
    <3>1. pc[r] \notin {"idle", "start", "over"}  BY <1>1, <2>3 DEF InFlight
    <3>2. lock[call[r].quote] = r /\ call[r].quote \notin used
      BY <1>6, <2>3, <3>1 DEF QuoteHeld
    <3>3. outcome[r] # "done"  BY <1>1, <1>3 DEF Traded
    <3> QED  BY <1>1, <1>2, <1>6, <2>1, <2>3, <3>2, <3>3 DEF QuoteHeld
  <2>4. CASE s = r /\ pc[r] = "start"
    <3>1. pc'[r] # "over" => Take(call[r].quote, r) /\ call[r].quote \notin used
      BY <1>0, <2>4, TradeMoves
    <3>2. pc'[r] # "over" => lock'[call[r].quote] = r
      BY <1>0, <2>1, <2>4, <3>1 DEF Take, DeskTypeOK
    <3>3. outcome[r] # "done"  BY <1>1, <1>3 DEF Traded
    <3> QED  BY <1>1, <1>2, <2>4, <3>1, <3>2, <3>3 DEF QuoteHeld
  <2> QED  BY <2>2, <2>3, <2>4
<1>8. ASSUME NEW s \in Request  PROVE ReadingOK(s)'
  <2>1. CASE s # r
    <3>1. saw'[s] = saw[s] /\ pc'[s] = pc[s]  BY <1>1, <1>2, <2>1
    <3>2. AtomsOf(saw[s])' >= 0 /\ CostOf(saw[s])' >= 0
      BY <1>6, <3>1 DEF ReadingOK, AtomsOf, CostOf
    <3> QED  BY <1>2, <1>3, <1>5, <1>6, <3>1, <3>2 DEF ReadingOK
  <2>2. CASE s = r
    <3>1. /\ saw'[r] = saw[r] \/ \E h \in Holding : saw'[r] = hold[h]
          /\ pc'[r] = "take" => saw'[r] = hold[Source(r)]
      BY <1>0, TradeMoves
    <3>2. AtomsOf(saw[r])' >= 0 /\ CostOf(saw[r])' >= 0
      BY <1>6, <3>1 DEF ReadingOK, AtomsOf, CostOf, CoinInv, CoinsAreExplained
    <3> QED  BY <1>2, <1>6, <2>2, <3>1, <3>2 DEF ReadingOK
  <2> QED  BY <2>1, <2>2
<1>9. ASSUME NEW s \in Request  PROVE Covered(s)'
  <2> SUFFICES ASSUME Gives(s)'  PROVE Covered(s)'
    BY DEF Covered
  <2>1. s \in Trading /\ ~Buys(s) /\ pc'[s] \in {"payout", "look", "give", "commit"}
    BY <1>3, <1>6 DEF Gives
  <2>2. Source(s) \in Row
    BY <1>0, <2>1, CallForms, HoldingType, TradeAssumption DEF Trading, TradeKinds
  <2>3. CASE s # r
    <3>1. Gives(s) /\ leaves'[s] = leaves[s]  BY <1>1, <1>2, <2>1, <2>3 DEF Gives
    <3>2. lock'[Source(s)] = s  BY ZenonT(60), <1>1, <1>6, <2>2, <2>3, <3>1 DEF Covered
    <3> QED  BY <1>2, <1>5, <1>6, <3>1, <3>2 DEF Covered
  <2>4. CASE s = r /\ pc[r] \in {"payout", "look", "give", "commit"} /\ leaves'[r] = leaves[r]
    <3>1. Gives(r)  BY <2>1, <2>4 DEF Gives
    <3>2. lock'[Source(r)] = r  BY <1>1, <1>6, <2>1, <2>2, <2>4, <3>1 DEF Covered
    <3> QED  BY <1>2, <1>5, <1>6, <2>4, <3>1, <3>2 DEF Covered
  <2>5. CASE s = r /\ TakeCoin(r)
    BY <1>1, <1>2, <1>3, <2>1, <2>5, TakingOK
  <2> QED  BY <1>0, <2>1, <2>3, <2>4, <2>5, TradeMoves
<1> QED  BY <1>4, <1>7, <1>8, <1>9 DEF CoinInv

-----------------------------------------------------------------------------
(* The commit of a trade, send or swap.                                    *)

\* G has the terms of F over S, and one for x more.
HasMore(F, G, S, x) ==
  /\ DOMAIN F = S /\ DOMAIN G = S \cup {x} /\ x \notin S
  /\ \A y \in S : F[y] = G[y]
  /\ \A y \in S \cup {x} : G[y] \in Int

\* A sum that has one term more.
LEMMA SumOneMore ==
  ASSUME NEW S, IsFiniteSet(S), NEW x, NEW F, NEW G, HasMore(F, G, S, x)
  PROVE  SumFunction(F) \in Int /\ SumFunction(G) = SumFunction(F) + G[x]
<1> USE DEF HasMore
<1>1. /\ SumFunctionOnSet(G, S) \in Int
      /\ SumFunctionOnSet(G, S \cup {x}) = G[x] + SumFunctionOnSet(G, S)
  BY SumAdd
<1>2. SumFunctionOnSet(F, S) = SumFunctionOnSet(G, S)  BY SumSame
<1> QED  BY <1>1, <1>2 DEF SumFunction

\* G has the terms of F over S, with n added to the one for y, if there is one.
HasAdded(F, G, S, y, n) ==
  /\ DOMAIN F = S /\ DOMAIN G = S /\ n \in Int
  /\ \A x \in S : F[x] \in Int /\ G[x] = F[x] + (IF x = y THEN n ELSE 0)

\* A sum with one term changed, if it has that term.
LEMMA SumOneChanged ==
  ASSUME NEW S, IsFiniteSet(S), NEW F, NEW G, NEW y, NEW n, HasAdded(F, G, S, y, n)
  PROVE  /\ SumFunction(F) \in Int
         /\ SumFunction(G) = SumFunction(F) + (IF y \in S THEN n ELSE 0)
<1> USE DEF HasAdded
<1>0. \A x \in S : G[x] \in Int  OBVIOUS
<1>1. SumFunctionOnSet(F, S) \in Int  BY SumInt
<1>2. CASE y \in S
  <2>1. \A x \in S \ {y} : F[x] = G[x]  OBVIOUS
  <2>2. SumFunctionOnSet(G, S) = SumFunctionOnSet(F, S) + (G[y] - F[y])
    BY <1>0, <1>2, <2>1, SumChange
  <2> QED  BY <1>0, <1>1, <1>2, <2>2 DEF SumFunction
<1>3. CASE y \notin S
  <2>1. SumFunctionOnSet(F, S) = SumFunctionOnSet(G, S)
    <3>1. \A x \in S : F[x] = G[x]  BY <1>3
    <3> QED  BY <3>1, SumSame
  <2> QED  BY <1>1, <1>3, <2>1 DEF SumFunction
<1> QED  BY <1>2, <1>3

Yields(r, h) == ~Buys(r) /\ Source(r) = h
Receives(r, h) == ~Sells(r) /\ Target(r) = h
CostOut(r) == IF Buys(r) THEN 0 ELSE -leaves[r]
CostGained(r) == IF Sells(r) THEN 0 ELSE CostIn(r)

\* What a request adds to the coins of a holding, and to what they have cost.
LEMMA CoinTypes ==
  ASSUME TypeOK, NEW r \in Trading
  PROVE  /\ \A h : CoinEffect(r, h) \in Int
         /\ \A m : AddsCost(r, m) \in Int
         /\ CostOut(r) \in Int
         /\ ~Sells(r) => Target(r) \in Holding /\ AtomsIn(r) \in Nat \ {0}
         /\ ~Buys(r) => Source(r) \in Holding /\ AtomsOut(r) \in Nat \ {0}
         /\ ~(Buys(r) /\ Sells(r))
         /\ \A h : ~(Yields(r, h) /\ Receives(r, h))
<1>0. r \in Request /\ Kind(r) \in TradeKinds /\ TradeCall(call[r]) /\ leaves[r] \in Int
  BY CallForms DEF TypeOK, TradeTypeOK, Trading, TradeKinds
<1>1. /\ ~Buys(r) => Source(r) \in Holding /\ AtomsOut(r) \in Nat \ {0}
      /\ ~Sells(r) => Target(r) \in Holding /\ AtomsIn(r) \in Nat \ {0}
  BY <1>0, HoldingType
<1>2. Buys(r) => Net(r) \in Nat  BY <1>0, QuoteType DEF Buys
<1>3. Kind(r) = "send" => call[r].value \in Nat  BY <1>0 DEF TradeCall, Kind
<1>4. ~(Buys(r) /\ Sells(r))  BY DEF Buys, Sells
<1>5. \A h : CoinEffect(r, h) \in Int  BY <1>1 DEF CoinEffect
<1>6. \A m : AddsCost(r, m) \in Int  BY <1>0, <1>2, <1>3 DEF AddsCost
<1>7. \A h : ~(Yields(r, h) /\ Receives(r, h))
  <2>1. CASE Kind(r) = "trade"
    <3>1. Buys(r) \/ Sells(r)  BY <1>0, <2>1, QuoteType
    <3> QED  BY <3>1 DEF Yields, Receives
  <2>2. CASE Kind(r) \in {"send", "swap"}
    <3>1. Source(r) = call[r].source /\ Target(r) = call[r].target
      BY <2>2 DEF Source, Target, Buys, Sells
    <3>2. call[r].source # call[r].target  BY <1>0, <2>2 DEF TradeCall, Kind
    <3> QED  BY <3>1, <3>2 DEF Yields, Receives
  <2> QED  BY <1>0, <2>1, <2>2 DEF TradeKinds
<1> QED  BY <1>0, <1>1, <1>4, <1>5, <1>6, <1>7 DEF CostOut

Commits(r) == CommitTrade(r) \/ CommitMove(r)

\* The commit of r, and what it leaves in the holdings.
LEMMA CommitBooks ==
  ASSUME OnceInv, CoinInv, NEW r \in Request, Commits(r), Frame(r)
  PROVE  /\ r \in Trading /\ r \notin Traded /\ InFlight(r) /\ pc[r] = "commit"
         /\ Traded' = Traded \cup {r} /\ call' = call /\ before' = before
         /\ pc'[r] = "over" /\ outcome'[r] = "done"
         /\ saw' = saw /\ leaves' = leaves
         /\ hold' = AfterIn(r, AfterOut(r))
         /\ used' = IF Kind(r) = "trade" THEN used \cup {call[r].quote} ELSE used
         /\ ~Buys(r) => Gives(r)
<1>0. DeskTypeOK /\ TypeOK /\ TradeTypeOK /\ SidesOK /\ InOrder
  BY DEF OnceInv, TypeOK
<1>1. /\ r \in Trading /\ pc[r] = "commit" /\ InFlight(r)
      /\ \E money, told : Commit(r, money, told)
      /\ saw' = saw /\ leaves' = leaves /\ hold' = AfterIn(r, AfterOut(r))
      /\ used' = IF Kind(r) = "trade" THEN used \cup {call[r].quote} ELSE used
  BY DEF Commits, CommitTrade, CommitMove, At, Trading, Frame
<1>2. /\ call' = call /\ before' = before
      /\ outcome' = [outcome EXCEPT ![r] = "done"] /\ pc'[r] = "over"
  BY <1>0, <1>1 DEF Commit, Finish, DeskTypeOK
<1>3. r \notin Traded  BY <1>1, TradedOver DEF InFlight
<1>4. Trading' = Trading  BY <1>2, CoinTerms
<1>5. outcome'[r] = "done" /\ \A s \in Request \ {r} : outcome'[s] = outcome[s]
  BY <1>0, <1>2 DEF DeskTypeOK
<1>6. Traded' = Traded \cup {r}
  BY <1>1, <1>4, <1>5 DEF Traded, Trading
<1> QED  BY <1>1, <1>2, <1>3, <1>5, <1>6 DEF Gives

\* What coin brings in has not cost less than nothing.
LEMMA CostInType ==
  ASSUME OnceInv, CoinInv, NEW r \in Trading, Gives(r) \/ Buys(r)
  PROVE  CostIn(r) \in Nat /\ CostGained(r) \in Nat
<1>0. /\ r \in Request /\ TradeTypeOK /\ TradeCall(call[r])
  BY CallForms DEF OnceInv, TypeOK, Trading
<1>1. Buys(r) => Net(r) \in Nat  BY <1>0, QuoteType DEF Buys
<1>2. Kind(r) = "send" => call[r].value \in Nat  BY <1>0 DEF TradeCall, Kind
<1>3. ~Buys(r) => leaves[r] \in Nat
  <2>1. leaves[r] \in Int /\ Covered(r)  BY <1>0 DEF CoinInv, TradeTypeOK
  <2> QED  BY <2>1 DEF Covered
<1> QED  BY <1>1, <1>2, <1>3 DEF CostIn, CostGained, Buys

\* The holdings after the commit: coins and cost that leave and arrive.
LEMMA CommitHoldings ==
  ASSUME OnceInv, CoinInv, NEW r \in Trading, NEW h \in Holding,
         hold' = AfterIn(r, AfterOut(r)), Gives(r) \/ Buys(r)
  PROVE  /\ AtomsOf(hold[h]) \in Nat /\ CostOf(hold[h]) \in Nat
         /\ AtomsOf(hold'[h]) = AtomsOf(hold[h]) + CoinEffect(r, h)
         /\ CostOf(hold'[h]) = CostOf(hold[h]) + (IF h = Target(r) THEN CostGained(r) ELSE 0)
                                               + (IF h = Source(r) THEN CostOut(r) ELSE 0)
         /\ AtomsOf(hold'[h]) >= 0 /\ CostOf(hold'[h]) >= 0
         /\ hold[h] # Nothing => hold'[h] # Nothing
         /\ ~Yields(r, h) /\ ~Receives(r, h) => hold'[h] = hold[h]
<1>0. /\ r \in Request /\ TradeTypeOK /\ TypeOK /\ hold \in [Holding -> HeldType]
  BY DEF OnceInv, TypeOK, Trading, TradeTypeOK
<1>1. /\ AtomsOf(hold[h]) \in Nat /\ CostOf(hold[h]) \in Nat
      /\ hold[h] # Nothing => hold[h].atoms \in Int /\ hold[h].cost \in Int
  <2>1. hold[h] \in HeldType  BY <1>0
  <2>2. AtomsOf(hold[h]) \in Int /\ CostOf(hold[h]) \in Int
    BY <2>1 DEF HeldType, AtomsOf, CostOf
  <2>3. AtomsOf(hold[h]) >= 0 /\ CostOf(hold[h]) >= 0  BY DEF CoinInv, CoinsAreExplained
  <2> QED  BY <2>1, <2>2, <2>3 DEF HeldType
<1>2. /\ ~Sells(r) => Target(r) \in Holding /\ AtomsIn(r) \in Nat \ {0}
      /\ ~Buys(r) => Source(r) \in Holding /\ AtomsOut(r) \in Nat \ {0}
      /\ ~(Buys(r) /\ Sells(r))
      /\ ~(Yields(r, h) /\ Receives(r, h))
  BY <1>0, CoinTypes
<1>3. CostIn(r) \in Nat  BY CostInType
<1>4. AfterOut(r) \in [Holding -> HeldType]
  BY <1>0, AfterType DEF Trading, TradeKinds
<1>5. CASE Yields(r, h)
  <2>1. /\ hold[h] # Nothing /\ hold[h].atoms >= AtomsOut(r)
        /\ 0 <= leaves[r] /\ leaves[r] <= hold[h].cost
        /\ leaves[r] \in Int
    BY <1>0, <1>5 DEF CoinInv, Covered, Yields, TradeTypeOK
  <2>2. AfterOut(r)[h] = [atoms |-> hold[h].atoms + (-AtomsOut(r)),
                          cost |-> hold[h].cost + (-leaves[r])]
    BY <1>0, <1>5, <2>1 DEF AfterOut, Plus, Yields
  <2>3. hold'[h] = AfterOut(r)[h]
    BY <1>2, <1>4, <1>5 DEF AfterIn, Receives
  <2>4. /\ hold'[h].atoms = hold[h].atoms - AtomsOut(r)
        /\ hold'[h].cost = hold[h].cost - leaves[r]
        /\ hold'[h] # Nothing
    <3>1. /\ hold[h].atoms + (-AtomsOut(r)) = hold[h].atoms - AtomsOut(r)
          /\ hold[h].cost + (-leaves[r]) = hold[h].cost - leaves[r]
          /\ hold[h].atoms - AtomsOut(r) \in Int /\ hold[h].cost - leaves[r] \in Int
      BY <1>1, <1>2, <1>5, <2>1 DEF Yields
    <3>2. hold'[h] \in [atoms : Int, cost : Int]  BY <2>2, <2>3, <3>1
    <3> QED  BY <2>2, <2>3, <3>1, <3>2, TradeAssumption
  <2>5. /\ CoinEffect(r, h) = -AtomsOut(r) /\ CostOut(r) = -leaves[r] /\ h = Source(r)
        /\ h = Target(r) => CostGained(r) = 0
    <3>1. AtomsOut(r) \in Nat  BY <1>2, <1>5 DEF Yields
    <3> QED  BY <1>2, <1>5, <3>1 DEF CoinEffect, CostOut, CostGained, Yields, Receives
  <2>6. /\ AtomsOf(hold[h]) = hold[h].atoms /\ CostOf(hold[h]) = hold[h].cost
        /\ AtomsOf(hold'[h]) = hold'[h].atoms /\ CostOf(hold'[h]) = hold'[h].cost
    BY <2>1, <2>4 DEF AtomsOf, CostOf
  <2>7. AtomsOut(r) \in Nat  BY <1>2, <1>5 DEF Yields
  <2> QED  BY <1>1, <1>5, <2>1, <2>4, <2>5, <2>6, <2>7
<1>6. CASE Receives(r, h)
  <2>1. AfterOut(r)[h] = hold[h]
    BY <1>0, <1>2, <1>6 DEF AfterOut, Yields
  <2>2. hold'[h] = Plus(hold[h], AtomsIn(r), CostIn(r))
    BY <1>4, <1>6, <2>1 DEF AfterIn, Receives
  <2>3. AtomsIn(r) \in Nat  BY <1>2, <1>6 DEF Receives
  <2>4. hold'[h] # Nothing
    <3>1. hold'[h] \in [atoms : Int, cost : Int]
      BY <1>0, <1>3, <2>2, <2>3, PlusType
    <3> QED  BY <3>1, TradeAssumption
  <2>5. /\ AtomsOf(hold'[h]) = AtomsOf(hold[h]) + AtomsIn(r)
        /\ CostOf(hold'[h]) = CostOf(hold[h]) + CostIn(r)
    BY <1>3, <2>2, <2>3, <2>4 DEF AtomsOf, CostOf, Plus
  <2>6. /\ CoinEffect(r, h) = AtomsIn(r) /\ CostGained(r) = CostIn(r) /\ h = Target(r)
        /\ h = Source(r) => CostOut(r) = 0
    BY <1>2, <1>6, <2>3 DEF CoinEffect, CostOut, CostGained, Yields, Receives
  <2> QED  BY <1>1, <1>3, <1>6, <2>3, <2>4, <2>5, <2>6
<1>7. CASE ~Yields(r, h) /\ ~Receives(r, h)
  <2>1. AfterOut(r)[h] = hold[h]  BY <1>0, <1>7 DEF AfterOut, Yields
  <2>2. hold'[h] = hold[h]  BY <1>4, <1>7, <2>1 DEF AfterIn, Receives
  <2>3. /\ CoinEffect(r, h) = 0
        /\ h = Target(r) => CostGained(r) = 0
        /\ h = Source(r) => CostOut(r) = 0
    BY <1>7 DEF CoinEffect, CostOut, CostGained, Yields, Receives
  <2> QED  BY <1>1, <1>7, <2>2, <2>3
<1> QED  BY <1>5, <1>6, <1>7

\* A commit changes what a customer's coins have cost by what it adds of it.
LEMMA CommitCosts ==
  ASSUME OnceInv, CoinInv, NEW r \in Trading, NEW u,
         hold' = AfterIn(r, AfterOut(r)), Gives(r) \/ Buys(r)
  PROVE  CostsOf(hold, Owned(u))' = CostsOf(hold, Owned(u)) + AddsCost(r, Owned(u))
<1> DEFINE mine == Owned(u)
           F == [h \in mine |-> CostOf(hold[h])]
           M == [h \in mine |-> CostOf(hold[h]) + (IF h = Target(r) THEN CostGained(r) ELSE 0)]
           G == [h \in mine |-> CostOf(hold'[h])]
<1>0. /\ IsFiniteSet(mine) /\ mine \subseteq Holding
      /\ r \in Request /\ TypeOK /\ TradeCall(call[r])
      /\ CostGained(r) \in Int /\ CostOut(r) \in Int
  BY TradeAssumption, FS_Subset, CostInType, CoinTypes, CallForms
     DEF Owned, OnceInv, TypeOK, Trading
<1>1. ASSUME NEW h \in mine
      PROVE  /\ F[h] \in Int /\ M[h] \in Int
             /\ M[h] = F[h] + (IF h = Target(r) THEN CostGained(r) ELSE 0)
             /\ G[h] = M[h] + (IF h = Source(r) THEN CostOut(r) ELSE 0)
  BY <1>0, CommitHoldings
<1>2. CostsOf(hold, mine) = SumFunction(F)  BY DEF CostsOf
<1>3. CostsOf(hold, mine)' = SumFunction(G)  BY DEF CostsOf, CostOf, Owned
<1>4. DOMAIN F = mine /\ DOMAIN M = mine /\ DOMAIN G = mine  OBVIOUS
<1>5. /\ SumFunction(F) \in Int /\ SumFunction(M) \in Int
      /\ SumFunction(M) = SumFunction(F) + (IF Target(r) \in mine THEN CostGained(r) ELSE 0)
      /\ SumFunction(G) = SumFunction(M) + (IF Source(r) \in mine THEN CostOut(r) ELSE 0)
  <2> HIDE DEF mine, F, M, G
  <2>1. /\ SumFunction(F) \in Int
        /\ SumFunction(M) = SumFunction(F) + (IF Target(r) \in mine THEN CostGained(r) ELSE 0)
    <3>1. HasAdded(F, M, mine, Target(r), CostGained(r))  BY <1>0, <1>1, <1>4 DEF HasAdded
    <3> QED  BY <1>0, <3>1, SumOneChanged
  <2>2. /\ SumFunction(M) \in Int
        /\ SumFunction(G) = SumFunction(M) + (IF Source(r) \in mine THEN CostOut(r) ELSE 0)
    <3>1. HasAdded(M, G, mine, Source(r), CostOut(r))  BY <1>0, <1>1, <1>4 DEF HasAdded
    <3> QED  BY <1>0, <3>1, SumOneChanged
  <2> QED  BY <2>1, <2>2
<1>6. AddsCost(r, mine) = (IF Target(r) \in mine THEN CostGained(r) ELSE 0)
                          + (IF Source(r) \in mine THEN CostOut(r) ELSE 0)
  <2> HIDE DEF mine
  <2>1. CASE Kind(r) = "trade"
    <3>1. Net(r) \in Nat /\ (Buys(r) \/ Sells(r)) /\ ~(Buys(r) /\ Sells(r))
      BY <1>0, <2>1, QuoteType
    <3>2. leaves[r] \in Int  BY <1>0 DEF TypeOK, TradeTypeOK
    <3> QED  BY <2>1, <3>1, <3>2 DEF AddsCost, CostGained, CostIn, CostOut
  <2>2. CASE Kind(r) = "send"
    <3>1. ~Buys(r) /\ ~Sells(r) /\ call[r].value \in Nat /\ leaves[r] \in Int
      BY <1>0, <2>2 DEF Buys, Sells, TradeCall, Kind, TypeOK, TradeTypeOK
    <3> QED  BY <2>2, <3>1 DEF AddsCost, CostGained, CostIn, CostOut
  <2>3. CASE Kind(r) = "swap"
    <3>1. ~Buys(r) /\ ~Sells(r) /\ leaves[r] \in Int
      BY <1>0, <2>3 DEF Buys, Sells, TypeOK, TradeTypeOK
    <3>2. Source(r) \in mine <=> Target(r) \in mine
      BY <1>0, <2>3, <3>1 DEF mine, Owned, Source, Target, TradeCall, Kind
    <3> QED  BY <2>3, <3>1, <3>2 DEF AddsCost, CostGained, CostIn, CostOut
  <2> QED  BY <2>1, <2>2, <2>3 DEF Trading
<1>7. AddsCost(r, mine) \in Int  BY <1>0, CoinTypes
<1> HIDE DEF mine, F, M, G
<1>8. CostsOf(hold, mine)' = CostsOf(hold, mine) + AddsCost(r, mine)
  BY <1>0, <1>2, <1>3, <1>5, <1>6, <1>7
<1> QED  BY <1>8 DEF mine

\* A commit explains itself, empties no holding of its coin alone, and swaps cost
\* nothing.
LEMMA CommitExplains ==
  ASSUME OnceInv, CoinInv, NEW r \in Request, Commits(r), Frame(r)
  PROVE  CoinsAreExplained' /\ EmptyCostsNothing' /\ SwapsCostNothing'
<1>0. DeskTypeOK /\ TypeOK /\ TradeTypeOK /\ SidesOK /\ InOrder
  BY DEF OnceInv, TypeOK
<1>1. /\ r \in Trading /\ r \notin Traded /\ InFlight(r) /\ pc[r] = "commit"
      /\ Traded' = Traded \cup {r} /\ call' = call /\ before' = before
      /\ leaves' = leaves /\ hold' = AfterIn(r, AfterOut(r))
      /\ Gives(r) \/ Buys(r)
  BY CommitBooks
<1>2. IsFiniteSet(Traded) /\ Traded \subseteq Trading
  BY FiniteRequests DEF Traded, Trading
<1>3. ASSUME NEW h \in Holding
      PROVE  /\ AtomsOf(hold[h])' =
                  AtomsOf(Held[h]) + SumFunction([s \in Traded |-> CoinEffect(s, h)])'
             /\ AtomsOf(hold[h])' >= 0 /\ CostOf(hold[h])' >= 0
  <2> DEFINE F == [s \in Traded |-> CoinEffect(s, h)]
             G == [s \in Traded \cup {r} |-> CoinEffect(s, h)]
  <2>1. SumFunction([s \in Traded |-> CoinEffect(s, h)])' = SumFunction(G)
    BY <1>1, CoinTerms
  <2>2. SumFunction(F) \in Int /\ SumFunction(G) = SumFunction(F) + CoinEffect(r, h)
    <3>1. HasMore(F, G, Traded, r) /\ G[r] = CoinEffect(r, h)
      BY <1>0, <1>1, <1>2, CoinTypes DEF HasMore
    <3> HIDE DEF F, G
    <3> QED  BY <1>2, <3>1, SumOneMore
  <2>3. AtomsOf(hold[h]) = AtomsOf(Held[h]) + SumFunction(F)
    BY DEF CoinInv, CoinsAreExplained
  <2>4. /\ AtomsOf(hold[h])' = AtomsOf(hold[h]) + CoinEffect(r, h)
        /\ AtomsOf(hold[h])' >= 0 /\ CostOf(hold[h])' >= 0
    BY <1>1, CommitHoldings DEF AtomsOf, CostOf
  <2>5. CoinEffect(r, h) \in Int /\ AtomsOf(Held[h]) \in Int
    BY <1>0, <1>1, CoinTypes, TradeAssumption DEF AtomsOf
  <2> HIDE DEF F, G
  <2> QED  BY <2>1, <2>2, <2>3, <2>4, <2>5
<1>4. CoinsAreExplained'
  <2>1. ASSUME NEW s \in Traded, Kind(r) = "trade", Kind(s) = "trade"
        PROVE  call[r].quote # call[s].quote
    <3>1. s \in Request /\ outcome[s] = "done"  BY TradedOver
    <3>2. call[s].quote \in used  BY <2>1, <3>1 DEF CoinInv, QuoteHeld
    <3>3. call[r].quote \notin used  BY <1>1, <2>1 DEF CoinInv, QuoteHeld
    <3> QED  BY <3>2, <3>3
  <2>2. \A s, t \in Traded : s # t /\ Kind(s) = "trade" /\ Kind(t) = "trade" =>
          call[s].quote # call[t].quote
    BY DEF CoinInv, CoinsAreExplained
  <2>3. \A s, t \in Traded' : s # t /\ Kind(s)' = "trade" /\ Kind(t)' = "trade" =>
          call'[s].quote # call'[t].quote
    BY <1>1, <2>1, <2>2, CoinTerms
  <2> QED  BY <1>3, <2>3 DEF CoinsAreExplained
<1>5. EmptyCostsNothing'
  <2> SUFFICES ASSUME NEW h \in Holding, InTurn(Traded)', AtomsOf(hold'[h]) = 0
               PROVE  CostOf(hold'[h]) = 0
    BY DEF EmptyCostsNothing, AtomsOf, CostOf
  <2>1. InTurn(Traded) /\ InTurn(Traded \cup {r})
    BY <1>1 DEF InTurn, Met
  <2>2. /\ AtomsOf(hold[h]) \in Nat /\ CostOf(hold[h]) \in Nat
        /\ AtomsOf(hold'[h]) = AtomsOf(hold[h]) + CoinEffect(r, h)
        /\ CostOf(hold'[h]) = CostOf(hold[h]) + (IF h = Target(r) THEN CostGained(r) ELSE 0)
                                              + (IF h = Source(r) THEN CostOut(r) ELSE 0)
        /\ ~Yields(r, h) /\ ~Receives(r, h) => hold'[h] = hold[h]
    BY <1>1, CommitHoldings
  <2>3. /\ ~Sells(r) => Target(r) \in Holding /\ AtomsIn(r) \in Nat \ {0}
        /\ ~Buys(r) => Source(r) \in Holding /\ AtomsOut(r) \in Nat \ {0}
        /\ ~(Buys(r) /\ Sells(r))
        /\ ~(Yields(r, h) /\ Receives(r, h))
    BY <1>0, <1>1, CoinTypes
  <2>4. CASE ~Yields(r, h) /\ ~Receives(r, h)
    <3>1. AtomsOf(hold[h]) = 0  BY <2>2, <2>4
    <3>2. CostOf(hold[h]) = 0  BY <2>1, <3>1 DEF CoinInv, EmptyCostsNothing
    <3> QED  BY <2>2, <2>4, <3>2
  <2>5. CASE Receives(r, h)
    <3>1. CoinEffect(r, h) = AtomsIn(r) /\ AtomsIn(r) \in Nat \ {0}
      BY <2>3, <2>5 DEF CoinEffect, Yields, Receives
    <3> QED  BY <2>2, <3>1
  <2>6. CASE Yields(r, h)
    <3>1. CoinEffect(r, h) = -AtomsOut(r) /\ AtomsOut(r) \in Nat \ {0} /\ ~Buys(r)
      BY <2>3, <2>6 DEF CoinEffect, Yields, Receives
    <3>2. AtomsOf(hold[h]) = AtomsOut(r)  BY <2>2, <3>1
    <3>3. Gives(r) /\ Source(r) = h /\ r \in Request  BY <1>1, <2>6, <3>1 DEF Yields
    <3>4. /\ hold[h] # Nothing
          /\ leaves[r] = Share(hold[h].cost, AtomsOut(r), hold[h].atoms)
      <4>1. Covered(r)  BY DEF CoinInv
      <4> QED  BY <2>1, <3>3, <4>1 DEF Covered
    <3>5. hold[h].atoms = AtomsOut(r) /\ hold[h].cost = CostOf(hold[h])
      BY <3>2, <3>4 DEF AtomsOf, CostOf
    <3>6. leaves[r] = CostOf(hold[h])  BY <2>2, <3>1, <3>4, <3>5, ShareOfAll
    <3>7. CostOut(r) = -leaves[r] /\ (h = Target(r) => CostGained(r) = 0)
      BY <2>3, <2>6, <3>1 DEF CostOut, CostGained, Yields, Receives
    <3> QED  BY <2>2, <3>3, <3>6, <3>7
  <2> QED  BY <2>4, <2>5, <2>6
<1>6. SwapsCostNothing'
  <2>1. ASSUME NEW u \in {h.user : h \in Holding}
        PROVE  CostsOf(hold, Owned(u))' =
                 CostsOf(Held, Owned(u)) + SumFunction([s \in Traded |-> AddsCost(s, Owned(u))])'
    <3> DEFINE mine == Owned(u)
               F == [s \in Traded |-> AddsCost(s, mine)]
               G == [s \in Traded \cup {r} |-> AddsCost(s, mine)]
    <3>1. SumFunction([s \in Traded |-> AddsCost(s, Owned(u))])' = SumFunction(G)
      <4>1. \A s : AddsCost(s, mine)' = AddsCost(s, mine)
        BY <1>1, CoinTerms DEF AddsCost, Owned
      <4> QED  BY <1>1, <4>1 DEF Owned
    <3>2. SumFunction(F) \in Int /\ SumFunction(G) = SumFunction(F) + AddsCost(r, mine)
      <4>1. HasMore(F, G, Traded, r) /\ G[r] = AddsCost(r, mine)
        BY <1>0, <1>1, <1>2, CoinTypes DEF HasMore
      <4> HIDE DEF F, G
      <4> QED  BY <1>2, <4>1, SumOneMore
    <3>3. CostsOf(hold, mine) = CostsOf(Held, mine) + SumFunction(F)
      BY DEF CoinInv, SwapsCostNothing
    <3>4. CostsOf(hold, mine)' = CostsOf(hold, mine) + AddsCost(r, mine)
      BY <1>1, CommitCosts
    <3>5. AddsCost(r, mine) \in Int /\ CostsOf(Held, mine) \in Int
      <4>1. AddsCost(r, mine) \in Int  BY <1>0, <1>1, CoinTypes
      <4>2. \A h \in mine : CostOf(Held[h]) \in Int
        BY TradeAssumption DEF CostOf, Owned
      <4>3. IsFiniteSet(mine)  BY TradeAssumption, FS_Subset DEF Owned
      <4> HIDE DEF mine
      <4>4. SumFunctionOnSet([h \in mine |-> CostOf(Held[h])], mine) \in Int
        BY <4>2, <4>3, SumInt
      <4>5. CostsOf(Held, mine) \in Int  BY <4>4 DEF CostsOf, SumFunction
      <4> QED  BY <4>1, <4>5
    <3> HIDE DEF mine, F, G
    <3>6. CostsOf(hold, mine)' = CostsOf(Held, mine) + SumFunction(G)
      BY <3>2, <3>3, <3>4, <3>5
    <3> QED  BY <3>1, <3>6 DEF mine
  <2> QED  BY <2>1 DEF SwapsCostNothing
<1> QED  BY <1>4, <1>5, <1>6

\* The commit of r keeps CoinInv.
LEMMA CoinsCommit ==
  ASSUME OnceInv, CoinInv, NEW r \in Request, Commits(r), Frame(r)
  PROVE  CoinInv'
<1>0. DeskTypeOK /\ TypeOK /\ TradeTypeOK /\ SidesOK /\ InOrder
  BY DEF OnceInv, TypeOK
<1>1. /\ r \in Trading /\ r \notin Traded /\ InFlight(r) /\ pc[r] = "commit"
      /\ Traded' = Traded \cup {r} /\ call' = call /\ before' = before
      /\ pc'[r] = "over" /\ outcome'[r] = "done"
      /\ saw' = saw /\ leaves' = leaves /\ hold' = AfterIn(r, AfterOut(r))
      /\ used' = IF Kind(r) = "trade" THEN used \cup {call[r].quote} ELSE used
      /\ ~Buys(r) => Gives(r)
  BY CommitBooks
<1>2. /\ \A s \in Request \ {r} : pc'[s] = pc[s] /\ outcome'[s] = outcome[s]
      /\ \A row \in Row, s \in Request \ {r} : lock[row] = s => lock'[row] = s
  BY DEF Frame
<1>3. ASSUME NEW s \in Request \ {r}, InFlight(s)  PROVE ~InTurn(Traded \cup {s})'
  <2>1. Met(r, s)  BY <1>0, <1>1, <1>3, UnderWay
  <2>2. Met(r, s)'  BY <1>1, <2>1 DEF Met
  <2>3. r \in (Traded \cup {s})' /\ s \in (Traded \cup {s})'  BY <1>1
  <2> QED  BY <1>3, <2>2, <2>3 DEF InTurn
<1>4. ASSUME NEW s \in Request
      PROVE  /\ Kind(s)' = Kind(s) /\ Buys(s)' = Buys(s) /\ Source(s)' = Source(s)
             /\ AtomsOut(s)' = AtomsOut(s) /\ QuoteHeld(s) /\ ReadingOK(s) /\ Covered(s)
             /\ s \in Trading' <=> s \in Trading
  BY <1>1, CoinTerms DEF CoinInv
<1>5. ASSUME NEW s \in Request  PROVE QuoteHeld(s)'
  <2> SUFFICES ASSUME Kind(s) = "trade"  PROVE QuoteHeld(s)'
    BY <1>4 DEF QuoteHeld
  <2>1. call[s].quote \in Row
    BY <1>0, CallForms, QuoteType, TradeAssumption
  <2>2. CASE s = r  BY <1>1, <2>2 DEF QuoteHeld
  <2>3. CASE s # r
    <3>1. /\ pc[s] \notin {"idle", "start", "over"} =>
               /\ lock'[call[s].quote] = s /\ call[s].quote \notin used
               /\ lock[call[s].quote] = s
          /\ outcome[s] = "done" => call[s].quote \in used
      BY <1>2, <1>4, <2>1, <2>3 DEF QuoteHeld
    <3>2. Kind(r) = "trade" => lock[call[r].quote] = r
      BY <1>1, <1>4 DEF QuoteHeld
    <3> QED  BY <1>1, <1>2, <2>3, <3>1, <3>2 DEF QuoteHeld
  <2> QED  BY <2>2, <2>3
<1>6. ASSUME NEW s \in Request  PROVE ReadingOK(s)'
  <2>1. AtomsOf(saw[s])' >= 0 /\ CostOf(saw[s])' >= 0
    BY <1>1, <1>4 DEF ReadingOK, AtomsOf, CostOf
  <2>2. ASSUME s \in Trading, pc'[s] = "take", saw'[s] # Nothing
        PROVE  hold'[Source(s)] # Nothing /\ ~InTurn(Traded \cup {s})'
    <3>1. s # r /\ pc[s] = "take" /\ InFlight(s)  BY <1>1, <1>2, <2>2 DEF InFlight
    <3>2. hold[Source(s)] # Nothing  BY <1>1, <1>4, <2>2, <3>1 DEF ReadingOK
    <3>3. Source(s) \in Holding
      BY <1>0, <2>2, <3>1, CoinTypes DEF SidesOK
    <3> QED  BY <1>1, <1>3, <3>1, <3>2, <3>3, CommitHoldings
  <2> QED  BY <1>4, <2>1, <2>2 DEF ReadingOK
<1>7. ASSUME NEW s \in Request  PROVE Covered(s)'
  <2> SUFFICES ASSUME Gives(s)'  PROVE Covered(s)'
    BY DEF Covered
  <2>1. s \in Trading /\ ~Buys(s) /\ s # r /\ Gives(s) /\ InFlight(s)
    BY <1>1, <1>2, <1>4 DEF Gives, InFlight
  <2>2. Source(s) \in Holding /\ Source(s) \in Row /\ AtomsOut(s) \in Nat
    BY <1>0, <2>1, CoinTypes, TradeAssumption
  <2> DEFINE had == hold[Source(s)]
  <2>3. /\ lock[Source(s)] = s
        /\ had # Nothing /\ had.atoms >= AtomsOut(s)
        /\ 0 <= leaves[s] /\ leaves[s] <= had.cost
    BY <1>4, <2>1 DEF Covered
  <2>4. lock'[Source(s)] = s  BY <1>2, <2>1, <2>2, <2>3
  <2>5. ~Yields(r, Source(s))
    <3>1. Gives(r) => lock[Source(r)] = r  BY <1>4 DEF Covered
    <3> QED  BY <1>1, <2>1, <2>3, <3>1 DEF Yields
  <2>6. /\ hold'[Source(s)] # Nothing
        /\ hold'[Source(s)].atoms >= AtomsOut(s) /\ leaves[s] <= hold'[Source(s)].cost
    <3>1. /\ AtomsOf(hold'[Source(s)]) = AtomsOf(had) + CoinEffect(r, Source(s))
          /\ CostOf(hold'[Source(s)]) =
               CostOf(had) + (IF Source(s) = Target(r) THEN CostGained(r) ELSE 0)
                           + (IF Source(s) = Source(r) THEN CostOut(r) ELSE 0)
          /\ hold'[Source(s)] # Nothing
          /\ AtomsOf(had) \in Nat /\ CostOf(had) \in Nat
      BY <1>1, <2>2, <2>3, CommitHoldings
    <3>2. CoinEffect(r, Source(s)) >= 0 /\ CoinEffect(r, Source(s)) \in Int
      <4>1. ~Sells(r) => AtomsIn(r) \in Nat \ {0}  BY <1>0, <1>1, CoinTypes
      <4> QED  BY <2>5, <4>1 DEF CoinEffect, Yields
    <3>3. /\ CostGained(r) \in Nat
          /\ Source(s) = Source(r) => CostOut(r) = 0
      BY <1>1, <2>5, CostInType DEF Yields, CostOut
    <3>4. /\ AtomsOf(had) = had.atoms /\ CostOf(had) = had.cost
          /\ AtomsOf(hold'[Source(s)]) = hold'[Source(s)].atoms
          /\ CostOf(hold'[Source(s)]) = hold'[Source(s)].cost
      BY <2>3, <3>1 DEF AtomsOf, CostOf
    <3>5. leaves[s] \in Int  BY <1>0 DEF TradeTypeOK
    <3> HIDE DEF had
    <3> QED  BY <2>2, <2>3, <3>1, <3>2, <3>3, <3>4, <3>5
  <2>7. ~InTurn(Traded \cup {s})'  BY <1>3, <2>1
  <2> QED  BY <1>1, <1>4, <2>3, <2>4, <2>6, <2>7 DEF Covered
<1>8. CoinsAreExplained' /\ EmptyCostsNothing' /\ SwapsCostNothing'  BY CommitExplains
<1> QED  BY <1>5, <1>6, <1>7, <1>8 DEF CoinInv

\* Coins and what they have cost stay explained.
LEMMA CoinsHold == OnceInv /\ CoinInv /\ [Next]_vars => CoinInv'
<1> SUFFICES ASSUME OnceInv, CoinInv, [Next]_vars  PROVE CoinInv'
  OBVIOUS
<1>1. TypeOK /\ SidesOK  BY DEF OnceInv
<1>2. CASE Quiet(TradeKinds) /\ UNCHANGED tradeVars  BY <1>2, CoinsQuiet
<1>3. ASSUME NEW r \in Request, TradeStep(r), Frame(r)  PROVE CoinInv'
  BY <1>3, CoinsPrepare, CoinsCommit DEF Commits
<1> QED  BY <1>1, <1>2, <1>3, FamilySteps

-----------------------------------------------------------------------------
(* The books.                                                              *)

\* A sum of nothing, in each of its terms, is nothing.
LEMMA SumOfZeros ==
  ASSUME NEW S, IsFiniteSet(S), NEW F, DOMAIN F = S, \A x \in S : F[x] = 0
  PROVE  SumFunction(F) = 0
<1> DEFINE bad == {T \in SUBSET S : SumFunctionOnSet(F, T) # 0}
<1>1. CASE bad # {}
  <2>1. bad \in SUBSET (SUBSET S)  OBVIOUS
  <2>2. PICK T \in bad : \A x \in T : T \ {x} \notin bad
    <3> HIDE DEF bad
    <3> QED  BY <1>1, <2>1, Smallest
  <2>3. T # {}  BY <2>2, SumOfNone
  <2>4. PICK x \in T : TRUE  BY <2>3
  <2>5. SumFunctionOnSet(F, T) = F[x] + SumFunctionOnSet(F, T \ {x})
    BY <2>4, SumRemove
  <2>6. SumFunctionOnSet(F, T \ {x}) = 0  BY <2>2, <2>4
  <2> QED  BY <2>2, <2>4, <2>5, <2>6
<1>2. CASE bad = {}  BY <1>2 DEF SumFunction
<1> QED  BY <1>1, <1>2

\* The books are right in the first scenes.
LEMMA BooksStart == Init => BookInv
<1> SUFFICES ASSUME Init  PROVE BookInv
  OBVIOUS
<1>0. \A r \in Request : pc[r] = "idle" /\ outcome[r] = "none"  BY NobodyYet
<1>1. bal = Opening /\ hold = Held /\ saw = [r \in Request |-> Nothing]
  BY DEF Init, DeskInit, TradeInit
<1>2. Traded = {}  BY <1>0 DEF Traded, Trading
<1>3. MoneyInv
  <2>1. ASSUME NEW a \in Account
        PROVE  bal[a] = Opening[a] + SumFunction([r \in Request |-> Effect(r, a)]) /\ bal[a] >= 0
    <3> DEFINE F == [r \in Request |-> Effect(r, a)]
    <3>1. DOMAIN F = Request /\ \A r \in Request : F[r] = 0  BY <1>0 DEF Effect
    <3>2. SumFunction(F) = 0
      <4> HIDE DEF F
      <4> QED  BY <3>1, DeskAssumption, SumOfZeros
    <3>3. Opening[a] \in Nat  BY DeskAssumption
    <3> HIDE DEF F
    <3>4. bal[a] = Opening[a] + SumFunction(F) /\ bal[a] >= 0  BY <1>1, <3>2, <3>3
    <3> QED  BY <3>4 DEF F
  <2> QED  BY <1>0, <2>1 DEF MoneyInv, MoneyIsExplained, Debited
<1>4. ASSUME NEW f \in [Traded -> Int]  PROVE SumFunction(f) = 0
  <2>1. DOMAIN f = {}  BY <1>2
  <2> QED  BY <2>1, SumOfNone DEF SumFunction
<1>5. CoinsAreExplained
  <2>1. ASSUME NEW h \in Holding
        PROVE  /\ AtomsOf(hold[h]) =
                    AtomsOf(Held[h]) + SumFunction([r \in Traded |-> CoinEffect(r, h)])
               /\ AtomsOf(hold[h]) >= 0 /\ CostOf(hold[h]) >= 0
    <3>1. [r \in Traded |-> CoinEffect(r, h)] \in [Traded -> Int]  BY <1>2
    <3>2. SumFunction([r \in Traded |-> CoinEffect(r, h)]) = 0  BY <1>4, <3>1
    <3>3. AtomsOf(Held[h]) \in Nat /\ CostOf(Held[h]) \in Nat
      BY TradeAssumption DEF AtomsOf, CostOf
    <3> QED  BY <1>1, <3>2, <3>3
  <2> QED  BY <1>2, <2>1 DEF CoinsAreExplained
<1>6. EmptyCostsNothing
  BY <1>1, TradeAssumption DEF EmptyCostsNothing, AtomsOf, CostOf
<1>7. SwapsCostNothing
  <2>1. ASSUME NEW u
        PROVE  CostsOf(hold, Owned(u)) =
                 CostsOf(Held, Owned(u)) + SumFunction([r \in Traded |-> AddsCost(r, Owned(u))])
    <3>1. [r \in Traded |-> AddsCost(r, Owned(u))] \in [Traded -> Int]  BY <1>2
    <3>2. SumFunction([r \in Traded |-> AddsCost(r, Owned(u))]) = 0  BY <1>4, <3>1
    <3>3. CostsOf(Held, Owned(u)) \in Int
      <4> DEFINE mine == Owned(u)
      <4>1. \A h \in mine : CostOf(Held[h]) \in Int
        BY TradeAssumption DEF CostOf, Owned
      <4>2. IsFiniteSet(mine)  BY TradeAssumption, FS_Subset DEF Owned
      <4> HIDE DEF mine
      <4>3. SumFunctionOnSet([h \in mine |-> CostOf(Held[h])], mine) \in Int
        BY <4>1, <4>2, SumInt
      <4>4. CostsOf(Held, mine) \in Int  BY <4>3 DEF CostsOf, SumFunction
      <4> QED  BY <4>4 DEF mine
    <3> QED  BY <1>1, <3>2, <3>3
  <2> QED  BY <2>1 DEF SwapsCostNothing
<1>8. ASSUME NEW r \in Request  PROVE QuoteHeld(r) /\ ReadingOK(r) /\ Covered(r)
  BY <1>0, <1>1 DEF QuoteHeld, ReadingOK, Covered, Gives, AtomsOf, CostOf
<1>9. CoinInv  BY <1>5, <1>6, <1>7, <1>8 DEF CoinInv
<1> QED  BY <1>3, <1>9 DEF BookInv

\* BookInv is inductive: whoever has taken money or coin keeps its row, which
\* covers it, so that every balance and every holding is what was done to it.
THEOREM BooksInductive == Spec => []BookInv
<1>1. OnceInv /\ BookInv /\ [Next]_vars => BookInv'  BY MoneyHolds, CoinsHold DEF BookInv
<1>2. Spec => []OnceInv  BY OnceInductive
<1> QED  BY <1>1, <1>2, BooksStart, PTL DEF Spec

\* DeskInv, which the run checks, is inductive: OnceInv, RuleInv and BookInv.
THEOREM DeskInductive == Spec => []DeskInv
BY OnceInductive, RulesInductive, BooksInductive, PTL DEF DeskInv

\* Every balance is the opening one and what approved purchases, payments, loans
\* and trades made of it, never below zero; every holding likewise; a swap costs
\* nothing; and acts that come in turn leave no cost on a holding that is empty.
THEOREM BooksExplained == Spec => []BooksAreExplained
<1>1. BookInv => BooksAreExplained
  BY DEF BookInv, MoneyInv, CoinInv, BooksAreExplained
<1> QED  BY <1>1, BooksInductive, PTL
==============================================================================
