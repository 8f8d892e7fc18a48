CONSTANTS
  ann = ann
  bob = bob
  eve = eve
  kim = kim
  a1 = a1
  b1 = b1
  b2 = b2
  k1 = k1
  k2 = k2
  k3 = k3
  q1 = q1
  q2 = q2
  q3 = q3
  q4 = q4
  q5 = q5
  l1 = l1
  l2 = l2
  l3 = l3
  l4 = l4
  t1 = t1
  t2 = t2
  t3 = t3
  r1 = r1
  r2 = r2
  r3 = r3
  key1 = key1
  home = home
  work = work
  api1 = api1
  api2 = api2
  api3 = api3
  o1 = o1
  o2 = o2
  o3 = o3
  o4 = o4
  Nothing = Nothing
  None = None
  Account = {a1, b1, b2}
  Opening <- MCOpening
  Row <- MCRow
  Request = {r1, r2, r3}
  Plan <- MCPlan
  Card = {k1, k2, k3}
  CardOf <- MCCardOf
  Holder <- MCHolder
  Issued = {k1}
  StartLimit = 2
  Ask = {q1, q2, q3, q4, q5}
  AskBy <- MCAskBy
  AskInto <- MCAskInto
  AskAmt <- MCAskAmt
  Asked = {q1, q5}
  MaxPending = 2
  Loan = {l1, l2, l3, l4}
  LoanOf <- MCLoanOf
  LoanInto <- MCLoanInto
  LoanAmt <- MCLoanAmt
  Applied = {l1}
  MaxLoans = 1
  Ticket = {t1, t2, t3}
  Writer <- MCWriter
  Opened = {t1, t3}
  Holding <- MCHolding
  Held <- MCHeld
  Quote = {o1, o2, o3, o4}
  QuoteFor <- MCQuoteFor
  User = {ann, bob, eve}
  Member = {ann, bob}
  Client = {home, work}
  Key = {api1, api2, api3}
  MaxKeys = 2
  Rate = 1
  MaxFailures = 2
  Starter = 2
  MaxAccounts = 3
  Money = 2
  Coins = 1
  Cap = 1
  Documents <- MCDocuments
  Elsewhere = {"withdrawn", "paidElsewhere", "frozenByBank", "transfer"}
  MaxElsewhere = 1
  Moment = {2, 3, 4}
  RowId = {1, 2}
  MaxRows = 5
  PageSizes = {1, 2}
SPECIFICATION MCSpec
CHECK_DEADLOCK FALSE
INVARIANTS
  DeskInv
  BooksAreExplained
  CapsHold
  StopsStand
  DoneOnceAndTold
  DoorsAgree
  ReadsAreWhole
PROPERTIES
  EveryoneIsServed
