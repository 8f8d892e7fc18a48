CONSTANTS
  ann = ann
  bob = bob
  maya = maya
  a1 = a1
  a2 = a2
  b1 = b1
  m1 = m1
  k1 = k1
  r1 = r1
  r2 = r2
  r3 = r3
  User = {ann, bob, maya}
  Demo = {maya}
  Account = {a1, a2, b1, m1}
  Owner <- MCOwner
  Key = {k1}
  None = None
  NoKey = NoKey
  Opening <- MCOpening
  Request = {r1, r2, r3}
  Call <- MCCall
SPECIFICATION FairSpec
CHECK_DEADLOCK FALSE
INVARIANTS
  IInv
  BooksAreRight
PROPERTIES
  LedgerSpec
  EveryRequestEnds
