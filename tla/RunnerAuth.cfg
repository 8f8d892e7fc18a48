CONSTANTS
  r1 = r1
  r2 = r2
  r3 = r3
  ann = ann
  bob = bob
  home = home
  cafe = cafe
  old = old
  new = new
  Caller = {r1, r2, r3}
  User = {ann, bob}
  Address = {home, cafe}
  Password = {old, new}
  Call <- MCCall
  Opening <- MCOpening
  FirstPassword = old
  MaxFailures = 1
  MaxBrake = 2
  MaxConcurrent = 1
  MaxQueue = 1
SPECIFICATION FairSpec
INVARIANTS
  IInv
  AdminRemains
  SessionsAreCurrent
  OwnersGetIn
PROPERTIES
  GateIsKept
  EveryAskIsAnswered
