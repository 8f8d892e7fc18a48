CONSTANTS
  rent = rent
  gift = gift
  r1 = r1
  r2 = r2
  Schedule = {rent, gift}
  Once = {gift}
  Standing = {rent}
  Periods = 3
  DueOn <- MCDueOn
  Amount <- MCAmount
  Created <- MCCreated
  Request = {r1, r2}
  Advances = {8}
  MaxOffset = 8
  MaxRuns = 2
  FirstDay = 17
  LastDay = 17
  OpeningBalance = 1
  MaxBalance = 2
  MaxFailures = 1
  FirstDays <- MCFirstDays
  LastDue <- MCLastDue
  Overflow = FALSE
SPECIFICATION MCSpec
SYMMETRY Symmetry
INVARIANTS
  IInv
  PaidOnceAndTold
PROPERTIES
  MovesForward
  NoneSkipped
