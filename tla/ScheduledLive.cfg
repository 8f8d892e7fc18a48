CONSTANTS
  rent = rent
  gift = gift
  r1 = r1
  r2 = r2
  Schedule = {rent}
  Once = {}
  Standing = {rent}
  Periods = 2
  DueOn <- MCDueOn
  Amount <- MCAmount
  Created <- MCCreated
  Request = {r1, r2}
  Advances = {7}
  MaxOffset = 7
  MaxRuns = 2
  FirstDay = 10
  LastDay = 11
  OpeningBalance = 1
  MaxBalance = 1
  MaxFailures = 1
  FirstDays <- MCFirstDays
  LastDue <- MCLastDue
  Overflow = FALSE
SPECIFICATION LiveSpec
PROPERTY DueIsHandled
