CONSTANTS
  r1 = r1
  r2 = r2
  Order = {1, 2, 3}
  Alert = {1}
  Side <- MCSide
  Limit <- MCLimit
  Amount <- MCAmount
  Direction <- MCDirection
  AlertLimit <- MCAlertLimit
  Request = {r1, r2}
  Base = {2}
  OpeningMoney = 3
  OpeningCoin = 1
  MaxFills = 2
  MaxTrades = 1
  MaxErrors = 0
  MaxStops = 1
SPECIFICATION Spec
SYMMETRY Symmetry
INVARIANTS
  IInv
  FillsWithinLimit
  FilledOnceAndTold
