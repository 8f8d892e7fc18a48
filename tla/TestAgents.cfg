CONSTANTS
  Scenes <- MCScenes
  Questions <- MCQuestions
  w1 = w1
  w2 = w2
  c1 = c1
  c2 = c2
  c3 = c3
  Incident = {w1, w2}
  Command = {c1, c2, c3}
  BugId = {1, 2, 3}
  Signature = {"s", "t"}
  None = None
  MaxBreaks = 1
  MaxDrift = 1
  MaxStops = 1
SPECIFICATION Spec
INVARIANTS
  StaysInBounds
  RecordsAreKept
  AgentInv
CHECK_DEADLOCK FALSE
