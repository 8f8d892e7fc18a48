CONSTANTS
  RunId = {1, 2, 3}
  Endings = {"fail"}
  Flows = {"smoke", "deep"}
  People = {"ann", "bob"}
  MaxTime = 2
  MaxSessions = 2
  Lookups = 2
  Skew = 1
  MaxFaults = 1
  Scenes <- MCScenes
  Me = "ann"
  MyFlow = "smoke"
  MaxPollCycles = 2
  MaxPollFailures = 1
  MaxPolls = 1
SPECIFICATION FairSpec
CHECK_DEADLOCK FALSE
INVARIANTS
  ShowsWhatIsSo
  KeepsUp
  PageInv
PROPERTIES
  OwnAnswers
  NothingHangs
