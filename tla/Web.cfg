SPECIFICATION Spec
CONSTANTS
  Scenes <- MCScenes
  Press <- MCPress
  MaxLost = 1
  Sign <- MCSign
  MaxMissed = 1
  Click <- MCClick
  MaxReview = 2
  MaxCut = 2
  ann = ann
  bob = bob
  h1 = h1
  h2 = h2
  h3 = h3
  h4 = h4
  NoOne = NoOne
  Visitor = {ann, bob}
  Hit = {h1, h2, h3, h4}
  SiteScenes <- MCSiteScenes
  MaxStarts = 1
INVARIANTS
  PagesAreTrue
  PaidAsReviewed
  WebInv
PROPERTIES
  ButtonsComeBack
  SharedInPeace
CHECK_DEADLOCK FALSE
