SPECIFICATION FairSpec
CONSTANTS
  Overlap = FALSE
  MaxId = 12
  MaxTaps = 1
  MaxLife = 2
  MaxLink = 2
CHECK_DEADLOCK FALSE
INVARIANTS ReplyReachesOwner QuietMeansReady
PROPERTIES PagesInitialized
