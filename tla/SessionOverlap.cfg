SPECIFICATION Spec
CONSTANTS
  Overlap = TRUE
  MaxId = 12
  MaxTaps = 1
  MaxLife = 1
  MaxLink = 1
CHECK_DEADLOCK FALSE
INVARIANTS QuietMeansReady
