SPECIFICATION FairSpec
CONSTANTS
  a1 = a1
  a2 = a2
  p1 = p1
  App = {a1, a2}
  NoApp = NoApp
  Pkg = {p1}
  NoPkg = NoPkg
  Self = a2
  Contains <- MCContains
  MaxExec = 2
  MaxSerial = 2
  MaxWeb = 1
  MaxLost = 1
  MaxTaps = 4
CHECK_DEADLOCK FALSE
INVARIANTS DetailIsOfSelected
PROPERTIES ConfirmedOnScreen ConfirmedAsArmed ExecutionResolved
