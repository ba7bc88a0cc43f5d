SPECIFICATION Spec
CONSTANTS
  Name <- MCName
  Path <- MCPath
  MaxTaps = 0
  MaxEvents = 0
  MaxInbox = 1
INVARIANT FilesKnowsPrint
CHECK_DEADLOCK FALSE
