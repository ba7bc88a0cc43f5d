SPECIFICATION FairSpec
CONSTANTS
  p1 = p1
  p2 = p2
  c1 = c1
  c2 = c2
  Package = {p1}
  NoPkg = NoPkg
  Context = {c1}
  NoCtx = NoCtx
  HomeTarget = {}
  SysTarget = {}
  MaxExec = 9
  MaxWeb = 0
  MaxLife = 1
CHECK_DEADLOCK FALSE
INVARIANTS StepsNeverRejected RebootLatched UpdateHasWork
PROPERTIES UpdateEnds ReceiptResolved
