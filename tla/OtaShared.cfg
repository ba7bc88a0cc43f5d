SPECIFICATION Spec
CONSTANTS
  p1 = p1
  p2 = p2
  c1 = c1
  c2 = c2
  Package = {p1}
  NoPkg = NoPkg
  Context = {c1, c2}
  NoCtx = NoCtx
  HomeTarget = {}
  SysTarget = {}
  MaxExec = 4
  MaxWeb = 1
  MaxLife = 1
CHECK_DEADLOCK FALSE
INVARIANTS SentAsConfirmed
PROPERTIES ConfirmationStands UnclearIsFinal
