SPECIFICATION Spec
CONSTANTS
  p1 = p1
  p2 = p2
  c1 = c1
  c2 = c2
  Package = {p1}
  NoPkg = NoPkg
  Context = {c1}
  NoCtx = NoCtx
  HomeTarget = {"usb"}
  SysTarget = {}
  MaxExec = 4
  MaxWeb = 0
  MaxLife = 2
CHECK_DEADLOCK FALSE
INVARIANTS SingleFlight AutoConfirmBackedUp
PROPERTIES ImplementsSerial
