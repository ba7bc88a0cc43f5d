SPECIFICATION PagesSpec
CONSTANTS
  Name <- MCName
  Path <- MCPath
  MaxTaps = 3
  MaxEvents = 1
  MaxInbox = 1
  Top = 3
  Short <- MCShort
  Default = Default
  mesh2 = mesh2
  NoProfile = NoProfile
  Profile <- MCProfile
  MaxMesh = 2
  Spool <- MCSpool
  d1 = d1
  d2 = d2
  Device <- MCDevice
  m1 = m1
  m2 = m2
  Macro <- MCMacro
  f1 = f1
  f2 = f2
  PrintFile <- MCFile
  NoPrint = NoPrint
  Estimate <- MCEstimate
  Layers <- MCLayers
  Duration = {0, 1, 2}
  TotalLayer = {0, 6}
  Progress = {0, 1}
  PageTaps <- MCTaps
  PageOther <- MCOther
  PageInbox <- MCInbox
  PageWire = 2
CHECK_DEADLOCK FALSE
INVARIANTS NoDangling DetailIsSelected PageFollowsState NoStaleConfirmation
           ShownIsReported ProfileFollows ActiveFollows SwitchFollows MacrosAgree DialogIsPrompt
           ReadingsOfFile
