CONSTANTS
  a = a
  b = b
  l = l
  Threads = {a, b, l}
  MaxCalls = 2
  MaxInspects = 1
  InspectKinds = {"reply"}
  Setups <- MCSetups
  None = None
SPECIFICATION FairSpec
CHECK_DEADLOCK FALSE
INVARIANTS
  Inv
  NoPollForReadyResult
  NoLostWakeup
PROPERTIES
  CallsReturn
  BackgroundEnds
