SPECIFICATION FairSpec
CONSTANTS
  Left = {l1, l2, l3}
  Right = {r}
  Timeouts = TRUE
CHECK_DEADLOCK FALSE
INVARIANTS
  AllReleased
  DisconnectedOnce
PROPERTIES
  DisconnectedAfterClose
  CloseEnds
