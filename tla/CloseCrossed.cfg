SPECIFICATION Spec
CONSTANTS
  Left = {l}
  Right = {r}
  Timeouts = FALSE
CHECK_DEADLOCK FALSE
INVARIANT CloseRaisesNothing
