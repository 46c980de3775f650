CONSTANTS
  Calls = {c1, c2, c3}
  Large = {c1}
  Unsendable = {c2}
  Closers = {k1}
  None = None
SPECIFICATION FairSpec
CHECK_DEADLOCK FALSE
INVARIANTS
  FramesInOrder
  NothingStranded
  OnlyStreamErrors
PROPERTIES
  EveryMessageSent
  ImplementsChannel
