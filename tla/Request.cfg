SPECIFICATION Spec
CONSTANTS
  Objects <- MCObjects
  Heap0 <- MCHeap
  Setups <- MCSetups
  Importable <- MCImportable
  Root = "svc"
  Packets <- MCPackets
  Amounts = {}
  Threshold = 40
  MaxChunk = 48
  Room = 64
INVARIANTS Transparent PacketsWhole RepliesNested Accounts
PROPERTY CallsEnd
CHECK_DEADLOCK FALSE
