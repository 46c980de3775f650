CONSTANTS
  a = a
  b = b
  l = l
  Threads = {a, b, l, t1, t2}
  Temps = {t1, t2}
  MaxCalls = 2
  MaxPeerCalls = 2
  Setups <- MCSetups
  None = None
SPECIFICATION FairSpec
CHECK_DEADLOCK FALSE
INVARIANTS
  Inv
  Affinity
  RepliesReturn
PROPERTIES
  CallsReturn
  PeerServed
