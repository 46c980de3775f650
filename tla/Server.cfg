CONSTANTS
  a = a
  b = b
  w1 = w1
  w2 = w2
  Loads <- MCLoads
  Kinds = {"oneshot", "threaded", "forking", "pool"}
  Socks = {a, b}
  None = None
  Workers = {w1, w2}
  BatchSize = 1
  Fds = {1, 2}
  MaxRequests = 1
SPECIFICATION FairSpec
CHECK_DEADLOCK FALSE
INVARIANTS
  Inv
PROPERTIES
  RequestServed
  CloseReturnsAtLast
  ClientsServedNoMore
