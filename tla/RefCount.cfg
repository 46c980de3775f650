SPECIFICATION FairSpec
CONSTANTS
  Proxies = {p1, p2, p3}
  Unboxers = {u1, u2}
  Servers = {s1, s2}
  s1 = s1
  s2 = s2
  Setups <- MCSetups
  Absent = Absent
  None = None
CHECK_DEADLOCK FALSE
INVARIANTS
  Inv
  NoKeyError
  NeverTooLow
PROPERTY EventuallyReleased
