CONSTANTS
  s1 = s1
  n1 = n1
  n2 = n2
  Servers = {s1}
  Names = {n1, n2}
  Aliases <- MCAliases
  Multihomed = {s1}
  Elsewhere = Elsewhere
  AllowListing = TRUE
  PruningTimeout = 1
  Interval = 1
  Lifetime = 1
  MaxNet = 3
  Gone = Gone
  Nothing = Nothing
SPECIFICATION FairSpec
CHECK_DEADLOCK FALSE
INVARIANTS
  Inv
PROPERTIES
  FreshAnswers
  ActiveListed
  ClosedForgotten
