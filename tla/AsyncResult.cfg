SPECIFICATION FairSpec
CONSTANTS
  Waiters = {w1, w2}
  Askers = {w2}
  Adders = {a1, a2}
  Faulty = {a2}
  Expires = TRUE
  Answers <- MCAnswers
  None = None
  value = value
  exception = exception
CHECK_DEADLOCK FALSE
INVARIANTS
  ValueIsTheAnswer
  Inv
  
PROPERTY WaitEnds
