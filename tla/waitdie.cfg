SPECIFICATION FairSpec
CONSTANTS
  c1 = c1
  c2 = c2
  c3 = c3
  k1 = k1
  k2 = k2
  Cors = {c1, c2, c3}
  Keys = {k1, k2}
  Values = {0}
  Id <- MCId
  Clocks = {1}
  WordSpace <- MCWordSpace
  WaitDie = TRUE
  OneSided = FALSE
  Local <- MCLocal
INVARIANTS LockOwnership NoWaitCycle
PROPERTIES NoDeadlock
