SPECIFICATION MCSpec
CONSTANTS
  c1 = c1
  c2 = c2
  Cors = {c1, c2}
  Keys = {k1, k2}
  Id <- MCId
  V = 2
  Until <- MCUntil
  Builds = {FALSE}
INVARIANTS ReadsReturnRecord
