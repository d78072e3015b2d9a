CONSTANTS
  c1 = c1  c2 = c2  c3 = c3
  Cors = {c1, c2, c3}
  Modes = {"SHARED", "EXCLUSIVE"}
  COUNT_MAX = 2
  Lane = 8
  MaxTries = 5
SPECIFICATION FairSpec
INVARIANTS TypeOK Exclusion TicketsCounted
PROPERTIES EveryCallReturns
