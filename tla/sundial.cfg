SPECIFICATION FairSpec
CONSTANTS
  c1 = c1
  c2 = c2
  c3 = c3
  Cors = {c1, c2, c3}
  Keys = {k1, k2}
  k1 = k1
  Reads <- MCReads
  Writes <- MCWrites
  Id <- MCId
  Home <- MCHome
  Clocks = {1}
  MaxTxns = 3
INVARIANTS TypeOK NoLockLeaked LocksExclude LeasesOrder
PROPERTY NoDeadlock
