CONSTANTS
  c1 = c1  c2 = c2  k1 = k1  k2 = k2
  Cors = {c1, c2}
  Keys = {k1, k2}
  Total = 3
  RepFactor = 1
  Home <- MCHome
  Node <- MCNode
  Tid <- MCZero
  Cid <- MCZero
  Txns <- MCTxns
  Builds <- MCBuilds
  MaxTxns <- MCMaxTxns
SPECIFICATION FairSpec
INVARIANTS TypeOK CopiesWhole LocksOwned Serializable BackupsAgree
PROPERTIES EveryTxnEnds
