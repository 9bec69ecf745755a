SPECIFICATION FairSpec
CONSTANTS
  Tasks = {t1, t2}
  Workers = {w1}
  Limit = 1
  Capacity = 1
  Price = 3
  RepairPrice = 2
  Fee = 0
  MissLimit = 1
  Repairs = FALSE
  SessionLoss = FALSE
  None = None
  Stale = Stale
INVARIANT ExecutionBound
PROPERTY EventuallyClosed
