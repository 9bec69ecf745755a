SPECIFICATION FairSpec
CONSTANTS
  Tasks = {t1, t2}
  Workers = {w1}
  Members = {mA}
  Capacity <- OneEach
  MaxAttempts <- OneEach
  Balance = 2
  KeyLimit = 2
  SessionLoss = FALSE
  None = None
  Stale = Stale
INVARIANTS CapacityRespected KeyBalanced
PROPERTY EventuallySettled
