SPECIFICATION Spec
CONSTANTS
  Tasks = {t1}
  Workers = {w1, w2}
  Members = {mA, mB}
  Capacity <- OneEach
  MaxAttempts <- TwoEach
  Balance = 1
  KeyLimit = 1
  SessionLoss = FALSE
  None = None
  Stale = Stale
SYMMETRY WorkerSymmetry
INVARIANTS TypeOK SinglePoster ProviderIdentity PostsLedgered LeaseHeld
