SPECIFICATION Spec
CONSTANTS
  Tasks = {t1}
  Workers = {w1, w2}
  Members = {mA}
  Capacity <- OneEach
  MaxAttempts <- TwoEach
  Balance = 1
  KeyLimit = 2
  SessionLoss = TRUE
  None = None
  Stale = Stale
SYMMETRY WorkerSymmetry
INVARIANTS SettledOnce WalletBalanced
PROPERTIES ImplementsSettlement StatusFinal NoResubmission
