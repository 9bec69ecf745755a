SPECIFICATION Spec
CONSTANTS
  Tasks = {t1}
  Workers = {w1, w2}
  Limit = 1
  Capacity = 1
  Price = 3
  RepairPrice = 2
  Fee = 1
  MissLimit = 2
  Repairs = TRUE
  SessionLoss = TRUE
  None = None
  Stale = Stale
SYMMETRY Symmetry
INVARIANTS TypeOK AcceptedOnce RefundedOnce LedgerExact OutcomeAgrees PlaceHeld CapacityRespected
PROPERTIES StatusFinal ImplementsSettlement
CONSTRAINT Unstable
