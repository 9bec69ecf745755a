SPECIFICATION FairSpec
CONSTANTS
  o1 = o1
  o2 = o2
  u1 = u1
  Orders = {o1, o2}
  Users = {u1}
  Workers = {w1, w2}
  Trades = {tA, tB}
  Customer <- OneCustomer
  Gated = {o2}
  Foreign = {o2}
  Referred = {u1}
  MaxFaults = 2
  Sentinel = Sentinel
  None = None
INVARIANTS TypeOK CreditedOnce OutcomeAgrees
PROPERTY Fulfilled
CHECK_DEADLOCK FALSE
