SPECIFICATION Spec
CONSTANTS
  c1 = c1
  c2 = c2
  f1 = f1
  f2 = f2
  g = g
  p = p
  t1 = t1
  t2 = t2
  op = op
  Txs = {t1, t2}
  Charges = {c1, c2}
  Refunds = {f1, f2}
  Grants = {g}
  Purchases = {p}
  Bonus = {g}
  Operation <- OneOperation
  Amount <- Prices
  Life <- Lives
  Rank <- Ranks
  MaxTime = 1
  None = None
SYMMETRY Symmetry
INVARIANT LedgerExact
PROPERTY SettledForGood
