SPECIFICATION FairSpec
CONSTANTS
  Versions = {1, 2, 3, 4}
  Broken = {3}
  MaxAttempts = 3
  MaxKills = 4
  Faults = {"database", "commit"}
  MigratesAtStart = FALSE
  None = None
INVARIANTS NeverAhead NeverBehind ReleasesIntact
PROPERTY UpdateResolved
