SPECIFICATION Spec
CONSTANTS
  Versions = {1, 2, 3, 4}
  Broken = {3}
  MaxAttempts = 3
  MaxKills = 1
  Faults = {"write", "read", "database", "commit"}
  MigratesAtStart = TRUE
  None = None
INVARIANTS TypeOK ImageWins
