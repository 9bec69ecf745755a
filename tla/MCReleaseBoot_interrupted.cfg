SPECIFICATION Spec
CONSTANTS
  Versions = {1, 2}
  Broken = {}
  MaxAttempts = 3
  MaxKills = 3
  Faults = {}
  MigratesAtStart = FALSE
  None = None
INVARIANT CommittedMigrationKept
