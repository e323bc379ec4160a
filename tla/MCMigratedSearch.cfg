\* One opening at a time, three facts, and a newer memory.
SPECIFICATION MigrationSpec
CONSTANTS
  Openers = {p}
  FactIds = {1, 2, 3}
  Unreadable = {2}
  BatchSize = 2
  MaxNew = 1
INVARIANTS
  MigratedAreSearchable
CHECK_DEADLOCK FALSE
