SPECIFICATION Spec
CONSTANTS
  Processes = {"web", "worker"}
  NumMigrations = 3
  MaxCrashes = 2
INVARIANT MigratedOnce
PROPERTY AllStart
CHECK_DEADLOCK FALSE
