SPECIFICATION ConclaveSpec
CONSTANTS
  r1 = r1
  r2 = r2
  NoOne = NoOne
  Started = TRUE
  Keepers = {}
  Runs = {r1, r2}
  Bounded = TRUE
  Tries = 2
  Sessions = {1, 2}
  Parallel = FALSE
  AllowPartial = TRUE
  MaxCommands = 0
  MaxSpawn = 1
  MaxEvents = 1
CONSTRAINT Together
SYMMETRY MCSymmetry
INVARIANT NothingReplayed
PROPERTY OkReportIsWhole
CHECK_DEADLOCK FALSE
