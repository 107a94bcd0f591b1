SPECIFICATION ConclaveSpec
CONSTANTS
  r1 = r1
  r2 = r2
  NoOne = NoOne
  Started = TRUE
  Keepers = {}
  Runs = {r1, r2}
  Bounded = FALSE
  Tries = 2
  Sessions = {1, 2}
  Parallel = TRUE
  AllowPartial = TRUE
  MaxCommands = 0
  MaxSpawn = 1
  MaxEvents = 1
INVARIANT NoRoleReplayed
CHECK_DEADLOCK FALSE
