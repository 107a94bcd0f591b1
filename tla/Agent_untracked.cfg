SPECIFICATION Spec
CONSTANTS
  k1 = k1
  r1 = r1
  r2 = r2
  NoOne = NoOne
  Started = FALSE
  Keepers = {k1}
  Runs = {r1}
  Bounded = TRUE
  Tries = 1
  MaxCommands = 1
  MaxSpawn = 2
  MaxEvents = 1
INVARIANT NothingUntracked
CHECK_DEADLOCK FALSE
