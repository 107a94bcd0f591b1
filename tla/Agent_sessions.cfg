SPECIFICATION FairConclave
CONSTANTS
  r1 = r1
  r2 = r2
  NoOne = NoOne
  Started = TRUE
  Keepers = {}
  Runs = {r1, r2}
  Bounded = FALSE
  Tries = 1
  Sessions = {1}
  Parallel = TRUE
  AllowPartial = TRUE
  MaxCommands = 0
  MaxSpawn = 1
  MaxEvents = 1
CONSTRAINT Ordered
PROPERTY SessionsEnd
CHECK_DEADLOCK FALSE
