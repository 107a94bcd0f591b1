SPECIFICATION FairSpec
CONSTANTS
  c1 = c1
  c2 = c2
  Cmds = {c1}
  Projects = {"p1"}
  Checkouts <- MCCheckouts
  Idents = {"i1", "i2"}
  Windows = {60}
  Controls = {"tunnel", "edge"}
  Late = {"edge"}
  Conns = {"n1", "n2"}
  MaxAge = 1
  MaxCmds = 2
  MaxWorld = 1
  MaxKills = 1
  SensitiveNames <- MCSensitive
  TemplateNames = {".env.example"}
  SecretBodies = {"k"}
  BulkRoots = {".git", "data"}
  RefusedSettings = {"fsmonitor"}
INVARIANTS ServedAsAudited SecretsMasked
PROPERTIES SecretRemoved CommandsReturn

CHECK_DEADLOCK FALSE
