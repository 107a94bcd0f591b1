SPECIFICATION Spec
CONSTANTS
  c1 = c1
  c2 = c2
  Cmds = {c1}
  Projects = {"p1"}
  Checkouts <- MCCheckouts
  Idents = {"i1", "i2"}
  Windows = {60}
  Controls = {"tunnel", "edge"}
  Late = {"edge"}
  Conns = {"n1", "n2"}
  MaxAge = 1
  MaxCmds = 2
  MaxWorld = 0
  MaxKills = 0
  SensitiveNames <- MCSensitive
  TemplateNames = {".env.example"}
  SecretBodies = {"k"}
  BulkRoots = {".git", "data"}
  RefusedSettings = {"fsmonitor"}
PROPERTY ExpiryEndsItsOwn
CHECK_DEADLOCK FALSE
