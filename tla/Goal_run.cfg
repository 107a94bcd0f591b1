CONSTANTS
  Procs = {p1, p2}
  p1 = p1
  p2 = p2
  ra = ra
  rb = rb
  rc = rc
  rd = rd
  Roles <- MCRoles
  Mappers <- MCMappers
  Specialists <- MCSpecialists
  Snaps <- MCSnaps
  InScope <- MCInScope
  Contracts <- MCContracts
  Grounds <- MCGrounds
  Challenges <- MCChallenges
  Syntheses <- MCSyntheses
  Audits <- MCAudits
  Refreshes <- MCRefreshes
  Finals <- MCFinals
  Fidelities <- MCFidelities
  Verifications <- MCVerifications
  Contras = {"x"}
  Critical = {"x"}
  Hyps = {"h1", "h2"}
  MaxEdits = 1
  MaxCrashes = 1
  MaxResumes = 1
SPECIFICATION Spec
SYMMETRY MCSymmetry
INVARIANTS TypeOK CompletedOnEvidence NeverOvercharged MinimumSliceSuffices NoRejectedRetry
PROPERTY AppendOnly
CHECK_DEADLOCK FALSE
CONSTRAINT Scenarios
