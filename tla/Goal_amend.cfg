CONSTANTS
  Procs = {p1, p2}
  p1 = p1
  p2 = p2
  ra = ra
  rb = rb
  rc = rc
  rd = rd
  Roles <- MCRoles
  Mappers <- MCMappers
  Specialists <- MCSpecialists
  Snaps <- MCSnaps
  InScope <- MCInScope
  Contracts <- LateContracts
  Grounds <- MCGrounds
  Challenges <- MCChallenges
  Syntheses <- MCSyntheses
  Audits <- MCAudits
  Refreshes <- MCRefreshes
  Finals <- MCFinals
  Fidelities <- MCFidelities
  Verifications <- MCVerifications
  Contras = {"x"}
  Critical = {"x"}
  Hyps = {"h1", "h2"}
  MaxEdits = 0
  MaxCrashes = 0
  MaxResumes = 0
SPECIFICATION Spec
SYMMETRY MCSymmetry
INVARIANT AmendedGoalHasBaseline
CHECK_DEADLOCK FALSE
CONSTRAINT LateAmendment
