-------------------------- MODULE MCAgentConclave --------------------------
EXTENDS AgentConclave, TLC
CONSTANTS r1, r2

MCSymmetry == Permutations(Runs)

\* NothingReplayed and OkReportIsWhole say nothing once a process runs on alone,
\* which no step undoes: what follows is not explored.
Together == ~lone

\* Symmetry is not for liveness: as roles have no order, the first one that is
\* launched may be taken to be the first.
Ordered == main[<<r2, 1>>].pc # "idle" => main[<<r1, 1>>].pc # "idle"
=============================================================================
