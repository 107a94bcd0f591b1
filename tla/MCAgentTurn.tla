---------------------------- MODULE MCAgentTurn ----------------------------
EXTENDS AgentTurn, TLC
CONSTANTS k1, r1, r2

MCSymmetry == Permutations(Runs)
=============================================================================
