------------------------- MODULE MCCoordinatedCall -------------------------
\* Small instances of CoordinatedCall for TLC.
EXTENDS CoordinatedCall, TLC

CONSTANTS a, b, c, g, f1, f2, k1, k2, k3, k4, w1, w2

\* CLI calls, files, conversations and workers are interchangeable.
CoordinationSymmetry ==
    Permutations({a, b, c} \cap CliCalls) \cup Permutations(Files)
        \cup Permutations(Convs) \cup Permutations(Workers)

\* Symmetry is not for liveness.  As files, workers and conversations have no
\* order, the first call may be taken to use the first file and the first
\* worker, and conversations to come to exist in the order of their names.
Ordered ==
    /\ state[a] = f1
    /\ active[a] # {w2} /\ workerOwner[w2] # a
    /\ k2 \in created => k1 \in created
    /\ k3 \in created => k2 \in created

\* False: a reset may end in the deadlock (Coordinated_gone.cfg).
NoDeadlock == ~UpgradeDeadlock
=============================================================================
