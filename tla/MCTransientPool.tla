-------------------------- MODULE MCTransientPool --------------------------
\* Small instances of TransientPool for TLC.
EXTENDS TransientPool, TLC

CONSTANTS a, b, c

\* Callers are interchangeable.
CallerSymmetry == Permutations(Callers)
=============================================================================
