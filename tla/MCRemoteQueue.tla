--------------------------- MODULE MCRemoteQueue ---------------------------
\* Small instances of RemoteQueue for TLC.
EXTENDS RemoteQueue, TLC

CONSTANTS c1, c2, c3

\* No action tells one caller from another.
CallerSymmetry == Permutations({c1, c2, c3} \cap Callers)
=============================================================================
