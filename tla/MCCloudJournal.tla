-------------------------- MODULE MCCloudJournal ---------------------------
\* Small instances of CloudJournal for TLC.
EXTENDS CloudJournal, TLC

CONSTANTS s1, s2, r, a, o, hello, bye

\* Turns and texts are interchangeable among themselves.
JournalSymmetry == Permutations(Sends) \cup Permutations(Texts)
=============================================================================
