\* Two cloud turns, one tab that refreshes, one that adopts, and a turn made in
\* another tab.
SPECIFICATION Spec
CONSTANTS
    s1 = s1  s2 = s2  r = r  a = a  o = o
    hello = hello  bye = bye
    Nobody = Nobody
    Sends = {s1, s2}
    Refreshes = {r}
    Adopters = {a}
    Outsiders = {o}
    Texts = {hello, bye}
\* Each turn is made once: when all are done nothing is left to do.
CHECK_DEADLOCK FALSE
SYMMETRY JournalSymmetry
INVARIANT NoForks
PROPERTIES NoBlindSubmission BoundJournalNeedsItsTurn AdoptionArchivesWhatItShowed
