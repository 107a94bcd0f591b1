\* One cloud turn, a tab that refreshes, one that adopts, and a turn made in
\* another tab: the blocked conversation is unblocked in the end.
SPECIFICATION FairSpec
CONSTANTS
    s1 = s1  s2 = s2  r = r  a = a  o = o
    hello = hello  bye = bye
    Nobody = Nobody
    Sends = {s1}
    Refreshes = {r}
    Adopters = {a}
    Outsiders = {o}
    Texts = {hello, bye}
\* The turn is made once: when all are done nothing is left to do.
CHECK_DEADLOCK FALSE
PROPERTY PendingJournalIsResolvable
