\* A journal that is not bound yet, and a turn of the same text in another tab.
SPECIFICATION Spec
CONSTANTS
    s1 = s1  s2 = s2  r = r  a = a  o = o
    hello = hello  bye = bye
    Nobody = Nobody
    Sends = {s1}
    Refreshes = {r}
    Adopters = {}
    Outsiders = {o}
    Texts = {hello}
CHECK_DEADLOCK FALSE
PROPERTY OnlyItsTurnClearsJournal
