\* "g4f_pool.py stop" reads the manifest of a killed supervisor while the next
\* one starts.
CONSTANTS
    a = a
    b = b
    c = c
    Callers = {a}
    Nobody = Nobody
    MaxWorkers = 1
    MaxRuns = 2
    MaxFaults = 1
SPECIFICATION Spec
CHECK_DEADLOCK FALSE
INVARIANT ServingSupervisorIsAnnounced
