\* One call; the supervisor is killed between Popen and the registration of
\* the worker, and the next supervisor serves for ever.
CONSTANTS
    a = a
    b = b
    c = c
    Callers = {a}
    Nobody = Nobody
    MaxWorkers = 1
    MaxRuns = 2
    MaxFaults = 0
SPECIFICATION FairSpec
CHECK_DEADLOCK FALSE
PROPERTY WorkerEndsWithItsCall
