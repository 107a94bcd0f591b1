\* Two calls, two ports, two supervisor runs; the first supervisor may be
\* killed at any step, and so may one caller, or a worker exits, or
\* "g4f_pool.py stop" runs.
CONSTANTS
    a = a
    b = b
    c = c
    Callers = {a, b}
    Nobody = Nobody
    MaxWorkers = 2
    MaxRuns = 2
    MaxFaults = 1
SPECIFICATION FairSpec
\* Every caller makes one call: when all are done nothing is left to do.
CHECK_DEADLOCK FALSE
INVARIANT OneWorkerPerPort
PROPERTIES ServiceSparesUsedWorkers WorkersStayTracked RegisteredWorkersAreReaped EveryLeaseIsDecided
