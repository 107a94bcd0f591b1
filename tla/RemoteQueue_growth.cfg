\* The capacity grows while an exclusive call runs.
SPECIFICATION Spec
CONSTANTS
    c1 = c1  c2 = c2  c3 = c3
    NoCaller = NoCaller
    StatusProbe = StatusProbe
    Callers = {c1, c2}
    Capacities = {1, 2}
    MaxCapacity = 2
    MaxRestarts = 1
    MaxThrottles = 0
    MaxCrashes = 0
    MaxProbes = 0
\* Each caller makes one call: when all have ended nothing is left to do.
CHECK_DEADLOCK FALSE
INVARIANT ExclusiveAlone
