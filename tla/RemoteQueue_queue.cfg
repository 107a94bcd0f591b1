\* Two calls under fairness while the advertised capacity changes; one may be
\* killed, ChatGPT throttles once, and "status" probes a slot.
SPECIFICATION FairSpec
CONSTANTS
    c1 = c1  c2 = c2  c3 = c3
    NoCaller = NoCaller
    StatusProbe = StatusProbe
    Callers = {c1, c2}
    Capacities = {1, 2}
    MaxCapacity = 2
    MaxRestarts = 1
    MaxThrottles = 1
    MaxCrashes = 1
    MaxProbes = 1
\* Each caller makes one call: when all have ended nothing is left to do.
CHECK_DEADLOCK FALSE
INVARIANT NoLeakedSlot
INVARIANT ExclusiveUntilResize
PROPERTY FifoAdmission
PROPERTY RetiredSlotsDrain
PROPERTY ImplementsGate
PROPERTY EveryCallLeavesTheQueue
