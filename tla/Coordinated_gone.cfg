\* Two CLI calls; a conversation becomes inaccessible before its next turn.
SPECIFICATION Spec
CONSTANTS
    a = a  b = b  c = c  g = g
    f1 = f1  f2 = f2
    k1 = k1  k2 = k2  k3 = k3  k4 = k4
    w1 = w1  w2 = w2
    NoConv = NoConv
    Nobody = Nobody
    CliCalls = {a, b}
    GuiTurns = {}
    Files = {f1, f2}
    Convs = {k1, k2, k3}
    Workers = {w1}
    Cap = 2
    MaxCopies = 1
    MaxGone = 1
\* Every call is made once: when all are done nothing is left to do.
CHECK_DEADLOCK FALSE
SYMMETRY CoordinationSymmetry
INVARIANT NoDeadlock
