SPECIFICATION Spec
CONSTANTS
    p = p
    q = q
    g1 = g1
    g2 = g2
    g3 = g3
    CPUs = {p, q}
    Groups <- MCGroups
    Css <- MCCss
    Addr <- MCCss
    DenseIds = {0}
    MaxTasks = 2
    MaxEpoch = 2
    MaxMoves = 1
CONSTRAINT MCBound
CHECK_DEADLOCK FALSE
INVARIANTS NoFalseBlame NoMissedWait
