\* The running task is moved to another group.
SPECIFICATION Spec
CONSTANTS
    p = p
    q = q
    g1 = g1
    g2 = g2
    g3 = g3
    CPUs = {p, q}
    Groups <- MCTwoGroups
    Css <- MCTwoCss
    Addr <- MCTwoCss
    DenseIds = {0}
    MaxTasks = 2
    MaxEpoch = 2
    MaxMoves = 1
CHECK_DEADLOCK FALSE
INVARIANT SubtractionIsSafe
