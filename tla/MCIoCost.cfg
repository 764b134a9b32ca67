SPECIFICATION Spec
CONSTANTS
    c1 = c1
    c2 = c2
    b1 = b1
    b2 = b2
    g1 = g1
    g2 = g2
    CPUs <- MCCPUs
    Bios <- MCBios
    Groups <- MCGroups
    Serials <- MCSerials
    Ops = {"read"}
    IgnoredOps = {}
    Durations <- MCDurations
    CountMod = 2
    WaitMod = 4
    AggCapacity = 4
    PendingCapacity = 2
    OwnerCapacity = 2
    RetiredCapacity = 2
    MaxFaults = 1
    MaxSessions = 1
    MaxWaits = 3
    MaxMissed = 1
CONSTRAINT MCBound
SYMMETRY MCSymmetry
CHECK_DEADLOCK FALSE
INVARIANTS  NothingLostOrReplayed
