\* One bio and one group, used again; a missed probe and a fault,
\* which may be a failed attachment that replaces the object.
SPECIFICATION FairSpec
CONSTANTS
    c1 = c1
    b1 = b1
    g1 = g1
    t1 = t1
    CPUs <- MCCPUs
    Bios <- MCBios
    Groups <- MCGroups
    Tasks <- MCTasks
    Serials <- MCSerials
    Ops = {"read"}
    IgnoredOps = {"flush"}
    Durations <- MCDurations
    CountMod = 2
    WaitMod = 4
    AggCapacity = 1
    PendingCapacity = 1
    OwnerCapacity = 2
    RetiredCapacity = 1
    MaxFaults = 1
    MaxSessions = 1
    MaxWaits = 2
    MaxMissed = 1
CHECK_DEADLOCK FALSE
INVARIANTS  PairedUnlessMissed ReclaimedForGood
PROPERTIES RetiredIsReclaimed
