SPECIFICATION MCSpec
CONSTANTS
    Addrs = {a1}
    CPUs = {c1, c2}
    MaxSerial = 2
    MaxDisk = 2
    MaxSamples = 2
    MaxSessions = 2
    MaxFaults = 1
    CacheCapacity = 1
    RowCapacity = 3
    Budget = 4
    ChunkBios = 2
    SectorMod = 5
    MaxBios = 5
    MaxBytes = 2
    MaxIssues = 2
    Half = 8
    StampMod = 8
    N = 4
    Thresholds <- MCThresholds
    MaxTime = 12
CONSTRAINT MCBound
CHECK_DEADLOCK FALSE
INVARIANTS CountersExact CompletionExact BucketsExact
PROPERTIES ReportedDiskIsTheEnrolledOne ReleasedIsReclaimed
