SPECIFICATION Spec
CONSTANTS
    Devs = {"sda"}
    Targets = {"sda", "unknown"}
    Instances = {1, 2}
    Probes = {"p1"}
    BufferSize = 1
    QueueCapacity = 1
    TableCapacity = 1
    Cooldown = 1
    MaxTime = 1
    MaxEvents = 3
    MaxSessions = 2
CONSTRAINT MCBound
CHECK_DEADLOCK FALSE
INVARIANTS RecordIsAboutItsDisk EachEventInOnePlace CooldownTableBounded QuietPeriodKept
