\* One device number used by two disks; two controller addresses, two threads.
SPECIFICATION MapsSpec
CONSTANTS
    Devs = {"d1"}
    CPUs = {"c1", "c2"}
    MaxInstance = 2
    MaxFreezes = 3
    Addrs = {a1, a2}
    Threads = {t1, t2}
    MaxController = 2
    MaxEvents = 2
    MaxForeign = 1
SYMMETRY MCSymmetry
CHECK_DEADLOCK FALSE
INVARIANTS  NvmeNamesExact
