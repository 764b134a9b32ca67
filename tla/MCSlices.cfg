SPECIFICATION MCSpec
CONSTANTS
    p = p
    q = q
    CPUs = {p, q}
    CssIds = {1}
    MaxGen = 2
    Tokens = {1, 2}
    BatchSize = 2
    RingCap = 2
    QueueCap = 1
    CssBits = 1
    BaseBits = 1
    DurBits = 1
    WordBits = 2
    ExtraWords = 2
    ClockBits = 2
    MaxBatch = 8
CONSTRAINT MCBound
CHECK_DEADLOCK FALSE
INVARIANTS  SlicesReadBack
PROPERTIES RunnerProgress
