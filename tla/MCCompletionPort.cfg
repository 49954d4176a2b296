CONSTANTS
    Threads = {t1, t2}
    Packets = {p1, p2, p3}
    Concurrency = {0, 1}
    DefaultConcurrency = 2
SPECIFICATION FairSpec
INVARIANTS
    NobodyStranded
    FifoExactlyOnce
PROPERTY GrowthWithinLimit
PROPERTY TimedWaitReturns
CHECK_DEADLOCK FALSE
