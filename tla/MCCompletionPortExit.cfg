CONSTANTS
    Threads = {t1, t2}
    Packets = {p1, p2}
    Concurrency = {1}
    DefaultConcurrency = 2
SPECIFICATION Spec
INVARIANT ExitedHoldsNoSlot
CHECK_DEADLOCK FALSE
