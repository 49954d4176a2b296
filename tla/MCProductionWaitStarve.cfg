CONSTANTS
    m = m
    a = a
    b = b
    e = e
    f = f
    NoJob = NoJob
    Port = Port
    Main = m
    Threads = {m, a, b}
    Objects = {e}
    Waits <- MCEndlessWaits
    ApcTargets = {m, a, b}
    Jobs = {1, 2, 3, 4}
    PoolSizes = {1}
    PacketLimit = 0
SPECIFICATION FairSpec
CHECK_DEADLOCK FALSE
PROPERTY ApcEndsWait
