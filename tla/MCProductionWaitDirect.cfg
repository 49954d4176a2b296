CONSTANTS
    m = m
    a = a
    b = b
    e = e
    f = f
    NoJob = NoJob
    Port = Port
    Main = m
    Threads = {m, a}
    Objects = {}
    Waits <- MCSleep
    ApcTargets = {m, a}
    Jobs = {1, 2, 3}
    PoolSizes = {2}
    PacketLimit = 0
SPECIFICATION FairSpec
CHECK_DEADLOCK FALSE
PROPERTY TimedWaitAlwaysReturns
