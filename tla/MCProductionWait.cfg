CONSTANTS
    m = m
    a = a
    b = b
    e = e
    f = f
    NoJob = NoJob
    Port = Port
    Main = m
    Threads = {m, a}
    Objects = {e}
    Waits <- MCWaits
    ApcTargets = {m}
    Jobs = {1, 2, 3}
    PoolSizes = {1, 2}
    PacketLimit = 2
SPECIFICATION FairSpec
CHECK_DEADLOCK FALSE
INVARIANT JobAccountedOnce
INVARIANT NoStrandedWait
INVARIANT LossBounded
PROPERTY TimedWaitReturns
PROPERTY DropReturns
