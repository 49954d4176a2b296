CONSTANTS
    m = m
    a = a
    b = b
    e = e
    f = f
    NoJob = NoJob
    Port = Port
    Main = m
    Threads = {m, a}
    Objects = {e, f}
    Waits <- MCAny
    ApcTargets = {m, a}
    Jobs = {1, 2, 3}
    PoolSizes = {2}
    PacketLimit = 0
SPECIFICATION Spec
CHECK_DEADLOCK FALSE
INVARIANT RunSurvivesClose
