CONSTANTS
    m = m
    a = a
    b = b
    e = e
    f = f
    NoJob = NoJob
    Port = Port
    Main = m
    Threads = {m, a, b}
    Objects = {}
    Waits <- MCJoin
    ApcTargets = {m, a, b}
    Jobs = {1, 2, 3, 4}
    PoolSizes = {2}
    PacketLimit = 0
SPECIFICATION Spec
CHECK_DEADLOCK FALSE
INVARIANT JoinLearnsOfExit
