CONSTANTS
    Hosts = {h1}
    Workers = {w1}
    Limit = 3
SPECIFICATION FairSpec
INVARIANTS
    NoLostWake
PROPERTY CompletionRuns
CHECK_DEADLOCK FALSE
