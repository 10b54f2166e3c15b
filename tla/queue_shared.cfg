SPECIFICATION FairSpec
CONSTANTS
    w1 = w1
    j1 = j1
    j2 = j2
    Worker = {w1}
    NoWorker = NoWorker
    Job = {j1, j2}
    MaxAttempts = 2
    Concurrency = 1
    MaxClaims = 2
    MaxDefers = 0
    Steady = {w1}
    Lapsing = {}
PROPERTIES
    EveryJobEnds
CHECK_DEADLOCK FALSE
