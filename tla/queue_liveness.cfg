SPECIFICATION FairSpec
CONSTANTS
    w1 = w1
    w2 = w2
    j1 = j1
    Worker = {w1, w2}
    NoWorker = NoWorker
    Job = {j1}
    MaxAttempts = 1
    Concurrency = 1
    MaxClaims = 3
    MaxDefers = 1
    Steady = {w1}
    Lapsing = {w2}
PROPERTIES
    EveryJobEnds
    OrphansAreReclaimed
    CrashIsNoticed
CHECK_DEADLOCK FALSE
