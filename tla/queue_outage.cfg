SPECIFICATION FairSpec
CONSTANTS
    w1 = w1
    j1 = j1
    Worker = {w1}
    NoWorker = NoWorker
    Job = {j1}
    MaxAttempts = 1
    Concurrency = 1
    MaxClaims = 1
    MaxDefers = 0
    Steady = {w1}
    Lapsing = {w1}
PROPERTIES
    OutageIsRiddenOut
CHECK_DEADLOCK FALSE
