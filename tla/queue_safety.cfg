SPECIFICATION Spec
CONSTANTS
    w1 = w1
    w2 = w2
    j1 = j1
    Worker = {w1, w2}
    NoWorker = NoWorker
    Job = {j1}
    MaxAttempts = 2
    Concurrency = 2
    MaxClaims = 3
    MaxDefers = 1
    Steady = {w2}
    Lapsing = {}
INVARIANTS
    TypeOK
    LeaseNamesLatestClaimant
    WithinConcurrency
    AttemptsBounded
    DeadIsEarned
    OneRecordedSuccess
PROPERTIES
    TerminalIsFinal
    LiveLeaseIsExclusive
    ImplementsContract
CHECK_DEADLOCK FALSE
