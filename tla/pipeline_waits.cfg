SPECIFICATION FairSpec
CONSTANTS
    p1 = p1
    c1 = c1
    c2 = c2
    r1 = r1
    library = library
    Photo = {p1}
    Library = library
    Stage = {"metadata", "phash"}
    Aggregate = {"similar"}
    Garbage = {p1}
    Fleeting = {p1}
    Client = {c1, c2}
    Patient = FALSE
    Run = {r1}
    NoRun = NoRun
    Stalling = {}
    MaxAttempts = 1
INVARIANT TypeOK
INVARIANT RebuildWaits
INVARIANT SucceededIsMarked
PROPERTY AggregatesEnd
CHECK_DEADLOCK FALSE
