SPECIFICATION Spec
CONSTANTS
    p1 = p1
    c1 = c1
    c2 = c2
    r1 = r1
    r2 = r2
    library = library
    Photo = {p1}
    Library = library
    Stage = {"hash"}
    Aggregate = {"duplicates"}
    Garbage = {}
    Fleeting = {}
    Client = {c1, c2}
    Patient = TRUE
    Run = {r1, r2}
    NoRun = NoRun
    Stalling = {"hash", "duplicates"}
    MaxAttempts = 2
INVARIANT GroupsComplete
CHECK_DEADLOCK FALSE
