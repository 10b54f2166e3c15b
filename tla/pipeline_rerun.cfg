SPECIFICATION Spec
CONSTANTS
    p1 = p1
    c1 = c1
    c2 = c2
    r1 = r1
    library = library
    Photo = {p1}
    Library = library
    Stage = {"hash"}
    Aggregate = {"duplicates"}
    Garbage = {}
    Fleeting = {}
    Client = {c1, c2}
    Patient = FALSE
    Run = {r1}
    NoRun = NoRun
    Stalling = {}
    MaxAttempts = 1
INVARIANT GroupsComplete
CHECK_DEADLOCK FALSE
