SPECIFICATION ApiSpec
CONSTANTS
    Replica = {r1}
    Build <- MCBuild
    Version = {1, 2}
    Absent = "absent"
    Scan = {s1, s2}
    Forcing = {FALSE}
    FileCount = 3
    BatchSize = 2
    NoScan = NoScan
    NoReplica = NoReplica
INVARIANT ShutdownCancels
