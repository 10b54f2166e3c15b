SPECIFICATION ApiSpec
CONSTANTS
    Replica = {r1, r2}
    Build <- MCBuild
    Version = {1, 2}
    Absent = "absent"
    Scan = {s1, s2}
    Forcing = {TRUE, FALSE}
    FileCount = 3
    BatchSize = 2
    NoScan = NoScan
    NoReplica = NoReplica
INVARIANTS ApiTypeOK MigratesOnce ServesMigrated OneScan OpenRowExplained StopIsFinal CompleteMeansAll
PROPERTY ScanMarkEnds
