CONSTANTS
    Processes = {web, cli}
    NoWriter = NoWriter
    Current = 10
    Tables <- MCTables
    BornWith <- MCBornWith
    EarlyColumns <- MCEarly
    LateColumns = {"subject_stable"}
    Origins <- MCOrigins
    MaxCrashes = 2
    Limits <- MCLimits
    Requests <- MCRequests
    AllowedHosts <- MCHosts
    AnyPort = AnyPort
    TokenConfigured = FALSE
    TicksPerSecond = 2
    CleanupInterval = 3
    MaxTicks = 6
    Connections = {c1, c2}
    NoOne = NoOne
    Data = {d1, d2}
    MaxOldRows = 1
    MaxBatch = 2
    MaxRows = 5
    Events <- MCEvents
    Sinces = {0, 2}
    ExportLimit = 3
    MaxRetries = 3
    MaxExports = 2
SPECIFICATION Spec
INVARIANTS
    MigratedWhole
    LimiterIsSlidingWindow
    ChainTypeOK
    ChainVerifies
    SinkTellsTruth
PROPERTIES
    StartedProcessesFinish
CHECK_DEADLOCK FALSE
