SPECIFICATION ServiceSpec
CONSTANTS
    Encoders = {e1, e2}
    MaxFaults = 3
    SourceBlocks <- MCBlocks
    MaxTokens = 2
    CharsPerToken = 4
    MinLookback = 3
    LookbackDivisor = 5
    MaxBlocks = 4
    BridgeEvents = {v1, v2, v3}
    WorkerEvents = {v4}
    QueueMax = 2
    Writers = {x1, x2}
    TraceIds = {t1, t2}
    AuditEvents = {"solved"}
    ReplayEvents = {"solved"}
    MaxLines = 2
    MaxWrites = 3
    MaxSpoilt = 1
    n1 = n1  n2 = n2  n3 = n3  i2 = i2  d1 = d1  d2 = d2
    Corpus <- MCCorpus
    IdOf <- MCIdOf
    Unusable = {n3}
    MaxTries = 2
    MaxRuns = 2
    MaxCleaned = 1
    NoFile = NoFile
    Bundles = {j1}
    MaxTriesPerBundle = 2
    MaxReingests = 2
    DocOrder <- MCDocOrder
    BusyTries = 2
    MaxMigrations = 2
    MaxUpdates = 1
    Same = Same
    MaxJobs = 2
INVARIANTS
    EventsTellTheChannel
    NoTextLost
    BudgetSlack
    BridgeLosesNothing
    TraceAnswersItsOwn
    QuietExitMeansIngested
    SkippedIsReingested
    MigratedMeansIndexed
    StopFailuresStayLocal
PROPERTIES
    GoodGpuIsUsed
    UnfitGpuIsLeft
    RetryDropsOnlyIngested
CHECK_DEADLOCK FALSE
