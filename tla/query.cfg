SPECIFICATION SideSpec
CONSTANTS
    ChunkCount = 3
    ScopeOf <- MCScopeOf
    HasQuery <- MCHasQuery
    WeightOf <- MCWeightOf
    Scopes <- MCScopes
    NoScope = NoScope
    RrfK = 2
    TopK = 3
    EvidenceRules <- MCEvidenceRules
    DirectRules <- MCDirectRules
    ActiveScopes <- MCActiveScopes
    None = None
    MaxBound = 3
    KelvinShift = 1
    HardLevel = 40
    MaxRules = 3
    TextTokens <- MCTokens
    Operators <- MCOperators
    Categories <- MCCategories
    ParamWords <- MCParamWords
    LevelOf <- MCLevelOf
    ScopeChoices <- MCScopeChoices
    BaseValue <- MCBaseValue
    BaseUnit <- MCBaseUnit
    ContextRadius = 3
    ParamRadius = 2
    MaxTextLength = 4
    Chunks <- MCChunks
    Requests = {r1, r2}
    Traces = {t1}
    QueryScopes <- MCQueryScopes
    TopKs = {1, 3}
    MaxChanges = 1
    MaxQueries = 2
    Texts = {"u", "v", "w"}
    EncodeThreads = {h1, h2}
    CacheCapacity = 1
    NoVector = NoVector
    TextBatches <- MCBatches
    Peers = {p1, p2}
    MaxRequests = 2
    WindowTicks = 2
    TableCapacity = 1
    LastTick = 3
    Watched = p1
INVARIANTS
    BlankOnlyWhenUnknown
    QuietAnswerHasOneVersion
    SolveIsTheIntersection
    FallbackIsMarked
    BoundsBelongToTheirParameter
    StrongestSourceStays
    ReplayOfUnchangedMatches
    OnlyTheScopeItselfCounts
    VectorsMatchTexts
    EncodeFailsOnlyInARace
    AtMostTwoWindows
CHECK_DEADLOCK FALSE
