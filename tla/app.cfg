SPECIFICATION Spec
CONSTANTS
    none = none
    Parts = {"api", "gateway", "lists", "wallet", "browsing", "transactions", "feed", "errors"}
    Client = {c1, c2}
    Key = {k1, k2}
    Ttl = 2
    MaxEntries = 1
    LoadLimit = 1
    Window = 2
    MaxPerWindow = 2
    MaxBuckets = 2
    MaxTime = 3
    Requests <- Uploads
    MaxRequests = 3
    MaxPins = 1
    Address = {1, 2}
    MaxLimit = 2
    DefaultLimit = 1
    MaxStored = 2
    MaxScan = 2
    MaxLog = 4
    malformed = malformed
    Throwable <- Failures
    Account = {alice, bob}
    MaxEvents = 5
    MaxSteps = 1
    MaxRuns = 3
    MaxWrites = 2
    MaxFlows = 2
    TimeBound = 1
    Lag = 1
    MaxPolls = 3
    Interval = 1
    MaxShown = 2
    PollInterval = 1
    MaxLedger = 2
    MaxEmitted = 3
    MaxWaiting = 3
INVARIANTS
    TypeOK
    BoundedStaleness
    LimitHolds
    PinnedDocumentsReadBack
    VerifiedMeansSame
    PagesCoverList
    DisconnectSticks
    BalanceIsOfAddress
    LatestIsShown
    ReportsAreTrue
    FeedKeepsAnswers
    MostSpecificCode
PROPERTIES
    ReadsAdvance
    PollingEnds
CHECK_DEADLOCK FALSE
