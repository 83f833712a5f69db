SPECIFICATION HostSpec
CONSTANTS
    Nobody = Nobody
    Shops = {kk, tt}
    Free = {kk}
    Watchdog = ww
    Deploy = dd
    Versions = 3
    Unreadable = {2}
    Malformed = {3}
    MaxTries = 2
    MaxAhead = 1
    MaxRuns = 1
    MaxTroubles = 1
    Pages = {1, 2, 3, 4}
    Spared = 2
    Rounds = 2
    ScanSize = 2
    ReadSize = 2
    OneIn = 2
    Jobs = {1, 2}
    MaxAttempts = 2
    MaxOffers = 2
    Thin = {}
    Poor = {2}
    Weeks = 2
    Releases = 2
    WarmShadow = TRUE
    MaxWarm = 1
    MaxSlips = 1
    Configs = 2
    Histories <- Lives
    MaxWaiting = 3
    MaxTwice = 1
    MaxStops = 1
INVARIANTS
    HostTypeOK
    PaidAlone
    FailedOnce
    ReadInFull
    EvidenceMatches
    OpenIsProven
PROPERTIES
    StagedIsPublished
    BacklogEnds
    EngineRecovers
    ProvenInTheEnd
CHECK_DEADLOCK FALSE
