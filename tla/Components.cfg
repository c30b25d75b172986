SPECIFICATION ComponentsSpec
CONSTANTS
    Components = {"RateHolds", "PoliteRequest", "RedditJobs", "Scheduling", "TextRetention", "RouteCursors", "StoryPage", "Maintenance", "Watchdog", "CycleJoin"}
    HoldRuns = {"r1", "r2"}
    Sources = {"s1", "s2"}
    SourceOf <- MCSourceOf
    Hosts = {"a", "b"}
    HostsOf <- MCHostsOf
    EntryOf <- MCEntryOf
    RedirectsTo <- MCRedirectsTo
    LastTick = 3
    LastLoad = 3
    Cap = 3
    ServerCap = 1
    NoTimeHold = 2
    StreakMax = 3
    EscalateWeak = 3
    EscalateStrong = 3
    EscalateAny = 3
    LimitAnswers <- MCLimitAnswers
    Fetchers = {"f1", "f2"}
    Origins = {"a", "b"}
    FirstOrigin <- MCFirstOrigin
    AllowedOrigins <- MCAllowedOrigins
    Credentialed = {"f2"}
    HeldOrigins = {{}, {"b"}}
    MaxRedirects = 1
    MaxRetries = 1
    RobotsHops = 2
    RobotsLife = 2
    Responses <- MCResponses
    LastTenth = 1
    LastRequest = 2
    RjProcs = {w1, w2}
    RjPosts = {"x"}
    BudgetCap = 2
    Reserve = 1
    LeaseUnits = 1
    EveryUnits = 2
    LastUnit = 2
    RjMaxCrashes = 1
    Passes = {p1, p2}
    SourceRoutes = {"feed", "api"}
    StaleRoute = "gone"
    GatedRoutes = {"api"}
    ReplacedBy <- MCReplacedBy
    PollOf <- MCPollOf
    BasePoll = 2
    SchEnvs <- MCEnvs
    NoApprover = "none"
    SchMaxChanges = 1
    TrPosts = {1, 2, 3, 4}
    TrSourceOf <- MCTrSourceOf
    TrSources <- MCTrSources
    TermsSources = {"reddit"}
    DemoSource = "demo"
    TrBatch = 1
    TrToEmbed = {1}
    TrToLabel = {1}
    TrWriters = {"retention", "recheck", "erasure", "compaction", "purge", "sampler", "import"}
    TrMaxStarts = 2
    TrMaxAborts = 1
    RcRuns = {n1, n2}
    RouteLists <- MCRouteLists
    KindOf <- MCKindOf
    MostUnits <- MCMostUnits
    PageSize = 1
    OutOfScope <- MCOutOfScope
    SpCities = {"rome", "oslo"}
    SpNoCity = "none"
    SpAnswers <- MCSpAnswers
    SpMaxLoads = 2
    SpMaxClicks = 2
    MtJobs = {"m1", "m2"}
    MtRows = {"a1", "a2", "b1", "b2"}
    MtDayOf <- MCMtDayOf
    MtDropped <- MCMtDropped
    MtBatch = 2
    MtChecks <- MCMtChecks
    MtYoung = 1
    MtMaxFaults = 1
    WdProbes <- MCProbes
    WdPolls = 3
    WdFaults = {"crash", "fail", "lost", "smtp"}
    WdMaxFaults = 3
    WdAttempts = 3
    MailsPerHour = 2
    HourPolls = 2
    Joiners = {"a", "b"}
    JoinClosers = {"c"}
    LastRow = 2
    Window = 1
    Grace = 1
    HardCap = 3
    LastNow = 4
    CjMaxFaults = 1
INVARIANTS EpisodesKept OpeningsMailed ComponentsTyped OneRunner RoomForCollection OnePassSettles NothingOutlivesText OrderedLocks NothingSkipped PageHonest SelectionAgrees MaintenanceKept OneJoinableCycle CountedWhileWorking
PROPERTIES NotTwice ClosedOnEvidence LedgerKept HoldHonoured RefusedFairly RobotsObeyed PoliteCalls RecheckThorough NoEcho RunIsThorough
VIEW InFocus
CHECK_DEADLOCK FALSE
