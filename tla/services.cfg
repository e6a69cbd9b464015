SPECIFICATION ServicesSpec
CONSTANTS
    Services = {"batches", "memory", "community", "credentials", "prices",
                "registry", "incumbents", "ratings", "accounts", "solvers", "charges", "offers"}
    node = node
    pool = pool
    ep = ep
    k1 = k1
    ItemOrder <- MCItemOrder
    BatchOf <- MCBatchOf
    Unpriced = {}
    BatchWorkers = {w1}
    Retail <- MCRetail
    Offers <- MCOffers
    Usage <- MCUsage
    LossBudget = 4
    MaxBatchRuns = 2
    OutlivesWait = TRUE
    MaxStops = 1
    Notes = {1, 2}
    Texts = {"a", "b", "c"}
    SameMeaning <- MCSame
    Disagree <- MCDisagree
    MaxChanges = 3
    CommunityRequests = {1, 2, 3}
    CommunityOfferSet = {pool, ep}
    Endpoints = {ep}
    Pooled = {pool}
    SellerOf <- MCSellerOf
    PersonOf <- MCPersonOf
    FreeRequests = {1, 2}
    Concurrency = 1
    Earning <- MCEarning
    DailyCap = 3
    FirstStatus <- MCFirst
    MaxAging = 1
    KeyRuns = {k1}
    Keys = {1, 2}
    FirstRows <- MCFirstRows
    BookWorkers = {w1}
    PriceFields = {"in", "out"}
    Listings <- MCListings
    FirstListing <- MCFirstListing
    Threshold = 20
    ChangeIds = {1, 2}
    MaxBookFaults = 1
    RegistryKeys = {"template"}
    RouteKeys = {}
    Fields = {"prompt", "route"}
    Values = {"old", "new"}
    Editors = {1, 2}
    FirstCode <- MCFirstCode
    MaxVersions = 2
    MaxDeploys = 2
    RouteRequests = {1, 2, 3}
    RouteOffers = {"x", "y", "z"}
    StreakToSwitch = 2
    Ratings = {1, 2}
    Sparse = {1}
    Deliveries = {1, 2}
    UseRuns = {1, 2, 3, 4}
    PersonOfRun <- MCPersonOfRun
    AllowanceOf <- MCAllowanceOf
    AccountsAlone = 1
    Solvers = {1, 2}
    Challenges = {1, 2}
    PerMillion = 4
    Cards <- MCCards
    MaxCosts = {4, 7}
    Tokens = {0, 2, 3}
    MenuOffers = {"cheap", "near", "strong", "host", "byok", "adult", "stub"}
    Facts <- MCFacts
    Asks <- MCAsks
    Placements <- MCPlacements
    MayBeUnfit = {"cheap"}
    PinnedOrder <- MCPinned
    Authority = "strong"
    FreeCeiling = 10
    StubFallback = TRUE
    WithEvidence = TRUE
    MaxTries = 2
INVARIANTS ServicesTypeOK LossIsWritten  EarnedFairly NeverSilent KeyIsLatest UsedWithConsent
INVARIANTS SwitchIsEarned NewestRating FreeIsMetered ChargeIsHeld 
PROPERTIES AnswerStays FailedStays HistoryHolds
\* Every item may be answered, and every person silent.
CHECK_DEADLOCK FALSE
