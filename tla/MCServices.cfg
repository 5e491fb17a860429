CONSTANTS
    AppTransactions <- MCAppTxs
    Manifests <- MCManifests
    RepairLimit = 1
    MaxChain = 3
    MaxApprovals = 2
    Lists <- MCLists
    Owners <- MCOwners
    GenesisCells <- MCLaunch
    Plan <- MCPlan
    TtlOk = 1
    TtlErr = 1
    MaxListedTx = 3
    MaxCells = 3
    MaxReorgs = 1
    MaxListClock = 1
    Nets <- MCNets
    OurBooks <- MCOurBooks
    TheirBooks <- MCTheirBooks
    Listings <- MCListings
    RequestCap = 5
    PageLimit = 1
    MaxRounds = 1
    CacheKeys = {"k", "g"}
    WarmKeys = {"g"}
    Workers = {w1, w2}
    Ttl = 1
    StaleMax = 1
    SweepAge = 2
    CacheMax = 1
    CacheKeep = 1
    MaxClock = 2
    MaxVersion = 1
    Fee = 2
    ContractFee = 1
    NetFee = 3
    Dust = 2
    Pledge = 1
    Values = {1, 5}
    Funds <- MCFunds
    Clients = {k1, k2}
    BucketCap = 2
    PerIp = 3
    Transitions = 1
    MaxTx = 4
    MaxCharges = 2
    MaxRefill = 1
    Positions <- MCPositions
    LegacyBlocks = 4
    BatchSize = 2
    ResponseCap = 2
    MaxRestarts = 2
    Listed = {"c", "d"}
    Urls = {"u", "v"}
    Arts = {"A", "B"}
    Recheck = 2
    RowsMax = 1
    ChangesMax = 1
    MaxHours = 3
    MaxEdits = 1
    MaxMishaps = 1
    MaxMediaLosses = 1
    Versions <- MCVersions
    InputShapes <- MCInputShapes
    OutputShapes <- MCOutputShapes
    InputCounts = {0, 1, 2}
    OutputCounts = {0, 1, 2, 3}
    FreeUnits = 1
    UnitsPer = 2
    WireMax = 2
    IoCap = 2
    ExecCap = 2
    ComputeLimit = 4
    TransientLimit = 7
    StorageLimit = 2
    TransientPer = 2
    MassParameter = 4
    MassMax = 7
    Ips = {"i"}
    Holders = {"a", "b"}
    Secrets = {"unset", "s"}
    ToolBucket = 2
    HourLength = 1
    IpPerHour = 1
    LanePerHour = 1
    PassLife = 1
    RowsKept = 1
    MaxTicks = 2
    MaxBoots = 1
    MaxTrades = 1
    MaxMints = 1
SPECIFICATION Spec
INVARIANTS
    AppRowsFollowCoins
    ListedFactsAreProven
    VerdictsAreTrue
    BodiesMoveForward
    WalletKept
    DoneMeansWhole
    ServedArtEarned
    VerdictsHold
    LaneWithinBounds
CHECK_DEADLOCK FALSE
