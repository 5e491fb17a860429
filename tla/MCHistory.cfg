CONSTANTS
    Blocks <- MCBlocks
    NoBlock <- MCNoBlock
    Path <- MCPath
    Daa <- MCDaa
    Weight <- MCDaa
    Txs <- MCTxs
    Accepted <- MCAccepted
    Coins <- MCCoins
    Covenants = {1, 2, 3}
    Inputs <- MCInputs
    Outputs <- MCOutputs
    CovenantOf <- MCCovenantOf
    ProvesGenesis <- MCProvesGenesis
    AppTxs = {}
    Sink = 8
    DeadTip = 9
    MinGap = 2
    BatchLen = 2
    NodeBodies <- MCBodies
    Anchors = {1, 2, 3}
    Windows <- MCWindows
    MaxResets = 1
    MaxRuns = 2
    Shapes <- MCShapes
    Worlds <- MCWorlds
    Market = "m"
    Quantum = 1
    GrowthPpm = 10
    MinExercised = 2
    MinQuote = 2
    BucketTime = 2
    MaxInt = 5
    MaxTxs = 3
    MaxIns = 2
    MaxPinTxs = 1
    Builds = {1, 2, 3}
    Version <- MCVersion
    Items = {1, 2, 3, 4, 5}
    Column <- MCColumn
    Owner <- MCOwner
    NamedFrom <- MCNamedFrom
    LocatedFrom <- MCLocatedFrom
    Rereads = {1, 2, 3, 4}
    Legacy = {1, 2, 5}
    ReadBatch = 1
    MaxOpens = 3
    MaxStoreFaults = 1
    Rollbacks = FALSE
    PTxs = {"a", "b"}
    Conflicts <- MCConflicts
    MaxPending = 1
    Grace = 1
    MaxAge = 2
    MaxTick = 2
    MaxFaults = 1
    HookEvents <- MCHookEvents
    HookRequests <- MCHookRequests
    HookQueue = 1
    MaxFailures = 2
    MaxHooks = 2
    MaxPublished = 3
    MaxHookFaults = 1
    PageSizes = {1, 2}
    StorePage = 3
    MaxRecords = 4
    MaxGrids = 1
    Walked = {"grid", "directory", "trades", "holders", "tokenTrades", "eventsUp", "eventsDown", "outputs", "failures", "markets"}
    RowIds = {1, 2, 3, 4}
    Places = {1, 2}
    TokenOf <- MCTokenOf
    MaxLimit = 2
    MaxWrites = 1
    ListRequests = {"l1", "l2"}
    PooledRequests = {"p1", "p2"}
    MaxReaders = 1
    FileSteps = 2
    FreshOk = "no"
    MaxCommits = 1
    MaxLosses = 1
SPECIFICATION Spec
INVARIANTS
    HistoryRestored
    RowIsCurrent
    VerdictsProven
    PriceRestsOnReplay
    CandlesRestOnReplay
    GatesTellTruth
    EndsAreTold
    RetiredForCause
    PollsSkipNothing
    
    ArchiveKept
PROPERTIES
    KnownKindsStay
CHECK_DEADLOCK FALSE
