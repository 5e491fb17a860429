CONSTANTS
    Lists <- MCLists
    Owners <- MCOwners
    GenesisCells <- MCGenesis
    Plan <- MCPlan
    TtlOk = 2
    TtlErr = 1
    MaxListedTx = 1
    MaxCells = 4
    MaxReorgs = 0
    MaxListClock = 1
SPECIFICATION ListedSpec
INVARIANT RegistryServed
CHECK_DEADLOCK FALSE
