SPECIFICATION FollowerFairSpec
CONSTANTS
    g = g a1 = a1 a2 = a2 a3 = a3 b2 = b2 b3 = b3
    make1 = make1 move1 = move1 burn1 = burn1 make2 = make2
    c1 = c1 c2 = c2 c3 = c3
    NoBlock = NoBlock
    Blocks <- MCBlocks
    Path <- MCPath
    Daa <- MCDaa
    Weight <- MCWeightOneWay
    Txs <- MCTxs
    Accepted <- MCAccepted
    Coins <- MCCoins
    Covenants = {1, 2}
    Inputs <- MCInputs
    Outputs <- MCOutputs
    CovenantOf <- MCCovenantOf
    ProvesGenesis <- MCProvesGenesis
    AppTxs = {move1}
    Root = g
    NodeViews <- MCStrandingView
    CheckpointEvery = 2
    WedgeLag = 0
    Answers = {"refuse", "empty"}
    ProjectionChunk = 8
    MaxFailures = 1
    MaxSwitches = 1
    ErrorLimit = 2
    WedgePasses = 2
PROPERTY StrandedCursorRecovers
