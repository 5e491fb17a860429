SPECIFICATION Spec
CONSTANTS
    g = g a1 = a1 a2 = a2 a3 = a3 b2 = b2 b3 = b3
    make1 = make1 move1 = move1 burn1 = burn1 make2 = make2
    c1 = c1 c2 = c2 c3 = c3
    NoBlock = NoBlock
    Blocks <- MCBlocks
    Path <- MCPath
    Daa <- MCDaa
    Weight <- MCWeight
    Txs <- MCTxs
    Accepted <- MCAccepted
    Coins <- MCCoins
    Covenants = {1, 2}
    Inputs <- MCInputs
    Outputs <- MCOutputs
    CovenantOf <- MCCovenantOf
    ProvesGenesis <- MCProvesGenesis
    AppTxs = {move1}
    Root = g
    NodeViews <- MCFewViews
    CheckpointEvery = 2
    WedgeLag = 2
    Answers = {"refuse"}
    ProjectionChunk = 8
    MaxFailures = 1
    MaxSwitches = 1
INVARIANTS
    ChainInv
    LogReplaysToIndex
    LogInOrder
    TablesAgree
    ApplyNeverRefused
    CompleteUnlessFailed
PROPERTY ServesOneChain
