SPECIFICATION FairSpec
CONSTANTS
    all = all one = one a = a b = b
    Everything = Everything
    Clients = {all, one}
    Topics = {a, b}
    Filter <- MCFilter
    Batches <- MCBatches
    Buffer = 1
    PageSize = 2
    MaxStreams = 2
    MaxReplays = 1
    MaxLog = 3
    MaxSilent = 0
    MaxAgain = 0
    MaxBreaks = 1
INVARIANT SlotsAccounted
PROPERTIES
    IdsGrow
    EveryoneCatchesUp
\* A quiet chain leaves every stream waiting.
CHECK_DEADLOCK FALSE
