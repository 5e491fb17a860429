SPECIFICATION Spec
CONSTANTS
    all = all one = one a = a b = b
    Everything = Everything
    Clients = {all, one}
    Topics = {a, b}
    Filter <- MCFilter
    Batches <- MCBatches
    Buffer = 2
    PageSize = 2
    MaxStreams = 1
    MaxReplays = 1
    MaxLog = 4
    MaxSilent = 1
    MaxAgain = 1
    MaxBreaks = 1
INVARIANTS
    NoGapUnlessSilent
    SlotsAccounted
\* A quiet chain leaves every stream waiting.
CHECK_DEADLOCK FALSE
