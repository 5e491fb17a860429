SPECIFICATION FairSpec
CONSTANTS
    Requests = {r1, r2, r3}
    Capacity = 2
    NoRequest = NoRequest
INVARIANTS
    FailedCallChangedNothing
    AppliedExactlyOnce
PROPERTY EveryCallReturns
CHECK_DEADLOCK FALSE
