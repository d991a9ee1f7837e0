\* Three tasks, one call each: a task keeps nothing from one call to the next,
\* so these are any three calls.  The system stops when all have ended.
SPECIFICATION FairSpec
CHECK_DEADLOCK FALSE
CONSTANTS
    Tasks = {t1, t2, t3}
    NoTask = NoTask
    MaxCalls = 1
    MaxTokens = 3
    MaxRevocations = 2
    Refusals <- OneRefusal
INVARIANTS
    TypeOK
    OneLoginInFlight
    CachedTokenIsNewest
    ConnectLoginsAreShared
    OneRetryHealsARevocation
    LocksAreServed
PROPERTY EveryCallEnds
