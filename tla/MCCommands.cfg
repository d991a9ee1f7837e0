\* Two calls of one family among other writers; the gateway's clock a second
\* behind.  The system stops when the calls have ended and the clock is at its
\* bound.
SPECIFICATION SiteSpec
CHECK_DEADLOCK FALSE
CONSTANTS
    Calls = {c1, c2}
    NoCall = NoCall
    Others = Others
    TTL = 1
    Lag = 1
    MinBackup = 2
    MaxDuration = 1
    Asked = {0, 1, 2}
    MaxTime = 3
    Together <- OneFamily
    Mishaps = {"rejected", "unauthorized", "malformed"}
SYMMETRY CallSymmetry
INVARIANTS
    SiteTypeOK
    OutcomeIsTrue
    StaleSetpointEnds
    ResumeReleases
    EventStands
    TwiceOnlyUnanswered
    DoneStands
