\* One command of the event family on a gateway that answers nothing but what
\* was asked for, or does not answer.
SPECIFICATION SiteSpec
CHECK_DEADLOCK FALSE
CONSTANTS
    Calls = {c1}
    NoCall = NoCall
    Others = Others
    TTL = 1
    Lag = 0
    MinBackup = 1
    MaxDuration = 1
    Asked = {1}
    MaxTime = 1
    Together = {{"event"}}
    Mishaps = {}
INVARIANT UnavailableFallsThrough
