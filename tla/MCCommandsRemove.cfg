\* One removal of a key.
SPECIFICATION SiteSpec
CHECK_DEADLOCK FALSE
CONSTANTS
    Calls = {c1}
    NoCall = NoCall
    Others = Others
    TTL = 1
    Lag = 0
    MinBackup = 1
    MaxDuration = 1
    Asked = {1}
    MaxTime = 1
    Together = {{"other"}}
    Mishaps = {"fault"}
PROPERTY FaultsStillRaise
