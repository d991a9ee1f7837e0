\* A curtail that raised is tried again.
SPECIFICATION RetrySpec
CHECK_DEADLOCK FALSE
CONSTANTS
    Calls = {c1, c2, c3}
    Percents = {100, 101}
    Kilowatts = {}
    TouModes = {}
    ForeignAsks <- OtherAsks
    FactoryConfigs <- WholeFactory
PROPERTY RestorePutsBack
