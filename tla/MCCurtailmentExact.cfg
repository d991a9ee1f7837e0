\* As MCCurtailment.cfg, for the exact reserve.
SPECIFICATION CarefulSpec
CHECK_DEADLOCK FALSE
CONSTANTS
    Calls = {c1, c2}
    Percents = {100, 101}
    Kilowatts = {}
    TouModes = {}
    ForeignAsks <- OwnerAsks
    FactoryConfigs <- FractionalFactory
PROPERTY RestorePutsBackExactly
