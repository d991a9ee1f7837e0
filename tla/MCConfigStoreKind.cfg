\* Three racing calls, nothing lost, nobody else writing.
\* The system stops when every call has ended.
SPECIFICATION KindSpec
CHECK_DEADLOCK FALSE
CONSTANTS
    Calls = {c1, c2, c3}
    Percents = {20, 101}
    Kilowatts = {2}
    TouModes = {"economic", ""}
    Asks <- RaceAsks
    ForeignAsks <- NoAsks
    FactoryConfigs <- Factories
INVARIANT LoserHasWinner
PROPERTY EveryCallEnds
