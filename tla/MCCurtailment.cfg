\* One call at a time, lost replies, late writes, and an owner.
\* The system stops when every call has been made.
SPECIFICATION CarefulSpec
CHECK_DEADLOCK FALSE
CONSTANTS
    Calls = {c1, c2, c3, c4, c5}
    Percents = {100, 101}
    Kilowatts = {}
    TouModes = {}
    ForeignAsks <- OwnerAsks
    FactoryConfigs <- AnyFactory
SYMMETRY CallSymmetry
INVARIANTS
    TypeOK
    FlagTellsTheSettings
PROPERTIES
    RestorePutsBack
    SavesWhatItReplaces
