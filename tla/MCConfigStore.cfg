\* Three racing calls, a lossy network, late updates and the app.
SPECIFICATION Spec
CONSTANTS
    Calls = {c1, c2, c3}
    Percents = {20, 101}
    Kilowatts = {2}
    TouModes = {"economic", ""}
    Asks <- RaceAsks
    ForeignAsks <- AppAsks
    FactoryConfigs <- Factories
SYMMETRY CallSymmetry
INVARIANTS
    TypeOK
    OutcomeIsTrue
PROPERTIES
    OthersSettingsSurvive
    AtomicMerge
