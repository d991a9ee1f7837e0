\* Up to five rows, one change between the requests.  The system stops when the
\* site has changed and everything is read.
SPECIFICATION Spec
CHECK_DEADLOCK FALSE
CONSTANTS
    Sites <- AnySite
    NoSite = NoSite
    MaxChanges = 1
INVARIANTS
    TypeOK
    NoRowTwice
    EveryRowRead
    DinOfTheRow
    NoPackDropped
    OwnBattery
    ReserveReadsBack
    LevelFitsTheReserve
