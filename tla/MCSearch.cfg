SPECIFICATION FairSpec
CONSTANTS
    Null = Null
    Sources <- MCSources
    Users <- MCUsers
    DefaultType = "A"
    pageSize = 2
    MaxInFlight = 2
    MaxTimers = 2
INVARIANTS
    TypeOK
    PageShown
    FormIsOfChosenProfile
    AutofillIsLatest
    NoRecordListedTwice
    OneWindowAtATime
PROPERTIES
    SpinnerEnds
CHECK_DEADLOCK FALSE
