SPECIFICATION FairSpec
CONSTANTS
    MaxCalls = 4
    MaxSent = 2
CHECK_DEADLOCK FALSE
INVARIANTS
    TypeOK
    AppEnded
    NoStrayCancel
    CancelsTold
    ErrorNotHidden
    NothingMeansNothing
PROPERTIES
    TimedCallsReturn
