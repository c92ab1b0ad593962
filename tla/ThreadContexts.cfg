SPECIFICATION FairSpec
CONSTANTS
    MaxWrites = 2
    Programs <- MCPrograms
    MaxEnters = 2
    Keys = {a, b}
CHECK_DEADLOCK FALSE
INVARIANTS
    TypeOK
    OneThread
    ExitWaits
    Isolated
PROPERTIES
    SharedAcross
    Terminates
