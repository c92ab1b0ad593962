SPECIFICATION FairSpec
CONSTANTS
    ScopeId = {c1, c2, c3}
    Instance = {i1, i2, i3}
    MaxApplications = 1
    MaxTime = 1
    Suspends = {TRUE, FALSE}
CHECK_DEADLOCK FALSE
INVARIANTS
    TypeOK
    AtMostMaxPlusOne
PROPERTIES
    LeastRecentlyUsed
    LostOnlyByStaleCopy
    EventuallyRemoved
