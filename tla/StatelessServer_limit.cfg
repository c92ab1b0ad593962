SPECIFICATION Spec
CONSTANTS
    ScopeId = {c1, c2}
    Instance = {i1, i2}
    MaxApplications = 1
    MaxTime = 0
    Suspends = {FALSE}
CHECK_DEADLOCK FALSE
INVARIANTS
    AtMostMax
