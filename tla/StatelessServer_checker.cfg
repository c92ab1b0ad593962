SPECIFICATION Spec
CONSTANTS
    ScopeId = {c1}
    Instance = {i1}
    MaxApplications = 1
    MaxTime = 0
    Suspends = {FALSE}
CHECK_DEADLOCK FALSE
INVARIANTS
    CheckerSurvives
