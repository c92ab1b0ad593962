SPECIFICATION FairSpec
CONSTANTS
    SCall = {s1, s2, s3}
    ACall = {a1, a2}
    Spawn = {}
    Pool = {p1, p2, p3}
    Root = Root
    Main = Main
    Worker = Worker
    DefaultExecutor = DefaultExecutor
    None = None
    SyncProgram = {TRUE, FALSE}
    Sensitive = {TRUE, FALSE}
    ForceNewLoop = {TRUE, FALSE}
    UserRun = FALSE
    FreshContext = FALSE
    MaxCancels = 0
CHECK_DEADLOCK FALSE
INVARIANTS
    CurrentIsOwn
PROPERTIES
    EveryCallReturns
