SPECIFICATION Spec
CONSTANTS
    SCall = {s1, s2}
    ACall = {a1, a2}
    Spawn = {}
    Pool = {p1}
    Root = Root
    Main = Main
    Worker = Worker
    DefaultExecutor = DefaultExecutor
    None = None
    SyncProgram = {FALSE}
    Sensitive = {TRUE}
    ForceNewLoop = {FALSE}
    UserRun = FALSE
    FreshContext = FALSE
    MaxCancels = 1
SYMMETRY Symmetry
CHECK_DEADLOCK FALSE
PROPERTIES
    CancelReachesChild
