SPECIFICATION Spec
CONSTANTS
    SCall = {s1, s2, s3}
    ACall = {}
    Spawn = {n1}
    Pool = {p1}
    Root = Root
    Main = Main
    Worker = Worker
    DefaultExecutor = DefaultExecutor
    None = None
    SyncProgram = {FALSE}
    Sensitive = {TRUE, FALSE}
    ForceNewLoop = {FALSE}
    UserRun = TRUE
    FreshContext = FALSE
    MaxCancels = 0
SYMMETRY Symmetry
CHECK_DEADLOCK FALSE
INVARIANTS
    NoSelfWait
