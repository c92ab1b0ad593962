SPECIFICATION Spec
CONSTANTS
    SCall = {s1, s2}
    ACall = {a1, a2}
    Spawn = {n1}
    Pool = {p1}
    Root = Root
    Main = Main
    Worker = Worker
    DefaultExecutor = DefaultExecutor
    None = None
    SyncProgram = {TRUE, FALSE}
    Sensitive = {TRUE}
    ForceNewLoop = {TRUE, FALSE}
    UserRun = TRUE
    FreshContext = TRUE
    MaxCancels = 1
SYMMETRY Symmetry
CHECK_DEADLOCK FALSE
INVARIANTS
    TypeOK
    SameThread
    CurrentRestored
    NeverLeftBehind
    TaskContextLive
PROPERTIES
    ContextKept
