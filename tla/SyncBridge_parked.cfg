SPECIFICATION Spec
CONSTANTS
    SCall = {s1}
    ACall = {a1}
    Spawn = {n1}
    Pool = {p1}
    Root = Root
    Main = Main
    Worker = Worker
    DefaultExecutor = DefaultExecutor
    None = None
    SyncProgram = {FALSE}
    Sensitive = {TRUE}
    ForceNewLoop = {FALSE}
    UserRun = FALSE
    FreshContext = FALSE
    MaxCancels = 0
SYMMETRY Symmetry
CHECK_DEADLOCK FALSE
INVARIANTS
    NeverParkedForever
