SPECIFICATION FairSpec
CONSTANTS
    Executor = {e1, e2}
    Item = {i1, i2}
    Thread = {t1, t2}
    None = None
CHECK_DEADLOCK FALSE
INVARIANTS
    TypeOK
    NoStrandedWork
    NoLostWakeup
    HeldOnce
    ClosestRunning
    QuitOnlyIfChainBroken
PROPERTIES
    EverySubmitSettles
    EveryCallReturns
    ImplementsContract
