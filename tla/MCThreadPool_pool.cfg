SPECIFICATION FairSpec
CONSTANTS
    Worker = {w1, w2, w3}
    Task = {t1, t2, t3}
    PoolInitWorkers = 1
    PoolMaxWorkers = 2
    SizeMod = 64
    NDEBUG = FALSE
    NoTask = NoTask
INVARIANT TypeOK
INVARIANT WorkerLimit
INVARIANT RegistryExact
INVARIANT NoLostWakeup
INVARIANT BusyWithinWorkers
INVARIANT JoinQuiesces
PROPERTY JoinWalksStableMap
PROPERTY ImplementsTaskPool
PROPERTY EveryTaskRuns
PROPERTY JoinTerminates
