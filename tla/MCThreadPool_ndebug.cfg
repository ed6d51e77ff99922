SPECIFICATION Spec
CONSTANTS
    Worker = {w1, w2}
    Task = {t1, t2, t3}
    PoolInitWorkers = 1
    PoolMaxWorkers = 2
    SizeMod = 64
    NDEBUG = TRUE
    NoTask = NoTask
SYMMETRY Symmetry
INVARIANT RegistryExact
