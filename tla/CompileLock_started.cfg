SPECIFICATION StartedSpec
CONSTANTS
    NULL = NULL
    t1 = t1
    t2 = t2
    Threads = {t1, t2}
    Opts <- MCOpts
    MaxCalls = 2
    MaxBody = 2
    MallocFails = TRUE
INVARIANTS
    MutualExclusion
    GlobalsOwned
    CleanWhenFree
    ResultMatchesErrors
    WarnOptionConsumed
PROPERTY WaiterGetsIn
