SPECIFICATION WarmSpec
CONSTANTS
    NULL = NULL
    t1 = t1
    t2 = t2
    Threads = {t1, t2}
    Opts <- MCOpts
    MaxCalls = 1
    MaxBody = 0
    MallocFails = FALSE
INVARIANT NoFreedFile
