CONSTANTS
    Threads <- MCThreads
    Chunks <- MCChunks
    Sizes = {1, 2}
    Envs = {"a", "b"}
    ReuseSize = 1
    MaxDepth = 2
    MaxOps = 9
    HeapOps = 5
    Deviations = {}
SPECIFICATION MCSpec
INVARIANTS RegionsKnown AccessesJudged
CHECK_DEADLOCK FALSE
