SPECIFICATION Spec
CONSTANTS
    x = x
    y = y
    Names = {x, y}
    Anon = Anon
    MaxSyms = 7
    MaxDepth = 3
    Programs <- MCPrograms
CHECK_DEADLOCK FALSE
SYMMETRY Symmetry
INVARIANTS
    PoolPartition
    ChainsLive
    GlobalsFound
PROPERTY ImplementsScopes
