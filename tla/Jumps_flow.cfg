SPECIFICATION Spec
CONSTANTS
    Programs <- mc_flow
    Statements <- mc_statements
    Exprs <- mc_exprs
    Labels = {l1, l2}
    Allowed = {}
CHECK_DEADLOCK FALSE
INVARIANTS
    FollowsSource
    ChainsPartition
    SuppressedUnreachable
    CleanedOnce
