SPECIFICATION Spec
CONSTANTS
    n1 = n1
    n2 = n2
    plan = plan
    Nodes = {n1, n2}
    Planner = plan
    Surface = {n1, n2}
    Rungs = 3
    Price <- MCPrice
    Requested <- MCRequested
    Excess = 1
    Total = 6
    Headroom = 2
    Reserve = 1
    DowngradeAt = 4
    RefuseAt = 5
    MaxRunCalls = 2
    MaxNodeCalls = 1
    MaxWorkers = 2
    MaxResumes = 1
SYMMETRY NodeSymmetry
CHECK_DEADLOCK FALSE
INVARIANTS
    OverspendBounded
    CallsBounded
