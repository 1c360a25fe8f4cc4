SPECIFICATION Spec
CONSTANTS
    e1 = e1
    e2 = e2
    s1 = s1
    s2 = s2
    Events = {e1, e2}
    Subs = {s1, s2}
    Slots = 2
    HistoryLimit = 1
    MaxRuns = 1
    DailyBudget = 1
    PerRun = 1
    TriageBudget = 1
    GateCost = 1
    MaxDay = 2
    MaxCrashes = 1
SYMMETRY EventSymmetry
CHECK_DEADLOCK FALSE
INVARIANTS
    CeilingsHold
    OneRunPerEvent
PROPERTIES
    DecisionKept
