SPECIFICATION LiveSpec
CONSTANTS
    a = a
    b = b
    z = z
    e1 = e1
    e2 = e2
    e3 = e3
    Tasks = {a, b, z}
    Terminals = {z}
    SideEffects = {a}
    JobTasks = {a}
    Executors = {e1, e2, e3}
    Handles <- MCHandles
    NoHandle = NoHandle
    Patches = {}
    MaxJournal = 40
    MaxWorkers = 2
    MaxNew = 3
    MaxNodes = 4
    MaxCrashes = 2
    Overlap = FALSE
    ReviewFails = FALSE
SYMMETRY ExecutorSymmetry
CHECK_DEADLOCK FALSE
INVARIANTS
    NobodyRaises
PROPERTIES
    EveryOutcomePlanned
