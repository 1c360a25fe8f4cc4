SPECIFICATION LiveSpec
CONSTANTS
    a = a
    b = b
    z = z
    e1 = e1
    Tasks = {a, b, z}
    Terminals = {z}
    SideEffects = {a}
    JobTasks = {a}
    Executors = {e1}
    Handles <- MCHandles
    NoHandle = NoHandle
    Patches = {}
    MaxJournal = 40
    MaxWorkers = 2
    MaxNew = 2
    MaxNodes = 4
    MaxCrashes = 0
    Overlap = FALSE
    ReviewFails = FALSE
CHECK_DEADLOCK FALSE
INVARIANTS
    FinishedOrWaiting
