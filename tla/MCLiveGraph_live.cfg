SPECIFICATION FairSpec
CONSTANTS
    a = a
    b = b
    z = z
    e1 = e1
    e2 = e2
    Tasks = {a, b}
    Terminals = {}
    SideEffects = {a}
    JobTasks = {a}
    Executors = {e1, e2}
    Handles <- MCHandles
    NoHandle = NoHandle
    Patches = {}
    MaxJournal = 12
    MaxWorkers = 2
    MaxNew = 2
    MaxNodes = 4
    MaxCrashes = 1
    Overlap = TRUE
    ReviewFails = FALSE
CHECK_DEADLOCK FALSE
PROPERTIES
    ReplayAnswers
    ExecutorsEnd
