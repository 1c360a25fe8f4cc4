SPECIFICATION IntakeSpec
CONSTANTS
    r1 = r1
    r2 = r2
    m1 = m1
    c1 = c1
    c2 = c2
    job = job
    NoRun = NoRun
    NoHandle = NoHandle
    NoMessage = NoMessage
    Runs = {r1, r2}
    JobHandles = {job}
    MaxGates = 1
    Messages = {m1}
    Calls = {c1, c2}
    HistoryLimit = 1
    MaxCrashes = 0
CHECK_DEADLOCK FALSE
INVARIANT
    OneRunPerMessage
