SPECIFICATION IntakeSpec
CONSTANTS
    r1 = r1
    r2 = r2
    m1 = m1
    m2 = m2
    c1 = c1
    c2 = c2
    c3 = c3
    job = job
    NoRun = NoRun
    NoHandle = NoHandle
    NoMessage = NoMessage
    Runs = {r1, r2}
    JobHandles = {job}
    MaxGates = 2
    Messages = {m1, m2}
    Calls = {c1, c2, c3}
    HistoryLimit = 1
    MaxCrashes = 1
SYMMETRY Interchangeable
CHECK_DEADLOCK FALSE
PROPERTIES
    CallbackTakesEffect
    RedeliveryAgrees
    AskedBeforeAnswered
