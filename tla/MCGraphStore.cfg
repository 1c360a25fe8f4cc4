SPECIFICATION Spec
CONSTANTS
    t1 = t1
    t2 = t2
    t3 = t3
    h1 = h1
    NoHandle = NoHandle
    Tasks = {t1, t2, t3}
    Handles = {h1}
    Patches <- MCPatches
    MaxEdges = 1
    PatchSize = 2
    MaxJournal = 6
SYMMETRY TaskSymmetry
CHECK_DEADLOCK FALSE
INVARIANTS
    GraphSound
    NoStructuralDeadlock
    FinishedIsQuiet
    JournalSound
PROPERTIES
    DecisionsStand
    ImplementsLedger
