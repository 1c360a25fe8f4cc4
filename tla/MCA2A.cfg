SPECIFICATION FairBridgeSpec
CONSTANTS
    t1 = t1
    t2 = t2
    TaskIds = {t1, t2}
    Called = {t2}
    Nodes = {t1}
    PushAttempts = 2
    MaxCrashes = 1
    MaxDrops = 1
    MaxDeaths = 1
CHECK_DEADLOCK FALSE
INVARIANTS
    EndAnnounced
    ResultIsFinal
PROPERTIES
    EndStands
    TaskEnds
    NodeIsReleased
