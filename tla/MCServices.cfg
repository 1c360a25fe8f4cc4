SPECIFICATION ServicesSpec
CONSTANTS
    page = page
    api = api
    node = node
    guide = guide
    source = source
    sourceDotted = sourceDotted
    judge = judge
    judgeDotted = judgeDotted
    Absent = Absent
    NoLease = NoLease
    Readers = {page, api}
    Page = {page}
    ResultNodes = {node}
    MaxEntries = 4
    MaxLosses = 2
    Documents = {guide}
    Contents = {1, 2}
    Fingerprints = {"nomic", "other"}
    MaxRecords = 3
    MaxChunks = 2
    MaxVersions = 3
    MaxDeaths = 1
    Coders = {"r1", "r2"}
    Names = {source, sourceDotted, judge, judgeDotted}
    Files = {source, judge}
    Denotes <- TwoNames
    Protected = {judge}
    Pieces = {"x", "y"}
    Bodies <- WholeBodies
    Ticks = {1, 2, 3}
    ProcessOf <- OneProcess
    Ttl = 2
    MaxTime = 5
CHECK_DEADLOCK FALSE
INVARIANTS
    ShownIsTrue
    RecordsStand
    SidecarAgrees
    NoOverlap
PROPERTIES
    ChangesAreInformed
    ReadersAreTold
