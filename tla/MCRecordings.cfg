CONSTANTS
    b1 = b1
    b2 = b2
    Tasks = {t1, t2}
    BackendOrder <- MCBackendOrder
    FileOrder <- MCFileOrder
    PathPrefixes <- MCPathPrefixes
    Jobs <- MCJobs
    pageLimit = 2
    MaxAgents = 1
    MaxStarts = 1
    StartPaths <- MCStartPaths
    StoredAtFirst <- MCStoredAtFirst
SYMMETRY Symmetry
SPECIFICATION Spec
INVARIANTS
    RequestsReachTheirFile
    ListsAreComplete
    TempDirsGo
