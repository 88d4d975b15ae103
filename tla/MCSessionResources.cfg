CONSTANTS
    Sessions = {s1}
    Conns = {c1}
    NoConn = NoConn
    Endpoints = {e1}
    NoEndpoint = NoEndpoint
    NoSession = NoSession
    Calls = {k1}
    MaxDestroys = 1
    Recordings = {r1}
    Restarts = {q1, q2}
    NoRestart = NoRestart
SPECIFICATION FairResourcesSpec
INVARIANTS
    ResourcesFollowTheirSession
PROPERTIES
    RestartsAreShared
    StopEndsEverySession
