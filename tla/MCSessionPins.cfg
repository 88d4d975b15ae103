CONSTANTS
    Sessions = {s1, s2}
    Conns = {c1}
    NoConn = NoConn
    Endpoints = {e1, e2}
    NoEndpoint = NoEndpoint
    NoSession = NoSession
    Calls = {k1, k2}
    MaxDestroys = 1
    CallIds = {i1}
    Backends = {b1, b2}
    NoBackend = NoBackend
SPECIFICATION PinsSpec
SYMMETRY Symmetry
INVARIANTS
    EndpointsAreLinked
    DroppedSessionsAreReleased
    OrphansCameLate
    SessionsHoldOneReference
