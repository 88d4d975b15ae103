CONSTANTS
    Legs = {l1}
    Conns = {c1}
    NoConn = NoConn
    Bases = {1, 2}
    CallIds = {1, 2, 3, 4}
    Candidates <- MCCandidates
    NoId = NoId
    NoLeg = NoLeg
    Requests = {r1}
    CallIdReuse = TRUE
SPECIFICATION Spec
INVARIANTS
    CallHasOwner
