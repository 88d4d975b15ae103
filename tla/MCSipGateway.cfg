CONSTANTS
    Legs = {l1, l2}
    Conns = {c1, c2}
    NoConn = NoConn
    Bases = {1, 2}
    CallIds = {1, 2, 3, 4}
    Candidates <- MCCandidates
    NoId = NoId
    NoLeg = NoLeg
    Requests = {r1}
    CallIdReuse = TRUE
SPECIFICATION Spec
SYMMETRY Symmetry
INVARIANTS
    CallIdNamesOneLeg
    OneFinalResponse
    TerminalEventExactlyOnce
    OutboundCallHasOwner
    CancelTakesEffect
PROPERTIES
    KeepsPromise
