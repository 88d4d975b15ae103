CONSTANTS
    Requests = {r1, r2, r3}
SPECIFICATION ClientFairSpec
INVARIANTS
    SocketLossIsNoticed
PROPERTIES
    EveryRequestSettles
