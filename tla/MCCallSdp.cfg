CONSTANTS
    Legs = {l1, l2}
    Conns = {c1}
    NoConn = NoConn
    Bases = {1, 2}
    CallIds = {1, 2, 3, 4}
    Candidates <- MCCandidates
    NoId = NoId
    NoLeg = NoLeg
    Requests = {r1}
    CallIdReuse = FALSE
    Reinvites = {m1}
    NoReinvite = NoReinvite
SPECIFICATION FairSdpSpec
INVARIANTS
    ReinvitesConcernTheirCall
    NoForgottenDialog
    TerminatedMeansDown
PROPERTIES
    QuietStopCutsNobodyOff
    OwnerGoneEndsOutbound
