CONSTANTS
    Conns = {c1, c2}
    NoConn = NoConn
    exact = exact
    prefix = prefix
    deskPhone = deskPhone
    otherPhone = otherPhone
    Keys = {exact, prefix}
    Dests = {deskPhone, otherPhone}
    RouteLists <- MCRouteLists
    Matching <- MCMatching
    Requests = {r1, r2}
    Sessions = {s1}
    MaxEvents = 1
SPECIFICATION FairSpec
INVARIANTS
    OneOwnerPerRoute
    SettledOnce
    EveryOwnerIsTold
PROPERTIES
    EveryRequestSettles
