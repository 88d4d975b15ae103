CONSTANTS
    Users = {k1, k2, k3}
    CallIds = {id1}
    b1 = b1
    b2 = b2
    Backends = {b1, b2}
    NoBackend = NoBackend
    both = both
    second = second
    stale = stale
    broken = broken
    Files = {both, second, stale, broken}
    NoFile = NoFile
    Catalogs <- MCCatalogs
    MaxTime = 3
SPECIFICATION CatalogSpec
SYMMETRY Symmetry
PROPERTIES
    PinOfActiveCallStays
    PicksFollowTheFile
