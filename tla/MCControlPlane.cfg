CONSTANTS
    SipScheme = sip
    At = at
    Open = open
    Close = close
    Params = pars
    Port = port
    Hosts = {example, other}
    Cased <- MCCased
    sip = sip
    tel = tel
    at = at
    open = open
    close = close
    pars = pars
    port = port
    example = example
    other = other
    upper = upper
    n1 = n1
    n2 = n2
    Conns = {c1, c2}
    Ids = {"card"}
    RouteLists <- MCRouteLists
    Targets <- MCTargets
    Users <- MCUsers
    Domains <- MCDomains
    Replies <- MCReplies
    Configs <- MCConfigs
    Bodies <- MCBodies
    Messages <- MCMessages
SPECIFICATION Spec
SYMMETRY ConnsAreAlike
INVARIANTS
    LookupIsHonest
    BothTransportsAgree
    NoSecretTextIsLogged
PROPERTIES
    DrainRefusesOnlyNewWork
