CONSTANTS
    Commands = {k1, k2}
    NoCommand = NoCommand
    Endpoints = {e1, b1}
    Bridges = {b1}
SPECIFICATION FairSpec
INVARIANTS
    SensitiveDigitsAreRedacted
    OneActionPerEndpoint
    PlaybackEndsWithItsCommand
PROPERTIES
    EveryCommandEnds
