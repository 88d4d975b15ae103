CONSTANTS
    Handles = {h1, h2}
    MaxResources = 1
    MaxWait = 5
    PollInterval = 2
    CleanupTimeout = 3
    FirstRetry = 1
    LastRetry = 3
SPECIFICATION FairSpec
INVARIANTS
    QuietStopInterruptsNothing
    ExitWithinBudget
PROPERTIES
    DrainEnds
