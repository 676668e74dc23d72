SPECIFICATION FairSpec
CONSTANTS
    Calls = {c1, c2}
    N = 3
    None = None
    Settings <- MCSettings
    MaxRetries = 2
    MaxFailovers = 2
    Threshold = 1
    PauseDuration = 1
    Expiration = 1
INVARIANTS TypeOK FailsOver HealthyNotBlamed
PROPERTIES CallEnds
