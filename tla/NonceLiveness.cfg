SPECIFICATION FairSpec
CONSTANTS
    Txs = {t1, t2}
    Fillers = {f1, f2}
    None = None
    MaxNonce = 1
    GapRange = 1
    RewindRange = 1
    Chunk = 1
    Settled = TRUE
    ReadReplica = TRUE
    MaxJobs = 1
    MaxFaults = 2
PROPERTY BlockedIsResolved
CHECK_DEADLOCK FALSE
