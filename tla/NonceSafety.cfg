SPECIFICATION Spec
CONSTANTS
    Txs = {t1, t2, t3}
    Fillers = {f1}
    None = None
    MaxNonce = 3
    GapRange = 2
    RewindRange = 3
    Chunk = 1
    Settled = TRUE
    ReadReplica = FALSE
    MaxJobs = 1
    MaxFaults = 2
SYMMETRY Symmetry
INVARIANTS TypeOK NoNonceReissued CounterAboveClaims
CHECK_DEADLOCK FALSE
