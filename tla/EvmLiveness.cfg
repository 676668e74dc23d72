SPECIFICATION FairSpec
CONSTANTS
    Txs = {t1}
    Workers = {w1}
    None = None
    Other = Other
    MaxNonce = 1
    GasPriceCap = 2
    MaxPrice = 2
    MinHashesForRecovery = 3
    Concurrent = {}
    Faults = {"other"}
    ApiOps = {"replace"}
    FinalGuard = TRUE
PROPERTY EventuallyFinal
CHECK_DEADLOCK FALSE
