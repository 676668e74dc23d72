SPECIFICATION Spec
CONSTANTS
    Txs = {t1}
    Workers = {w1}
    None = None
    Other = Other
    MaxNonce = 1
    GasPriceCap = 3
    MaxPrice = 4
    MinHashesForRecovery = 3
    Concurrent = {}
    Faults = {"rpc", "queue", "signer", "breaker", "revert", "other"}
    ApiOps = {"cancel"}
    FinalGuard = TRUE
INVARIANTS FailedNotExecuted CanceledNotExecuted
CHECK_DEADLOCK FALSE
