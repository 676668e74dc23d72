SPECIFICATION Spec
CONSTANTS
    Txs = {t1}
    Workers = {w1, w2}
    None = None
    Other = Other
    MaxNonce = 1
    GasPriceCap = 2
    MaxPrice = 2
    MinHashesForRecovery = 2
    Concurrent = {}
    Faults = {"crash", "timeout", "db"}
    ApiOps = {}
    FinalGuard = TRUE
SYMMETRY Symmetry
INVARIANTS TypeOK NoDoubleExecution MonitoredUntilFinal ReportedIsOnChain
PROPERTIES FinalIsForever NoHashForgotten
CHECK_DEADLOCK FALSE
