SPECIFICATION Spec
CONSTANTS
    Txs = {1, 2}
    Workers = {w1, w2}
    None = None
    Concurrent = {}
    MaxSeq = 2
    Modes = {TRUE, FALSE}
    Faults = {"expiry", "db", "queue", "restart", "conflict", "lag"}
    MaxFaults = 1
SYMMETRY Symmetry
INVARIANTS TypeOK InFlightOwnsLane NoDoubleExecution MonitoredUntilFinal
CHECK_DEADLOCK FALSE
