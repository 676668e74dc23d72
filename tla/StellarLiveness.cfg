SPECIFICATION FairSpec
CONSTANTS
    Txs = {1, 2}
    Workers = {w1}
    None = None
    Concurrent = {}
    MaxSeq = 4
    Modes = {TRUE}
    Faults = {"drop", "other", "queue", "prepare", "rpc", "timeout", "reject", "fee", "breaker", "expiry",
              "lifetime", "revert"}
    MaxFaults = 1
PROPERTY EventuallySettled
CHECK_DEADLOCK FALSE
