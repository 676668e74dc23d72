SPECIFICATION FairSpec
CONSTANTS
    Workers = {w1}
    None = None
    MaxHash = 4
    Window = 2
    MaxAttempts = 3
    MaxQueued = 2
    Modes = {"instructions", "single", "multi"}
    Faults = {"invalid", "prepare", "queue", "db", "send", "reject", "breaker", "rpc", "blockhash", "revert",
              "crash", "timeout", "dbresubmit", "fork"}
    MaxFaults = 1
INVARIANTS TypeOK ConfirmedSignature
PROPERTIES ResubmitsExpired EventuallyFinal
CHECK_DEADLOCK FALSE
