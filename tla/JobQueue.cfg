SPECIFICATION FairSpec
CONSTANTS
    Slots = {1, 2}
    Workers = {w1, w2}
    None = None
    JobTypes = {"status", "bounded"}
    Networks = {"evm", "other"}
    FifoModes = {TRUE, FALSE}
    MaxRetries = 1
    MaxConsecutive = 2
    MaxTotal = 2
    MaxFaults = 1
INVARIANTS TypeOK Monitored NotDropped
PROPERTIES BreakerEnds BoundedEnds
CHECK_DEADLOCK FALSE
