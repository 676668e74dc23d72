SPECIFICATION FairSpec
CONSTANTS
    Calls = {c1, c2}
    Workers = {w1}
    None = None
    Permits = 1
    QueueSize = 1
    Ring = 1
    MinSamples = 1
    Successes = 2
    FaultSets = {{"exit", "abort"}, {"spawn", "orphan"}, {"unlink"}, {"wait"}, {"hang"}}
INVARIANTS TypeOK LiveHasSocket
PROPERTIES Recovers CallEnds BreakerCloses
CHECK_DEADLOCK FALSE
