SPECIFICATION Spec
CONSTANTS
    scan = scan
    notice = notice
    hook = hook
    None = None
    Jobs <- MCJobs
    Rank <- MCRank
    Spawns <- MCSpawns
    Workers = {w1, w2}
    MaxAttempts = 2
    BatchLimit = 1
    Serialized = FALSE
    SlowDispatch = TRUE
    MaxInterrupts = 1
CHECK_DEADLOCK FALSE
INVARIANTS
    AtLeastOnce
PROPERTIES
    EveryJobSettles
