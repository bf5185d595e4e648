SPECIFICATION Spec
CONSTANTS
    scan = scan
    notice = notice
    hook = hook
    None = None
    Jobs <- MCJobs
    Rank <- MCRank
    Spawns <- MCSpawns
    Workers = {w1, w2}
    MaxAttempts = 2
    BatchLimit = 2
    Serialized = FALSE
    SlowDispatch = FALSE
    MaxInterrupts = 2
CHECK_DEADLOCK FALSE
INVARIANTS
    SoleDispatcher
    AppliedOnce
    AttemptsExplained
PROPERTIES
    ImplementsDurableQueue
