SPECIFICATION Spec
CONSTANTS
    hook = hook
    note = note
    None = None
    Jobs <- MCJobs
    Rank <- MCRank
    Spawns <- MCSpawns
    Remote = {hook}
    Workers = {w1, w2}
    MaxAttempts = 2
    BatchLimit = 2
    Serialized = TRUE
    SlowDispatch = TRUE
    MaxInterrupts = 1
CHECK_DEADLOCK FALSE
INVARIANTS
    RecordsAgree
    CompletedWasReceived
    OneRequestPerAttempt
PROPERTIES
    EveryExecutionEnds
