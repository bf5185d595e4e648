SPECIFICATION Spec
CONSTANTS
    Procs = {p1, p2}
    Overlap = FALSE
    Schema = 3
    Declared = {1, 2}
    NewTables = {2}
    Structure = {1, 2}
    Keep = 1
    MaxFaults = 2
    None = None
CHECK_DEADLOCK FALSE
INVARIANTS FailedStartIsReported
