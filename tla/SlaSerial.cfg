SPECIFICATION Spec
CONSTANTS
    Stages <- MCStages
    Initial = "work"
    Terminal = {"done"}
    Edges <- MCEdges
    Hours <- MCHours
    Total = 3
    Gaps = {0, 2}
    Window = 1
    Sessions = {page, api}
    Pages = {page}
    Overlap = FALSE
    MaxTime = 7
    None = None
INVARIANTS FullService EscalationsAreDue
PROPERTIES ReportedOnce OverdueReported
