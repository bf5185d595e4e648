SPECIFICATION Spec
CONSTANTS
    Cases = {c1, c2}
    Stages <- MCStages
    Approvals = {"legal", "risk"}
    AskedAt <- MCAskedAt
    Versions = {1, 2}
    Config <- Relaxed
    Migrations <- Upgrade
    Sessions = {page}
    Pages = {page}
    Overlap = FALSE
    None = None
INVARIANTS ClosedIffTerminal BehindTheGate ApprovalsRequested
PROPERTIES ClosedStaysPut DecidedOnce ParentsWait

