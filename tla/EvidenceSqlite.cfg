SPECIFICATION EvidenceSpec
CONSTANTS
    web = web
    portal = portal
    handler = handler
    note = note
    Sessions = {web, portal, handler}
    Updaters = {}
    Uploads = {web, portal}
    Portal = {portal}
    Note = note
    Events <- MCEvents
    Serialized = TRUE
    MaxEntries = 3
    MaxTampers = 1
    MaxCrashes = 1
    MaxDamages = 1
    None = None
CHECK_DEADLOCK FALSE
INVARIANTS ChainVerifies TamperEvident EvidenceOnRecord DoctorIsRight ExportIsComplete
