SPECIFICATION Spec
CONSTANTS
    Configs <- MCConfigs
    RuleLists <- MCRuleLists
    Facts = {"large"}
    Admins = {a1}
    Cases = {k1}
    Overlap = FALSE
    MaxVersion = 4
    None = None
CHECK_DEADLOCK FALSE
INVARIANTS RevisionsUnique PublishedIsActive HistoryIsComplete RulesAsExplained
PROPERTIES VersionsOnlyGrow
