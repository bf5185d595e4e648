SPECIFICATION DefinitionSpec
CONSTANTS
    Keys <- MCKeys
    Definitions <- NightDefinitions
    Week = 3
    Day = 6
    DefaultStart = 1
    DefaultEnd = 3
    Horizon = 8
    Starts = {0, 2, 5, 9, 16}
    Hours = {1, 2, 5, 9}
    None = None
CHECK_DEADLOCK FALSE
PROPERTIES DeadlineEnds
