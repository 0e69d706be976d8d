SPECIFICATION Spec
CONSTANTS
    Builds = {v1, v2, arm}
    Foreign = {arm}
    Unreadable = Unreadable
    Configs <- MCConfigs
    Extra <- MCExtra
    MaxRuns = 2
    MaxNow = 1
INVARIANTS
    OverwrittenSurvives
    RegisteredStays
PROPERTIES
    ConfigIsWhole
CHECK_DEADLOCK FALSE
