CONSTANTS
    DayLen = 4
    HourLen = 1
    a = a
    b = b
    Lists = {a, b}
    Configs <- MCConfigs
    MaxTime = 1
    Slots = {1, 2}
    DiskMayFail = TRUE
    None = None
SPECIFICATION Spec
INVARIANTS OneRunnerPerList DiskIsTheTruth DialogsNameLists
PROPERTY OnlyRunNowOverlaps
