CONSTANTS
    DayLen = 4
    HourLen = 1
    a = a
    b = b
    Lists = {a, b}
    Configs <- LiveConfigs
    MaxTime = 1
    Slots = {1, 2}
    DiskMayFail = FALSE
    None = None
SPECIFICATION FairSpec
PROPERTY ListsAreServed
