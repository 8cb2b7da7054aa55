CONSTANTS
    Transfers = {a, x}
    Invalid = {x}
    Reports = {"Completed", "Failed"}
    MaxRunLog = 1
    MaxLen = 2
SPECIFICATION FairSpec
INVARIANTS
    RowsFollowTheRun
PROPERTIES
    RunKeepsPromise
    RunIsRecorded
CHECK_DEADLOCK FALSE
