SPECIFICATION FairSpec
CHECK_DEADLOCK FALSE
CONSTANTS
    InitialBlock = 1
    MaxGetLogsRange = 2
    MaxBlocks = 5
    MaxLogs = 3
    MaxFailures = 2
    MaxRestarts = 2
INVARIANTS
    TypeOK
    NothingMissed
    FirstHandledInOrder
PROPERTIES
    EveryLogHandled
