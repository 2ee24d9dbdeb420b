SPECIFICATION FairSpec
CHECK_DEADLOCK FALSE
CONSTANTS
    a = a
    b = b
    Chains = {a, b}
    Workers = {loop, indexer}
    MaintenancePct <- Maintenance
    InitialPct <- Initial
    MinRebalanceAmount <- NoMinimum
    MaxRebalanceAmount <- Maximum
    Funds <- OneSided
    MaxSteps = 3
INVARIANTS
    TypeOK
    FewInFlight
    CompletedWasReceived
PROPERTIES
    IDsAreKept
    EventuallyCompleted
