SPECIFICATION Spec
CHECK_DEADLOCK FALSE
CONSTANTS
    a = a
    b = b
    Chains = {a, b}
    Workers = {loop, indexer}
    MaintenancePct <- Maintenance
    InitialPct <- Initial
    MinRebalanceAmount <- NoMinimum
    MaxRebalanceAmount <- Maximum
    Funds <- OneSided
    MaxSteps = 2
INVARIANTS
    OneInFlight
