SPECIFICATION Spec
CONSTANTS
    a = a
    c1 = c1
    c2 = c2
    Chains = {a}
    Calls = {c1, c2}
    OraclePrices = {0, 2}
    MaxGasPrice = 1
    MaxFaults = 2
    MaxCrashes = 1
INVARIANTS
    TypeOK
    NonceHasOneCall
    NeverAhead
    SettledIsTrue
PROPERTIES
    ImplementsQueue
    ConfirmedIfTracked
