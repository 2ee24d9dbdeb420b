SPECIFICATION Spec
CONSTANTS
    a = a
    c1 = c1
    c2 = c2
    Chains = {a}
    Calls = {c1, c2}
    OraclePrices = {0}
    MaxGasPrice = 1
    MaxFaults = 1
    MaxCrashes = 1
PROPERTIES
    EventuallyConfirmed
