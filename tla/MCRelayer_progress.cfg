SPECIFICATION FairSpec
CHECK_DEADLOCK FALSE
CONSTANTS
    self = self
    bob = bob
    guard = guard
    user = user
    Self = self
    Rivals = {}
    Guards = {}
    Refunders = {}
    OriginChain = 1
    DestChain = 2
    ZeroAddress = zero
    This = this
    ETH = eth
    Token = token
    BridgeParams <- MixedParams
    DISPUTE_PERIOD = 1
    REFUND_DELAY = 1
    MIN_DEADLINE_PERIOD = 0
    DeadlineBuffer = 0
    Confirmations = 1
    DestFunds = 2
    Processable = {TRUE, FALSE}
    Profitable = {TRUE, FALSE}
    GasSufficient = {TRUE, FALSE}
    MaxTime = 1
    MaxNonce = 1
    MaxStops = 1
    MaxRivalSteps = 0
INVARIANTS
    TypeOK
    RelaySubmittedOnce
    RelaysOnlyConfirmed
PROPERTIES
    EventuallyDecided
    RelaysAreProved
