SPECIFICATION Spec
CHECK_DEADLOCK FALSE
CONSTANTS
    self = self
    bob = bob
    guard = guard
    user = user
    Self = self
    Rivals = {bob}
    Guards = {guard}
    Refunders = {guard}
    OriginChain = 1
    DestChain = 2
    ZeroAddress = zero
    This = this
    ETH = eth
    Token = token
    BridgeParams <- OneParam
    DISPUTE_PERIOD = 1
    REFUND_DELAY = 1
    MIN_DEADLINE_PERIOD = 1
    DeadlineBuffer = 1
    Confirmations = 1
    DestFunds = 2
    Processable = {TRUE}
    Profitable = {TRUE}
    GasSufficient = {TRUE}
    MaxTime = 2
    MaxNonce = 1
    MaxStops = 0
    MaxRivalSteps = 2
INVARIANTS
    ProvesOnlyOwnRelay
    ClaimsHold
PROPERTIES
    NeverBackBeforeRelay
