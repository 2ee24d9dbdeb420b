SPECIFICATION Spec
CHECK_DEADLOCK FALSE
CONSTANTS
    alice = alice
    bob = bob
    guard = guard
    weth = weth
    usdc = usdc
    zero = zero
    this = this
    ETH = ETH
    ZeroAddress = zero
    This = this
    ChainId = 1
    TransferFee <- MCTransferFee
    InitialRoles <- MCRoles
    DISPUTE_PERIOD = 1
    REFUND_DELAY = 1
    MIN_DEADLINE_PERIOD = 1
    FEE_BPS = 4
    FEE_RATE_MAX = 2
    Tokens = {ETH, weth, usdc}
    Addresses = {alice, bob, guard}
    RoleChanges <- RelayerChanges
    BridgeParams <- LifeParams
    ForeignRequests <- NoRequests
    FeeRates = {1}
    ChainGasAmounts = {}
    MsgValues = {0}
    TimestampModulus = 4
    StartTime = 2
    MaxTime = 8
    MaxNonce = 2
INVARIANTS
    PaidOnce
    ProofMatchesStatus
PROPERTIES
    ProofIsFinal
    ClaimAfterDisputePeriod
    ImplementsEscrow
