SPECIFICATION Spec
CHECK_DEADLOCK FALSE
CONSTANTS
    alice = alice
    bob = bob
    guard = guard
    weth = weth
    usdc = usdc
    zero = zero
    this = this
    ETH = ETH
    ZeroAddress = zero
    This = this
    ChainId = 1
    TransferFee <- MCTransferFee
    InitialRoles <- MCRoles
    DISPUTE_PERIOD = 1
    REFUND_DELAY = 1
    MIN_DEADLINE_PERIOD = 1
    FEE_BPS = 4
    FEE_RATE_MAX = 2
    Tokens = {ETH, weth, usdc}
    Addresses = {alice, bob, guard}
    RoleChanges <- NoRoleChanges
    BridgeParams <- FeeParams
    ForeignRequests <- RelayRequests
    FeeRates = {2}
    ChainGasAmounts = {1}
    MsgValues = {0, 1, 3, 4}
    TimestampModulus = 100
    StartTime = 0
    MaxTime = 3
    MaxNonce = 2
INVARIANTS
    TypeOK
    Solvent
