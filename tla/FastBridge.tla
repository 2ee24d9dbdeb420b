----------------------------- MODULE FastBridge -----------------------------
(***************************************************************************)
(* The FastBridge contract of one chain, with the Admin contract it        *)
(* inherits.  The same code is deployed on every chain: `bridge`, `prove`, *)
(* `claim`, `dispute` and `refund` act on requests made on this chain, and *)
(* `relay` on requests made on another one, which this contract cannot see *)
(* and takes as bytes from the caller.                                     *)
(*                                                                         *)
(* A transaction is one atomic action; a revert is the absence of a step.  *)
(* transactionId = keccak256(request) is the request itself.               *)
(***************************************************************************)
EXTENDS Integers, FiniteSetsExt

CONSTANTS
    ChainId,            \* block.chainid of the chain this contract is on
    ZeroAddress,        \* address(0)
    This,               \* address(this)
    ETH,                \* UniversalTokenLib.ETH_ADDRESS
    Tokens,             \* token contracts, and ETH
    TransferFee,        \* what a token keeps of a transfer
    Addresses,          \* the accounts that send transactions
    InitialRoles,       \* the members of each role after the deployment
    RoleChanges,        \* <<role, account>> pairs the admin grants and revokes
    BridgeParams,       \* the parameters users pass to bridge
    ForeignRequests,    \* the requests of other chains passed to relay
    FeeRates,           \* the rates the governor sets
    ChainGasAmounts,    \* the rebates the governor sets
    MsgValues,          \* bound: what msg.value is drawn from
    DISPUTE_PERIOD, REFUND_DELAY, MIN_DEADLINE_PERIOD,
    FEE_BPS, FEE_RATE_MAX,
    TimestampModulus,   \* 2^96 in the code: proofs keep uint96(block.timestamp)
    StartTime,          \* block.timestamp at the deployment
    MaxTime,            \* bound: the clock stops here
    MaxNonce            \* bound: how many requests are made

Roles == {"RELAYER_ROLE", "REFUNDER_ROLE", "GUARD_ROLE", "GOVERNOR_ROLE"}

Statuses == {"NULL", "REQUESTED", "RELAYER_PROVED", "RELAYER_CLAIMED", "REFUNDED"}

ASSUME TimeAssumption ==
    /\ DISPUTE_PERIOD \in Nat
    /\ REFUND_DELAY \in Nat
    /\ MIN_DEADLINE_PERIOD \in Nat
    /\ StartTime \in Nat
    /\ MaxTime \in Nat
    /\ MaxNonce \in Nat
    /\ TimestampModulus \in Nat \ {0}

ASSUME FeeAssumption ==
    /\ FEE_BPS \in Nat \ {0}
    /\ FEE_RATE_MAX \in 0..FEE_BPS
    /\ FeeRates \subseteq Nat
    /\ ChainGasAmounts \subseteq Nat
    /\ MsgValues \subseteq Nat

ASSUME AccountAssumption ==
    /\ ETH \in Tokens
    /\ TransferFee \in [Tokens -> Nat]
    /\ ZeroAddress \notin Addresses
    /\ InitialRoles \in [Roles -> SUBSET Addresses]
    /\ RoleChanges \subseteq Roles \X Addresses

ASSUME InputAssumption ==
    /\ \A p \in BridgeParams :
        /\ p.originAmount \in Nat /\ p.destAmount \in Nat /\ p.deadline \in Nat
        /\ p.originToken \in Tokens \cup {ZeroAddress}
    /\ \A r \in ForeignRequests :
        /\ r.destAmount \in Nat /\ r.deadline \in Nat /\ r.nonce \in Nat
        /\ r.destToken \in Tokens

VARIABLES
    now,              \* block.timestamp
    bridgeStatuses,   \* request -> status; a request outside its domain is NULL
    bridgeProofs,     \* request -> BridgeProof
    bridgeRelays,     \* the requests relayed on this chain
    nonce,
    protocolFeeRate, protocolFees, chainGasAmount,
    hasRole,          \* AccessControl: role -> members
    balances,         \* token -> what this contract holds of it
    \* History, read by no action:
    provedAt,         \* request -> block.timestamp of its last proof, untruncated
    paid,             \* request -> what left its deposit, the protocol's part included
    fills             \* request -> how often its recipient was paid here

adminVars == <<protocolFeeRate, protocolFees, chainGasAmount, hasRole>>
originVars == <<bridgeStatuses, bridgeProofs, nonce, provedAt, paid>>
relayVars == <<bridgeRelays, fills>>
vars == <<now, originVars, relayVars, adminVars, balances>>

\* The empty slot of the bridgeProofs mapping.
NoProof == [timestamp |-> 0, relayer |-> ZeroAddress]

Requests == DOMAIN bridgeStatuses

Status(r) == IF r \in Requests THEN bridgeStatuses[r] ELSE "NULL"

\* f with one more, or one changed, argument.
Assign(f, x, v) == [y \in DOMAIN f \cup {x} |-> IF y = x THEN v ELSE f[y]]

\* What an ERC20 transfer of amount adds to the recipient's balance.
Received(token, amount) ==
    IF amount > TransferFee[token] THEN amount - TransferFee[token] ELSE 0

(***************************************************************************)
(* _pullToken: the token that must equal msg.value is ETH, every other one *)
(* is pulled by transferFrom whatever msg.value is.                        *)
(***************************************************************************)
PullAllowed(token, amount, value) == token = ETH => amount = value

MutantPulledAsAsked(token, amount) == amount
AmountPulled(token, amount) ==
    IF token = ETH THEN amount ELSE Received(token, amount)

\* universalTransfer out of this contract: nothing moves to the contract itself.
TransferOut(token, to, amount) ==
    /\ to = This \/ balances[token] >= amount
    /\ balances' = IF to = This THEN balances
                   ELSE [balances EXCEPT ![token] = @ - amount]

\* Balances after `value` wei arrived and, unless 0, `amount` of an ERC20 did.
Deposited(value, token, amount) ==
    [t \in Tokens |-> balances[t] + (IF t = ETH THEN value ELSE 0)
                                  + (IF t = token /\ t # ETH THEN amount ELSE 0)]

-----------------------------------------------------------------------------
Init ==
    /\ now = StartTime
    /\ bridgeStatuses = [r \in {} |-> "NULL"]
    /\ bridgeProofs = [r \in {} |-> NoProof]
    /\ bridgeRelays = {}
    /\ nonce = 0
    /\ protocolFeeRate = 0
    /\ protocolFees = [t \in Tokens |-> 0]
    /\ chainGasAmount = 0
    /\ hasRole = InitialRoles
    /\ balances = [t \in Tokens |-> 0]
    /\ provedAt = [r \in {} |-> 0]
    /\ paid = [r \in {} |-> 0]
    /\ fills = [r \in {} |-> 0]

\* A later block.
Tick ==
    /\ now < MaxTime
    /\ now' = now + 1
    /\ UNCHANGED <<originVars, relayVars, adminVars, balances>>

OriginFee(amount) ==
    IF protocolFeeRate > 0 THEN (amount * protocolFeeRate) \div FEE_BPS ELSE 0

\* The BridgeTransaction that bridge encodes for params p.
RequestFor(p) ==
    LET pulled == AmountPulled(p.originToken, p.originAmount)
        fee    == OriginFee(pulled)
    IN  [originChainId |-> ChainId, destChainId |-> p.dstChainId,
         originSender |-> p.sender, destRecipient |-> p.to,
         originToken |-> p.originToken, destToken |-> p.destToken,
         originAmount |-> pulled - fee, destAmount |-> p.destAmount,
         originFeeAmount |-> fee, sendChainGas |-> p.sendChainGas,
         deadline |-> p.deadline, nonce |-> nonce]

IncrementNonce == nonce' = nonce + 1

Bridge(p, value) ==
    /\ p.dstChainId # ChainId
    /\ p.originAmount # 0 /\ p.destAmount # 0
    /\ p.originToken # ZeroAddress /\ p.destToken # ZeroAddress
    /\ p.deadline >= now + MIN_DEADLINE_PERIOD
    /\ nonce < MaxNonce
    /\ PullAllowed(p.originToken, p.originAmount, value)
    /\ LET r == RequestFor(p) IN
        /\ bridgeStatuses' = Assign(bridgeStatuses, r, "REQUESTED")
        /\ bridgeProofs' = Assign(bridgeProofs, r, NoProof)
        /\ provedAt' = Assign(provedAt, r, 0)
        /\ paid' = Assign(paid, r, 0)
        /\ balances' = Deposited(value, p.originToken, Received(p.originToken, p.originAmount))
    /\ IncrementNonce
    /\ UNCHANGED <<now, relayVars, adminVars>>

Rebate(r) == IF r.sendChainGas THEN chainGasAmount ELSE 0

\* The ETH part of what relay forwards: destAmount, the rebate, or both.
EthForwarded(r) == Rebate(r) + (IF r.destToken = ETH THEN r.destAmount ELSE 0)

\* msg.value is checked only where _pullToken is called for ETH.
PullsEth(r) == r.destToken = ETH \/ r.sendChainGas

ValueMatches(r, value) == PullsEth(r) => value = EthForwarded(r)

\* The ETH that leaves this contract again for the recipient.
EthPassedOn(r) == IF PullsEth(r) /\ r.destRecipient # This THEN EthForwarded(r) ELSE 0

NotRelayed(r) == r \notin bridgeRelays

MutantRelayUnmarked(r) == UNCHANGED bridgeRelays
MarkRelayed(r) == bridgeRelays' = bridgeRelays \cup {r}

Relay(relayer, r, value) ==
    /\ relayer \in hasRole["RELAYER_ROLE"]
    /\ r.destChainId = ChainId
    /\ now <= r.deadline
    /\ NotRelayed(r)
    /\ MarkRelayed(r)
    /\ ValueMatches(r, value)
    /\ balances[ETH] + value >= EthPassedOn(r)
    /\ fills' = Assign(fills, r, 1 + (IF r \in DOMAIN fills THEN fills[r] ELSE 0))
    /\ balances' = Deposited(
            value - EthPassedOn(r), r.destToken,
            IF r.destRecipient = This THEN Received(r.destToken, r.destAmount) ELSE 0)
    /\ UNCHANGED <<now, originVars, adminVars>>

MutantAnyStatus(r) == Status(r) # "NULL"
Requested(r) == Status(r) = "REQUESTED"

Prove(relayer, r) ==
    /\ relayer \in hasRole["RELAYER_ROLE"]
    /\ Requested(r)
    /\ bridgeStatuses' = Assign(bridgeStatuses, r, "RELAYER_PROVED")
    /\ bridgeProofs' = Assign(bridgeProofs, r,
            [timestamp |-> now % TimestampModulus, relayer |-> relayer])
    /\ provedAt' = Assign(provedAt, r, now)
    /\ UNCHANGED <<now, relayVars, adminVars, balances, nonce, paid>>

\* The unchecked uint96 subtraction of _timeSince.
MutantCheckedTimeSince(proof) == (now % TimestampModulus) - proof.timestamp
MutantWideTimeSince(proof) == now - proof.timestamp
TimeSince(proof) == ((now % TimestampModulus) - proof.timestamp) % TimestampModulus

MutantClaimAgain(r, relayer) ==
    /\ Status(r) \in {"RELAYER_PROVED", "RELAYER_CLAIMED"}
    /\ bridgeProofs[r].relayer = relayer
    /\ TimeSince(bridgeProofs[r]) > DISPUTE_PERIOD

CanClaim(r, relayer) ==
    /\ Status(r) = "RELAYER_PROVED"
    /\ bridgeProofs[r].relayer = relayer
    /\ TimeSince(bridgeProofs[r]) > DISPUTE_PERIOD

Claim(relayer, r, to) ==
    /\ relayer \in hasRole["RELAYER_ROLE"]
    /\ CanClaim(r, relayer)
    /\ bridgeStatuses' = Assign(bridgeStatuses, r, "RELAYER_CLAIMED")
    /\ protocolFees' = [protocolFees EXCEPT ![r.originToken] = @ + r.originFeeAmount]
    /\ TransferOut(r.originToken, to, r.originAmount)
    /\ paid' = Assign(paid, r, paid[r] + r.originAmount + r.originFeeAmount)
    /\ UNCHANGED <<now, relayVars, bridgeProofs, nonce, provedAt,
                   protocolFeeRate, chainGasAmount, hasRole>>

MutantProofKept(r) == UNCHANGED bridgeProofs
DeleteProof(r) == bridgeProofs' = Assign(bridgeProofs, r, NoProof)

Dispute(guard, r) ==
    /\ guard \in hasRole["GUARD_ROLE"]
    /\ Status(r) = "RELAYER_PROVED"
    /\ TimeSince(bridgeProofs[r]) <= DISPUTE_PERIOD
    /\ bridgeStatuses' = Assign(bridgeStatuses, r, "REQUESTED")
    /\ DeleteProof(r)
    /\ UNCHANGED <<now, relayVars, adminVars, balances, nonce, provedAt, paid>>

\* The time from which `account` may refund r.
RefundableAfter(account, r) ==
    r.deadline + (IF account \in hasRole["REFUNDER_ROLE"] THEN 0 ELSE REFUND_DELAY)

Refund(account, r) ==
    /\ now > RefundableAfter(account, r)
    /\ Requested(r)
    /\ bridgeStatuses' = Assign(bridgeStatuses, r, "REFUNDED")
    /\ TransferOut(r.originToken, r.originSender, r.originAmount + r.originFeeAmount)
    /\ paid' = Assign(paid, r, paid[r] + r.originAmount + r.originFeeAmount)
    /\ UNCHANGED <<now, relayVars, adminVars, bridgeProofs, nonce, provedAt>>

SetProtocolFeeRate(governor, newFeeRate) ==
    /\ governor \in hasRole["GOVERNOR_ROLE"]
    /\ newFeeRate <= FEE_RATE_MAX
    /\ protocolFeeRate' = newFeeRate
    /\ UNCHANGED <<now, originVars, relayVars, balances, protocolFees, chainGasAmount, hasRole>>

SetChainGasAmount(governor, newChainGasAmount) ==
    /\ governor \in hasRole["GOVERNOR_ROLE"]
    /\ chainGasAmount' = newChainGasAmount
    /\ UNCHANGED <<now, originVars, relayVars, balances, protocolFees, protocolFeeRate, hasRole>>

SweepProtocolFees(governor, token, recipient) ==
    /\ governor \in hasRole["GOVERNOR_ROLE"]
    /\ protocolFees[token] # 0
    /\ protocolFees' = [protocolFees EXCEPT ![token] = 0]
    /\ TransferOut(token, recipient, protocolFees[token])
    /\ UNCHANGED <<now, originVars, relayVars, protocolFeeRate, chainGasAmount, hasRole>>

\* OpenZeppelin's AccessControl, used by the holder of DEFAULT_ADMIN_ROLE.
GrantRole(role, account) ==
    /\ hasRole' = [hasRole EXCEPT ![role] = @ \cup {account}]
    /\ UNCHANGED <<now, originVars, relayVars, balances, protocolFees, protocolFeeRate, chainGasAmount>>

RevokeRole(role, account) ==
    /\ hasRole' = [hasRole EXCEPT ![role] = @ \ {account}]
    /\ UNCHANGED <<now, originVars, relayVars, balances, protocolFees, protocolFeeRate, chainGasAmount>>

BridgeStep == \E p \in BridgeParams, value \in MsgValues : Bridge(p, value)

RelayStep ==
    \E relayer \in Addresses, r \in ForeignRequests, value \in MsgValues :
        Relay(relayer, r, value)

\* The requests passed to the other functions: any other bytes have status NULL.
SettlementStep ==
    \E account \in Addresses, r \in Requests :
        \/ Prove(account, r)
        \/ \E to \in Addresses \cup {This} : Claim(account, r, to)
        \/ Dispute(account, r)
        \/ Refund(account, r)

AdminStep ==
    \/ \E governor \in Addresses :
        \/ \E rate \in FeeRates : SetProtocolFeeRate(governor, rate)
        \/ \E amount \in ChainGasAmounts : SetChainGasAmount(governor, amount)
        \/ \E t \in Tokens, to \in {governor, This} : SweepProtocolFees(governor, t, to)
    \/ \E change \in RoleChanges :
        \/ GrantRole(change[1], change[2])
        \/ RevokeRole(change[1], change[2])

Next == Tick \/ BridgeStep \/ RelayStep \/ SettlementStep \/ AdminStep

Spec == Init /\ [][Next]_vars

-----------------------------------------------------------------------------
\* What the code's structs and mappings hold.
Proofs == [timestamp : Nat, relayer : Addresses \cup {ZeroAddress}]

\* Every variable has the type of the storage slot it stands for, and the
\* per-request mappings are written together.
TypeOK ==
    /\ now \in Nat /\ nonce \in Nat
    /\ bridgeStatuses \in [Requests -> Statuses \ {"NULL"}]
    /\ bridgeProofs \in [Requests -> Proofs]
    /\ provedAt \in [Requests -> Nat]
    /\ paid \in [Requests -> Nat]
    /\ \A r \in Requests :
        /\ r.originToken \in Tokens
        /\ r.originAmount \in Nat /\ r.originFeeAmount \in Nat
        /\ r.deadline \in Nat /\ r.nonce \in Nat
    /\ bridgeRelays \subseteq ForeignRequests
    /\ DOMAIN fills = bridgeRelays
    /\ protocolFeeRate \in 0..FEE_RATE_MAX /\ chainGasAmount \in Nat
    /\ protocolFees \in [Tokens -> Nat]
    /\ hasRole \in [Roles -> SUBSET Addresses]
    /\ balances \in [Tokens -> Nat]

\* The requests whose deposit the contract still owes to somebody.
Open == {r \in Requests : bridgeStatuses[r] \in {"REQUESTED", "RELAYER_PROVED"}}

\* The contract can always pay what it owes in every token: all open deposits,
\* whichever way each of them ends, and the protocol's fees on the claimed ones.
\* (bridge, claim, refund and sweepProtocolFees share one balance per token, a
\* token may keep part of a transfer, and the fee is rounded.)
Solvent ==
    \A t \in Tokens :
        balances[t] >= protocolFees[t] +
            MapThenSumSet(LAMBDA r : r.originAmount + r.originFeeAmount,
                          {r \in Open : r.originToken = t})

\* Each deposit is paid out once and in full if it was claimed or refunded, and
\* nothing of it has left otherwise: no interleaving of proofs, disputes, claims
\* and refunds of several relayers pays a deposit twice.
PaidOnce ==
    \A r \in Requests :
        paid[r] = IF r \in Open THEN 0 ELSE r.originAmount + r.originFeeAmount

\* A request has the proof of exactly one relayer if it is proved or claimed and
\* the empty proof otherwise, so that a disputed proof leaves nothing behind that
\* a later claim could use.
ProofMatchesStatus ==
    \A r \in Requests :
        IF bridgeStatuses[r] \in {"RELAYER_PROVED", "RELAYER_CLAIMED"}
        THEN /\ bridgeProofs[r].relayer # ZeroAddress
             /\ bridgeProofs[r].timestamp = provedAt[r] % TimestampModulus
             /\ provedAt[r] <= now
        ELSE bridgeProofs[r] = NoProof

\* Requests are told apart by their nonce: two bridge calls with the same
\* parameters, in the same block, never share a transactionId.
UniqueNonces ==
    /\ \A r1, r2 \in Requests : r1.nonce = r2.nonce => r1 = r2
    /\ \A r \in Requests : r.nonce < nonce

\* The recipient of a request is paid at most once on this chain, however many
\* relayers race to fill it.
FilledOnce == \A r \in bridgeRelays : fills[r] = 1

Elapsed(r) == now - provedAt[r]

\* An undisputed proof is final: once the dispute period is over the only change
\* left is the claim by the relayer who proved; guards, refunders and other
\* relayers can do nothing.  This is where uint96 timestamps that roll over
\* would bite: the truncated clock may pass 0 once during the wait, and the
\* promise holds until it has gone all the way round.
ProofIsFinal ==
    [][\A r \in Requests :
        (Status(r) = "RELAYER_PROVED"
            /\ Elapsed(r) > DISPUTE_PERIOD /\ Elapsed(r) < TimestampModulus
            /\ <<bridgeStatuses[r], bridgeProofs[r]>>' # <<bridgeStatuses[r], bridgeProofs[r]>>)
        => /\ bridgeStatuses'[r] = "RELAYER_CLAIMED"
           /\ bridgeProofs'[r] = bridgeProofs[r]]_vars

\* No deposit is claimed while a guard may still dispute it, in real time and not
\* only in the truncated timestamps the contract compares.
ClaimAfterDisputePeriod ==
    [][\A r \in Requests :
        (bridgeStatuses[r] # "RELAYER_CLAIMED" /\ bridgeStatuses'[r] = "RELAYER_CLAIMED")
        => Elapsed(r) > DISPUTE_PERIOD]_vars

\* Whatever a sender can still be paid back or a relayer paid out is what was
\* deposited: a claimed or refunded request never changes again, and a request is
\* never forgotten.
Settled(r) == Status(r) \in {"RELAYER_CLAIMED", "REFUNDED"}

SettledForever ==
    [][\A r \in Requests : Settled(r) => Status(r)' = Status(r)]_vars

-----------------------------------------------------------------------------
\* The contract implements the escrow: proofs, disputes, relays, time and
\* administration are stuttering steps.
E == INSTANCE Escrow WITH
        held     <- Open,
        released <- {r \in Requests : bridgeStatuses[r] = "RELAYER_CLAIMED"},
        returned <- {r \in Requests : bridgeStatuses[r] = "REFUNDED"}

\* Every deposit is held until it is released to a relayer or returned to its
\* sender, at most once: the specification the sequence of calls must refine.
ImplementsEscrow == E!EscrowSpec
=============================================================================
