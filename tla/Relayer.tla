------------------------------- MODULE Relayer -------------------------------
(***************************************************************************)
(* One RFQ relayer between the FastBridge contracts of two chains.         *)
(*                                                                         *)
(* Three kinds of processes share the relayer's database: a chain indexer  *)
(* per chain, which handles the contract's events in the order a chain     *)
(* listener delivers them, and the db selector (processDB), which loads    *)
(* the rows that need work and handles them one by one from that snapshot. *)
(* Transactions go to the submitter, which stores them and sends them in   *)
(* nonce order, so that they are mined, or revert, some time later.  The   *)
(* whole process stops when a handler of the selector fails, and may stop  *)
(* at any other moment; the database, the queue of transactions and the    *)
(* chains are all that is left when it starts again.                       *)
(***************************************************************************)
EXTENDS Integers, SequencesExt

CONSTANTS
    Self,              \* this relayer's address
    Rivals,            \* the other members of RELAYER_ROLE
    Guards, Refunders,
    OriginChain, DestChain,
    ZeroAddress, This, ETH, Token,
    BridgeParams,      \* what users pass to bridge on the origin chain
    DISPUTE_PERIOD, REFUND_DELAY, MIN_DEADLINE_PERIOD,
    DeadlineBuffer,    \* GetDeadlineBuffer, in the same unit of time
    Confirmations,     \* of the origin chain, before the relayer relays
    DestFunds,         \* the relayer's balance on the destination chain
    Processable,       \* the outcomes of ShouldProcess
    Profitable,        \* the outcomes of IsProfitable
    GasSufficient,     \* the outcomes of the gas middleware
    MaxTime, MaxNonce, \* bounds of the chains
    MaxStops,          \* bound: how often the process stops or a handler fails
    MaxRivalSteps      \* bound: how many transactions rivals and guards get mined

ASSUME RelayerAssumption ==
    /\ Confirmations \in Nat /\ DeadlineBuffer \in Nat /\ DestFunds \in Nat
    /\ MaxStops \in Nat /\ MaxRivalSteps \in Nat /\ MaxTime \in Nat
    /\ DISPUTE_PERIOD \in Nat
    /\ \A p \in BridgeParams : p.destAmount \in Nat
    /\ Self \notin Rivals /\ ZeroAddress # Self
    /\ Processable \subseteq BOOLEAN
    /\ Profitable \subseteq BOOLEAN
    /\ GasSufficient \subseteq BOOLEAN

VARIABLES
    now,
    \* the FastBridge of the origin chain
    bridgeStatuses, bridgeProofs, nonce, provedAt, paid, originBalances,
    \* the FastBridge of the destination chain, and the relayer's tokens there
    bridgeRelays, fills, destBalance,
    \* the two chains as their listeners see them
    originLogs, originHead, destLogs, destHead,
    \* the submitter's queues of stored transactions, in nonce order
    originQueue, destQueue,
    \* the database: the quote requests, and the LastIndexed row of each chain
    rows, originStored, destStored,
    \* the memory of the origin listener, and of the destination listener
    oStart, oLatest, oEnd, oCursor,
    dStart, dLatest, dEnd, dCursor,
    writingHash,       \* handleRelayLog is between its two updates
    \* the memory of the db selector, and of the inventory manager
    pc, batch, current, claimCache, cachedBalance,
    \* bounds and history
    stops, rivalSteps,
    relaysSent         \* request -> how many relay transactions were submitted

originVars == <<bridgeStatuses, bridgeProofs, nonce, provedAt, paid, originBalances>>
destVars == <<bridgeRelays, fills, destBalance>>
originChain == <<originLogs, originHead>>
destChain == <<destLogs, destHead>>
queues == <<originQueue, destQueue, relaysSent>>
oListener == <<oStart, oLatest, oEnd, oCursor>>
dListener == <<dStart, dLatest, dEnd, dCursor, writingHash>>
indexers == <<oListener, dListener, originStored, destStored>>
selector == <<pc, batch, current, claimCache>>
bounds == <<stops, rivalSteps>>
chains == <<now, originVars, destVars, originChain, destChain, rivalSteps>>
vars == <<chains, queues, rows, indexers, selector, cachedBalance, stops>>

Accounts == {Self} \cup Rivals \cup Guards \cup Refunders
Members == [RELAYER_ROLE |-> {Self} \cup Rivals, GUARD_ROLE |-> Guards,
            REFUNDER_ROLE |-> Refunders, GOVERNOR_ROLE |-> {}]
Nothing == [t \in {ETH, Token} |-> 0]
Empty == [r \in {} |-> 0]

Origin == INSTANCE FastBridge WITH
    ChainId <- OriginChain, Tokens <- {ETH, Token}, TransferFee <- Nothing,
    Addresses <- Accounts, InitialRoles <- Members, RoleChanges <- {},
    ForeignRequests <- {}, FeeRates <- {}, ChainGasAmounts <- {}, MsgValues <- {0},
    FEE_BPS <- 1, FEE_RATE_MAX <- 0, TimestampModulus <- MaxTime + 1, StartTime <- 0,
    bridgeRelays <- {}, fills <- [r \in {} |-> 0], protocolFeeRate <- 0, protocolFees <- [t \in {ETH, Token} |-> 0],
    chainGasAmount <- 0, hasRole <- [role \in DOMAIN Members |-> Members[role]], balances <- originBalances

Destination == INSTANCE FastBridge WITH
    ChainId <- DestChain, Tokens <- {ETH, Token}, TransferFee <- Nothing,
    Addresses <- Accounts, InitialRoles <- Members, RoleChanges <- {},
    ForeignRequests <- {}, FeeRates <- {}, ChainGasAmounts <- {}, MsgValues <- {0},
    FEE_BPS <- 1, FEE_RATE_MAX <- 0, TimestampModulus <- MaxTime + 1, StartTime <- 0,
    bridgeStatuses <- [r \in {} |-> 0], bridgeProofs <- [r \in {} |-> 0],
    provedAt <- [r \in {} |-> 0], paid <- [r \in {} |-> 0],
    nonce <- 0, protocolFeeRate <- 0, protocolFees <- [t \in {ETH, Token} |-> 0], chainGasAmount <- 0,
    hasRole <- [role \in DOMAIN Members |-> Members[role]], balances <- [t \in {ETH, Token} |-> 0]

OL == INSTANCE ChainListener WITH
    InitialBlock <- 0, MaxGetLogsRange <- 2000, logs <- originLogs, head <- originHead,
    startBlock <- oStart, latestBlock <- oLatest, endBlock <- oEnd, cursor <- oCursor,
    stored <- originStored

DL == INSTANCE ChainListener WITH
    InitialBlock <- 0, MaxGetLogsRange <- 2000, logs <- destLogs, head <- destHead,
    startBlock <- dStart, latestBlock <- dLatest, endBlock <- dEnd, cursor <- dCursor,
    stored <- destStored

-----------------------------------------------------------------------------
QuoteRequestStatuses ==
    {"Seen", "NotEnoughInventory", "DeadlineExceeded", "WillNotProcess",
     "CommittedPending", "CommittedConfirmed", "RelayStarted", "RelayCompleted",
     "ProvePosting", "ProvePosted", "ClaimPending", "ClaimCompleted", "RelayRaceLost"}

\* status.Int() < RelayCompleted.Int()
BeforeRelayCompleted ==
    {"Seen", "NotEnoughInventory", "DeadlineExceeded", "WillNotProcess",
     "CommittedPending", "CommittedConfirmed", "RelayStarted"}

InFlight == {"CommittedPending", "CommittedConfirmed", "RelayStarted"}

\* The hash of the transaction in which this relayer relayed, and common.Hash{}.
RelayTxHash == "relayTx"
NoHash == "0x0"

Known == DOMAIN rows
RowStatus(r) == IF r \in Known THEN rows[r].status ELSE "none"

\* UpdateQuoteRequestStatus: whatever the status was; no row, no update.
SetStatus(r, status) ==
    rows' = IF r \in Known THEN [rows EXCEPT ![r].status = status] ELSE rows

\* StoreQuoteRequest: a conflict on the transaction id updates nothing.
MutantStoreAgain(r, block) ==
    rows' = Origin!Assign(rows, r, [status |-> "Seen", destTxHash |-> NoHash, block |-> block])
MutantStoreLatest(r, block) ==
    rows' = IF r \in Known THEN rows
            ELSE Origin!Assign(rows, r,
                    [status |-> "Seen", destTxHash |-> NoHash, block |-> oLatest])
StoreQuoteRequest(r, block) ==
    rows' = IF r \in Known THEN rows
            ELSE Origin!Assign(rows, r,
                    [status |-> "Seen", destTxHash |-> NoHash, block |-> block])

\* The balance the inventory manager last saw, less the quotes in flight.
CommittableBalance ==
    cachedBalance
        - MapThenSumSet(LAMBDA r : r.destAmount, {r \in Known : rows[r].status \in InFlight})

-----------------------------------------------------------------------------
Init ==
    /\ Origin!Init
    /\ bridgeRelays = {} /\ fills = Empty
    /\ destBalance = DestFunds /\ cachedBalance = DestFunds
    /\ originLogs = <<>> /\ originHead = 0
    /\ destLogs = <<>> /\ destHead = 0
    /\ originQueue = <<>> /\ destQueue = <<>>
    /\ rows = [r \in {} |-> NoHash]
    /\ OL!ListenerInit /\ DL!ListenerInit
    /\ writingHash = FALSE
    /\ pc = "select" /\ batch = {} /\ current = {} /\ claimCache = {}
    /\ stops = 0 /\ rivalSteps = 0
    /\ relaysSent = Empty

-----------------------------------------------------------------------------
(* The chains. *)

Emit(logs, head, kind, r, relayer) ==
    Append(logs, [kind |-> kind, request |-> r, relayer |-> relayer, block |-> head + 1])

EmitOnOrigin(kind, r, relayer) ==
    /\ originLogs' = Emit(originLogs, originHead, kind, r, relayer)
    /\ originHead' = originHead + 1

EmitOnDest(kind, r, relayer) ==
    /\ destLogs' = Emit(destLogs, destHead, kind, r, relayer)
    /\ destHead' = destHead + 1

relayerVars == <<queues, rows, indexers, selector, cachedBalance, stops>>

Tick ==
    /\ Origin!Tick
    /\ UNCHANGED <<destVars, originChain, destChain, rivalSteps, relayerVars>>

\* A block without events after one with an event: what the confirmations and
\* the polls of the listeners wait for.
NewBlock(logs, head) == logs # <<>> /\ logs[Len(logs)].block = head

NewOriginBlock ==
    /\ NewBlock(originLogs, originHead)
    /\ originHead' = originHead + 1
    /\ UNCHANGED <<now, originVars, destVars, originLogs, destChain, rivalSteps, relayerVars>>

NewDestBlock ==
    /\ NewBlock(destLogs, destHead)
    /\ destHead' = destHead + 1
    /\ UNCHANGED <<now, originVars, destVars, originChain, destLogs, rivalSteps, relayerVars>>

UserBridges(p) ==
    /\ Origin!Bridge(p, 0)
    /\ EmitOnOrigin("BridgeRequested", Origin!RequestFor(p), ZeroAddress)
    /\ UNCHANGED <<destVars, destChain, rivalSteps, relayerVars>>

\* relay pulls the tokens from its caller, who must have them.
MineRelay(r) ==
    /\ destBalance >= r.destAmount
    /\ Destination!Relay(Self, r, 0)
    /\ destBalance' = destBalance - r.destAmount
    /\ EmitOnDest("BridgeRelayed", r, Self)

RelayReverts(r) ==
    \/ destBalance < r.destAmount
    \/ now > r.deadline
    \/ r \in bridgeRelays

MineDest ==
    /\ destQueue # <<>>
    /\ destQueue' = Tail(destQueue)
    /\ \/ MineRelay(Head(destQueue))
       \/ RelayReverts(Head(destQueue)) /\ UNCHANGED <<now, destVars, destChain>>
    /\ UNCHANGED <<originVars, originChain, rivalSteps, originQueue, relaysSent,
                   rows, indexers, selector, cachedBalance, stops>>

MineProve(tx) ==
    /\ tx.call = "prove"
    /\ Origin!Prove(Self, tx.request)
    /\ EmitOnOrigin("BridgeProofProvided", tx.request, Self)

MineClaim(tx) ==
    /\ tx.call = "claim"
    /\ Origin!Claim(Self, tx.request, Self)
    /\ EmitOnOrigin("BridgeDepositClaimed", tx.request, Self)

OriginReverts(tx) ==
    \/ tx.call = "prove" /\ ~Origin!Requested(tx.request)
    \/ tx.call = "claim" /\ ~Origin!CanClaim(tx.request, Self)

MineOrigin ==
    /\ originQueue # <<>>
    /\ originQueue' = Tail(originQueue)
    /\ \/ MineProve(Head(originQueue))
       \/ MineClaim(Head(originQueue))
       \/ OriginReverts(Head(originQueue)) /\ UNCHANGED <<now, originVars, originChain>>
    /\ UNCHANGED <<destVars, destChain, rivalSteps, destQueue, relaysSent,
                   rows, indexers, selector, cachedBalance, stops>>

(* Transactions of others, each a legal call of the contracts. *)

OthersStep ==
    /\ rivalSteps < MaxRivalSteps
    /\ rivalSteps' = rivalSteps + 1
    /\ UNCHANGED relayerVars

RivalRelays(rival, r) ==
    /\ OthersStep
    /\ Destination!Relay(rival, r, 0)
    /\ EmitOnDest("BridgeRelayed", r, rival)
    /\ UNCHANGED <<destBalance, originVars, originChain>>

RivalProves(rival, r) ==
    /\ OthersStep
    /\ Origin!Prove(rival, r)
    /\ EmitOnOrigin("BridgeProofProvided", r, rival)
    /\ UNCHANGED <<destVars, destChain>>

RivalClaims(rival, r) ==
    /\ OthersStep
    /\ Origin!Claim(rival, r, rival)
    /\ EmitOnOrigin("BridgeDepositClaimed", r, rival)
    /\ UNCHANGED <<destVars, destChain>>

GuardDisputes(guard, r) ==
    /\ OthersStep
    /\ Origin!Dispute(guard, r)
    /\ UNCHANGED <<destVars, originChain, destChain>>

SomebodyRefunds(account, r) ==
    /\ OthersStep
    /\ Origin!Refund(account, r)
    /\ UNCHANGED <<destVars, originChain, destChain>>

ChainStep ==
    \/ Tick
    \/ NewOriginBlock
    \/ NewDestBlock
    \/ \E p \in BridgeParams : UserBridges(p)
    \/ MineDest
    \/ MineOrigin
    \/ \E r \in Origin!Requests :
        \/ \E rival \in Rivals :
            RivalRelays(rival, r) \/ RivalProves(rival, r) \/ RivalClaims(rival, r)
        \/ \E guard \in Guards : GuardDisputes(guard, r)
        \/ \E account \in Refunders : SomebodyRefunds(account, r)

-----------------------------------------------------------------------------
(* The chain indexers: one log at a time, in the order of the chain. *)

Running == pc # "down"

OriginPoll ==
    /\ Running
    /\ OL!BeginPoll \/ OL!PollNothingNew
    /\ UNCHANGED <<chains, queues, rows, dListener, destStored, selector, cachedBalance, stops>>

OriginPollDone ==
    /\ Running
    /\ OL!FinishPoll
    /\ UNCHANGED <<chains, queues, rows, dListener, destStored, selector, cachedBalance, stops>>

DestPoll ==
    /\ Running
    /\ DL!BeginPoll \/ DL!PollNothingNew
    /\ UNCHANGED <<chains, queues, rows, oListener, originStored, writingHash,
                   selector, cachedBalance, stops>>

DestPollDone ==
    /\ Running
    /\ DL!FinishPoll
    /\ UNCHANGED <<chains, queues, rows, oListener, originStored, writingHash,
                   selector, cachedBalance, stops>>

\* "it wasn't me"
MutantAnyRelayer(event) == TRUE
WasMe(event) == event.relayer = Self

\* runChainIndexer's switch on an event of the origin chain.
StatusForOriginEvent(event) ==
    IF ~WasMe(event) THEN "RelayRaceLost"
    ELSE IF event.kind = "BridgeProofProvided" THEN "ProvePosted" ELSE "ClaimCompleted"

\* getDecimals found code behind the destination token.
IsToken(token) == token \in {ETH, Token}

HandleOriginEvent(event) ==
    \/ /\ event.kind = "BridgeRequested"
       /\ IF IsToken(event.request.destToken)
          THEN StoreQuoteRequest(event.request, event.block) ELSE UNCHANGED rows
    \/ /\ event.kind \in {"BridgeProofProvided", "BridgeDepositClaimed"}
       /\ SetStatus(event.request, StatusForOriginEvent(event))

IndexOriginLog ==
    /\ Running
    /\ OL!LogHandled
    /\ HandleOriginEvent(originLogs[oCursor])
    /\ UNCHANGED <<chains, queues, dListener, destStored, selector, cachedBalance, stops>>

\* A call of the handler to a chain or to the database fails.
OriginLogFails ==
    /\ Running
    /\ stops < MaxStops
    /\ stops' = stops + 1
    /\ OL!LogFailed
    /\ UNCHANGED <<chains, queues, rows, dListener, destStored, selector, cachedBalance>>

\* A relay of somebody else, or one of our own that handleRelayLog ignores.  (It
\* fails for a request without a row: TypeOK says that there is one.)
IndexForeignRelay ==
    LET event == destLogs[dCursor] IN
    /\ Running
    /\ DL!LogHandled
    /\ \/ ~WasMe(event) /\ SetStatus(event.request, "RelayRaceLost")
       \/ /\ WasMe(event)
          /\ event.request \in Known /\ RowStatus(event.request) # "RelayStarted"
          /\ ~writingHash
          /\ UNCHANGED rows
    /\ UNCHANGED <<chains, queues, oListener, originStored, writingHash,
                   selector, cachedBalance, stops>>

\* A call to the database fails, the one between the two updates included.
DestLogFails ==
    /\ Running
    /\ stops < MaxStops
    /\ stops' = stops + 1
    /\ DL!LogFailed
    /\ writingHash' = FALSE
    /\ UNCHANGED <<chains, queues, rows, oListener, originStored, selector, cachedBalance>>

\* handleRelayLog: UpdateQuoteRequestStatus, then UpdateDestTxHash.
CompletesRelay(event) ==
    WasMe(event) /\ RowStatus(event.request) = "RelayStarted"

IndexOwnRelay ==
    /\ Running
    /\ dEnd # DL!NoRange /\ DL!LogsLeft
    /\ ~writingHash
    /\ CompletesRelay(destLogs[dCursor])
    /\ SetStatus(destLogs[dCursor].request, "RelayCompleted")
    /\ writingHash' = TRUE
    /\ UNCHANGED <<chains, queues, oListener, dStart, dLatest, dEnd, dCursor,
                   originStored, destStored, selector, cachedBalance, stops>>

IndexOwnRelayHash ==
    /\ Running
    /\ writingHash
    /\ DL!LogHandled
    /\ rows' = [rows EXCEPT ![destLogs[dCursor].request].destTxHash = RelayTxHash]
    /\ writingHash' = FALSE
    /\ UNCHANGED <<chains, queues, oListener, originStored, selector, cachedBalance, stops>>

IndexerStep ==
    \/ OriginPoll \/ IndexOriginLog \/ OriginLogFails \/ OriginPollDone
    \/ DestPoll \/ IndexForeignRelay
    \/ IndexOwnRelay \/ IndexOwnRelayHash \/ DestLogFails \/ DestPollDone

-----------------------------------------------------------------------------
(* The db selector. *)

MutantSelected ==
    {"Seen", "CommittedConfirmed", "RelayCompleted", "ProvePosted", "NotEnoughInventory"}
Selected ==
    {"Seen", "CommittedPending", "CommittedConfirmed", "RelayCompleted",
     "ProvePosted", "NotEnoughInventory"}

\* A quote request as it was when the batch was loaded.
Snapshot(r) == [request |-> r, status |-> rows[r].status,
                destTxHash |-> rows[r].destTxHash, block |-> rows[r].block]

selectorFrame == <<chains, indexers, cachedBalance, stops>>

\* processDB: GetQuoteResultsByStatus.
LoadBatch ==
    /\ pc = "select" /\ batch = {} /\ current = {}
    /\ batch' = {Snapshot(r) : r \in {r \in Known : rows[r].status \in Selected}}
    /\ batch' # {}
    /\ UNCHANGED <<selectorFrame, queues, rows, pc, current, claimCache>>

MutantDeadlineApplies(q) == q.status \in BeforeRelayCompleted \cup {"RelayCompleted"}
DeadlineApplies(q) == q.status \in BeforeRelayCompleted

\* The head of processDB's loop: a row whose deadline has passed is marked, and
\* handled all the same with the status it had.
TakeRow(q) ==
    /\ pc = "select" /\ q \in batch
    /\ batch' = batch \ {q}
    /\ current' = {q}
    /\ pc' = "handle"
    /\ IF q.request.deadline < now /\ DeadlineApplies(q)
       THEN SetStatus(q.request, "DeadlineExceeded")
       ELSE UNCHANGED rows
    /\ UNCHANGED <<selectorFrame, queues, claimCache>>

HandlerReturns ==
    /\ pc' = "select"
    /\ current' = {}
    /\ UNCHANGED batch

\* The handler of q is to be called; the part of it that follows is a new pc.
Handling(q, status) == pc = "handle" /\ q \in current /\ q.status = status

ContinueAt(label) ==
    /\ pc' = label
    /\ UNCHANGED <<current, batch>>

\* deadlineMiddleware's almostNow.
TooLate(q) == q.request.deadline < now - DeadlineBuffer

BeforeRelay == {"Seen", "NotEnoughInventory", "CommittedPending", "CommittedConfirmed"}

RefuseLate(q) ==
    /\ pc = "handle" /\ q \in current /\ q.status \in BeforeRelay
    /\ TooLate(q)
    /\ SetStatus(q.request, "DeadlineExceeded")
    /\ HandlerReturns
    /\ UNCHANGED <<selectorFrame, queues, claimCache>>

\* gasMiddleware: not enough gas on one of the chains.
SkipWithoutGas(q) ==
    /\ pc = "handle" /\ q \in current /\ q.status \in BeforeRelay \ {"NotEnoughInventory"}
    /\ ~TooLate(q)
    /\ FALSE \in GasSufficient
    /\ HandlerReturns
    /\ UNCHANGED <<selectorFrame, queues, rows, claimCache>>

HandleSeen(q) ==
    /\ Handling(q, "Seen") /\ ~TooLate(q)
    /\ TRUE \in GasSufficient
    /\ \/ FALSE \in Processable /\ SetStatus(q.request, "WillNotProcess")
       \/ TRUE \in Processable /\ FALSE \in Profitable /\ UNCHANGED rows
       \/ /\ TRUE \in Processable /\ TRUE \in Profitable
          /\ SetStatus(q.request, IF CommittableBalance < q.request.destAmount
                                  THEN "NotEnoughInventory" ELSE "CommittedPending")
    /\ HandlerReturns
    /\ UNCHANGED <<selectorFrame, queues, claimCache>>

HandleNotEnoughInventory(q) ==
    /\ Handling(q, "NotEnoughInventory") /\ ~TooLate(q)
    /\ IF CommittableBalance > q.request.destAmount
       THEN SetStatus(q.request, "CommittedPending") ELSE UNCHANGED rows
    /\ HandlerReturns
    /\ UNCHANGED <<selectorFrame, queues, claimCache>>

\* handleCommitPending reads the listener's latest block and the chain.
MutantIsConfirmed(q) == oLatest + 1 >= q.block + Confirmations
IsConfirmed(q) == oLatest >= q.block + Confirmations

CommitHolds(q) ==
    /\ IsConfirmed(q)
    /\ Origin!Status(q.request) = "REQUESTED"

HandleCommitPending(q) ==
    /\ Handling(q, "CommittedPending") /\ ~TooLate(q)
    /\ TRUE \in GasSufficient
    /\ IF CommitHolds(q) THEN SetStatus(q.request, "CommittedConfirmed") ELSE UNCHANGED rows
    /\ HandlerReturns
    /\ UNCHANGED <<selectorFrame, queues, claimCache>>

\* handleCommitConfirmed: the status first, then SubmitRelay.
HandleCommitConfirmed(q) ==
    /\ Handling(q, "CommittedConfirmed") /\ ~TooLate(q)
    /\ TRUE \in GasSufficient
    /\ SetStatus(q.request, "RelayStarted")
    /\ ContinueAt("relaying")
    /\ UNCHANGED <<selectorFrame, queues, claimCache>>

Count(f, r) == IF r \in DOMAIN f THEN f[r] ELSE 0

SubmitRelay(q) ==
    /\ pc = "relaying" /\ q \in current
    /\ destQueue' = Append(destQueue, q.request)
    /\ relaysSent' = Origin!Assign(relaysSent, q.request, Count(relaysSent, q.request) + 1)
    /\ HandlerReturns
    /\ UNCHANGED <<selectorFrame, originQueue, rows, claimCache>>

Submit(call, q) ==
    originQueue' = Append(originQueue,
        [call |-> call, request |-> q.request, destTxHash |-> q.destTxHash])

\* handleRelayCompleted: Prove first, then the status.
HandleRelayCompleted(q) ==
    /\ Handling(q, "RelayCompleted")
    /\ Submit("prove", q)
    /\ ContinueAt("proving")
    /\ UNCHANGED <<selectorFrame, destQueue, relaysSent, rows, claimCache>>

WriteProvePosting(q) ==
    /\ pc = "proving" /\ q \in current
    /\ SetStatus(q.request, "ProvePosting")
    /\ HandlerReturns
    /\ UNCHANGED <<selectorFrame, queues, claimCache>>

\* canClaim returns true; it reverts unless the deposit is proved, and by us.
MutantMayClaim(q) ==
    /\ Origin!Status(q.request) = "RELAYER_PROVED"
    /\ bridgeProofs[q.request].relayer = Self
MayClaim(q) == Origin!CanClaim(q.request, Self)

\* handleProofPosted when nothing is left or possible to do: the cache says not to
\* look, the chain says claimed, or the dispute period is not over.
CheckProof(q) ==
    /\ Handling(q, "ProvePosted")
    /\ \/ q.request \in claimCache /\ UNCHANGED rows
       \/ /\ q.request \notin claimCache
          /\ \/ /\ Origin!Status(q.request) = "RELAYER_CLAIMED"
                /\ SetStatus(q.request, "ClaimCompleted")
             \/ /\ Origin!Status(q.request) = "RELAYER_PROVED"
                /\ bridgeProofs[q.request].relayer = Self
                /\ ~MayClaim(q)
                /\ UNCHANGED rows
    /\ claimCache' = claimCache \cup {q.request}
    /\ HandlerReturns
    /\ UNCHANGED <<selectorFrame, queues>>

\* handleProofPosted after the dispute period: Claim first, then the status.
ClaimDeposit(q) ==
    /\ Handling(q, "ProvePosted")
    /\ q.request \notin claimCache
    /\ MayClaim(q)
    /\ claimCache' = claimCache \cup {q.request}
    /\ Submit("claim", q)
    /\ ContinueAt("claiming")
    /\ UNCHANGED <<selectorFrame, destQueue, relaysSent, rows>>

WriteClaimPending(q) ==
    /\ pc = "claiming" /\ q \in current
    /\ SetStatus(q.request, "ClaimPending")
    /\ HandlerReturns
    /\ UNCHANGED <<selectorFrame, queues, claimCache>>

\* The entry of a request in the claim cache expires after 30 seconds.
ExpireClaimCache(r) ==
    /\ r \in claimCache
    /\ claimCache' = claimCache \ {r}
    /\ UNCHANGED <<selectorFrame, queues, rows, pc, batch, current>>

\* The inventory manager's refreshBalances.
RefreshBalances ==
    /\ Running
    /\ cachedBalance' = destBalance
    /\ UNCHANGED <<chains, queues, rows, indexers, selector, stops>>

HandleRow(q) ==
    \/ RefuseLate(q) \/ SkipWithoutGas(q)
    \/ HandleSeen(q) \/ HandleNotEnoughInventory(q)
    \/ HandleCommitPending(q)
    \/ HandleCommitConfirmed(q) \/ SubmitRelay(q)
    \/ HandleRelayCompleted(q) \/ WriteProvePosting(q)
    \/ CheckProof(q) \/ ClaimDeposit(q) \/ WriteClaimPending(q)

SelectorStep ==
    \/ LoadBatch
    \/ \E q \in batch : TakeRow(q)
    \/ \E q \in current : HandleRow(q)
    \/ \E r \in claimCache : ExpireClaimCache(r)
    \/ RefreshBalances

-----------------------------------------------------------------------------
(* Stops and starts of the process. *)

GoDown ==
    /\ pc' = "down"
    /\ batch' = {} /\ current' = {} /\ claimCache' = {}
    /\ writingHash' = FALSE
    /\ UNCHANGED <<chains, queues, rows, oListener, dStart, dLatest, dEnd, dCursor,
                   originStored, destStored, cachedBalance>>

\* canClaim reverts: the error ends processDB, and with it the process.
StopOnError(q) ==
    /\ Handling(q, "ProvePosted")
    /\ q.request \notin claimCache
    /\ \/ Origin!Status(q.request) \in {"REQUESTED", "REFUNDED"}
       \/ /\ Origin!Status(q.request) = "RELAYER_PROVED"
          /\ bridgeProofs[q.request].relayer # Self
    /\ GoDown
    /\ UNCHANGED stops

\* The process dies, or a call to a chain, to the submitter or to the database
\* fails in the selector.
Crash ==
    /\ Running
    /\ stops < MaxStops
    /\ stops' = stops + 1
    /\ GoDown

Restart ==
    /\ pc = "down"
    /\ pc' = "select"
    /\ OL!ListenerRestart /\ DL!ListenerRestart
    /\ cachedBalance' = destBalance
    /\ UNCHANGED <<chains, queues, rows, writingHash, batch, current, claimCache, stops>>

ProcessStep ==
    \/ \E q \in current : StopOnError(q)
    \/ Crash
    \/ Restart

Next == ChainStep \/ IndexerStep \/ SelectorStep \/ ProcessStep

Spec == Init /\ [][Next]_vars

\* The loops of the relayer, without the failures: each is one goroutine.
OriginIndexer == OriginPoll \/ IndexOriginLog \/ OriginPollDone

DestIndexer ==
    DestPoll \/ IndexForeignRelay \/ IndexOwnRelay \/ IndexOwnRelayHash \/ DestPollDone

Selector ==
    \/ LoadBatch
    \/ \E q \in batch : TakeRow(q)
    \/ \E q \in current : HandleRow(q) \/ StopOnError(q)

\* The chains go on, and every loop of the relayer runs again and again: Listen
\* and runDBSelector loop on a timer, the process is restarted when it has stopped.
FairSpec ==
    /\ Spec
    /\ WF_vars(Tick)
    /\ WF_vars(NewOriginBlock) /\ WF_vars(MineOrigin)
    /\ WF_vars(NewDestBlock) /\ WF_vars(MineDest)
    /\ WF_vars(OriginIndexer) /\ WF_vars(DestIndexer) /\ WF_vars(Selector)
    /\ WF_vars(\E r \in claimCache : ExpireClaimCache(r))
    /\ WF_vars(RefreshBalances) /\ WF_vars(Restart)

-----------------------------------------------------------------------------
OriginCalls ==
    [call : {"prove", "claim"}, request : Known, destTxHash : {NoHash, RelayTxHash}]

\* The rows, the snapshots taken of them, the queues and the handlers' program
\* counter have the values the code gives them, and a row is never made up: it
\* is about a request of the origin chain, with the block of its event.
TypeOK ==
    /\ Known \subseteq Origin!Requests
    /\ \A r \in Known :
        /\ rows[r] \in [status : QuoteRequestStatuses, destTxHash : {NoHash, RelayTxHash}, block : Nat]
        /\ [kind |-> "BridgeRequested", request |-> r, relayer |-> ZeroAddress,
            block |-> rows[r].block] \in ToSet(originLogs)
    /\ \A q \in batch \cup current : q.request \in Known /\ q.status \in Selected
    /\ pc \in {"select", "handle", "relaying", "proving", "claiming", "down"}
    /\ current = {} <=> pc \in {"select", "down"}
    /\ \A i \in 1..Len(originQueue) : originQueue[i] \in OriginCalls
    /\ \A i \in 1..Len(destQueue) : destQueue[i] \in Known
    /\ DOMAIN relaysSent \subseteq Known
    /\ claimCache \subseteq Known
    /\ writingHash \in BOOLEAN
    /\ stops \in 0..MaxStops /\ rivalSteps \in 0..MaxRivalSteps
    /\ destBalance \in Nat /\ cachedBalance \in Nat

RelayedBy(relayers, r) ==
    \E i \in 1..Len(destLogs) : destLogs[i].request = r /\ destLogs[i].relayer \in relayers

Queued(call, r) ==
    \E i \in 1..Len(originQueue) : originQueue[i].call = call /\ originQueue[i].request = r

ProvedBySelf(r) ==
    /\ Origin!Status(r) \in {"RELAYER_PROVED", "RELAYER_CLAIMED"}
    /\ bridgeProofs[r].relayer = Self

\* The relayer submits the relay of a request at most once, although the chain
\* listeners deliver events again after a failure or a restart, the selector works
\* from a snapshot, and the process may stop between writing the status and
\* submitting the transaction: a second relay is a transaction that reverts at
\* best, and gas that is lost.
RelaySubmittedOnce == \A r \in DOMAIN relaysSent : relaysSent[r] <= 1

\* The relayer never proves a relay it has not made itself, whoever else relays
\* and whichever order the events of the two chains arrive in: a false proof is
\* what guards dispute and relayers are slashed for.
ProvesOnlyOwnRelay ==
    \A r \in Origin!Requests :
        Queued("prove", r) \/ ProvedBySelf(r) => RelayedBy({Self}, r)

\* Funds leave on the destination chain only for a request that exists on the
\* origin chain and is confirmed there, through three handlers that each run from
\* an older snapshot of the row.
RelaysOnlyConfirmed ==
    \A r \in DOMAIN relaysSent :
        \E i \in 1..Len(originLogs) :
            /\ originLogs[i].kind = "BridgeRequested" /\ originLogs[i].request = r
            /\ originLogs[i].block + Confirmations <= originHead

\* A claim that was submitted cannot be disputed any more and cannot revert but for
\* having been made already: the relayer looked at the chain some time before the
\* transaction is mined, and what it saw still holds.
ClaimsHold ==
    \A r \in Origin!Requests :
        Queued("claim", r) => /\ ProvedBySelf(r)
                              /\ Origin!Elapsed(r) > DISPUTE_PERIOD

\* Once the relay of a request was started its row never goes back to a status
\* from which the selector would commit, and relay, a second time.
Started == {"RelayStarted", "RelayCompleted", "ProvePosting", "ProvePosted",
            "ClaimPending", "ClaimCompleted"}

NeverBackBeforeRelay ==
    [][\A r \in Known :
        rows[r].status \in Started =>
            rows'[r].status \in QuoteRequestStatuses \ (BeforeRelayCompleted \ {"RelayStarted"})]_vars

\* What a request is identified by in the temporal properties.
Request(n, P(_)) == \E r \in Known : r.nonce = n /\ P(r)

\* No request is left undecided: however prices, gas and balances move, in the end
\* it is relayed, or refused for good.  (A refusal may be overwritten: the row is
\* still handled with the status it had.)
Undecided == {"Seen", "NotEnoughInventory", "CommittedPending", "CommittedConfirmed"}

EventuallyDecided == <>[](\A r \in Known : rows[r].status \notin Undecided)

\* Every relay the relayer has paid for on the destination chain is proved on the
\* origin chain, crashes, failing handlers and reparsed ranges notwithstanding, as
\* long as nobody else proves the request or refunds it.
RelaysAreProved ==
    \A n \in 0..(MaxNonce - 1) :
        Request(n, LAMBDA r : RelayedBy({Self}, r)) ~> Request(n, LAMBDA r : ProvedBySelf(r))

-----------------------------------------------------------------------------
(* What the documentation says, and the code does not do: see the README.  *)

\* "The proof has been successfully submitted to the contract. We now wait for the
\* claim period to expire. Once it does, we mark the transaction as ClaimPending."
ProofsAreClaimed ==
    \A n \in 0..(MaxNonce - 1) :
        Request(n, LAMBDA r : ProvedBySelf(r) /\ Origin!Elapsed(r) > DISPUTE_PERIOD)
            ~> Request(n, LAMBDA r : rows[r].status \in {"ClaimPending", "ClaimCompleted"})
=============================================================================
