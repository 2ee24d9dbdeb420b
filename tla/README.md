# Formal model of the Synapse "sanguine" repository

TLA+ modules, TLC configurations and TLAPS proofs for the core of the repository:

* the *RFQ* (request for quote) bridge, from the contract that holds the users' deposits
  to the relayer that fills their requests and moves its own funds between chains;
* the two services all programs of the repository rest on, the chain listener that brings
  events in and the transaction submitter that takes transactions out;
* the *interchain* contracts that carry messages between chains, with the committee
  that verifies the messages and the executor that delivers them.

A user calls `bridge` on the FastBridge contract of the origin chain and deposits tokens
there. A relayer sees the event, pays the recipient on the destination chain with
`relay`, calls `prove` on the origin chain, and, when nobody has disputed the proof
during the dispute period, takes the deposit with `claim`. A guard may `dispute` a
proof; a deposit that no relayer proved goes back to the sender with `refund` after the
deadline.

An app calls `interchainSend`; the client writes the transaction to the chain's
InterchainDB, in a batch that modules are asked to verify. The committee's nodes sign
the batch, and a threshold of signatures lets the SynapseModule of the destination tell
its own InterchainDB. When enough of the app's modules have done so, and the app's
optimistic period is over, the executor calls `interchainExecute`.

All paths below are relative to the root of the repository.

## Inventory

### Modelled, fully or in part

| component | state | operations | talks to |
|---|---|---|---|
| FastBridge contract (`packages/contracts-rfq/contracts/FastBridge.sol`, `Admin.sol`, `libs/UniversalToken.sol`) | status, proof and relay mappings, `nonce`, fees, roles, its token balances | `bridge`, `relay`, `prove`, `claim`, `dispute`, `refund`, `setProtocolFeeRate`, `setChainGasAmount`, `sweepProtocolFees`, role changes | tokens (calls), everybody (events) |
| Chain listener (`ethergo/listener`) | `startBlock`, `latestBlock`, the `LastIndexed` row | `Listen`/`doPoll`, restart (`getMetadata`), `PutLatestBlock` | a node (calls), a handler (callback), a database |
| Transaction submitter (`ethergo/submitter`) | the table of attempts, the nonce lock, the goroutines of a pass | `SubmitTransaction`, `processQueue`: bump, send, mark, confirm; restart | nodes (calls), a database, its callers |
| RFQ relayer, request lifecycle (`services/rfq/relayer/service`, `chain`, `reldb`) | the quote request rows, the claim cache, the batch being processed | the two chain indexers, `processDB`, one handler per status, three middlewares | both contracts through the submitter, the listener, the inventory manager |
| RFQ relayer, inventory (`services/rfq/relayer/inventory`, `reldb/base/rebalance.go`) | cached balances, the rebalance table | `GetCommittableBalances`, `refreshBalances`, `Rebalance` with `getRebalance` and `HasPendingRebalance`, `Execute`, the two listeners | chains, the database, the submitter |
| Interchain contracts (`packages/contracts-communication`) | entries and verified batches of InterchainDB, verifiers and thresholds of SynapseModule, executors of InterchainClientV1, configuration and modules of an app | `interchainSend`, `writeEntry`, `requestBatchVerification`, `verifyRemoteBatch`, `interchainExecute`, `writeExecutionProof`, the setters | each other (calls), apps, off-chain verifiers (events) |
| Committee (`committee`) and executor (`sin-executor`) | one table each, the shared datastores of signatures | indexers, database selectors with one handler per status | the contracts through listener and submitter, each other through the network |

What is hard in them, and what makes them correct:

* **FastBridge** is sequential, but its callers are not: several relayers, guards,
  refunders and an admin call it in any order, with a clock. Correct is: a deposit
  leaves once and in full, to one party; a disputed proof leaves nothing behind; the
  dispute period is kept although timestamps are truncated to 96 bits; the contract
  can always pay what it owes although fees, deposits and passing relays share one
  balance per token and a token may keep part of each transfer.
* **The chain listener** delivers at least once: the range of a poll includes its
  first block, a handler that fails has the whole range parsed again, a restart goes on
  from the stored block. Correct is: no log is ever left behind, and logs are handled
  for the first time in the order of the chain.
* **The submitter** gives nonces to callers that race, sends what it has not stored yet,
  replaces attempts while they are being mined, and learns only later which one was. A
  write, a call, a node or the process may fail between any two steps. Correct is: a
  nonce has one call, nothing is sent ahead of the chain, calls are executed once, in
  order and in the end, and what is reported as confirmed was mined.
* **The relayer** runs three kinds of goroutines on one table of rows with
  unconditional status updates, handles rows from a snapshot, submits transactions
  whose outcome comes back as events on two chains in no particular order, and may
  die between a write and a submission. Correct is: it pays once for a request,
  pays only for confirmed ones, proves only what it relayed and all that it relayed,
  claims what it proved, and leaves no request undecided.
* **Rebalancing** plans from cached balances, asks the database whether the path is
  free and stores its own row only after it has submitted the burn; several goroutines do
  so; rows and events have nothing in common when they meet but the chain; and restarted
  listeners may leave events out. Correct is: two transfers in flight never share a chain
  (which the code does not achieve), or at least their number is bounded, a row is
  completed for money that arrived and completed no other row, and in the end it is.
* **The interchain contracts** take what anybody brings: batches in any order, twice and
  in disagreement, signatures of verifiers that were removed meanwhile, modules an app
  should not have trusted. Correct is: an app gets what was sent to it, once, and what
  is executable stays so.
* **Committee and executor** mark a row as done when they have submitted, and never look
  at it again. Correct is: at that moment the outcome is certain, and every message
  is executed although agents stop and calls fail.

### Not modelled

| component | why |
|---|---|
| quoter, pricer, relayer API (`services/rfq/relayer/quoter`, `pricer`, `relapi`) | prices come from the network; the relayer model takes every outcome of the checks, and posted quotes bind nobody |
| RFQ quote API (`services/rfq/api`) | a table of quotes behind HTTP, one row per relayer and route |
| CCTP relayer (`services/cctp-relayer`) | burn and mint are in `Rebalancer`, from the side of the RFQ relayer; the attestation is an HTTP service of Circle |
| optimistic messaging contracts (`packages/contracts-core`) and agents (`agents`) | a protocol of its own (agent roots, attestations, disputes) that needs modules of its own; its encoding and merkle libraries are data transformations |
| `services/scribe`, `services/explorer` | log indexers and analytics; the idea is the chain listener's |
| `services/omnirpc`, `services/stiprelayer`, `ethergo/signer`, `ethergo/chain`, `ethergo/client`, `core` | stateless, batch jobs, or wrappers of input and output |
| `packages/sdk-router`, `rest-api`, `synapse-interface`, `explorer-ui`, `widget`, `docs` and tooling | presentation, build and deployment |

The modelled code is a small part of the repository by size, because most of its lines
are generated bindings of contracts (`*.abigen.go`), front ends, and the two systems
above that are left out; it is the part that decides what happens to money and messages
in the RFQ bridge and the interchain client.

## Modules

| module | models | composed of |
|---|---|---|
| `Escrow` | what FastBridge promises about deposits: held, then released to a relayer or returned to the sender | |
| `FastBridge` | the contract of one chain, with `Admin` | refines `Escrow` |
| `ChainListener` | one listener: its memory, its stored row, the steps of `doPoll` | |
| `EventSourcing` | a listener, a chain that grows, a handler that fails, restarts | extends `ChainListener` |
| `TxQueue` | what the submitter promises: per chain, a queue of calls executed in order | |
| `Submitter` | the submitter, its callers, table, mempools and chains | refines `TxQueue` |
| `Relayer` | the relayer between two contracts | `FastBridge` twice (`Origin`, `Destination`), `ChainListener` twice (`OL`, `DL`) |
| `Rebalancer` | the relayer's transfers between its chains | |
| `Delivery` | what the interchain contracts promise an app | |
| `Interchain` | the interchain contracts of several chains | refines `Delivery` |
| `InterchainAgents` | committee and executor, using the contracts | extends and refines `Interchain` |
| `FastBridgeProofs`, `EventSourcingProofs`, `SubmitterProofs`, `RelayerProofs`, `RebalancerProofs`, `InterchainProofs`, `InterchainAgentsProofs` | theorems about the module each is named after | each extends its module; `InterchainAgentsProofs` also `InterchainProofs` |
| `Sums` | lemmas: a set of natural numbers has a least element, and `Min` is it | |
| `MCFastBridge`, `MCEventSourcing`, `MCSubmitter`, `MCRelayer`, `MCRebalancer`, `MCInterchain`, `MCInterchainAgents` | inputs of the runs | |

### FastBridge

Every external function that changes state is an action; its guards are the
function's requirements in the form of conjuncts, and a revert is the absence of a
step. A transaction is atomic: all calls a function makes (fees, transfers,
the forwarded ETH) are in its action. `transactionId = keccak256(request)` is the
request itself, a record. `relay` is called with bytes of another chain, which the
contract cannot check; it takes any request of the constant `ForeignRequests`.
`balances` is what the contract holds of every token. `TransferFee` is what a token
keeps of a transfer; `TimestampModulus` stands for 2^96. Three history variables
are read by no action: `provedAt` (the untruncated time of the last proof), `paid`
(what has left a deposit) and `fills` (how often a recipient was paid).
Reentrancy through a token is not modelled: the functions write their status before
they transfer.

### ChainListener and EventSourcing

A chain is a sequence of logs and the number of its head. `BeginPoll` is `doPoll` up
to `FilterLogs`; each log of the range is then handed to the handler
(`LogHandled`, `LogFailed`), and `FinishPoll` stores how far it got. The handler is
whatever the module that uses the listener conjoins. Reorganisations are left out,
as the code leaves them out. The listener has its `LastIndexed` row to itself.

### Submitter

| code | model |
|---|---|
| `SubmitTransaction`: the transactor's signer under the nonce mutex, `storeTX` | `SignTransaction`, `StoreTransaction`; `StoreTransactionFails` |
| `processQueue`, which waits for the goroutines of the last pass | `BeginPass` |
| `chainPendingQueue`: `GetTXS`, `NonceAt`, `bumpTX` | `PendingTX` and, for the one nonce it returns, `SendAgain`, `BumpTX` or `GasCeiling` |
| `MarkAllBeforeNonceReplacedOrConfirmed` | `MarkAllBeforeNonce` |
| `storeAndSubmit`: two goroutines that share the statuses, `BatchTransact`, `cancelStore` | `StoreQueue`, `SendBatch`, `StoreOutcome`, `StoreCancelled`; failures `SendBatchFails`, `StoreOutcomeFails` |
| `processConfirmedQueue`, `checkAndSetConfirmation` | `ReadUnsettled`, `SetConfirmation`; `SetConfirmationFails` |
| the nodes and the chain | `mempool` and `mined`, `MineNext`, `Forget` |
| the process | `Crash`, after which only the table is left |

An attempt is a nonce, a call and a price; its hash is the record itself. `PutTX` is
`PutTXS`: a known hash has its status updated, another is a new row. `unstored` is what
the first goroutine may still write, because it reads the statuses while the second
changes them. `MaxResultsPerChain` is 1, as in the code's query of the pending
transactions, and in `LowestUnsettled` one over all chains.

`ethergo/submitter/README.md` promises, under "Understanding `SubmitTransaction`", that a
call which was given a nonce "will eventually get through as long as run keeps running".
The code keeps this under one condition, which `ImplementsQueue` states. When a price,
the oracle's or the last attempt's after a bump, is above the ceiling, `setGasPrice` fails,
`bumpTX` returns the error (`chain_queue.go:184-187`), and `chainPendingQueue` ends without
sending anything, the attempt at its old price included; so it does on every later pass.
A call whose attempt no mempool has at that moment (it was never sent, or the node dropped
it) is then stuck, and all later calls of the chain behind it. `Refused(c)` is that step,
and `TxQueue!Progress(c)` the promise: a chain executes every accepted call, or
`Refused(c)` happens again and again. (An attempt that is in a mempool when the ceiling is
met is mined all the same.) `ConfirmedIfTracked` needs no condition on prices: it
speaks of calls that were mined.

### Relayer

| code | model |
|---|---|
| `runChainIndexer` on the origin chain | `OriginPoll`, `IndexOriginLog`, `OriginLogFails`, `OriginPollDone` |
| the same on the destination chain, `handleRelayLog` | `DestPoll`, `IndexForeignRelay`, `IndexOwnRelay` then `IndexOwnRelayHash` (its two updates), `DestLogFails`, `DestPollDone` |
| `processDB` | `LoadBatch`, and `TakeRow` for each row, with the deadline mark |
| `deadlineMiddleware`, `gasMiddleware` | `RefuseLate`, `SkipWithoutGas` and the guards of the handlers |
| `handleSeen`, `handleNotEnoughInventory`, `handleCommitPending` | one action each: they end in one write |
| `handleCommitConfirmed` | `HandleCommitConfirmed` (the status), `SubmitRelay` |
| `handleRelayCompleted` | `HandleRelayCompleted` (the transaction), `WriteProvePosting` |
| `handleProofPosted` | `CheckProof`, `ClaimDeposit` then `WriteClaimPending`; `StopOnError` where `canClaim` reverts |
| the process | `Crash`, `Restart`; a handler's error in the selector ends it |
| the submitter | `originQueue`, `destQueue`: the queues of `TxQueue`; a transaction is mined, or reverts, some time later |
| other users of the contracts | `UserBridges`, `RivalRelays`, `RivalProves`, `RivalClaims`, `GuardDisputes`, `SomebodyRefunds` |

A step of the model is the code between two effects that another process may see:
a write to the database, a submission, a read of a chain. A handler that does several
is several actions, joined by `pc`. `rows` has unconditional updates, as
`UpdateQuoteRequestStatus` has. What the model leaves out: the rebate and ETH as
destination token, the rebalance that `handleDepositClaimed` triggers (`Rebalancer` has
it), the branch of `handleRelayLog` for a request without a row (which `TypeOK` shows to
be unreachable), the loop that posts quotes, the stores of nonces. Prices, gas and the
quoter's decision are chosen anew at every look.

### Rebalancer

| code | model |
|---|---|
| `refreshBalances`, one goroutine per chain | `Refresh` |
| `Rebalance`: `getRebalance`, `HasPendingRebalance`, `Execute` | `Plan` (with `Rebalances`), `CheckPending`, `SubmitBurn`, `StoreRebalance`; an error of any is `RebalanceFails` |
| the callers: the interval loop and the chain indexers | the set `Workers` |
| `listenDepositForBurn`, `listenMessageReceived` and `UpdateRebalance` | `HandleDepositForBurn`, `HandleMessageReceived`, `WriteFails` (only logged) |
| `doPoll` of the two listeners of a chain | `next`, one position for each; `Reparse` (a failing handler has the range fetched again, and ranges begin with the last block of the one before) |
| the process, `getMetadata` | `Restart` |
| Circle's contracts | `MineBurn`, `ReceiveMessage` |

`Matched` is the rule of `UpdateRebalance`: it commits only if it affects one row.
The index of a transfer stands for the request id. `transfer` in a row is for the
properties; the code's row has nothing of the kind until an event supplies the id.

The listeners of a chain do *not* have a row each: those of the TokenMessenger and of the
MessageTransmitter (`circle.go:166`, `177`), and that of the FastBridge, store their
progress in the one `LastIndexed` row of the chain (`ethergo/listener/db/store.go:33`), each
over what another stored, and all start there after a restart. So `Restart` lets the
row have any place between where the listeners started (`startBlock`) and the newest block:
the listener that wrote last may have been ahead of the others, or behind. What a listener
had not handled before that place is left out for ever, and goes into the history
variable `lost`, together with the events that changed no row because none or two
matched (among them an event handled before its row was stored, `circle.go:249`), and
those whose write failed. Logs have a block each.

The properties hold with several goroutines that call `Rebalance`, as the program has
(`manager.go:240-252`, `service/chainindexer.go:205-215`), or are stated to be violated:

* `OneInFlight`, two transfers in flight never share a chain, is what the code says it makes
  sure of; `rebalancer_overlap` violates it.
* `FewInFlight` is what remains: no more transfers of one origin are in flight than there are
  goroutines, as long as every transfer has its row. It is not obvious, because a row may be
  completed by the receipt of another transfer (two transfers of one chain, and the
  row of the second is stored first and tied to the burn of the first).
* `CompletedWasReceived` therefore does not say that the row's *own* transfer arrived, but
  that money of its chain did which completed no other row.
* `EventuallyCompleted` names what keeps a row open for ever: a burn that reverted, a
  transfer without a row, and an event that was missed (`NoneMissed`: it was lost and did not
  come again). The code does nothing about these; all other failures it
  survives.

### Interchain and InterchainAgents

A transaction, an entry and a batch are records: a hash stands for what was hashed.
`Sound` modules are SynapseModules, whose `verifyRemoteBatch` needs a quorum; another
module claims what it likes. Verifiers in `Corrupt` sign anything. `Prudent` is the
assumption on owners and governors, who are people: fewer corrupt verifiers than the
threshold, fewer arbitrary modules than required responses, *at any moment*; what a
setup verified in the past remains. Anybody may write entries of his own with the data
of a client, request any batch, and submit any quorum there is. Fees, the gas data that
travels with a batch, the choice of clients and the execution service are left out.

| code | model |
|---|---|
| `committee/node`: `handleMessageSent`, `BatchVerified` | `IndexRequest`, `IndexVerified` |
| `signAndBroadcast`, `submit`, `UpdateSignRequestStatus` | `SignAndBroadcast`, `SubmitBatch` or `NotEnoughSignatures`, `WriteStatus` |
| the datastores of the other nodes | `Gossip`, any time later; a corrupt node's signature may appear or not |
| `sin-executor/executor`: the log handler, `checkReady`, `executeTransaction` | `IndexExecutionRequest`, `CheckReady`, `ExecuteTransaction`, `WriteExecStatus` |
| both `runDBSelector` | `LoadRequests`, `LoadTransactions`: the rows of a snapshot, one after the other |
| the submitter of each | `nodeQueue`, `execQueue`; `MineVerify`, `MineExecute` |
| stops and errors | `NodeStops`, `NodeFails`, `ExecutorStops`, `ExecutorFails` |

## Runs

All bounds are constants: `MaxTime`, `MaxNonce`, `MaxBlocks`, `MaxLogs`, `MaxEntries`,
`MaxAge` and `MaxGasPrice` cap what grows; `MaxFailures`, `MaxRestarts`, `MaxStops`,
`MaxFaults`, `MaxCrashes`, `MaxRivalSteps`, `MaxChanges` cap how often something goes wrong
or somebody interferes; `MaxSteps` caps the rebalancer's transfers, trades and faults
together. No run uses a symmetry set: liveness
is checked, or accounts and chains are told apart by their roles. Deadlock is checked
only for the submitter, whose loop never ends; the other models stop at their bounds.

| run | what it shows | bounds and why they are enough |
|---|---|---|
| `fastbridge_settlement` | deposits are paid once, proofs match the status, an undisputed proof is final, the dispute period is kept, the contract refines `Escrow` | two requests (of equal parameters and with the contract itself as sender), two relayers of whom one loses and regains the role, a guard who is also refunder; the clock rolls over at 4 and 8 and starts at 2, so that a proof may wait across the roll-over and for a whole round |
| `fastbridge_funds` | types, solvency | ETH and a token that keeps 1 of each transfer, a fee of one half so that rounding and fees are not 0, a rebate of 0 or 1, two deposits at a time, relays of ETH with a rebate and of a token to the contract itself, with every `msg.value` around the right one |
| `events_single` | types, no log missed, order, every log handled in the end | a chain of 5 blocks with 3 logs in any of them, ranges of 2 blocks so that the listener lags, 2 failures, 2 restarts |
| `submitter_promise` | types, one call per nonce, never ahead of the chain, settled statuses are true, refines `TxQueue` and, unless the ceiling refuses it for ever, its progress; confirmed in the end if the table knows what is mined | two callers, so that they race and the second nonce waits for the first; the oracle's price is 0 or above the ceiling of 1, at every look, and bumps reach the ceiling; two faults of any kind at any step (a failed write or send, a lost transaction), a crash. Without `Refused` the progress is violated here, by the oracle's price alone and by two faults alone |
| `submitter_lost` | *violation*: see Findings; `EventuallyConfirmed` speaks only of what was mined, so that the ceiling does not violate it | one price of the oracle, one fault |
| `rebalancer_path` | types, few transfers in flight, completed means received and once, ids are kept, rows are completed in the end | two chains, *two goroutines* that rebalance, and three transfers, trades, and faults or restarts in any mixture: three transfers are one more than `FewInFlight` allows, two with a fault at any step show every way for rows to be tied to each other's burns and for a shared row to leave one out |
| `rebalancer_overlap` | *violation*: see Findings | two goroutines, two transfers, no fault |
| `interchain_delivery` | types, sound modules tell the truth, received was sent, once, executable stays so, refines `Delivery` | a message from a to b, at b a SynapseModule and an arbitrary module, two required responses; two of three verifiers corrupt, of whom one may be added and the other removed, two changes of any kind in the setup; another sender, another writer and an execution proof compete for the nonce |
| `interchain_executed` | statuses tell the truth, nothing is given up, every message is executed, refines `Interchain` | two honest nodes of which one relays, a corrupt one that signs or not, a threshold of two, so that the honest nodes suffice and one alone does not; two stops or failures at any step; another executor at any moment |
| `relayer_rivals` | proofs only of own relays, claims hold, no way back after the relay | one rival, one guard and refunder, two transactions of theirs at any moment: enough for relay-and-prove, prove-and-dispute, prove-and-claim |
| `relayer_progress` | types, one relay per request, only confirmed ones, every request is decided, every relay is proved | one request, of a kind that is filled, exceeds the funds, or is for a token without code; its deadline passes with the first tick; every outcome of the checks at every look, one stop or failure |
| `relayer_unclaimed` | *violation*: see Findings | one request, no failures |

Each property was broken by a mutant of a modelled definition (operators named
`Mutant...`, each next to the definition it replaces): a claim that may be made twice, a
nonce lock that is forgotten, a mark that reaches one nonce too far, a pending check
that looks at one status, a quorum counted over all verifiers, and so on.

### Fairness

Safety runs use the specification without fairness; where `Spec` includes it
(`Submitter`), it constrains no finite behaviour. Weak fairness is assumed of what loops
on a timer for as long as the process lives, of goroutines, of the holder of a mutex,
and of chains that mine what their nodes keep:

* `EventSourcing!FairSpec`: polling, handling and storing (`Listen`), and new blocks,
  because a log in the very block a poll starts from is only fetched when there is a
  later one.
* `Submitter!Fairness`: the pass of `Start`, each goroutine of it, the callers that hold
  the lock, mining.
* `Rebalancer!FairSpec`: the listeners, mining, Circle's attestation. Nothing is assumed of
  the workers.
* `Relayer!FairSpec`: each goroutine as a whole (`OriginIndexer`, `DestIndexer`,
  `Selector`), the restart of a process that ended (the service is supervised), blocks,
  mining, time, the expiry of the claim cache and `refreshBalances`.
* `InterchainAgents!AgentsFairSpec`: time, the indexers and selectors, the exchange of
  signatures between honest nodes (the datastores are rebroadcast on a timer), mining.

No failure, crash, or transaction of somebody else is fair.

## Findings

The violation runs show where the program does not do what its own documents say.

* `submitter_lost`: `storeAndSubmit` sends a bumped attempt *while* it is being stored. If the
  process dies before either write and the attempt is mined, the table does not know it:
  its nonce stays `ReplacedOrConfirmed`, and because only the lowest such nonce is
  looked at, nothing after it is confirmed either. `db/service.go` says the actual
  status will be set later.
* `rebalancer_overlap`: `Rebalance` checks for pending rebalances and executes one later,
  without a lock, and is called by several goroutines: two find the path free and both
  burn. From then on `UpdateRebalance` matches two rows and rolls back, neither row is
  completed, and `HasPendingRebalance` blocks both chains for good.
* `relayer_unclaimed`: `handleRelayCompleted` writes `ProvePosting` after the submission,
  over the `ProvePosted` the indexer may have written by then. Nobody handles
  `ProvePosting`: the deposit is not claimed.

Seen while modelling, reachable or found by reading, and not run:

* Listener: `PutLatestBlock` keys the row by chain id alone (`ethergo/listener/db/store.go:33`),
  but the relayer starts up to three listeners of one chain on one database; after a
  restart a listener goes on from where another one was. `Rebalancer` models it;
  `EventSourcing` and `Relayer` assume a row of their own.
* Relayer: a row marked `DeadlineExceeded`, "a terminal state", is then handed to its
  handler as it was loaded, which moves it on; `deadlineMiddleware` compares with now
  *minus* the buffer, so that a relay is started up to the buffer after the deadline, and
  the row of a reverted relay stays in `RelayStarted`; `handleRelayLog` writes
  `RelayCompleted` before the hash, and the selector that reads in between proves the zero hash;
  another relayer's *proof* makes this relayer mark the request `RelayRaceLost` although
  nobody relayed it; funds of a relay that was just completed are committed again until the
  next refresh; a disputed proof makes `canClaim` revert, which ends the process after
  every restart (`StopOnError`).
* Submitter: the first write of `storeAndSubmit` may overwrite the status of the second,
  which the next pass repairs; the first price may exceed the ceiling, and at the ceiling an
  attempt is not sent again at its old price either, so that a call may never "get
  through" (see Submitter above; `submitter_promise` passes because its property names this
  condition); marking takes back `Confirmed` until the next confirmation.
  Two branches are not in the model: `processQueue` returns early when it fails to read the
  chain ids (`queue.go:64-67`), and then does not wait for the goroutine that confirms,
  which may overlap that of the next pass; and `GetNonceStatus` for nonce 0 drops the nonce
  from its filter, since a query by struct leaves out zero fields, and may answer with the
  status of another nonce.
* Rebalancing: a crash or a failed write between burn and row leaves a transfer nobody
  knows (the properties are conditioned on `AllRecorded`), and the next row takes its
  events; an event that is handled before its row is there is dropped, so is a failed
  write, and so is what a restart leaves out through the shared `LastIndexed` row: the row
  stays `Initiated` or `Pending` and blocks its chains; with two goroutines a row may be
  completed by the receipt of another transfer; a burn that reverts leaves its row
  `Initiated` as well; with all balances equal and a maintenance share above the initial
  one, a chain is planned to send to itself.
* Interchain: a node finds its row by the signed hash, which does not name the
  destination, so that a request of the same batch for a second destination is dropped;
  the executor's receipt handler returns after the first event of the client; damaged
  signatures in a datastore make a submission revert, and a row that is `Broadcast` is
  not submitted again (in the model what corrupt verifiers share is always well-formed);
  the verifiers are read once, at the start of a node.

They are among the hazards listed for the project.

## Proofs

TLAPS proves the following for every value of the constants under the named assumptions.
They say that amounts, times and bounds are natural numbers (`TimeAssumption`,
`FeeAssumption`, `InputAssumption`, `ListenerAssumption`, `SubmitterAssumption`,
`RelayerAssumption`, `RebalancerAssumption`), that the fee rate's maximum is at most the
whole, that ETH is one of the tokens, that the zero address sends no transactions
(`AccountAssumption`), that the relayer is not one of its rivals and is not the zero
address, that the rebalancer's chains and goroutines are finitely many and its shares
percentages, that modules and verifiers are finitely many (`InterchainAssumption`), that
the nodes are verifiers that are not corrupt, and that their SynapseModule is deployed,
with a threshold that is not zero, on every chain (`AgentsAssumption`). TLC evaluates
every one of them in the runs.

* **FastBridgeProofs.** `TypeCorrect`; `Inductive`, the invariant `IInv`, which is
  `TypeOK /\ UniqueNonces /\ ProofMatchesStatus /\ PaidOnce /\ FilledOnce`. Each is
  needed for the others: that `bridge` does not overwrite a request needs unique
  nonces (a new request has a nonce no stored one has), that a payment is the first
  needs that a claimed or refunded request is out of `Open`, and the dispute period
  needs that the proof's timestamp is that of `provedAt`. From it
  `DepositsPaidOnce`, `OneProofPerRequest`, `TransactionIdsUnique`, `RelayedOnce`.
  `ClaimsWait` rests on `TruncatedElapsed` (the truncated difference is never more than the
  true one), `UndisputedProofsAreFinal` on `ExactElapsed` (it is the true one until the
  clock has gone all the way round). `SettledStays`, and `RefinesEscrow`: the initial
  state maps to the initial state of `Escrow`, and each step to a deposit, a release, a
  return or a stutter.
  `DebtsArePaid` is solvency. The property compares a balance with a sum over the open
  requests, so it first needs the sum: `MapThenSumSet` takes elements away in an order of
  its own, and `OwedFacts` says that its result is a natural number, 0 for no requests, and
  the same whichever request is taken away first. (The order is that of a `CHOOSE`; the
  lemmas `SumExists`, `SumsAgree` and `AnyFirst` are each an induction on the number of
  requests, done as a contradiction from the least number for which the claim fails,
  `Sums!LeastExists`.) The invariant `SolventInv` adds to `IInv` that the requests are
  finitely many. Then a step opens one request (`OneMore`: `bridge` must have received what
  it records, `AmountPulled` and the fee included), settles one (`OneLess`: what leaves the
  contract and what is added to the fees are together the deposit), or leaves the open
  ones alone (`SameSet`: `relay` passes on no more than it was sent, `sweepProtocolFees`
  pays no more than the fees).
* **EventSourcingProofs.** For a listener that has its row to itself,
  `BooksAreRight`, the invariant `SourceInv`. `NothingMissed` is not inductive: what
  the listener stores comes from the range it is parsing, so the invariant says that
  the logs are in block order (`ChainOrdered`), that no position runs ahead of the
  chain (`BehindTheHead`, or a new block could put a log behind it), that the logs
  before the block a poll starts from are done (`DoneBeforeStart`), and those of the range
  before the cursor (`DoneBeforeCursor`). From it `ListenerTypes`, `NoLogIsMissed`,
  `LogsAreHandledInOrder`.
* **SubmitterProofs.** `SubmitterInvariant`: the invariant `SubmitterInv` speaks of the
  nonces of the table with their calls (`Held`), because statuses, prices and the number
  of attempts change all the time and these do not. Nonces and calls determine each other
  (`OneCallEach`), there are no gaps and the chain is not ahead (`NoGaps`, from which
  `NextNonceFacts`: the maximum that `getNonce` computes is the number of nonces), what is
  sent is of a row (`SentIsStored`), callers wait for their turn (`CallersWait`), rows that
  are settled are mined (`SettledIsMined`), and the loop sends the chain's next nonce
  (`SendsInOrder`). The last two need each other: the lowest pending nonce is not ahead of
  the chain because an unmined one is pending (`PendingFacts`). From it `TypeHolds`,
  `NonceHasOneCallHolds` and `NeverAheadHolds`, for any number of chains, callers, faults
  and crashes.
  `SettledIsTrueHolds` needs a second invariant, `SettledInv`: the attempts for one nonce
  are pending or settled together (`SettledTogether`), what is being sent, and may still be
  written as pending, is for a nonce that is not settled (`SendsPending`), and the receipts
  that `checkAndSetConfirmation` asks for are of *all* attempts for their nonce
  (`LooksForAll`). Without the last a `Replaced` could be written over the attempt that was
  mined. This is where the goroutine that confirms meets the one that adds rows.
  `ImplementsQueueSafely` is the refinement of `TxQueue`: what is accepted are the calls of
  the rows in the order of the nonces (`CallsIn`, `AcceptedIsCallsIn`); a step stores the
  next call (`StoreAccepts`), mines the next one (`MineExecutes`) or leaves both alone
  (`CallsStay`), whatever it does to attempts, prices and statuses.
* **RelayerProofs.** `RelayerInvariant`: the invariant `RelayerInv` says what is known of a
  request in each of the places it can be in: the contracts (`ContractIsSound`), the logs
  (`LogsAreSound`), the listeners, the queues of the submitter, the table, and the one
  snapshot of the table the selector works on (`SnapshotsAreOne`). `RelayedOnce` is
  what `RelaySubmittedOnce` needs: updates are unconditional, so the property
  holds only because a request whose relay was started has no row *and no snapshot* in a
  status from before the relay, but the one of the handler that is about to submit it
  (`Relaying`). `OwnRelaysOnly` follows a relay through row, snapshot, queue, log and proof:
  a proof of this relayer anywhere is of a request its own relay was mined for
  (`RelaysWereSent` ties that to the submission). `ConfirmedFirst` carries the check of the
  confirmations from the row over the snapshot to the submission; the listener's latest
  block may be old, but never ahead of the chain (`ListenersFollow`). `ClaimsHold` is
  inductive with `ContractIsSound` (the proof has the time it was given): after the dispute
  period every call of the contract keeps a proof (`ContractKept`), so a claim that waits in
  the queue stays right. From it `TypeCorrect`, `SubmittedOnce`, `ProvesOnlyOwn`,
  `RelaysConfirmed`, `ClaimsStillHold`, and the action property `NeverBack`.
* **RebalancerProofs.** With any number of goroutines that call `Rebalance`.
  `BaseIsKept`: the logs are of transfers in the right state, a row has the path of its
  transfer and no id until a burn was seen, a worker has the plan of its transfer; from it
  `TypeCorrect` and `IDsKept`. `CompletedIsReceived` needs that a row is tied to a burn of its
  own chain (`IDsFollow`, because `Initiated` and the logs are of one chain), that what was
  received stays so (`TransfersStay`), and that a receipt completes a row only when no other
  has the id (`HandlersKeepTied`). `FewAreInFlight` is counting. The invariant `Room` says that
  the rows of a chain which are not completed, and the workers that found none there, are
  together at most as many as the workers: a worker joins when there are no such rows, and
  leaves as its row is added (`NextKeepsRoom`). `RoomIsEnough` gets the transfers from the
  rows: every transfer has its row or its worker, and the completed rows have different
  transfers that were received, so that what is in flight is no more than what is open or
  being recorded - although no row need be completed by its own transfer.
  The condition `AllRecorded` remains: a crash between burn and row leaves a transfer that
  no row knows.
* **InterchainProofs.** `InvHolds`: the invariant `InterchainInv` adds to the properties
  that requests and honest signatures are of batches that were written
  (`RequestsAreTrue`, `SignaturesAreTrue`), that what was received was executed
  (`ReceivedAreExecuted`), that no module has two roots for a batch, and `Prudent`. The heart
  is counting: among a threshold of signers one is honest (`HonestSigner`), among the
  required responses one is of a sound module (`SoundResponse`), both from `NotAllBad`.
  What was written stays (`WriteGrows`, `TruthStays`), so a quorum of the past remains
  right when the setup changes. From it `TypesHold`, `TruthHolds`, `OneRootHolds`,
  `OnlySentHolds`, `OnceHolds` and the action property `StaysExecutableHolds`;
  and `DeliveryHolds`, the refinement of `Delivery`: an entry is a sent message only if
  the client wrote it, for a transaction of that nonce (`WriteSends`), and what is
  executed was sent (`ExecutableWasSent`).
* **InterchainAgentsProofs.** `AgentsInvariant`: the invariant `AgentsInv` says of each
  node that its rows are about requests and that every status it *believes* (in a row, in a
  row its selector has loaded, or in what it is about to write) holds (`StatusHolds`), and
  the same of the executor (`ExecHolds`): the snapshots and the pending writes are what
  makes `SignedIsShared` and `NothingGivenUp` inductive. A submission that is mined after
  another node's changes nothing because a sound module has one root for a batch
  (`MineVerifyStep`, by the truth of `InterchainInv`); an execution that was lost to
  another executor is an execution (`MineExecuteStep`, by `ExecutableStays`). Every step of
  the agents is a step of the contracts or leaves them alone (`AgentsAllowed`): what a node
  has gathered is a quorum (`CallHasQuorum`). From it `AgentsImplementInterchain`, so that
  the theorems about `Interchain` hold of the contracts under these agents,
  `SignedIsSharedHolds` and `NothingGivenUpHolds`.

So every invariant and every action property a passing run checks is proved, and so is
the safety of each refinement.

Only model-checked: liveness (`EveryLogHandled`, `ConfirmedIfTracked`,
`EventuallyCompleted`, `EventuallyExecuted`, `EventuallyDecided`, `RelaysAreProved`) and
the progress in `ImplementsQueue`, which need `ENABLED`; and the three findings, whose
counterexamples are TLC's.

## Plan

1. Proofs: what `Relayer` assumes of the two chains against `FastBridgeProofs` (the origin
   of `Relayer` takes the steps of a FastBridge), and the safety that liveness rests on: a
   row is never stuck in a status nobody handles but for the listed findings.
2. Transactions with several messages in `InterchainAgents`, and several destinations of
   one batch.
3. `synapse.go` and the approvals in `Rebalancer`; rebates and ETH in `Relayer`.
4. The quoter's amount, the quote API and the CCTP relayer.
5. `contracts-core`: agent management, attestations and disputes.
