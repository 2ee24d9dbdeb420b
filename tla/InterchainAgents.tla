--------------------------- MODULE InterchainAgents ---------------------------
(***************************************************************************)
(* The agents of the interchain contracts.  Every node of the committee    *)
(* keeps the verification requests it has seen in a table, signs them,     *)
(* shares the signatures with the other nodes, and, if it relays, submits  *)
(* what a threshold of the verifiers has signed.  The executor keeps the   *)
(* messages it has seen, and executes those the client says are            *)
(* executable.                                                             *)
(*                                                                         *)
(* In each agent chain indexers and a database selector share the table.   *)
(* What they listen to arrives at least once (ChainListener), and what     *)
(* they submit is mined in order (Submitter).  The verifiers and their     *)
(* threshold do not change: the nodes read the verifiers when they start.  *)
(***************************************************************************)
EXTENDS Interchain

CONSTANTS
    Nodes,        \* the verifiers of the committee that are not corrupt
    Relays,       \* the nodes with ShouldRelay
    Module,       \* the SynapseModule the nodes are configured with
    MaxStops      \* bound: crashes, and failures of a call

ASSUME AgentsAssumption ==
    /\ Nodes \subseteq Verifiers \ Corrupt /\ Relays \subseteq Nodes
    /\ Module \in Sound /\ MaxStops \in Nat
    /\ \A c \in Chains : Module \in Deployed[c] /\ InitialThreshold[c][Module] > 0

VARIABLES
    nodeRows,     \* per node, VerificationRequest: batch -> destination and status
    replicas,     \* per node, the signatures in its copies of the datastores
    nodeItems,    \* per node, the rows that the selector has loaded
    nodeWrite,    \* per node, the status that the selector is about to write
    nodeQueue,    \* per node, the calls it has submitted
    execRows,     \* InterchainTransaction: transaction -> status
    execItems, execWrite, execQueue,
    stops

nodeVars == <<nodeRows, replicas, nodeItems, nodeWrite, nodeQueue>>
execVars == <<execRows, execItems, execWrite, execQueue>>
agentVars == <<vars, nodeVars, execVars, stops>>

\* A table of rows by id: an id that is there already is left alone.
Stored(rows, id, row) ==
    [i \in DOMAIN rows \cup {id} |-> IF i \in DOMAIN rows THEN rows[i] ELSE row]

\* UpdateSignRequestStatus, whatever the status was; no row, no update.
UpdateStatus(n, batch, status) ==
    nodeRows' = IF batch \in DOMAIN nodeRows[n]
                THEN [nodeRows EXCEPT ![n][batch].status = status] ELSE nodeRows

NoRows == [id \in {} |-> "none"]
NoWrite == {}

AgentsInit ==
    /\ Init
    /\ nodeRows = [n \in Nodes |-> NoRows] /\ replicas = [n \in Nodes |-> {}]
    /\ nodeItems = [n \in Nodes |-> {}] /\ nodeWrite = [n \in Nodes |-> NoWrite]
    /\ nodeQueue = [n \in Nodes |-> <<>>]
    /\ execRows = NoRows /\ execItems = {} /\ execWrite = NoWrite /\ execQueue = <<>>
    /\ stops = 0

-----------------------------------------------------------------------------
(* The users, the time, and an executor of somebody else's *)

UserSends(c, d, message) ==
    /\ InterchainSend(c, d, App, message, {Module})
    /\ UNCHANGED <<nodeVars, execVars, stops>>

TimePasses(c) == Tick(c) /\ UNCHANGED <<nodeVars, execVars, stops>>

SomebodyExecutes(c, tx) ==
    /\ InterchainExecute(c, tx)
    /\ UNCHANGED <<nodeVars, execVars, stops>>

-----------------------------------------------------------------------------
(* A node of the committee *)

\* handleMessageSent.  The row is found by the hash that is signed, which names the
\* batch but not its destination.
IndexRequest(n, r) ==
    /\ r.module = Module
    /\ nodeRows' = [nodeRows EXCEPT ![n] = Stored(@, r.batch, [dst |-> r.dst, status |-> "Seen"])]
    /\ UNCHANGED <<vars, replicas, nodeItems, nodeWrite, nodeQueue, execVars, stops>>

\* BatchVerified.
IndexVerified(n, c, r) ==
    /\ r.module = Module /\ r \in verified[c]
    /\ UpdateStatus(n, r.batch, "Completed")
    /\ UNCHANGED <<vars, replicas, nodeItems, nodeWrite, nodeQueue, execVars, stops>>

\* The datastores of the others arrive, again and again, until they are there.
Gossip(n, v, batch) ==
    /\ \/ v \in Corrupt /\ batch \in DOMAIN nodeRows[n]
       \/ <<v, batch>> \in signatures
    /\ replicas' = [replicas EXCEPT ![n] = @ \cup {<<v, batch>>}]
    /\ UNCHANGED <<vars, nodeRows, nodeItems, nodeWrite, nodeQueue, execVars, stops>>

MutantStatusQueries(n) == {IF n \in Relays THEN "Signed" ELSE "Seen"}
StatusQueries(n) == {"Seen"} \cup IF n \in Relays THEN {"Signed"} ELSE {}

LoadRequests(n) ==
    /\ nodeItems[n] = {} /\ nodeWrite[n] = NoWrite
    /\ nodeItems' = [nodeItems EXCEPT ![n] =
           {[batch |-> batch, dst |-> nodeRows[n][batch].dst, status |-> nodeRows[n][batch].status] :
               batch \in {b \in DOMAIN nodeRows[n] : nodeRows[n][b].status \in StatusQueries(n)}}]
    /\ UNCHANGED <<vars, nodeRows, replicas, nodeWrite, nodeQueue, execVars, stops>>

\* The selector turns to the next row it has loaded.
TakeItem(n, item) ==
    /\ nodeWrite[n] = NoWrite /\ item \in nodeItems[n]
    /\ nodeItems' = [nodeItems EXCEPT ![n] = @ \ {item}]

WriteNext(n, item, status) ==
    nodeWrite' = [nodeWrite EXCEPT ![n] = {[batch |-> item.batch, status |-> status]}]

MutantSignAndBroadcast(n, item) ==
    /\ TakeItem(n, item) /\ item.status = "Seen"
    /\ \/ /\ signatures' = signatures \cup {<<n, item.batch>>}
          /\ replicas' = [replicas EXCEPT ![n] = @ \cup {<<n, item.batch>>}]
       \/ UNCHANGED <<signatures, replicas>>
    /\ WriteNext(n, item, "Signed")
    /\ UNCHANGED <<entries, requests, verified, executed, received, setupVars,
                   nodeRows, nodeQueue, execVars, stops>>
\* signAndBroadcast: the signature, then the status.
SignAndBroadcast(n, item) ==
    /\ TakeItem(n, item) /\ item.status = "Seen"
    /\ signatures' = signatures \cup {<<n, item.batch>>}
    /\ replicas' = [replicas EXCEPT ![n] = @ \cup {<<n, item.batch>>}]
    /\ WriteNext(n, item, "Signed")
    /\ UNCHANGED <<entries, requests, verified, executed, received, setupVars,
                   nodeRows, nodeQueue, execVars, stops>>

MutantGathered(n, item) ==
    {by \in SUBSET {v \in signers[item.dst][Module] : <<v, item.batch>> \in replicas[n]} :
        Cardinality(by) + 1 = threshold[item.dst][Module]}
\* submit gathers as many signatures of the verifiers as the threshold says.
Gathered(n, item) ==
    {by \in SUBSET {v \in signers[item.dst][Module] : <<v, item.batch>> \in replicas[n]} :
        Cardinality(by) = threshold[item.dst][Module]}

\* submit: the transaction, then the status.
SubmitBatch(n, item) ==
    /\ TakeItem(n, item) /\ item.status = "Signed"
    /\ \E by \in Gathered(n, item) :
           nodeQueue' = [nodeQueue EXCEPT ![n] = Append(@, [dst |-> item.dst, batch |-> item.batch, by |-> by])]
    /\ WriteNext(n, item, "Broadcast")
    /\ UNCHANGED <<vars, nodeRows, replicas, execVars, stops>>

NotEnoughSignatures(n, item) ==
    /\ TakeItem(n, item) /\ item.status = "Signed"
    /\ Gathered(n, item) = {}
    /\ UNCHANGED <<vars, nodeRows, replicas, nodeWrite, nodeQueue, execVars, stops>>

WriteStatus(n) ==
    /\ \E write \in nodeWrite[n] : UpdateStatus(n, write.batch, write.status)
    /\ nodeWrite' = [nodeWrite EXCEPT ![n] = NoWrite]
    /\ UNCHANGED <<vars, replicas, nodeItems, nodeQueue, execVars, stops>>

HasQuorumBy(call) == Cardinality(call.by \cap signers[call.dst][Module]) >= threshold[call.dst][Module]

MutantVerify(call) ==
    IF HasQuorumBy(call)
    THEN verified' = [verified EXCEPT ![call.dst] = @ \cup {[module |-> Module, batch |-> call.batch, age |-> 0]}]
    ELSE UNCHANGED verified
\* verifyRemoteBatch is mined: it reverts without a quorum or for another root, and
\* does nothing for the root that is there.
Verify(call) ==
    IF HasQuorumBy(call) /\ Verifications(call.dst, Module, call.batch) = {}
    THEN verified' = [verified EXCEPT ![call.dst] = @ \cup {[module |-> Module, batch |-> call.batch, age |-> 0]}]
    ELSE UNCHANGED verified

MineVerify(n) ==
    /\ nodeQueue[n] # <<>>
    /\ Verify(Head(nodeQueue[n]))
    /\ nodeQueue' = [nodeQueue EXCEPT ![n] = Tail(@)]
    /\ UNCHANGED <<entries, requests, signatures, executed, received, setupVars,
                   nodeRows, replicas, nodeItems, nodeWrite, execVars, stops>>

-----------------------------------------------------------------------------
(* The executor *)

\* The handler of ExecutionRequested.
IndexExecutionRequest(tx) ==
    /\ WasSent(tx)
    /\ execRows' = Stored(execRows, tx, "Seen")
    /\ UNCHANGED <<vars, nodeVars, execItems, execWrite, execQueue, stops>>

LoadTransactions ==
    /\ execItems = {} /\ execWrite = NoWrite
    /\ execItems' = {[tx |-> tx, status |-> execRows[tx]] :
                         tx \in {t \in DOMAIN execRows : execRows[t] \in {"Seen", "Ready"}}}
    /\ UNCHANGED <<vars, nodeVars, execRows, execWrite, execQueue, stops>>

TakeTransaction(item) ==
    /\ execWrite = NoWrite /\ item \in execItems
    /\ execItems' = execItems \ {item}

\* checkReady asks the client, and writes what it said.
CheckReady(item) ==
    /\ TakeTransaction(item) /\ item.status = "Seen"
    /\ execWrite' = IF IsExecutable(item.tx.dst, item.tx) THEN {[tx |-> item.tx, status |-> "Ready"]} ELSE NoWrite
    /\ UNCHANGED <<vars, nodeVars, execRows, execQueue, stops>>

\* executeTransaction: the transaction, then the status.
ExecuteTransaction(item) ==
    /\ TakeTransaction(item) /\ item.status = "Ready"
    /\ execQueue' = Append(execQueue, item.tx)
    /\ execWrite' = {[tx |-> item.tx, status |-> "Executed"]}
    /\ UNCHANGED <<vars, nodeVars, execRows, stops>>

WriteExecStatus ==
    /\ \E write \in execWrite : execRows' = [execRows EXCEPT ![write.tx] = write.status]
    /\ execWrite' = NoWrite
    /\ UNCHANGED <<vars, nodeVars, execItems, execQueue, stops>>

\* interchainExecute is mined, or reverts.
MineExecute ==
    /\ execQueue # <<>>
    /\ LET tx == Head(execQueue) IN InterchainExecute(tx.dst, tx) \/ (~IsExecutable(tx.dst, tx) /\ UNCHANGED vars)
    /\ execQueue' = Tail(execQueue)
    /\ UNCHANGED <<nodeVars, execRows, execItems, execWrite, stops>>

-----------------------------------------------------------------------------
(* Failures *)

Fault == stops < MaxStops /\ stops' = stops + 1

\* A node stops between any two steps, and starts again.
NodeStops(n) ==
    /\ Fault
    /\ nodeItems' = [nodeItems EXCEPT ![n] = {}] /\ nodeWrite' = [nodeWrite EXCEPT ![n] = NoWrite]
    /\ UNCHANGED <<vars, nodeRows, replicas, nodeQueue, execVars>>

\* A call fails before it has changed anything, or the write of the status fails: the
\* error is logged, and the selector goes on with the next row.
NodeFails(n) ==
    /\ Fault
    /\ \/ \E item \in nodeItems[n] : TakeItem(n, item) /\ UNCHANGED nodeWrite
       \/ nodeWrite[n] # NoWrite /\ nodeWrite' = [nodeWrite EXCEPT ![n] = NoWrite] /\ UNCHANGED nodeItems
    /\ UNCHANGED <<vars, nodeRows, replicas, nodeQueue, execVars>>

ExecutorStops ==
    /\ Fault
    /\ execItems' = {} /\ execWrite' = NoWrite
    /\ UNCHANGED <<vars, nodeVars, execRows, execQueue>>

ExecutorFails ==
    /\ Fault
    /\ \/ \E item \in execItems : TakeTransaction(item) /\ UNCHANGED execWrite
       \/ execWrite # NoWrite /\ execWrite' = NoWrite /\ UNCHANGED execItems
    /\ UNCHANGED <<vars, nodeVars, execRows, execQueue>>

-----------------------------------------------------------------------------
Selector(n) ==
    \/ LoadRequests(n)
    \/ \E item \in nodeItems[n] :
           SignAndBroadcast(n, item) \/ SubmitBatch(n, item) \/ NotEnoughSignatures(n, item)
    \/ WriteStatus(n)

ExecSelector ==
    \/ LoadTransactions
    \/ \E item \in execItems : CheckReady(item) \/ ExecuteTransaction(item)
    \/ WriteExecStatus

AgentsNext ==
    \/ \E c, d \in Chains, m \in Messages : UserSends(c, d, m)
    \/ \E c \in Chains : TimePasses(c) \/ \E tx \in Transactions : SomebodyExecutes(c, tx)
    \/ \E n \in Nodes :
        \/ \E r \in requests : IndexRequest(n, r)
        \/ \E c \in Chains : \E r \in verified[c] : IndexVerified(n, c, r)
        \/ \E v \in Verifiers, r \in requests : Gossip(n, v, r.batch)
        \/ Selector(n) \/ MineVerify(n)
        \/ NodeStops(n) \/ NodeFails(n)
    \/ \E tx \in Transactions : IndexExecutionRequest(tx)
    \/ ExecSelector \/ MineExecute
    \/ ExecutorStops \/ ExecutorFails

AgentsSpec == AgentsInit /\ [][AgentsNext]_agentVars

\* Time passes, every loop of an agent runs again and again, the datastores are
\* rebroadcast on a timer, and what was submitted is mined.
AgentsFairSpec ==
    /\ AgentsSpec
    /\ \A c \in Chains : WF_agentVars(TimePasses(c))
    /\ \A n \in Nodes :
        /\ WF_agentVars(\E r \in requests : IndexRequest(n, r))
        /\ \A v \in Nodes : WF_agentVars(\E r \in requests : Gossip(n, v, r.batch))
        /\ WF_agentVars(Selector(n)) /\ WF_agentVars(MineVerify(n))
    /\ WF_agentVars(\E tx \in Transactions : IndexExecutionRequest(tx))
    /\ WF_agentVars(ExecSelector) /\ WF_agentVars(MineExecute)

-----------------------------------------------------------------------------
\* What a row says was done was done, although the node may stop, or a write fail,
\* between what it does and what it writes: a node that has moved on from Seen has
\* shared its signature, and nobody waits for it.
SignedIsShared ==
    \A n \in Nodes : \A batch \in DOMAIN nodeRows[n] :
        nodeRows[n][batch].status \in {"Signed", "Broadcast"} => <<n, batch>> \in signatures

IsVerified(c, batch) == \E r \in verified[c] : r.module = Module /\ r.batch = batch

\* The database has been told, or will be by what node n has submitted.
VerifyIsCertain(n, batch, c) ==
    \/ IsVerified(c, batch)
    \/ \E i \in DOMAIN nodeQueue[n] :
           /\ nodeQueue[n][i].batch = batch /\ nodeQueue[n][i].dst = c
           /\ HasQuorumBy(nodeQueue[n][i])

ExecuteIsCertain(tx) ==
    \/ tx \in executed[tx.dst]
    \/ IsExecutable(tx.dst, tx) /\ \E i \in DOMAIN execQueue : execQueue[i] = tx

\* An agent never looks again at a row that it has marked as Broadcast or Executed,
\* and does not look at the receipt: so at that moment the outcome must be certain,
\* whatever other nodes and other executors get mined before.
NothingGivenUp ==
    /\ \A n \in Nodes : \A batch \in DOMAIN nodeRows[n] :
           nodeRows[n][batch].status = "Broadcast" => VerifyIsCertain(n, batch, nodeRows[n][batch].dst)
    /\ \A tx \in DOMAIN execRows : execRows[tx] = "Executed" => ExecuteIsCertain(tx)

\* Every message an app sends is executed in the end, if there are enough verifiers
\* that are not corrupt: agents that stop, calls and writes that fail, signatures that
\* arrive late and corrupt verifiers that do not sign do not prevent it.
EventuallyExecuted ==
    \A tx \in Transactions : WasSent(tx) ~> tx \in executed[tx.dst]

\* The contracts, as the agents use them, are the contracts of Interchain.
ImplementsInterchain == Spec
=============================================================================
