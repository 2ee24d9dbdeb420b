------------------------ MODULE InterchainAgentsProofs ------------------------
(***************************************************************************)
(* Committee and executor use the contracts as Interchain allows, and give *)
(* nothing up, for any number of chains, nodes, messages and failures.     *)
(***************************************************************************)
EXTENDS InterchainAgents, InterchainProofs

USE InterchainAssumption, AgentsAssumption

-----------------------------------------------------------------------------
(* The invariant *)

Requested(batch, c) == \E r \in requests : r.batch = batch /\ r.dst = c

Statuses == {"Seen", "Signed", "Broadcast", "Completed"}
NodeRow == [dst : Chains, status : Statuses]
NodeItem == [batch : Batches, dst : Chains, status : Statuses]
NodeCall == [dst : Chains, batch : Batches, by : SUBSET Verifiers]
ToWrite == [batch : Batches, status : Statuses]
RowsOf(Ids, Row) == UNION {[ids -> Row] : ids \in SUBSET Ids}

NodesTypeOK ==
    /\ nodeRows \in [Nodes -> RowsOf(Batches, NodeRow)]
    /\ replicas \in [Nodes -> SUBSET (Verifiers \X Batches)]
    /\ nodeItems \in [Nodes -> SUBSET NodeItem]
    /\ nodeWrite \in [Nodes -> SUBSET ToWrite]
    /\ nodeQueue \in [Nodes -> Seq(NodeCall)]

RowFor(n, batch, c) == batch \in DOMAIN nodeRows[n] /\ nodeRows[n][batch].dst = c

\* What a row says, the selector has loaded, or is about to write.
Believed(n, batch, status) ==
    \/ batch \in DOMAIN nodeRows[n] /\ nodeRows[n][batch].status = status
    \/ \E item \in nodeItems[n] : item.batch = batch /\ item.status = status
    \/ [batch |-> batch, status |-> status] \in nodeWrite[n]

StatusHolds(n, batch, status) ==
    /\ status \in {"Signed", "Broadcast"} => <<n, batch>> \in signatures
    /\ status = "Broadcast" => \A c \in Chains : RowFor(n, batch, c) => VerifyIsCertain(n, batch, c)

\* A row is about a request, the selector works on rows, and what they say is so.
RowsTrue(n) ==
    /\ \A batch \in Batches, c \in Chains : RowFor(n, batch, c) => Requested(batch, c)
    /\ \A item \in nodeItems[n] : RowFor(n, item.batch, item.dst)
    /\ \A write \in nodeWrite[n] : write.batch \in DOMAIN nodeRows[n]
    /\ \A batch \in Batches, status \in Statuses :
           Believed(n, batch, status) => StatusHolds(n, batch, status)

\* The signatures of a node that is not corrupt are its own.
Genuine(v, batch) == v \in Corrupt \/ <<v, batch>> \in signatures
ReplicasTrue(n) == \A copy \in replicas[n] : Genuine(copy[1], copy[2])
QueueTrue(n) ==
    \A i \in DOMAIN nodeQueue[n] :
        /\ Requested(nodeQueue[n][i].batch, nodeQueue[n][i].dst)
        /\ \A v \in nodeQueue[n][i].by : Genuine(v, nodeQueue[n][i].batch)

NodeInv(n) == RowsTrue(n) /\ ReplicasTrue(n) /\ QueueTrue(n)

\* What the client called executable once is executable still, or executed.
Ready(tx) == IsExecutable(tx.dst, tx) \/ tx \in executed[tx.dst]

ExecStatuses == {"Seen", "Ready", "Executed"}
ExecStatus == [tx : Transactions, status : ExecStatuses]
ExecTypeOK ==
    /\ execRows \in RowsOf(Transactions, ExecStatuses)
    /\ execItems \subseteq ExecStatus /\ execWrite \subseteq ExecStatus
    /\ execQueue \in Seq(Transactions)

ExecBelieved(tx, status) ==
    \/ tx \in DOMAIN execRows /\ execRows[tx] = status
    \/ [tx |-> tx, status |-> status] \in execItems \cup execWrite
ExecHolds(tx, status) ==
    /\ status = "Ready" => Ready(tx)
    /\ status = "Executed" => ExecuteIsCertain(tx)
ExecInv ==
    /\ \A item \in execItems \cup execWrite : item.tx \in DOMAIN execRows
    /\ \A tx \in Transactions, status \in ExecStatuses :
           ExecBelieved(tx, status) => ExecHolds(tx, status)

\* The threshold does not change, and a batch goes to another chain.
SetupInv ==
    /\ threshold = InitialThreshold
    /\ \A r \in requests : r.batch.src # r.dst

AgentsInv ==
    /\ InterchainInv /\ SetupInv
    /\ NodesTypeOK /\ \A n \in Nodes : NodeInv(n)
    /\ ExecTypeOK /\ ExecInv

-----------------------------------------------------------------------------
(* What the contracts have said, they go on saying *)

\* A step of the contracts that takes nothing back.
ContractsKeep ==
    /\ UNCHANGED <<appConfig, trusted, signers, threshold>>
    /\ requests \subseteq requests' /\ signatures \subseteq signatures'
    /\ \A c \in Chains, batch \in Batches : IsVerified(c, batch) => IsVerified(c, batch)'
    /\ \A tx \in Transactions : Ready(tx) => Ready(tx)'
    /\ \A tx \in Transactions : tx \in executed[tx.dst] => tx \in executed'[tx.dst]

LEMMA SharedGrow ==
    ASSUME TypeOK, [Next]_vars
    PROVE  /\ requests \subseteq requests' /\ signatures \subseteq signatures'
           /\ \A c \in Chains : executed[c] \subseteq executed'[c]
  <1> USE DEF TypeOK
  <1>1. ASSUME NEW c \in Chains, NEW tx \in Transactions, InterchainExecute(c, tx)
        PROVE  \A d \in Chains : executed[d] \subseteq executed'[d]
    BY <1>1 DEF InterchainExecute
  <1>2. CASE UNCHANGED vars
    BY <1>2 DEF vars, contractVars
  <1>3. CASE Setup
    BY <1>3 DEF Setup, contractVars
  <1>4. ASSUME NEW c \in Chains, NEW d \in Chains, NEW s \in Senders, NEW m \in Messages,
               NEW modules \in SUBSET Modules, InterchainSend(c, d, s, m, modules)
        PROVE  requests \subseteq requests' /\ UNCHANGED <<signatures, executed>>
    BY <1>4 DEF InterchainSend
  <1>5. ASSUME NEW c \in Chains, NEW d \in Chains, NEW modules \in SUBSET Modules,
               NEW n \in 0..(DBNonce(c) - 1), RequestBatchVerification(c, d, n, modules)
        PROVE  requests \subseteq requests' /\ UNCHANGED <<signatures, executed>>
    BY <1>5 DEF RequestBatchVerification
  <1>6. ASSUME NEW c \in Chains, WriteAnyEntry(c) \/ WriteExecutionProof(c) \/ Tick(c)
        PROVE  UNCHANGED <<requests, signatures, executed>>
    BY <1>6 DEF WriteAnyEntry, WriteExecutionProof, Tick
  <1>7. ASSUME NEW v \in Verifiers, NEW batch, Sign(v, batch)
        PROVE  signatures \subseteq signatures' /\ UNCHANGED <<requests, executed>>
    BY <1>7 DEF Sign
  <1>8. ASSUME NEW c \in Chains, NEW b, NEW m, ModuleVerifies(c, m, b)
        PROVE  UNCHANGED <<requests, signatures, executed>>
    BY <1>8 DEF ModuleVerifies, VerifyRemoteBatch
  <1>9. ASSUME NEW c \in Chains, NEW tx \in Transactions, InterchainExecute(c, tx)
        PROVE  UNCHANGED <<requests, signatures>>
    BY <1>9 DEF InterchainExecute
  <1> QED
    BY <1>1, <1>2, <1>3, <1>4, <1>5, <1>6, <1>7, <1>8, <1>9 DEF Next

LEMMA ContractsKeepTheirWord ==
    ASSUME InterchainInv, [Next]_vars, UNCHANGED setupVars
    PROVE  ContractsKeep
  <1>t. TypeOK /\ UNCHANGED <<appConfig, trusted, signers, threshold>>
    BY DEF InterchainInv, setupVars
  <1>1. /\ requests \subseteq requests' /\ signatures \subseteq signatures'
        /\ \A c \in Chains : executed[c] \subseteq executed'[c]
    BY <1>t, SharedGrow
  <1>2. ASSUME NEW c \in Chains, NEW batch \in Batches, IsVerified(c, batch)
        PROVE  IsVerified(c, batch)'
    <2>1. PICK r \in verified[c] : r.module = Module /\ r.batch = batch
      BY <1>2 DEF IsVerified
    <2>2. PICK s \in verified'[c] : s.module = r.module /\ s.batch = r.batch
      BY <1>t, VerifiedStays
    <2> QED
      BY <2>1, <2>2 DEF IsVerified
  <1>3. ASSUME NEW tx \in Transactions, Ready(tx)
        PROVE  Ready(tx)'
    <2>1. tx.dst \in Chains
      BY NonceIsNat
    <2>2. CASE tx \in executed[tx.dst]
      BY <1>1, <2>1, <2>2 DEF Ready
    <2>3. CASE IsExecutable(tx.dst, tx)
      <3>1. IsExecutable(tx.dst, tx)' \/ tx \in executed'[tx.dst]
        BY <1>t, <2>1, <2>3, ExecutableStays
      <3> QED
        BY <3>1 DEF Ready
    <2> QED
      BY <1>3, <2>2, <2>3 DEF Ready
  <1> QED
    BY <1>t, <1>1, <1>2, <1>3, NonceIsNat DEF ContractsKeep

-----------------------------------------------------------------------------
(* What a step of the contracts, or of another agent, leaves true *)

\* What is certain for a node stays so.
CertainKept(n) ==
    \A batch \in Batches, c \in Chains : VerifyIsCertain(n, batch, c) => VerifyIsCertain(n, batch, c)'

\* No row goes away, or changes its destination.
RowsKept(n) ==
    \A batch \in DOMAIN nodeRows[n] :
        batch \in DOMAIN nodeRows'[n] /\ nodeRows'[n][batch].dst = nodeRows[n][batch].dst

LEMMA RowType ==
    ASSUME NodesTypeOK, NEW n \in Nodes
    PROVE  /\ DOMAIN nodeRows[n] \subseteq Batches
           /\ nodeRows[n] = [batch \in DOMAIN nodeRows[n] |-> nodeRows[n][batch]]
           /\ \A batch \in DOMAIN nodeRows[n] : nodeRows[n][batch] \in NodeRow
  <1>1. nodeRows[n] \in RowsOf(Batches, NodeRow)
    BY DEF NodesTypeOK
  <1>2. PICK ids \in SUBSET Batches : nodeRows[n] \in [ids -> NodeRow]
    BY <1>1 DEF RowsOf
  <1> QED
    BY <1>2

LEMMA QueueKeepsCertain ==
    ASSUME ContractsKeep, NEW n \in Nodes, nodeQueue'[n] = nodeQueue[n]
    PROVE  CertainKept(n)
  BY DEF ContractsKeep, CertainKept, VerifyIsCertain, HasQuorumBy

LEMMA StatusKept ==
    ASSUME ContractsKeep, NEW n \in Nodes, CertainKept(n), RowsKept(n),
           NEW batch \in Batches, batch \in DOMAIN nodeRows[n], NEW status, StatusHolds(n, batch, status)
    PROVE  StatusHolds(n, batch, status)'
  <1>1. ASSUME NEW c \in Chains, status = "Broadcast", RowFor(n, batch, c)'
        PROVE  VerifyIsCertain(n, batch, c)'
    BY <1>1 DEF RowFor, RowsKept, CertainKept, StatusHolds
  <1> QED
    BY <1>1 DEF StatusHolds, ContractsKeep

\* How the rows of a node stay true: a new row is about a request, and what has not
\* been said before is so.
LEMMA RowsTrueStep ==
    ASSUME ContractsKeep, NodesTypeOK, NEW n \in Nodes, RowsTrue(n), CertainKept(n), RowsKept(n),
           \A batch \in Batches, c \in Chains : RowFor(n, batch, c)' => RowFor(n, batch, c) \/ Requested(batch, c),
           \A item \in nodeItems'[n] : item \in nodeItems[n] \/ RowFor(n, item.batch, item.dst),
           \A write \in nodeWrite'[n] : write.batch \in DOMAIN nodeRows[n],
           \A batch \in Batches, status \in Statuses :
               Believed(n, batch, status)' =>
                   \/ Believed(n, batch, status) /\ batch \in DOMAIN nodeRows[n]
                   \/ StatusHolds(n, batch, status)'
    PROVE  RowsTrue(n)'
  <1>1. ASSUME NEW batch \in Batches, NEW c \in Chains, RowFor(n, batch, c)' PROVE Requested(batch, c)'
    BY <1>1 DEF RowsTrue, Requested, ContractsKeep
  <1>2. ASSUME NEW item \in nodeItems'[n] PROVE RowFor(n, item.batch, item.dst)'
    BY <1>2 DEF RowsTrue, RowFor, RowsKept
  <1>3. ASSUME NEW write \in nodeWrite'[n] PROVE write.batch \in DOMAIN nodeRows'[n]
    BY <1>3 DEF RowsKept
  <1>4. ASSUME NEW batch \in Batches, NEW status \in Statuses, Believed(n, batch, status)'
        PROVE  StatusHolds(n, batch, status)'
    BY <1>4, StatusKept DEF RowsTrue
  <1> QED
    BY <1>1, <1>2, <1>3, <1>4 DEF RowsTrue

\* Only rows are believed.
LEMMA BelievedRow ==
    ASSUME NEW n \in Nodes, RowsTrue(n), NEW batch, NEW status, Believed(n, batch, status)
    PROVE  batch \in DOMAIN nodeRows[n]
  BY DEF RowsTrue, Believed, RowFor

LEMMA ReplicasTrueKept ==
    ASSUME ContractsKeep, NEW n \in Nodes, ReplicasTrue(n), replicas'[n] \subseteq replicas[n]
    PROVE  ReplicasTrue(n)'
  BY DEF ReplicasTrue, Genuine, ContractsKeep

\* A signature that was made is added.
LEMMA ReplicasTrueStep ==
    ASSUME ContractsKeep, NEW n \in Nodes, ReplicasTrue(n), NEW v, NEW batch, Genuine(v, batch)',
           replicas'[n] = replicas[n] \cup {<<v, batch>>}
    PROVE  ReplicasTrue(n)'
  <1>1. ASSUME NEW copy \in replicas[n] PROVE Genuine(copy[1], copy[2])'
    <2>1. copy[1] \in Corrupt \/ <<copy[1], copy[2]>> \in signatures
      BY DEF ReplicasTrue, Genuine
    <2> QED
      BY <2>1 DEF Genuine, ContractsKeep
  <1>2. ASSUME NEW copy, copy = <<v, batch>> PROVE Genuine(copy[1], copy[2])'
    BY <1>2 DEF Genuine
  <1> QED
    BY <1>1, <1>2 DEF ReplicasTrue

LEMMA QueueTrueKept ==
    ASSUME ContractsKeep, NEW n \in Nodes, QueueTrue(n), nodeQueue'[n] = nodeQueue[n]
    PROVE  QueueTrue(n)'
  BY DEF QueueTrue, Requested, Genuine, ContractsKeep

\* A step that adds no row and no status.
LEMMA RowsTrueKept ==
    ASSUME ContractsKeep, NodesTypeOK, NEW n \in Nodes, RowsTrue(n), CertainKept(n),
           nodeRows'[n] = nodeRows[n],
           nodeItems'[n] \subseteq nodeItems[n], nodeWrite'[n] \subseteq nodeWrite[n]
    PROVE  RowsTrue(n)'
  <1>1. RowsKept(n)
    BY DEF RowsKept
  <1>2. ASSUME NEW batch \in Batches, NEW status \in Statuses, Believed(n, batch, status)'
        PROVE  Believed(n, batch, status) /\ batch \in DOMAIN nodeRows[n]
    <2>1. Believed(n, batch, status)
      BY <1>2 DEF Believed
    <2> QED
      BY <2>1, BelievedRow
  <1>3. \A batch \in Batches, c \in Chains : RowFor(n, batch, c)' => RowFor(n, batch, c)
    BY DEF RowFor
  <1>4. \A write \in nodeWrite'[n] : write.batch \in DOMAIN nodeRows[n]
    BY DEF RowsTrue
  <1> QED
    BY <1>1, <1>2, <1>3, <1>4, RowsTrueStep

\* A step that is not the node's own, or one that it stops at.
LEMMA NodeKept ==
    ASSUME ContractsKeep, NodesTypeOK, NEW n \in Nodes, NodeInv(n),
           nodeRows'[n] = nodeRows[n], replicas'[n] = replicas[n],
           nodeItems'[n] \subseteq nodeItems[n], nodeWrite'[n] \subseteq nodeWrite[n],
           nodeQueue'[n] = nodeQueue[n]
    PROVE  NodeInv(n)'
  BY QueueKeepsCertain, RowsTrueKept, ReplicasTrueKept, QueueTrueKept DEF NodeInv

\* The executor's rows.
LEMMA ExecHoldsKept ==
    ASSUME ContractsKeep, NEW tx \in Transactions, NEW status, ExecHolds(tx, status),
           \A i \in DOMAIN execQueue : \E j \in DOMAIN execQueue' : execQueue'[j] = execQueue[i]
    PROVE  ExecHolds(tx, status)'
  <1>1. Ready(tx) => Ready(tx)'
    BY DEF ContractsKeep
  <1>2. ASSUME ExecuteIsCertain(tx) PROVE ExecuteIsCertain(tx)'
    <2>1. tx \in executed[tx.dst] => tx \in executed'[tx.dst]
      BY DEF ContractsKeep
    <2>2. IsExecutable(tx.dst, tx) => IsExecutable(tx.dst, tx)' \/ tx \in executed'[tx.dst]
      BY <1>1 DEF Ready
    <2> QED
      BY <1>2, <2>1, <2>2 DEF ExecuteIsCertain
  <1> QED
    BY <1>1, <1>2 DEF ExecHolds

LEMMA ExecKept ==
    ASSUME ContractsKeep, ExecTypeOK, ExecInv, UNCHANGED <<execRows, execQueue>>,
           execItems' \subseteq execItems, execWrite' \subseteq execWrite
    PROVE  ExecTypeOK' /\ ExecInv'
  <1>1. ExecTypeOK'
    BY DEF ExecTypeOK
  <1>2. ASSUME NEW tx \in Transactions, NEW status \in ExecStatuses, ExecBelieved(tx, status)'
        PROVE  ExecHolds(tx, status)'
    <2>1. ExecHolds(tx, status)
      BY <1>2 DEF ExecInv, ExecBelieved
    <2> QED
      BY <2>1, ExecHoldsKept
  <1> QED
    BY <1>1, <1>2 DEF ExecInv

-----------------------------------------------------------------------------
(* What the agents do to the contracts, the contracts allow *)

\* Who has a row, or a call, has a batch that is in the database of its source.
LEMMA RequestedBatch ==
    ASSUME AgentsInv, NEW batch, NEW c, Requested(batch, c)
    PROVE  /\ c \in Chains /\ batch \in Batches /\ batch \in Candidates
           /\ batch.src # c /\ IsTrue(batch)
  <1>1. PICK r \in requests : r.batch = batch /\ r.dst = c
    BY DEF Requested
  <1>2. r \in [module : Modules, dst : Chains, batch : Batches]
    BY DEF AgentsInv, InterchainInv, TypeOK
  <1>3. IsTrue(batch)
    BY <1>1 DEF AgentsInv, InterchainInv, RequestsAreTrue
  <1>4. batch.nonce \in Nat /\ batch.src \in Chains
    BY <1>1, <1>2 DEF Batches
  <1>5. batch = GetBatch(batch.src, (batch.nonce + 1) - 1)
    BY <1>3, <1>4 DEF IsTrue
  <1>6. batch \in Written(batch.src)
    BY <1>3, <1>5 DEF Written, IsTrue
  <1> QED
    BY <1>1, <1>2, <1>3, <1>4, <1>6 DEF AgentsInv, SetupInv, Candidates

\* Whoever has as many signatures as the threshold says has a quorum.
LEMMA CallHasQuorum ==
    ASSUME AgentsInv, NEW call \in NodeCall, HasQuorumBy(call),
           \A v \in call.by : Genuine(v, call.batch)
    PROVE  HasQuorum(call.dst, Module, call.batch)
  <1> DEFINE Those == call.by \cap signers[call.dst][Module]
             All == SignedBy(call.dst, Module, call.batch)
             T == threshold[call.dst][Module]
  <1>1. call.dst \in Chains /\ Module \in Modules
    BY DEF NodeCall
  <1>2. Those \subseteq All
    BY DEF SignedBy, Genuine
  <1>3. signers[call.dst][Module] \subseteq Verifiers
    BY <1>1 DEF AgentsInv, InterchainInv, TypeOK
  <1>4. IsFiniteSet(All)
    BY <1>3, FS_Subset DEF SignedBy
  <1>5. Cardinality(Those) \in Nat /\ Cardinality(All) \in Nat /\ Cardinality(Those) <= Cardinality(All)
    BY <1>2, <1>4, FS_Subset, FS_CardinalityType
  <1>6. T \in Nat /\ T > 0
    BY <1>1 DEF AgentsInv, SetupInv
  <1>7. Cardinality(Those) >= T
    BY DEF HasQuorumBy
  <1>8. Cardinality(All) >= T
    <2> HIDE DEF Those, All, T
    <2> QED
      BY <1>5, <1>6, <1>7
  <1> QED
    BY <1>6, <1>8 DEF HasQuorum

\* What a node submits is a call about a request, with signatures that were made.
LEMMA HeadCall ==
    ASSUME AgentsInv, NEW n \in Nodes, nodeQueue[n] # <<>>, NEW call, call = Head(nodeQueue[n])
    PROVE  /\ call \in NodeCall
           /\ 1 \in DOMAIN nodeQueue[n] /\ nodeQueue[n][1] = call
           /\ Requested(call.batch, call.dst)
           /\ \A v \in call.by : Genuine(v, call.batch)
           /\ Tail(nodeQueue[n]) \in Seq(NodeCall)
           /\ \A i \in DOMAIN Tail(nodeQueue[n]) :
                  i + 1 \in DOMAIN nodeQueue[n] /\ Tail(nodeQueue[n])[i] = nodeQueue[n][i + 1]
           /\ \A i \in DOMAIN nodeQueue[n] :
                  i = 1 \/ (i - 1 \in DOMAIN Tail(nodeQueue[n]) /\ Tail(nodeQueue[n])[i - 1] = nodeQueue[n][i])
  <1> DEFINE s == nodeQueue[n]
  <1>1. s \in Seq(NodeCall) /\ s # <<>> /\ call = Head(s)
    BY DEF AgentsInv, NodesTypeOK
  <1>2. QueueTrue(n)
    BY DEF AgentsInv, NodeInv
  <1>3. /\ Len(s) \in Nat /\ DOMAIN s = 1..Len(s) /\ Len(s) # 0
    BY <1>1, LenProperties, EmptySeq
  <1>4. /\ Head(s) \in NodeCall /\ Tail(s) \in Seq(NodeCall) /\ Len(Tail(s)) = Len(s) - 1
        /\ \A i \in 1..Len(Tail(s)) : Tail(s)[i] = s[i + 1]
    BY <1>1, HeadTailProperties
  <1>5. DOMAIN Tail(s) = 1..(Len(s) - 1)
    BY <1>4, LenProperties
  <1>6. Head(s) = s[1] /\ 1 \in DOMAIN s
    BY <1>1, <1>3
  <1>7. \A i \in DOMAIN Tail(s) : i + 1 \in DOMAIN s /\ Tail(s)[i] = s[i + 1]
    BY <1>3, <1>4, <1>5
  <1>8. \A i \in DOMAIN s : i = 1 \/ (i - 1 \in DOMAIN Tail(s) /\ Tail(s)[i - 1] = s[i])
    <2>1. ASSUME NEW i \in DOMAIN s, i # 1
          PROVE  i - 1 \in DOMAIN Tail(s) /\ Tail(s)[i - 1] = s[i]
      <3>1. i - 1 \in DOMAIN Tail(s) /\ (i - 1) + 1 = i
        BY <1>3, <1>5, <2>1
      <3> QED
        BY <1>7, <3>1
    <2> QED
      BY <2>1
  <1>9. Requested(call.batch, call.dst) /\ \A v \in call.by : Genuine(v, call.batch)
    BY <1>1, <1>2, <1>6 DEF QueueTrue
  <1> QED
    BY <1>1, <1>4, <1>6, <1>7, <1>8, <1>9

\* verifyRemoteBatch, with what the nodes have gathered, does what the module may do.
LEMMA MineVerifyAllowed ==
    ASSUME AgentsInv, NEW n \in Nodes, MineVerify(n)
    PROVE  [Next]_vars
  <1>1. PICK call : call = Head(nodeQueue[n])
    OBVIOUS
  <1>2. nodeQueue[n] # <<>> /\ Verify(call)
    BY <1>1 DEF MineVerify
  <1>3. /\ call \in NodeCall /\ Requested(call.batch, call.dst)
        /\ \A v \in call.by : Genuine(v, call.batch)
    BY <1>1, <1>2, HeadCall
  <1>4. call.dst \in Chains /\ call.batch \in Candidates /\ call.batch.src # call.dst
    BY <1>3, RequestedBatch
  <1>5. CASE HasQuorumBy(call) /\ Verifications(call.dst, Module, call.batch) = {}
    <2>1. HasQuorum(call.dst, Module, call.batch)
      BY <1>3, <1>5, CallHasQuorum
    <2>2. ModuleVerifies(call.dst, Module, call.batch)
      BY <1>2, <1>4, <1>5, <2>1 DEF ModuleVerifies, VerifyRemoteBatch, Verify, MineVerify
    <2>3. Module \in Deployed[call.dst]
      BY <1>4
    <2> QED
      BY <1>4, <2>2, <2>3 DEF Next
  <1>6. CASE ~(HasQuorumBy(call) /\ Verifications(call.dst, Module, call.batch) = {})
    BY <1>2, <1>6 DEF Verify, MineVerify, vars, contractVars
  <1> QED
    BY <1>5, <1>6

\* A node signs what was requested.
LEMMA SignAllowed ==
    ASSUME AgentsInv, NEW n \in Nodes, NEW item \in nodeItems[n], SignAndBroadcast(n, item)
    PROVE  Next
  <1>1. item \in NodeItem /\ RowFor(n, item.batch, item.dst)
    BY DEF AgentsInv, NodesTypeOK, NodeInv, RowsTrue
  <1>2. Requested(item.batch, item.dst)
    BY <1>1 DEF NodeItem, AgentsInv, NodeInv, RowsTrue
  <1>3. PICK r \in requests : r.batch = item.batch
    BY <1>2 DEF Requested
  <1>4. Sign(n, r.batch)
    BY <1>3 DEF Sign, SignAndBroadcast
  <1>5. n \in Verifiers
    OBVIOUS
  <1> QED
    BY <1>4, <1>5 DEF Next

LEMMA MineExecuteAllowed ==
    ASSUME AgentsInv, MineExecute
    PROVE  [Next]_vars
  <1>1. Head(execQueue) \in Transactions
    BY HeadTailProperties DEF AgentsInv, ExecTypeOK, MineExecute
  <1>2. Head(execQueue).dst \in Chains
    BY <1>1, NonceIsNat
  <1> QED
    BY <1>1, <1>2 DEF MineExecute, Next

\* Every step of the agents is a step of the contracts, or leaves them alone; nobody
\* changes their setup.
LEMMA AgentsAllowed ==
    ASSUME AgentsInv, [AgentsNext]_agentVars
    PROVE  [Next]_vars /\ UNCHANGED setupVars
  <1>1. ASSUME NEW c \in Chains, NEW d \in Chains, NEW m \in Messages, UserSends(c, d, m)
        PROVE  [Next]_vars /\ UNCHANGED setupVars
    <2>1. InterchainSend(c, d, App, m, {Module}) /\ {Module} \in SUBSET Modules /\ App \in Senders
      BY <1>1 DEF UserSends
    <2> QED
      BY <2>1 DEF Next, InterchainSend
  <1>2. ASSUME NEW c \in Chains, TimePasses(c)
        PROVE  [Next]_vars /\ UNCHANGED setupVars
    BY <1>2 DEF TimePasses, Next, Tick
  <1>3. ASSUME NEW c \in Chains, NEW tx \in Transactions, SomebodyExecutes(c, tx)
        PROVE  [Next]_vars /\ UNCHANGED setupVars
    BY <1>3 DEF SomebodyExecutes, Next, InterchainExecute
  <1>4. ASSUME NEW n \in Nodes, NEW item \in nodeItems[n], SignAndBroadcast(n, item)
        PROVE  [Next]_vars /\ UNCHANGED setupVars
    BY <1>4, SignAllowed DEF SignAndBroadcast
  <1>5. ASSUME NEW n \in Nodes, MineVerify(n)
        PROVE  [Next]_vars /\ UNCHANGED setupVars
    BY <1>5, MineVerifyAllowed DEF MineVerify
  <1>6. ASSUME MineExecute
        PROVE  [Next]_vars /\ UNCHANGED setupVars
    <2>1. UNCHANGED setupVars
      BY <1>6 DEF MineExecute, InterchainExecute, vars
    <2> QED
      BY <1>6, <2>1, MineExecuteAllowed
  <1>7. CASE UNCHANGED vars
    BY <1>7 DEF vars
  <1>8. ASSUME NEW n \in Nodes,
               \/ \E r \in requests : IndexRequest(n, r)
               \/ \E c \in Chains : \E r \in verified[c] : IndexVerified(n, c, r)
               \/ \E v \in Verifiers, r \in requests : Gossip(n, v, r.batch)
               \/ LoadRequests(n) \/ WriteStatus(n)
               \/ \E item \in nodeItems[n] : SubmitBatch(n, item) \/ NotEnoughSignatures(n, item)
               \/ NodeStops(n) \/ NodeFails(n)
        PROVE  UNCHANGED vars
    BY <1>8 DEF IndexRequest, IndexVerified, Gossip, LoadRequests, WriteStatus, SubmitBatch,
                NotEnoughSignatures, NodeStops, NodeFails
  <1>9. ASSUME \/ \E tx \in Transactions : IndexExecutionRequest(tx)
               \/ ExecSelector \/ ExecutorStops \/ ExecutorFails
        PROVE  UNCHANGED vars
    BY <1>9 DEF IndexExecutionRequest, ExecSelector, LoadTransactions, CheckReady, ExecuteTransaction,
                WriteExecStatus, ExecutorStops, ExecutorFails
  <1> QED
    BY <1>1, <1>2, <1>3, <1>4, <1>5, <1>6, <1>7, <1>8, <1>9 DEF AgentsNext, Selector, agentVars

-----------------------------------------------------------------------------
(* The steps of a node *)

LEMMA StoredRow ==
    ASSUME NEW Ids, NEW Row, NEW rows \in RowsOf(Ids, Row), NEW id \in Ids, NEW row \in Row
    PROVE  Stored(rows, id, row) \in RowsOf(Ids, Row)
  <1>1. PICK ids \in SUBSET Ids : rows \in [ids -> Row]
    BY DEF RowsOf
  <1>2. Stored(rows, id, row) \in [ids \cup {id} -> Row]
    BY <1>1 DEF Stored
  <1>3. ids \cup {id} \in SUBSET Ids
    OBVIOUS
  <1> QED
    BY <1>2, <1>3 DEF RowsOf

LEMMA UpdatedRow ==
    ASSUME NodesTypeOK, NEW n \in Nodes, NEW batch, NEW status \in Statuses, UpdateStatus(n, batch, status)
    PROVE  /\ nodeRows' \in [Nodes -> RowsOf(Batches, NodeRow)]
           /\ \A m \in Nodes : m # n => nodeRows'[m] = nodeRows[m]
           /\ DOMAIN nodeRows'[n] = DOMAIN nodeRows[n]
           /\ \A b \in DOMAIN nodeRows[n] :
                  /\ nodeRows'[n][b].dst = nodeRows[n][b].dst
                  /\ nodeRows'[n][b].status = IF b = batch THEN status ELSE nodeRows[n][b].status
  <1> DEFINE rows == nodeRows[n]
  <1>1. PICK ids \in SUBSET Batches : rows \in [ids -> NodeRow]
    BY DEF NodesTypeOK, RowsOf
  <1>2. CASE batch \notin DOMAIN rows
    BY <1>2 DEF UpdateStatus, NodesTypeOK
  <1>3. CASE batch \in DOMAIN rows
    <2> DEFINE new == [rows EXCEPT ![batch].status = status]
    <2>1. nodeRows \in [Nodes -> RowsOf(Batches, NodeRow)] /\ nodeRows' = [nodeRows EXCEPT ![n] = new]
      BY <1>3 DEF UpdateStatus, NodesTypeOK
    <2>2. rows[batch] \in NodeRow
      BY <1>1, <1>3
    <2>3. [rows[batch] EXCEPT !.status = status] \in NodeRow
      BY <2>2 DEF NodeRow
    <2>4. new \in [ids -> NodeRow]
      BY <1>1, <1>3, <2>3
    <2>5. new \in RowsOf(Batches, NodeRow)
      BY <2>4 DEF RowsOf
    <2>6. \A b \in DOMAIN rows :
              new[b].dst = rows[b].dst /\ new[b].status = IF b = batch THEN status ELSE rows[b].status
      BY <1>1, <1>3 DEF NodeRow
    <2> HIDE DEF new
    <2>7. nodeRows'[n] = new /\ \A m \in Nodes : m # n => nodeRows'[m] = nodeRows[m]
      BY <2>1
    <2>8. DOMAIN new = DOMAIN rows
      BY DEF new
    <2> QED
      BY <2>1, <2>5, <2>6, <2>7, <2>8
  <1> QED
    BY <1>2, <1>3

\* A node that records, or reads, what others did.
LEMMA IndexRequestStep ==
    ASSUME AgentsInv, ContractsKeep, NEW n \in Nodes, NEW r \in requests, IndexRequest(n, r)
    PROVE  NodesTypeOK' /\ NodeInv(n)'
  <1> DEFINE row == [dst |-> r.dst, status |-> "Seen"]
             new == Stored(nodeRows[n], r.batch, row)
  <1>t. NodesTypeOK /\ RowsTrue(n) /\ ReplicasTrue(n) /\ QueueTrue(n)
    BY DEF AgentsInv, NodeInv
  <1>1. r.batch \in Batches /\ r.dst \in Chains
    BY DEF AgentsInv, InterchainInv, TypeOK
  <1>2. nodeRows[n] \in RowsOf(Batches, NodeRow) /\ row \in NodeRow
    BY <1>t, <1>1 DEF NodesTypeOK, NodeRow, Statuses
  <1>3. /\ new \in RowsOf(Batches, NodeRow)
        /\ DOMAIN new = DOMAIN nodeRows[n] \cup {r.batch}
        /\ \A b \in DOMAIN nodeRows[n] : new[b] = nodeRows[n][b]
        /\ r.batch \notin DOMAIN nodeRows[n] => new[r.batch] = row
    <2>1. new \in RowsOf(Batches, NodeRow)
      <3> HIDE DEF row
      <3> QED
        BY <1>1, <1>2, StoredRow
    <2> QED
      BY <2>1 DEF Stored
  <1>4. nodeRows' = [nodeRows EXCEPT ![n] = new]
    BY DEF IndexRequest
  <1> HIDE DEF new
  <1>5. nodeRows'[n] = new /\ nodeRows' \in [Nodes -> RowsOf(Batches, NodeRow)]
    BY <1>t, <1>3, <1>4 DEF NodesTypeOK
  <1>6. NodesTypeOK'
    BY <1>t, <1>5 DEF NodesTypeOK, IndexRequest
  <1>7. CertainKept(n) /\ RowsKept(n)
    BY <1>3, <1>5, QueueKeepsCertain DEF RowsKept, IndexRequest
  <1>8. ASSUME NEW batch \in Batches, NEW c \in Chains, RowFor(n, batch, c)'
        PROVE  RowFor(n, batch, c) \/ Requested(batch, c)
    BY <1>3, <1>5, <1>8 DEF RowFor, Requested
  <1>9. ASSUME NEW batch \in Batches, NEW status \in Statuses, Believed(n, batch, status)'
        PROVE  (Believed(n, batch, status) /\ batch \in DOMAIN nodeRows[n]) \/ StatusHolds(n, batch, status)'
    <2>1. CASE status = "Seen"
      BY <2>1 DEF StatusHolds
    <2>2. CASE status # "Seen"
      <3>1. Believed(n, batch, status)
        BY <1>3, <1>5, <1>9, <2>2 DEF Believed, IndexRequest
      <3> QED
        BY <3>1, <1>t, BelievedRow
    <2> QED
      BY <2>1, <2>2
  <1>10. \A write \in nodeWrite'[n] : write.batch \in DOMAIN nodeRows[n]
    BY <1>t DEF RowsTrue, IndexRequest
  <1>11. nodeItems'[n] = nodeItems[n] /\ replicas'[n] = replicas[n] /\ nodeQueue'[n] = nodeQueue[n]
    BY DEF IndexRequest
  <1>12. RowsTrue(n)'
    BY <1>t, <1>7, <1>8, <1>9, <1>10, <1>11, RowsTrueStep
  <1> QED
    BY <1>t, <1>6, <1>11, <1>12, ReplicasTrueKept, QueueTrueKept DEF NodeInv

\* A status is written that holds.
LEMMA StatusStep ==
    ASSUME AgentsInv, ContractsKeep, NEW n \in Nodes, NEW batch, NEW status \in Statuses,
           UpdateStatus(n, batch, status),
           batch \in DOMAIN nodeRows[n] => StatusHolds(n, batch, status),
           nodeItems'[n] = nodeItems[n], nodeWrite'[n] \subseteq nodeWrite[n],
           UNCHANGED <<replicas, nodeQueue>>
    PROVE  NodeInv(n)'
  <1>t. NodesTypeOK /\ RowsTrue(n) /\ ReplicasTrue(n) /\ QueueTrue(n)
    BY DEF AgentsInv, NodeInv
  <1>1. /\ DOMAIN nodeRows'[n] = DOMAIN nodeRows[n]
        /\ \A b \in DOMAIN nodeRows[n] :
               /\ nodeRows'[n][b].dst = nodeRows[n][b].dst
               /\ nodeRows'[n][b].status = IF b = batch THEN status ELSE nodeRows[n][b].status
    BY <1>t, UpdatedRow
  <1>2. CertainKept(n) /\ RowsKept(n)
    BY <1>1, QueueKeepsCertain DEF RowsKept
  <1>3. \A b \in Batches, c \in Chains : RowFor(n, b, c)' => RowFor(n, b, c)
    BY <1>1 DEF RowFor
  <1>4. ASSUME NEW b \in Batches, NEW s \in Statuses, Believed(n, b, s)'
        PROVE  (Believed(n, b, s) /\ b \in DOMAIN nodeRows[n]) \/ StatusHolds(n, b, s)'
    <2>1. CASE b = batch /\ s = status /\ b \in DOMAIN nodeRows[n]
      BY <1>2, <2>1, StatusKept
    <2>2. CASE Believed(n, b, s)
      BY <1>t, <2>2, BelievedRow
    <2>3. Believed(n, b, s) \/ (b = batch /\ s = status /\ b \in DOMAIN nodeRows[n])
      BY <1>1, <1>4 DEF Believed
    <2> QED
      BY <2>1, <2>2, <2>3
  <1>5. \A write \in nodeWrite'[n] : write.batch \in DOMAIN nodeRows[n]
    BY <1>t DEF RowsTrue
  <1>6. RowsTrue(n)'
    BY <1>t, <1>2, <1>3, <1>4, <1>5, RowsTrueStep
  <1> QED
    BY <1>t, <1>6, ReplicasTrueKept, QueueTrueKept DEF NodeInv

LEMMA IndexVerifiedStep ==
    ASSUME AgentsInv, ContractsKeep, NEW n \in Nodes, NEW c \in Chains, NEW r \in verified[c],
           IndexVerified(n, c, r)
    PROVE  NodesTypeOK' /\ NodeInv(n)'
  <1>1. UpdateStatus(n, r.batch, "Completed") /\ "Completed" \in Statuses
    BY DEF IndexVerified, Statuses
  <1>2. StatusHolds(n, r.batch, "Completed")
    BY DEF StatusHolds
  <1>3. NodesTypeOK'
    BY <1>1, UpdatedRow DEF AgentsInv, NodesTypeOK, IndexVerified
  <1> QED
    BY <1>1, <1>2, <1>3, StatusStep DEF IndexVerified

LEMMA WriteStatusStep ==
    ASSUME AgentsInv, ContractsKeep, NEW n \in Nodes, WriteStatus(n)
    PROVE  NodesTypeOK' /\ NodeInv(n)'
  <1>t. NodesTypeOK /\ RowsTrue(n)
    BY DEF AgentsInv, NodeInv
  <1>1. PICK write \in nodeWrite[n] : UpdateStatus(n, write.batch, write.status)
    BY DEF WriteStatus
  <1>2. write \in ToWrite
    BY <1>t DEF NodesTypeOK
  <1>3. write.batch \in Batches /\ write.status \in Statuses
        /\ write = [batch |-> write.batch, status |-> write.status]
    BY <1>2 DEF ToWrite
  <1>4. Believed(n, write.batch, write.status)
    BY <1>1, <1>3 DEF Believed
  <1>5. StatusHolds(n, write.batch, write.status)
    BY <1>t, <1>3, <1>4 DEF RowsTrue
  <1>6. nodeWrite' = [nodeWrite EXCEPT ![n] = {}]
    BY DEF WriteStatus, NoWrite
  <1>7. nodeWrite'[n] = {} /\ nodeWrite' \in [Nodes -> SUBSET ToWrite]
    BY <1>t, <1>6 DEF NodesTypeOK
  <1>8. NodesTypeOK'
    BY <1>t, <1>1, <1>3, <1>7, UpdatedRow DEF NodesTypeOK, WriteStatus
  <1> QED
    BY <1>1, <1>3, <1>5, <1>7, <1>8, StatusStep DEF WriteStatus

LEMMA GossipStep ==
    ASSUME AgentsInv, ContractsKeep, NEW n \in Nodes, NEW v \in Verifiers, NEW r \in requests,
           Gossip(n, v, r.batch)
    PROVE  NodesTypeOK' /\ NodeInv(n)'
  <1> DEFINE copy == <<v, r.batch>>
  <1>t. NodesTypeOK /\ RowsTrue(n) /\ ReplicasTrue(n) /\ QueueTrue(n)
    BY DEF AgentsInv, NodeInv
  <1>1. copy \in Verifiers \X Batches
    BY DEF AgentsInv, InterchainInv, TypeOK
  <1>2. replicas' = [replicas EXCEPT ![n] = replicas[n] \cup {copy}]
    BY DEF Gossip
  <1>3. v \in Corrupt \/ copy \in signatures
    BY DEF Gossip
  <1>4. NodesTypeOK'
    <2>1. replicas[n] \cup {copy} \in SUBSET (Verifiers \X Batches)
      BY <1>t, <1>1 DEF NodesTypeOK
    <2>2. replicas' \in [Nodes -> SUBSET (Verifiers \X Batches)]
      BY <1>t, <1>2, <2>1 DEF NodesTypeOK
    <2> QED
      BY <1>t, <2>2 DEF NodesTypeOK, Gossip
  <1>5. replicas'[n] = replicas[n] \cup {copy}
    BY <1>t, <1>2 DEF NodesTypeOK
  <1>6. ReplicasTrue(n)'
    <2>1. PICK batch : batch = r.batch
      OBVIOUS
    <2>2. Genuine(v, batch)' /\ replicas'[n] = replicas[n] \cup {<<v, batch>>}
      BY <1>3, <1>5, <2>1 DEF Genuine, ContractsKeep
    <2> QED
      BY <1>t, <2>2, ReplicasTrueStep
  <1>7. RowsTrue(n)'
    BY <1>t, QueueKeepsCertain, RowsTrueKept DEF Gossip
  <1>8. QueueTrue(n)'
    BY <1>t, QueueTrueKept DEF Gossip
  <1> QED
    BY <1>4, <1>6, <1>7, <1>8 DEF NodeInv

LEMMA LoadRequestsStep ==
    ASSUME AgentsInv, ContractsKeep, NEW n \in Nodes, LoadRequests(n)
    PROVE  NodesTypeOK' /\ NodeInv(n)'
  <1> DEFINE items == {[batch |-> batch, dst |-> nodeRows[n][batch].dst, status |-> nodeRows[n][batch].status] :
                           batch \in {b \in DOMAIN nodeRows[n] : nodeRows[n][b].status \in StatusQueries(n)}}
  <1>t. NodesTypeOK /\ RowsTrue(n) /\ ReplicasTrue(n) /\ QueueTrue(n)
    BY DEF AgentsInv, NodeInv
  <1>1. /\ DOMAIN nodeRows[n] \subseteq Batches
        /\ \A batch \in DOMAIN nodeRows[n] : nodeRows[n][batch] \in NodeRow
    BY <1>t, RowType
  <1>2. nodeItems' = [nodeItems EXCEPT ![n] = items]
    BY DEF LoadRequests
  <1>3. items \subseteq NodeItem
    BY <1>1 DEF NodeItem, NodeRow
  <1>4. \A item \in items :
            /\ RowFor(n, item.batch, item.dst)
            /\ item.batch \in DOMAIN nodeRows[n] /\ item.status = nodeRows[n][item.batch].status
    BY DEF RowFor
  <1> HIDE DEF items
  <1>5. nodeItems'[n] = items /\ nodeItems' \in [Nodes -> SUBSET NodeItem]
    BY <1>t, <1>2, <1>3 DEF NodesTypeOK
  <1>6. NodesTypeOK'
    BY <1>t, <1>5 DEF NodesTypeOK, LoadRequests
  <1>7. CertainKept(n) /\ RowsKept(n)
    BY QueueKeepsCertain DEF RowsKept, LoadRequests
  <1>8. ASSUME NEW batch \in Batches, NEW status \in Statuses, Believed(n, batch, status)'
        PROVE  Believed(n, batch, status) /\ batch \in DOMAIN nodeRows[n]
    <2>1. Believed(n, batch, status)
      BY <1>4, <1>5, <1>8 DEF Believed, LoadRequests
    <2> QED
      BY <1>t, <2>1, BelievedRow
  <1>9. \A batch \in Batches, c \in Chains : RowFor(n, batch, c)' => RowFor(n, batch, c)
    BY DEF RowFor, LoadRequests
  <1>10. \A write \in nodeWrite'[n] : write.batch \in DOMAIN nodeRows[n]
    BY <1>t DEF RowsTrue, LoadRequests
  <1>11. RowsTrue(n)'
    BY <1>t, <1>4, <1>5, <1>7, <1>8, <1>9, <1>10, RowsTrueStep
  <1> QED
    BY <1>t, <1>6, <1>11, ReplicasTrueKept, QueueTrueKept DEF NodeInv, LoadRequests

\* The selector turns to a row it has loaded, and is about to write the next status,
\* which holds.
LEMMA ItemStep ==
    ASSUME AgentsInv, ContractsKeep, NEW n \in Nodes, NEW item \in nodeItems[n], TakeItem(n, item),
           NEW status \in Statuses, WriteNext(n, item, status),
           nodeRows'[n] = nodeRows[n], CertainKept(n), StatusHolds(n, item.batch, status)'
    PROVE  RowsTrue(n)' /\ nodeItems' \in [Nodes -> SUBSET NodeItem] /\ nodeWrite' \in [Nodes -> SUBSET ToWrite]
  <1> DEFINE write == [batch |-> item.batch, status |-> status]
  <1>t. NodesTypeOK /\ RowsTrue(n)
    BY DEF AgentsInv, NodeInv
  <1>1. item \in NodeItem /\ RowFor(n, item.batch, item.dst)
    BY <1>t DEF NodesTypeOK, RowsTrue
  <1>2. item.batch \in Batches /\ item.batch \in DOMAIN nodeRows[n] /\ write \in ToWrite
    BY <1>1 DEF NodeItem, RowFor, ToWrite
  <1>3. nodeItems' = [nodeItems EXCEPT ![n] = nodeItems[n] \ {item}]
    BY DEF TakeItem
  <1>4. nodeWrite' = [nodeWrite EXCEPT ![n] = {write}]
    BY DEF WriteNext
  <1>5. nodeItems' \in [Nodes -> SUBSET NodeItem] /\ nodeItems'[n] \subseteq nodeItems[n]
    BY <1>t, <1>3 DEF NodesTypeOK
  <1>6. nodeWrite' \in [Nodes -> SUBSET ToWrite] /\ nodeWrite'[n] = {write}
    BY <1>t, <1>2, <1>4 DEF NodesTypeOK
  <1>7. RowsKept(n)
    BY DEF RowsKept
  <1>8. ASSUME NEW b \in Batches, NEW s \in Statuses, Believed(n, b, s)'
        PROVE  (Believed(n, b, s) /\ b \in DOMAIN nodeRows[n]) \/ StatusHolds(n, b, s)'
    <2>1. Believed(n, b, s) \/ [batch |-> b, status |-> s] = write
      BY <1>5, <1>6, <1>8 DEF Believed
    <2>2. CASE Believed(n, b, s)
      BY <1>t, <2>2, BelievedRow
    <2>3. CASE [batch |-> b, status |-> s] = write
      <3>1. b = item.batch /\ s = status
        BY <2>3
      <3> QED
        BY <3>1
    <2> QED
      BY <2>1, <2>2, <2>3
  <1>9. \A b \in Batches, c \in Chains : RowFor(n, b, c)' => RowFor(n, b, c)
    BY DEF RowFor
  <1>10. RowsTrue(n)'
    BY <1>t, <1>2, <1>5, <1>6, <1>7, <1>8, <1>9, RowsTrueStep
  <1> QED
    BY <1>5, <1>6, <1>10

LEMMA SignStep ==
    ASSUME AgentsInv, ContractsKeep, NEW n \in Nodes, NEW item \in nodeItems[n],
           SignAndBroadcast(n, item)
    PROVE  NodesTypeOK' /\ NodeInv(n)'
  <1> DEFINE copy == <<n, item.batch>>
  <1>t. NodesTypeOK /\ RowsTrue(n) /\ ReplicasTrue(n) /\ QueueTrue(n)
    BY DEF AgentsInv, NodeInv
  <1>1. item \in NodeItem
    BY <1>t DEF NodesTypeOK
  <1>2. copy \in Verifiers \X Batches /\ copy \in signatures'
    BY <1>1 DEF NodeItem, SignAndBroadcast
  <1>3. replicas' = [replicas EXCEPT ![n] = replicas[n] \cup {copy}]
    BY DEF SignAndBroadcast
  <1>4. replicas' \in [Nodes -> SUBSET (Verifiers \X Batches)] /\ replicas'[n] = replicas[n] \cup {copy}
    <2>1. replicas[n] \cup {copy} \in SUBSET (Verifiers \X Batches)
      BY <1>t, <1>2 DEF NodesTypeOK
    <2> QED
      BY <1>t, <1>3, <2>1 DEF NodesTypeOK
  <1>5. ReplicasTrue(n)'
    <2>1. PICK batch : batch = item.batch
      OBVIOUS
    <2>2. Genuine(n, batch)' /\ replicas'[n] = replicas[n] \cup {<<n, batch>>}
      BY <1>2, <1>4, <2>1 DEF Genuine
    <2> QED
      BY <1>t, <2>2, ReplicasTrueStep
  <1>6. StatusHolds(n, item.batch, "Signed")' /\ "Signed" \in Statuses
    BY <1>2 DEF StatusHolds, Statuses
  <1>7. CertainKept(n)
    BY QueueKeepsCertain DEF SignAndBroadcast
  <1>8. RowsTrue(n)' /\ nodeItems' \in [Nodes -> SUBSET NodeItem] /\ nodeWrite' \in [Nodes -> SUBSET ToWrite]
    BY <1>6, <1>7, ItemStep DEF SignAndBroadcast
  <1>9. NodesTypeOK'
    BY <1>t, <1>4, <1>8 DEF NodesTypeOK, SignAndBroadcast
  <1> QED
    BY <1>t, <1>5, <1>8, <1>9, QueueTrueKept DEF NodeInv, SignAndBroadcast

\* submit leaves a call in the queue that makes the verification certain.
LEMMA SubmitStep ==
    ASSUME AgentsInv, ContractsKeep, NEW n \in Nodes, NEW item \in nodeItems[n], SubmitBatch(n, item)
    PROVE  NodesTypeOK' /\ NodeInv(n)'
  <1>t. NodesTypeOK /\ RowsTrue(n) /\ ReplicasTrue(n) /\ QueueTrue(n)
    BY DEF AgentsInv, NodeInv
  <1>1. PICK by \in Gathered(n, item) :
            nodeQueue' = [nodeQueue EXCEPT ![n] =
                              Append(nodeQueue[n], [dst |-> item.dst, batch |-> item.batch, by |-> by])]
    BY DEF SubmitBatch
  <1> DEFINE call == [dst |-> item.dst, batch |-> item.batch, by |-> by]
             old == nodeQueue[n]
             new == Append(nodeQueue[n], call)
  <1>2. item \in NodeItem /\ RowFor(n, item.batch, item.dst) /\ item.status = "Signed"
    BY <1>t DEF NodesTypeOK, RowsTrue, SubmitBatch
  <1>3. item.batch \in Batches /\ item.dst \in Chains
    BY <1>2 DEF NodeItem
  <1>4. /\ by \subseteq signers[item.dst][Module]
        /\ \A v \in by : <<v, item.batch>> \in replicas[n]
        /\ Cardinality(by) = threshold[item.dst][Module]
    BY <1>1 DEF Gathered
  <1>5. signers[item.dst][Module] \subseteq Verifiers /\ threshold[item.dst][Module] \in Nat
    BY <1>3 DEF AgentsInv, InterchainInv, TypeOK
  <1>6. call \in NodeCall
    BY <1>3, <1>4, <1>5 DEF NodeCall
  <1>7. by \cap signers[item.dst][Module] = by
    BY <1>4
  <1>8. HasQuorumBy(call)
    <2>1. call.by = by /\ call.dst = item.dst
      OBVIOUS
    <2>2. Cardinality(by) >= threshold[item.dst][Module]
      BY <1>4, <1>5
    <2> HIDE DEF call
    <2> QED
      BY <1>7, <2>1, <2>2 DEF HasQuorumBy
  <1>9. old \in Seq(NodeCall)
    BY <1>t DEF NodesTypeOK
  <1>10. /\ new \in Seq(NodeCall) /\ DOMAIN new = 1..(Len(old) + 1) /\ DOMAIN old = 1..Len(old)
         /\ Len(old) \in Nat /\ new[Len(old) + 1] = call /\ \A i \in 1..Len(old) : new[i] = old[i]
    <2> HIDE DEF call
    <2>1. Len(new) = Len(old) + 1 /\ new \in Seq(NodeCall)
      BY <1>6, <1>9, AppendProperties
    <2> QED
      BY <1>6, <1>9, <2>1, AppendProperties, LenProperties
  <1> HIDE DEF new
  <1>11. nodeQueue'[n] = new /\ nodeQueue' \in [Nodes -> Seq(NodeCall)]
    BY <1>t, <1>1, <1>10 DEF NodesTypeOK, new
  <1>12. \A i \in DOMAIN old : i \in DOMAIN new /\ new[i] = old[i]
    BY <1>10
  <1>13. \A i \in DOMAIN new : (i \in DOMAIN old /\ new[i] = old[i]) \/ new[i] = call
    BY <1>10
  <1>14. UNCHANGED <<signers, threshold>>
    BY DEF ContractsKeep
  <1>15. CertainKept(n)
    <2>1. ASSUME NEW b \in Batches, NEW c \in Chains, VerifyIsCertain(n, b, c)
          PROVE  VerifyIsCertain(n, b, c)'
      <3>1. CASE IsVerified(c, b)
        BY <3>1 DEF ContractsKeep, VerifyIsCertain
      <3>2. CASE ~IsVerified(c, b)
        <4>1. PICK i \in DOMAIN old : old[i].batch = b /\ old[i].dst = c /\ HasQuorumBy(old[i])
          BY <2>1, <3>2 DEF VerifyIsCertain
        <4> QED
          BY <4>1, <1>11, <1>12, <1>14 DEF VerifyIsCertain, HasQuorumBy
      <3> QED
        BY <3>1, <3>2
    <2> QED
      BY <2>1 DEF CertainKept
  <1>16. ASSUME NEW b \in Batches, NEW c \in Chains, b = item.batch, c = item.dst
         PROVE  VerifyIsCertain(n, b, c)'
    <2>1. Len(old) + 1 \in DOMAIN new /\ new[Len(old) + 1] = call
      BY <1>10
    <2>2. call.batch = b /\ call.dst = c
      BY <1>16
    <2> HIDE DEF call
    <2> QED
      BY <2>1, <2>2, <1>8, <1>11, <1>14 DEF VerifyIsCertain, HasQuorumBy
  <1>17. StatusHolds(n, item.batch, "Broadcast")'
    <2>1. Believed(n, item.batch, "Signed")
      BY <1>2 DEF Believed
    <2>2. <<n, item.batch>> \in signatures'
      BY <1>t, <1>3, <2>1 DEF RowsTrue, StatusHolds, Statuses, ContractsKeep
    <2>3. ASSUME NEW b \in Batches, b = item.batch, NEW c \in Chains, RowFor(n, b, c)'
          PROVE  VerifyIsCertain(n, b, c)'
      BY <1>2, <1>16, <2>3 DEF RowFor, SubmitBatch
    <2>4. PICK b \in Batches : b = item.batch
      BY <1>3
    <2>5. StatusHolds(n, b, "Broadcast")'
      BY <2>2, <2>3, <2>4 DEF StatusHolds
    <2> QED
      BY <2>4, <2>5
  <1>18. RowsTrue(n)' /\ nodeItems' \in [Nodes -> SUBSET NodeItem] /\ nodeWrite' \in [Nodes -> SUBSET ToWrite]
    BY <1>15, <1>17, ItemStep DEF SubmitBatch, Statuses
  <1>19. NodesTypeOK'
    BY <1>t, <1>11, <1>18 DEF NodesTypeOK, SubmitBatch
  <1>20. QueueTrue(n)'
    <2>1. Requested(item.batch, item.dst)
      BY <1>t, <1>2, <1>3 DEF RowsTrue
    <2>2. \A v \in by : Genuine(v, item.batch)
      <3>1. ASSUME NEW v \in by PROVE Genuine(v, item.batch)
        <4>1. PICK copy \in replicas[n] : copy = <<v, item.batch>>
          BY <1>4
        <4>2. Genuine(copy[1], copy[2])
          BY <1>t DEF ReplicasTrue
        <4> QED
          BY <4>1, <4>2
      <3> QED
        BY <3>1
    <2>3. \A i \in DOMAIN new :
              /\ Requested(new[i].batch, new[i].dst)
              /\ \A v \in new[i].by : Genuine(v, new[i].batch)
      BY <1>t, <1>13, <2>1, <2>2 DEF QueueTrue
    <2>4. \A i \in DOMAIN nodeQueue'[n] :
              /\ \E r \in requests' : r.batch = nodeQueue'[n][i].batch /\ r.dst = nodeQueue'[n][i].dst
              /\ \A v \in nodeQueue'[n][i].by : v \in Corrupt \/ <<v, nodeQueue'[n][i].batch>> \in signatures'
      BY <1>11, <2>3 DEF Requested, Genuine, ContractsKeep
    <2> QED
      BY <2>4 DEF QueueTrue, Requested, Genuine
  <1> QED
    BY <1>t, <1>18, <1>19, <1>20, ReplicasTrueKept DEF NodeInv, SubmitBatch

\* What was submitted is mined: it verifies the batch, or the batch was verified before,
\* for a module has one root for a batch.
LEMMA MineVerifyStep ==
    ASSUME AgentsInv, ContractsKeep, NEW n \in Nodes, MineVerify(n)
    PROVE  NodesTypeOK' /\ NodeInv(n)'
  <1>t. NodesTypeOK /\ RowsTrue(n) /\ ReplicasTrue(n) /\ QueueTrue(n)
    BY DEF AgentsInv, NodeInv
  <1>1. PICK call : call = Head(nodeQueue[n])
    OBVIOUS
  <1> DEFINE old == nodeQueue[n]
             new == Tail(nodeQueue[n])
  <1>2. nodeQueue[n] # <<>> /\ Verify(call) /\ nodeQueue' = [nodeQueue EXCEPT ![n] = new]
    BY <1>1 DEF MineVerify
  <1>3. /\ call \in NodeCall /\ 1 \in DOMAIN old /\ old[1] = call
        /\ Requested(call.batch, call.dst)
        /\ new \in Seq(NodeCall)
        /\ \A i \in DOMAIN new : i + 1 \in DOMAIN old /\ new[i] = old[i + 1]
        /\ \A i \in DOMAIN old : i = 1 \/ (i - 1 \in DOMAIN new /\ new[i - 1] = old[i])
    BY <1>1, <1>2, HeadCall
  <1> HIDE DEF new
  <1>4. nodeQueue'[n] = new /\ nodeQueue' \in [Nodes -> Seq(NodeCall)]
    BY <1>t, <1>2, <1>3 DEF NodesTypeOK
  <1>5. call.dst \in Chains /\ call.batch \in Batches /\ IsTrue(call.batch)
    BY <1>3, RequestedBatch
  <1>6. HasQuorumBy(call) => IsVerified(call.dst, call.batch)'
    <2>1. CASE HasQuorumBy(call) /\ Verifications(call.dst, Module, call.batch) = {}
      <3>1. verified \in [Chains -> SUBSET [module : Modules, batch : Batches, age : Nat]]
        BY DEF AgentsInv, InterchainInv, TypeOK
      <3>2. [module |-> Module, batch |-> call.batch, age |-> 0] \in verified'[call.dst]
        BY <1>2, <1>5, <2>1, <3>1 DEF Verify
      <3>3. \E r \in verified'[call.dst] : r.module = Module /\ r.batch = call.batch
        BY <3>2
      <3> QED
        BY <3>3 DEF IsVerified
    <2>2. CASE Verifications(call.dst, Module, call.batch) # {}
      <3>1. PICK r \in verified[call.dst] :
                r.module = Module /\ r.batch.src = call.batch.src /\ r.batch.nonce = call.batch.nonce
        BY <2>2 DEF Verifications
      <3>2. IsTrue(r.batch)
        BY <1>5, <3>1 DEF AgentsInv, InterchainInv, SoundModulesTellTheTruth
      <3>3. r.batch = call.batch
        BY <1>5, <3>1, <3>2 DEF IsTrue
      <3>4. IsVerified(call.dst, call.batch)
        BY <3>1, <3>3 DEF IsVerified
      <3>5. PICK c \in Chains, b \in Batches : c = call.dst /\ b = call.batch
        BY <1>5
      <3>6. IsVerified(c, b)'
        BY <3>4, <3>5 DEF ContractsKeep
      <3> QED
        BY <3>5, <3>6
    <2> QED
      BY <2>1, <2>2
  <1>7. UNCHANGED <<signers, threshold>>
    BY DEF ContractsKeep
  <1>8. CertainKept(n)
    <2>1. ASSUME NEW b \in Batches, NEW c \in Chains, VerifyIsCertain(n, b, c)
          PROVE  VerifyIsCertain(n, b, c)'
      <3>1. CASE IsVerified(c, b)
        BY <3>1 DEF ContractsKeep, VerifyIsCertain
      <3>2. CASE ~IsVerified(c, b)
        <4>1. PICK i \in DOMAIN old : old[i].batch = b /\ old[i].dst = c /\ HasQuorumBy(old[i])
          BY <2>1, <3>2 DEF VerifyIsCertain
        <4>2. CASE i = 1
          BY <1>3, <1>6, <4>1, <4>2 DEF VerifyIsCertain
        <4>3. CASE i # 1
          <5>1. i - 1 \in DOMAIN new /\ new[i - 1] = old[i]
            BY <1>3, <4>1, <4>3
          <5> QED
            BY <1>4, <1>7, <4>1, <5>1 DEF VerifyIsCertain, HasQuorumBy
        <4> QED
          BY <4>2, <4>3
      <3> QED
        BY <3>1, <3>2
    <2> QED
      BY <2>1 DEF CertainKept
  <1>9. RowsTrue(n)'
    BY <1>t, <1>8, RowsTrueKept DEF MineVerify
  <1>10. QueueTrue(n)'
    <2>1. \A i \in DOMAIN new :
              /\ Requested(new[i].batch, new[i].dst)
              /\ \A v \in new[i].by : Genuine(v, new[i].batch)
      BY <1>t, <1>3 DEF QueueTrue
    <2>2. \A i \in DOMAIN nodeQueue'[n] :
              /\ \E r \in requests' : r.batch = nodeQueue'[n][i].batch /\ r.dst = nodeQueue'[n][i].dst
              /\ \A v \in nodeQueue'[n][i].by : v \in Corrupt \/ <<v, nodeQueue'[n][i].batch>> \in signatures'
      BY <1>4, <2>1 DEF Requested, Genuine, ContractsKeep
    <2> QED
      BY <2>2 DEF QueueTrue, Requested, Genuine
  <1>11. NodesTypeOK'
    BY <1>t, <1>4 DEF NodesTypeOK, MineVerify
  <1> QED
    BY <1>t, <1>9, <1>10, <1>11, ReplicasTrueKept DEF NodeInv, MineVerify

\* The node stops, or a call fails, or there are not enough signatures yet.
LEMMA NodeGivesUpStep ==
    ASSUME AgentsInv, ContractsKeep, NEW n \in Nodes,
           \/ NodeStops(n) \/ NodeFails(n)
           \/ \E item \in nodeItems[n] : NotEnoughSignatures(n, item)
    PROVE  NodesTypeOK' /\ NodeInv(n)'
  <1>t. NodesTypeOK /\ NodeInv(n)
    BY DEF AgentsInv
  <1>1. \/ UNCHANGED nodeItems \/ nodeItems' = [nodeItems EXCEPT ![n] = {}]
        \/ \E item \in nodeItems[n] : nodeItems' = [nodeItems EXCEPT ![n] = nodeItems[n] \ {item}]
    BY DEF NodeStops, NodeFails, NotEnoughSignatures, TakeItem
  <1>2. nodeItems' \in [Nodes -> SUBSET NodeItem] /\ nodeItems'[n] \subseteq nodeItems[n]
    BY <1>t, <1>1 DEF NodesTypeOK
  <1>3. UNCHANGED nodeWrite \/ nodeWrite' = [nodeWrite EXCEPT ![n] = {}]
    BY DEF NodeStops, NodeFails, NotEnoughSignatures, NoWrite
  <1>4. nodeWrite' \in [Nodes -> SUBSET ToWrite] /\ nodeWrite'[n] \subseteq nodeWrite[n]
    BY <1>t, <1>3 DEF NodesTypeOK
  <1>5. UNCHANGED <<nodeRows, replicas, nodeQueue>>
    BY DEF NodeStops, NodeFails, NotEnoughSignatures
  <1>6. NodesTypeOK'
    BY <1>t, <1>2, <1>4, <1>5 DEF NodesTypeOK
  <1> QED
    BY <1>t, <1>2, <1>4, <1>5, <1>6, NodeKept

-----------------------------------------------------------------------------
(* The steps of the executor *)

LEMMA ExecRowType ==
    ASSUME ExecTypeOK
    PROVE  /\ DOMAIN execRows \subseteq Transactions
           /\ \A tx \in DOMAIN execRows : execRows[tx] \in ExecStatuses
           /\ \A i \in DOMAIN execQueue : execQueue[i] \in Transactions
  <1>1. PICK ids \in SUBSET Transactions : execRows \in [ids -> ExecStatuses]
    BY DEF ExecTypeOK, RowsOf
  <1>2. \A i \in DOMAIN execQueue : execQueue[i] \in Transactions
    BY LenProperties, ElementOfSeq DEF ExecTypeOK
  <1> QED
    BY <1>1, <1>2

\* How the executor's rows stay true.
LEMMA ExecStep ==
    ASSUME ContractsKeep, ExecInv,
           \A i \in DOMAIN execQueue : \E j \in DOMAIN execQueue' : execQueue'[j] = execQueue[i],
           \A item \in execItems' \cup execWrite' : item.tx \in DOMAIN execRows',
           \A tx \in Transactions, status \in ExecStatuses :
               ExecBelieved(tx, status)' => ExecBelieved(tx, status) \/ ExecHolds(tx, status)'
    PROVE  ExecInv'
  <1>1. ASSUME NEW tx \in Transactions, NEW status \in ExecStatuses, ExecBelieved(tx, status)'
        PROVE  ExecHolds(tx, status)'
    <2>1. CASE ExecBelieved(tx, status)
      BY <2>1, ExecHoldsKept DEF ExecInv
    <2> QED
      BY <1>1, <2>1
  <1> QED
    BY <1>1 DEF ExecInv

LEMMA IndexExecutionStep ==
    ASSUME AgentsInv, ContractsKeep, NEW tx \in Transactions, IndexExecutionRequest(tx)
    PROVE  ExecTypeOK' /\ ExecInv'
  <1> DEFINE new == Stored(execRows, tx, "Seen")
  <1>t. ExecTypeOK /\ ExecInv
    BY DEF AgentsInv
  <1>1. execRows \in RowsOf(Transactions, ExecStatuses) /\ "Seen" \in ExecStatuses
    BY <1>t DEF ExecTypeOK, ExecStatuses
  <1>2. new \in RowsOf(Transactions, ExecStatuses)
    BY <1>1, StoredRow
  <1>3. /\ DOMAIN new = DOMAIN execRows \cup {tx}
        /\ \A t \in DOMAIN execRows : new[t] = execRows[t]
        /\ tx \notin DOMAIN execRows => new[tx] = "Seen"
    BY DEF Stored
  <1>4. execRows' = new /\ UNCHANGED <<execItems, execWrite, execQueue>>
    BY DEF IndexExecutionRequest
  <1> HIDE DEF new
  <1>5. ExecTypeOK'
    BY <1>t, <1>2, <1>4 DEF ExecTypeOK
  <1>6. ASSUME NEW t \in Transactions, NEW status \in ExecStatuses, ExecBelieved(t, status)'
        PROVE  ExecBelieved(t, status) \/ ExecHolds(t, status)'
    <2>1. CASE status = "Seen"
      BY <2>1 DEF ExecHolds
    <2>2. CASE status # "Seen"
      BY <1>3, <1>4, <1>6, <2>2 DEF ExecBelieved
    <2> QED
      BY <2>1, <2>2
  <1>7. \A item \in execItems' \cup execWrite' : item.tx \in DOMAIN execRows'
    BY <1>t, <1>3, <1>4 DEF ExecInv
  <1>8. \A i \in DOMAIN execQueue : \E j \in DOMAIN execQueue' : execQueue'[j] = execQueue[i]
    BY <1>4
  <1> QED
    BY <1>t, <1>5, <1>6, <1>7, <1>8, ExecStep

LEMMA LoadTransactionsStep ==
    ASSUME AgentsInv, ContractsKeep, LoadTransactions
    PROVE  ExecTypeOK' /\ ExecInv'
  <1>t. ExecTypeOK /\ ExecInv
    BY DEF AgentsInv
  <1>1. UNCHANGED <<execRows, execWrite, execQueue>>
    BY DEF LoadTransactions
  <1>2. \A item \in execItems' :
            /\ item.tx \in DOMAIN execRows /\ item.status = execRows[item.tx]
            /\ item \in [tx : DOMAIN execRows, status : {"Seen", "Ready"}]
    BY DEF LoadTransactions
  <1>3. ExecTypeOK'
    BY <1>t, <1>1, <1>2, ExecRowType DEF ExecTypeOK, ExecStatus, ExecStatuses
  <1>4. ASSUME NEW t \in Transactions, NEW status \in ExecStatuses, ExecBelieved(t, status)'
        PROVE  ExecBelieved(t, status)
    <2>1. CASE [tx |-> t, status |-> status] \in execItems'
      <3>1. PICK item \in execItems' : item.tx = t /\ item.status = status
        BY <2>1
      <3> QED
        BY <1>2, <3>1 DEF ExecBelieved
    <2> QED
      BY <1>1, <1>4, <2>1 DEF ExecBelieved
  <1>5. \A item \in execItems' \cup execWrite' : item.tx \in DOMAIN execRows'
    BY <1>t, <1>1, <1>2 DEF ExecInv
  <1>6. \A i \in DOMAIN execQueue : \E j \in DOMAIN execQueue' : execQueue'[j] = execQueue[i]
    BY <1>1
  <1> QED
    BY <1>t, <1>3, <1>4, <1>5, <1>6, ExecStep

\* The executor is about to write what the client says now.
LEMMA CheckReadyStep ==
    ASSUME AgentsInv, ContractsKeep, NEW item \in execItems, CheckReady(item)
    PROVE  ExecTypeOK' /\ ExecInv'
  <1> DEFINE write == [tx |-> item.tx, status |-> "Ready"]
  <1>t. ExecTypeOK /\ ExecInv
    BY DEF AgentsInv
  <1>1. /\ UNCHANGED <<execRows, execQueue>> /\ execItems' \subseteq execItems
        /\ execWrite' = IF IsExecutable(item.tx.dst, item.tx) THEN {write} ELSE {}
    BY DEF CheckReady, TakeTransaction, NoWrite
  <1>2. item.tx \in Transactions /\ item.tx \in DOMAIN execRows
    BY <1>t DEF ExecTypeOK, ExecStatus, ExecInv
  <1>3. write \in ExecStatus
    BY <1>2 DEF ExecStatus, ExecStatuses
  <1>4. ExecTypeOK'
    BY <1>t, <1>1, <1>3 DEF ExecTypeOK
  <1>5. ASSUME NEW t \in Transactions, NEW status \in ExecStatuses, ExecBelieved(t, status)'
        PROVE  ExecBelieved(t, status) \/ ExecHolds(t, status)'
    <2>1. CASE [tx |-> t, status |-> status] \in execWrite'
      <3>1. IsExecutable(item.tx.dst, item.tx) /\ t = item.tx /\ status = "Ready"
        BY <1>1, <2>1
      <3>2. Ready(t)
        BY <3>1 DEF Ready
      <3>3. Ready(t)'
        BY <3>2 DEF ContractsKeep
      <3> QED
        BY <3>1, <3>3 DEF ExecHolds
    <2> QED
      BY <1>1, <1>5, <2>1 DEF ExecBelieved
  <1>6. \A i \in execItems' \cup execWrite' : i.tx \in DOMAIN execRows'
    BY <1>t, <1>1, <1>2 DEF ExecInv
  <1>7. \A i \in DOMAIN execQueue : \E j \in DOMAIN execQueue' : execQueue'[j] = execQueue[i]
    BY <1>1
  <1> QED
    BY <1>t, <1>4, <1>5, <1>6, <1>7, ExecStep

\* The executor submits what was executable when it looked, and may have been executed
\* by somebody else since.
LEMMA ExecuteTransactionStep ==
    ASSUME AgentsInv, ContractsKeep, NEW item \in execItems, ExecuteTransaction(item)
    PROVE  ExecTypeOK' /\ ExecInv'
  <1> DEFINE write == [tx |-> item.tx, status |-> "Executed"]
             old == execQueue
             new == Append(execQueue, item.tx)
  <1>t. ExecTypeOK /\ ExecInv
    BY DEF AgentsInv
  <1>1. /\ UNCHANGED execRows /\ execItems' \subseteq execItems /\ item.status = "Ready"
        /\ execWrite' = {write} /\ execQueue' = new
    BY DEF ExecuteTransaction, TakeTransaction
  <1>2. item.tx \in Transactions /\ item.tx \in DOMAIN execRows /\ item \in ExecStatus
    BY <1>t DEF ExecTypeOK, ExecStatus, ExecInv
  <1>3. write \in ExecStatus
    BY <1>2 DEF ExecStatus, ExecStatuses
  <1>4. old \in Seq(Transactions)
    BY <1>t DEF ExecTypeOK
  <1>5. /\ new \in Seq(Transactions) /\ DOMAIN new = 1..(Len(old) + 1) /\ DOMAIN old = 1..Len(old)
        /\ Len(old) \in Nat /\ new[Len(old) + 1] = item.tx /\ \A i \in 1..Len(old) : new[i] = old[i]
    <2>1. PICK tx \in Transactions : tx = item.tx
      BY <1>2
    <2> QED
      BY <1>4, <2>1, ReceivedType
  <1> HIDE DEF new
  <1>6. ExecTypeOK'
    BY <1>t, <1>1, <1>3, <1>5 DEF ExecTypeOK
  <1>7. ASSUME NEW tx \in Transactions, tx = item.tx PROVE ExecuteIsCertain(tx)'
    <2>1. item = [tx |-> tx, status |-> "Ready"]
      BY <1>1, <1>2, <1>7 DEF ExecStatus
    <2>2. Ready(tx)
      BY <1>t, <2>1 DEF ExecInv, ExecBelieved, ExecHolds, ExecStatuses
    <2>3. Ready(tx)'
      BY <2>2 DEF ContractsKeep
    <2>4. \E i \in DOMAIN execQueue' : execQueue'[i] = tx
      <3>1. Len(old) + 1 \in DOMAIN new /\ new[Len(old) + 1] = tx
        BY <1>5, <1>7
      <3> QED
        BY <1>1, <3>1
    <2> QED
      BY <2>3, <2>4 DEF ExecuteIsCertain, Ready
  <1>8. ASSUME NEW tx \in Transactions, NEW status \in ExecStatuses, ExecBelieved(tx, status)'
        PROVE  ExecBelieved(tx, status) \/ ExecHolds(tx, status)'
    <2>1. CASE [tx |-> tx, status |-> status] \in execWrite'
      <3>1. tx = item.tx /\ status = "Executed"
        BY <1>1, <2>1
      <3> QED
        BY <1>7, <3>1 DEF ExecHolds
    <2> QED
      BY <1>1, <1>8, <2>1 DEF ExecBelieved
  <1>9. \A i \in execItems' \cup execWrite' : i.tx \in DOMAIN execRows'
    BY <1>t, <1>1, <1>2 DEF ExecInv
  <1>10. \A i \in DOMAIN execQueue : \E j \in DOMAIN execQueue' : execQueue'[j] = execQueue[i]
    BY <1>1, <1>5
  <1> QED
    BY <1>t, <1>6, <1>8, <1>9, <1>10, ExecStep

LEMMA WriteExecStatusStep ==
    ASSUME AgentsInv, ContractsKeep, WriteExecStatus
    PROVE  ExecTypeOK' /\ ExecInv'
  <1>t. ExecTypeOK /\ ExecInv
    BY DEF AgentsInv
  <1>1. PICK write \in execWrite : execRows' = [execRows EXCEPT ![write.tx] = write.status]
    BY DEF WriteExecStatus
  <1>2. execWrite' = {} /\ UNCHANGED <<execItems, execQueue>>
    BY DEF WriteExecStatus, NoWrite
  <1>3. write \in ExecStatus /\ write.tx \in DOMAIN execRows
    BY <1>t DEF ExecTypeOK, ExecInv
  <1>4. write.status \in ExecStatuses /\ write = [tx |-> write.tx, status |-> write.status]
    BY <1>3 DEF ExecStatus
  <1>5. PICK ids \in SUBSET Transactions : execRows \in [ids -> ExecStatuses]
    BY <1>t DEF ExecTypeOK, RowsOf
  <1>6. /\ execRows' \in [ids -> ExecStatuses]
        /\ DOMAIN execRows' = DOMAIN execRows
        /\ \A tx \in DOMAIN execRows :
               execRows'[tx] = IF tx = write.tx THEN write.status ELSE execRows[tx]
    BY <1>1, <1>3, <1>4, <1>5
  <1>7. ExecTypeOK'
    BY <1>t, <1>2, <1>6 DEF ExecTypeOK, RowsOf
  <1>8. ASSUME NEW tx \in Transactions, NEW status \in ExecStatuses, ExecBelieved(tx, status)'
        PROVE  ExecBelieved(tx, status)
    BY <1>2, <1>4, <1>6, <1>8 DEF ExecBelieved
  <1>9. \A i \in execItems' \cup execWrite' : i.tx \in DOMAIN execRows'
    BY <1>t, <1>2, <1>6 DEF ExecInv
  <1>10. \A i \in DOMAIN execQueue : \E j \in DOMAIN execQueue' : execQueue'[j] = execQueue[i]
    BY <1>2
  <1> QED
    BY <1>t, <1>7, <1>8, <1>9, <1>10, ExecStep

\* What was submitted is mined: the message is executed now, or was before.
LEMMA MineExecuteStep ==
    ASSUME AgentsInv, ContractsKeep, MineExecute
    PROVE  ExecTypeOK' /\ ExecInv'
  <1>t. ExecTypeOK /\ ExecInv
    BY DEF AgentsInv
  <1>1. PICK tx : tx = Head(execQueue)
    OBVIOUS
  <1> DEFINE old == execQueue
             new == Tail(execQueue)
  <1>2. old \in Seq(Transactions) /\ old # <<>>
    BY <1>t DEF ExecTypeOK, MineExecute
  <1>3. /\ UNCHANGED <<execRows, execItems, execWrite>> /\ execQueue' = new
        /\ InterchainExecute(tx.dst, tx) \/ (~IsExecutable(tx.dst, tx) /\ UNCHANGED vars)
    BY <1>1 DEF MineExecute
  <1>4. Len(old) \in Nat /\ DOMAIN old = 1..Len(old) /\ Len(old) # 0
    BY <1>2, LenProperties, EmptySeq
  <1>5. /\ tx \in Transactions /\ new \in Seq(Transactions) /\ Len(new) = Len(old) - 1
        /\ \A i \in 1..Len(new) : new[i] = old[i + 1]
    BY <1>1, <1>2, HeadTailProperties
  <1>6. DOMAIN new = 1..(Len(old) - 1) /\ old[1] = tx
    BY <1>1, <1>2, <1>5, LenProperties
  <1>7. \A i \in DOMAIN old : i = 1 \/ (i - 1 \in DOMAIN new /\ new[i - 1] = old[i])
    <2>1. ASSUME NEW i \in DOMAIN old, i # 1
          PROVE  i - 1 \in DOMAIN new /\ new[i - 1] = old[i]
      <3>1. i - 1 \in DOMAIN new /\ i - 1 \in 1..Len(new) /\ (i - 1) + 1 = i
        BY <1>4, <1>5, <1>6, <2>1
      <3> QED
        BY <1>5, <3>1
    <2> QED
      BY <2>1
  <1> HIDE DEF new
  <1>8. ExecTypeOK'
    BY <1>t, <1>3, <1>5 DEF ExecTypeOK
  <1>9. ExecuteIsCertain(tx) => tx \in executed'[tx.dst]
    <2>1. CASE InterchainExecute(tx.dst, tx)
      <3>1. tx.dst \in Chains /\ executed \in [Chains -> SUBSET Transactions]
        BY <1>5, NonceIsNat DEF AgentsInv, InterchainInv, TypeOK
      <3> QED
        BY <2>1, <3>1 DEF InterchainExecute
    <2>2. CASE ~IsExecutable(tx.dst, tx) /\ UNCHANGED vars
      BY <2>2 DEF ExecuteIsCertain, vars, contractVars
    <2> QED
      BY <1>3, <2>1, <2>2
  <1>10. ASSUME NEW t \in Transactions, ExecuteIsCertain(t)
         PROVE  ExecuteIsCertain(t)'
    <2>1. CASE t \in executed[t.dst]
      BY <2>1 DEF ContractsKeep, ExecuteIsCertain
    <2>2. CASE t = tx
      BY <1>9, <1>10, <2>2 DEF ExecuteIsCertain
    <2>3. CASE t \notin executed[t.dst] /\ t # tx
      <3>1. PICK i \in DOMAIN old : old[i] = t
        BY <1>10, <2>3 DEF ExecuteIsCertain
      <3>2. i - 1 \in DOMAIN new /\ new[i - 1] = t
        BY <1>6, <1>7, <2>3, <3>1
      <3>3. Ready(t)
        BY <1>10 DEF ExecuteIsCertain, Ready
      <3>4. Ready(t)'
        BY <3>3 DEF ContractsKeep
      <3> QED
        BY <1>3, <3>2, <3>4 DEF ExecuteIsCertain, Ready
    <2> QED
      BY <2>1, <2>2, <2>3
  <1>11. ASSUME NEW t \in Transactions, NEW status \in ExecStatuses, ExecBelieved(t, status)'
         PROVE  ExecHolds(t, status)'
    <2>1. ExecHolds(t, status)
      BY <1>t, <1>3, <1>11 DEF ExecInv, ExecBelieved
    <2>2. Ready(t) => Ready(t)'
      BY DEF ContractsKeep
    <2> QED
      BY <1>10, <2>1, <2>2 DEF ExecHolds
  <1> QED
    BY <1>t, <1>3, <1>8, <1>11 DEF ExecInv

\* The executor stops, or a call fails.
LEMMA ExecGivesUpStep ==
    ASSUME AgentsInv, ContractsKeep, ExecutorStops \/ ExecutorFails
    PROVE  ExecTypeOK' /\ ExecInv'
  <1>1. /\ UNCHANGED <<execRows, execQueue>>
        /\ execItems' \subseteq execItems /\ execWrite' \subseteq execWrite
    BY DEF ExecutorStops, ExecutorFails, TakeTransaction, NoWrite
  <1> QED
    BY <1>1, ExecKept DEF AgentsInv

-----------------------------------------------------------------------------
(* The invariant *)

LEMMA AgentsInvInit == AgentsInit => AgentsInv
  <1> SUFFICES ASSUME AgentsInit PROVE AgentsInv
    OBVIOUS
  <1>1. InterchainInv
    BY InvInit DEF AgentsInit
  <1>2. SetupInv
    BY DEF AgentsInit, Init, SetupInv
  <1>3. /\ NoRows = [id \in {} |-> "none"] /\ DOMAIN NoRows = {}
        /\ NoRows \in RowsOf(Batches, NodeRow) /\ NoRows \in RowsOf(Transactions, ExecStatuses)
    <2>1. \A Ids, Row : NoRows \in RowsOf(Ids, Row)
      <3>1. \A Row : NoRows \in [{} -> Row]
        BY DEF NoRows
      <3> QED
        BY <3>1 DEF RowsOf
    <2> QED
      BY <2>1 DEF NoRows
  <1>4. NodesTypeOK
    BY <1>3, EmptySeq DEF AgentsInit, NodesTypeOK, NoWrite
  <1>5. ASSUME NEW n \in Nodes PROVE NodeInv(n)
    <2>1. /\ DOMAIN nodeRows[n] = {} /\ replicas[n] = {} /\ nodeItems[n] = {} /\ nodeWrite[n] = {}
          /\ nodeQueue[n] = <<>>
      BY <1>3 DEF AgentsInit, NoWrite
    <2>2. DOMAIN nodeQueue[n] = {}
      BY <2>1
    <2> QED
      BY <2>1, <2>2 DEF NodeInv, RowsTrue, ReplicasTrue, QueueTrue, RowFor, Believed
  <1>6. ExecTypeOK /\ ExecInv
    BY <1>3, EmptySeq DEF AgentsInit, ExecTypeOK, ExecInv, ExecBelieved, NoWrite
  <1> QED
    BY <1>1, <1>2, <1>4, <1>5, <1>6 DEF AgentsInv

\* The batches that are asked for go to another chain.
LEMMA SetupInvStep ==
    ASSUME AgentsInv, [AgentsNext]_agentVars
    PROVE  SetupInv'
  <1>1. UNCHANGED setupVars
    BY AgentsAllowed
  <1>2. threshold' = InitialThreshold
    BY <1>1 DEF setupVars, AgentsInv, SetupInv
  <1>3. ASSUME NEW c \in Chains, NEW d \in Chains, NEW m \in Messages, UserSends(c, d, m)
        PROVE  \A r \in requests' : r.batch.src # r.dst
    <2>1. PICK tx : /\ tx = [src |-> c, dst |-> d, nonce |-> DBNonce(c), sender |-> App, message |-> m]
                    /\ requests' = requests \cup Request(d, TxBatch(tx), {Module})
      BY <1>3 DEF UserSends, InterchainSend
    <2>2. c # d
      BY <1>3 DEF UserSends, InterchainSend
    <2>3. \A r \in Request(d, TxBatch(tx), {Module}) : r.dst = d /\ r.batch.src = c
      BY <2>1 DEF Request, TxBatch
    <2>4. \A r \in requests : r.batch.src # r.dst
      BY DEF AgentsInv, SetupInv
    <2>5. \A r \in Request(d, TxBatch(tx), {Module}) : r.batch.src # r.dst
      BY <2>2, <2>3
    <2> QED
      BY <2>1, <2>4, <2>5
  <1>4. CASE UNCHANGED requests
    BY <1>2, <1>4 DEF AgentsInv, SetupInv
  <1>5. UNCHANGED requests \/ \E c, d \in Chains, m \in Messages : UserSends(c, d, m)
    BY DEF AgentsNext, agentVars, vars, contractVars, TimePasses, Tick, SomebodyExecutes, InterchainExecute,
           IndexRequest, IndexVerified, Gossip, Selector, LoadRequests, SignAndBroadcast, SubmitBatch,
           NotEnoughSignatures, WriteStatus, MineVerify, NodeStops, NodeFails, IndexExecutionRequest,
           ExecSelector, LoadTransactions, CheckReady, ExecuteTransaction, WriteExecStatus, MineExecute,
           ExecutorStops, ExecutorFails
  <1> QED
    BY <1>2, <1>3, <1>4, <1>5 DEF SetupInv

\* A step of node n, and nobody else's.
NodeStep(n) ==
    \/ \E r \in requests : IndexRequest(n, r)
    \/ \E c \in Chains : \E r \in verified[c] : IndexVerified(n, c, r)
    \/ \E v \in Verifiers, r \in requests : Gossip(n, v, r.batch)
    \/ Selector(n) \/ MineVerify(n)
    \/ NodeStops(n) \/ NodeFails(n)

LEMMA NodeStepOwn ==
    ASSUME AgentsInv, ContractsKeep, NEW n \in Nodes, NodeStep(n)
    PROVE  NodesTypeOK' /\ NodeInv(n)'
  BY IndexRequestStep, IndexVerifiedStep, GossipStep, LoadRequestsStep, SignStep, SubmitStep,
     NodeGivesUpStep, WriteStatusStep, MineVerifyStep DEF NodeStep, Selector

LEMMA NodeStepOthers ==
    ASSUME NodesTypeOK, NEW n \in Nodes, NodeStep(n), NEW m \in Nodes, m # n
    PROVE  /\ nodeRows'[m] = nodeRows[m] /\ replicas'[m] = replicas[m] /\ nodeItems'[m] = nodeItems[m]
           /\ nodeWrite'[m] = nodeWrite[m] /\ nodeQueue'[m] = nodeQueue[m]
           /\ UNCHANGED execVars
  <1>1. ASSUME NEW batch, NEW status, UpdateStatus(n, batch, status)
        PROVE  nodeRows'[m] = nodeRows[m]
    BY <1>1 DEF UpdateStatus, NodesTypeOK
  <1>2. nodeRows'[m] = nodeRows[m]
    BY <1>1 DEF NodeStep, NodesTypeOK, IndexRequest, IndexVerified, Gossip, Selector, LoadRequests,
                SignAndBroadcast, SubmitBatch, NotEnoughSignatures, WriteStatus, MineVerify, NodeStops, NodeFails
  <1>3. replicas'[m] = replicas[m]
    BY DEF NodeStep, NodesTypeOK, IndexRequest, IndexVerified, Gossip, Selector, LoadRequests,
           SignAndBroadcast, SubmitBatch, NotEnoughSignatures, WriteStatus, MineVerify, NodeStops, NodeFails
  <1>4. nodeItems'[m] = nodeItems[m]
    BY DEF NodeStep, NodesTypeOK, IndexRequest, IndexVerified, Gossip, Selector, LoadRequests, TakeItem,
           SignAndBroadcast, SubmitBatch, NotEnoughSignatures, WriteStatus, MineVerify, NodeStops, NodeFails
  <1>5. nodeWrite'[m] = nodeWrite[m]
    BY DEF NodeStep, NodesTypeOK, IndexRequest, IndexVerified, Gossip, Selector, LoadRequests, WriteNext,
           SignAndBroadcast, SubmitBatch, NotEnoughSignatures, WriteStatus, MineVerify, NodeStops, NodeFails
  <1>6. nodeQueue'[m] = nodeQueue[m]
    BY DEF NodeStep, NodesTypeOK, IndexRequest, IndexVerified, Gossip, Selector, LoadRequests,
           SignAndBroadcast, SubmitBatch, NotEnoughSignatures, WriteStatus, MineVerify, NodeStops, NodeFails
  <1>7. UNCHANGED execVars
    BY DEF NodeStep, IndexRequest, IndexVerified, Gossip, Selector, LoadRequests,
           SignAndBroadcast, SubmitBatch, NotEnoughSignatures, WriteStatus, MineVerify, NodeStops, NodeFails
  <1> QED
    BY <1>2, <1>3, <1>4, <1>5, <1>6, <1>7

LEMMA AgentsInvNext == AgentsInv /\ [AgentsNext]_agentVars => AgentsInv'
  <1> SUFFICES ASSUME AgentsInv, [AgentsNext]_agentVars PROVE AgentsInv'
    OBVIOUS
  <1>t. NodesTypeOK /\ ExecTypeOK /\ ExecInv /\ InterchainInv
    BY DEF AgentsInv
  <1>1. [Next]_vars /\ UNCHANGED setupVars
    BY AgentsAllowed
  <1>2. InterchainInv' /\ SetupInv' /\ ContractsKeep
    BY <1>t, <1>1, InvNext, SetupInvStep, ContractsKeepTheirWord
  <1>3. ASSUME UNCHANGED nodeVars
        PROVE  NodesTypeOK' /\ \A n \in Nodes : NodeInv(n)'
    <2>1. NodesTypeOK'
      BY <1>t, <1>3 DEF nodeVars, NodesTypeOK
    <2>2. ASSUME NEW n \in Nodes PROVE NodeInv(n)'
      BY <1>t, <1>2, <1>3, NodeKept DEF nodeVars, AgentsInv
    <2> QED
      BY <2>1, <2>2
  <1>4. ASSUME UNCHANGED execVars
        PROVE  ExecTypeOK' /\ ExecInv'
    BY <1>t, <1>2, <1>4, ExecKept DEF execVars
  <1>5. ASSUME NEW n \in Nodes, NodeStep(n)
        PROVE  AgentsInv'
    <2>1. NodesTypeOK' /\ NodeInv(n)'
      BY <1>2, <1>5, NodeStepOwn
    <2>2. UNCHANGED execVars
      BY <1>5 DEF NodeStep, IndexRequest, IndexVerified, Gossip, Selector, LoadRequests,
           SignAndBroadcast, SubmitBatch, NotEnoughSignatures, WriteStatus, MineVerify, NodeStops, NodeFails
    <2>3. ASSUME NEW m \in Nodes, m # n PROVE NodeInv(m)'
      BY <1>t, <1>2, <1>5, <2>3, NodeStepOthers, NodeKept DEF AgentsInv
    <2> QED
      BY <1>2, <1>4, <2>1, <2>2, <2>3 DEF AgentsInv
  <1>6. ASSUME UNCHANGED <<nodeVars, execVars>>
        PROVE  AgentsInv'
    BY <1>2, <1>3, <1>4, <1>6 DEF AgentsInv
  <1>7. ASSUME NEW c \in Chains,
               \/ \E d \in Chains, m \in Messages : UserSends(c, d, m)
               \/ TimePasses(c) \/ \E tx \in Transactions : SomebodyExecutes(c, tx)
        PROVE  AgentsInv'
    BY <1>6, <1>7 DEF UserSends, TimePasses, SomebodyExecutes
  <1>8. ASSUME \/ \E tx \in Transactions : IndexExecutionRequest(tx)
               \/ ExecSelector \/ MineExecute \/ ExecutorStops \/ ExecutorFails
        PROVE  AgentsInv'
    <2>1. UNCHANGED nodeVars
      BY <1>8 DEF IndexExecutionRequest, ExecSelector, LoadTransactions, CheckReady, ExecuteTransaction,
                  WriteExecStatus, MineExecute, ExecutorStops, ExecutorFails
    <2>2. ExecTypeOK' /\ ExecInv'
      BY <1>2, <1>8, IndexExecutionStep, LoadTransactionsStep, CheckReadyStep, ExecuteTransactionStep,
         WriteExecStatusStep, MineExecuteStep, ExecGivesUpStep DEF ExecSelector
    <2> QED
      BY <1>2, <1>3, <2>1, <2>2 DEF AgentsInv
  <1> QED
    BY <1>5, <1>6, <1>7, <1>8 DEF AgentsNext, NodeStep, agentVars

\* The invariant holds in every state.
THEOREM AgentsInvariant == AgentsSpec => []AgentsInv
  BY AgentsInvInit, AgentsInvNext, PTL DEF AgentsSpec

\* The committee and the executor do with the contracts only what the contracts allow:
\* no call of theirs verifies what was not written at the source, whatever the corrupt
\* verifiers sign and whoever stops.
THEOREM AgentsImplementInterchain == AgentsSpec => ImplementsInterchain
  <1>1. AgentsInit => Init
    BY DEF AgentsInit
  <1>2. AgentsInv /\ [AgentsNext]_agentVars => [Next]_vars
    BY AgentsAllowed
  <1> QED
    BY <1>1, <1>2, AgentsInvariant, PTL DEF AgentsSpec, ImplementsInterchain, Spec

\* What the table of a node says was signed is shared.
THEOREM SignedIsSharedHolds == AgentsSpec => []SignedIsShared
  <1>1. ASSUME AgentsInv, NEW n \in Nodes, NEW batch \in DOMAIN nodeRows[n],
               nodeRows[n][batch].status \in {"Signed", "Broadcast"}
        PROVE  <<n, batch>> \in signatures
    <2>1. batch \in Batches /\ nodeRows[n][batch].status \in Statuses
      BY <1>1, RowType DEF AgentsInv, NodeRow
    <2>2. Believed(n, batch, nodeRows[n][batch].status)
      BY DEF Believed
    <2> QED
      BY <1>1, <2>1, <2>2 DEF AgentsInv, NodeInv, RowsTrue, StatusHolds
  <1>2. AgentsInv => SignedIsShared
    BY <1>1 DEF SignedIsShared
  <1> QED
    BY <1>2, AgentsInvariant, PTL

\* A row that no agent looks at again is one that needs no agent any more.
THEOREM NothingGivenUpHolds == AgentsSpec => []NothingGivenUp
  <1>1. ASSUME AgentsInv, NEW n \in Nodes, NEW batch \in DOMAIN nodeRows[n],
               nodeRows[n][batch].status = "Broadcast"
        PROVE  VerifyIsCertain(n, batch, nodeRows[n][batch].dst)
    <2>1. batch \in Batches /\ nodeRows[n][batch].dst \in Chains
      BY <1>1, RowType DEF AgentsInv, NodeRow
    <2>2. Believed(n, batch, "Broadcast") /\ "Broadcast" \in Statuses
      BY <1>1 DEF Believed, Statuses
    <2>3. StatusHolds(n, batch, "Broadcast")
      BY <1>1, <2>1, <2>2 DEF AgentsInv, NodeInv, RowsTrue
    <2>4. RowFor(n, batch, nodeRows[n][batch].dst)
      BY DEF RowFor
    <2> QED
      BY <2>1, <2>3, <2>4 DEF StatusHolds
  <1>2. ASSUME AgentsInv, NEW tx \in DOMAIN execRows, execRows[tx] = "Executed"
        PROVE  ExecuteIsCertain(tx)
    <2>1. tx \in Transactions /\ ExecBelieved(tx, "Executed") /\ "Executed" \in ExecStatuses
      BY <1>2, ExecRowType DEF AgentsInv, ExecBelieved, ExecStatuses
    <2> QED
      BY <1>2, <2>1 DEF AgentsInv, ExecInv, ExecHolds
  <1>3. AgentsInv => NothingGivenUp
    BY <1>1, <1>2 DEF NothingGivenUp
  <1> QED
    BY <1>3, AgentsInvariant, PTL
=============================================================================
