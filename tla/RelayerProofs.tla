---------------------------- MODULE RelayerProofs ----------------------------
(***************************************************************************)
(* What the relayer keeps for any requests, rivals and bounds: it relays a *)
(* request at most once, only when it is confirmed, and proves and claims  *)
(* only what it has relayed itself.                                        *)
(***************************************************************************)
EXTENDS Relayer, SequenceTheorems, TLAPS

USE RelayerAssumption

-----------------------------------------------------------------------------
(* The invariant *)

IsSeq(s) == s \in Seq(ToSet(s))

\* The contract: requests are told apart by their nonce, and a proof has the time at
\* which it was given.
ContractIsSound ==
    /\ now \in 0..MaxTime /\ nonce \in Nat
    /\ DOMAIN bridgeProofs = Origin!Requests /\ DOMAIN provedAt = Origin!Requests
    /\ \A r \in Origin!Requests :
        /\ r.nonce \in Nat /\ r.nonce < nonce /\ r.destAmount \in Nat
        /\ provedAt[r] \in 0..now
        /\ Origin!Status(r) = "RELAYER_PROVED" => bridgeProofs[r].timestamp = provedAt[r]
        /\ Origin!Status(r) = "REQUESTED" => bridgeProofs[r].relayer = ZeroAddress

\* The logs of both chains are about requests that were made.
LogsAreSound ==
    /\ originHead \in Nat /\ IsSeq(originLogs) /\ IsSeq(destLogs)
    /\ \A i \in 1..Len(originLogs) :
        /\ originLogs[i] = [kind |-> originLogs[i].kind, request |-> originLogs[i].request,
                            relayer |-> originLogs[i].relayer, block |-> originLogs[i].block]
        /\ originLogs[i].request \in Origin!Requests
        /\ originLogs[i].block \in Nat
        /\ originLogs[i].kind = "BridgeRequested" => originLogs[i].relayer = ZeroAddress
    /\ \A i \in 1..Len(destLogs) : destLogs[i].request \in Origin!Requests

ChainsAreSound == ContractIsSound /\ LogsAreSound

\* Where the listeners are on their chains.
ListenersFollow ==
    /\ oLatest \in Nat /\ oLatest <= originHead
    /\ oCursor \in Nat \ {0} /\ dCursor \in Nat \ {0}

QueuesAreSound == IsSeq(originQueue) /\ IsSeq(destQueue)

\* The db selector works on one snapshot at a time, has at most one of a request, and
\* a snapshot has the block of its row.
Snapshots == batch \cup current

HandlerHasStatus(q) ==
    /\ pc = "relaying" => q.status = "CommittedConfirmed"
    /\ pc = "proving" => q.status = "RelayCompleted"
    /\ pc = "claiming" => q.status = "ProvePosted"

SnapshotsAreOne ==
    /\ current = {} \/ \E q \in current : current = {q}
    /\ \A q \in Snapshots :
        /\ q.block = rows[q.request].block
        /\ q.destTxHash \in {NoHash, RelayTxHash}
    /\ \A p, q \in batch : p.request = q.request => p = q
    /\ \A p \in batch, q \in current : p.request # q.request
    /\ \A q \in current : HandlerHasStatus(q)

\* Who relayed, or may yet, has submitted a relay.
RelaysWereSent ==
    \A r \in Origin!Requests :
        RelayedBy({Self}, r) \/ (\E i \in 1..Len(destQueue) : destQueue[i] = r)
            => r \in DOMAIN relaysSent

\* Whatever follows a relay: in the row, in a snapshot, in the queue and on the chain.
AfterOwnRelay == Started \ {"RelayStarted"}
OwnRelaysOnly ==
    /\ \A r \in Known : rows[r].status \in AfterOwnRelay => RelayedBy({Self}, r)
    /\ \A q \in Snapshots : q.status \in AfterOwnRelay => RelayedBy({Self}, q.request)
    /\ \A i \in 1..Len(originQueue) : RelayedBy({Self}, originQueue[i].request)
    /\ \A i \in 1..Len(originLogs) :
        originLogs[i].relayer = Self => RelayedBy({Self}, originLogs[i].request)
    /\ \A r \in Origin!Requests : bridgeProofs[r].relayer = Self => RelayedBy({Self}, r)

\* A request whose relay was started has neither a row nor a snapshot, but the one its
\* handler is about to submit the relay of, from which it could be relayed again.
BeyondRelay == Started \cup {"RelayRaceLost"}
Stale(r) == \E q \in Snapshots : q.request = r /\ q.status \in BeforeRelay
Relaying(r) == pc = "relaying" /\ \E q \in current : q.request = r
RelayedOnce ==
    /\ \A r \in DOMAIN relaysSent :
        relaysSent[r] = 1 /\ rows[r].status \in BeyondRelay /\ ~Stale(r)
    /\ \A r \in Known : rows[r].status \in Started => ~Stale(r) \/ Relaying(r)
    /\ \A r \in Known : Relaying(r) => rows[r].status \in BeyondRelay

\* Whatever follows the check of the confirmations.
IsOld(r) ==
    \E i \in 1..Len(originLogs) :
        /\ originLogs[i].kind = "BridgeRequested" /\ originLogs[i].request = r
        /\ originLogs[i].block + Confirmations <= originHead
ConfirmedFirst ==
    /\ \A r \in Known : rows[r].status \in {"CommittedConfirmed", "RelayStarted"} => IsOld(r)
    /\ \A q \in Snapshots : q.status = "CommittedConfirmed" => IsOld(q.request)
    /\ \A r \in DOMAIN relaysSent : IsOld(r)

RelayerInv ==
    /\ TypeOK
    /\ ChainsAreSound /\ ListenersFollow /\ QueuesAreSound /\ SnapshotsAreOne
    /\ RelaysWereSent /\ OwnRelaysOnly /\ RelayedOnce /\ ConfirmedFirst /\ ClaimsHold

-----------------------------------------------------------------------------
(* Sequences *)

LEMMA SeqOfItself ==
    ASSUME NEW S, NEW t \in Seq(S)
    PROVE  IsSeq(t)
  <1>1. Len(t) \in Nat /\ DOMAIN t = 1..Len(t) /\ t \in [1..Len(t) -> S]
    BY LenProperties
  <1>2. t \in [1..Len(t) -> ToSet(t)]
    BY <1>1 DEF ToSet
  <1> QED
    BY <1>1, <1>2, SeqDef DEF IsSeq

\* What appending leaves, and adds.
LEMMA AppendFacts ==
    ASSUME NEW s, IsSeq(s), NEW e
    PROVE  /\ IsSeq(Append(s, e))
           /\ Len(s) \in Nat /\ Len(Append(s, e)) = Len(s) + 1
           /\ \A i \in 1..Len(s) : Append(s, e)[i] = s[i]
           /\ Append(s, e)[Len(s) + 1] = e
           /\ \A x \in ToSet(s) : x \in ToSet(Append(s, e))
  <1> DEFINE S == ToSet(s) \cup {e}
             t == Append(s, e)
  <1>1. s \in Seq(S) /\ e \in S
    BY DEF IsSeq
  <1>2. /\ t \in Seq(S) /\ Len(s) \in Nat /\ Len(t) = Len(s) + 1
        /\ \A i \in 1..Len(s) : t[i] = s[i]
        /\ t[Len(s) + 1] = e
        /\ DOMAIN t = 1..Len(t) /\ DOMAIN s = 1..Len(s)
    BY <1>1, AppendProperties, LenProperties
  <1>3. IsSeq(t)
    BY <1>2, SeqOfItself
  <1>4. \A x \in ToSet(s) : x \in ToSet(t)
    BY <1>2 DEF ToSet
  <1> QED
    BY <1>2, <1>3, <1>4

\* What is left when the first element is taken.
LEMMA TailFacts ==
    ASSUME NEW s, IsSeq(s), s # <<>>
    PROVE  /\ IsSeq(Tail(s))
           /\ Len(s) \in Nat /\ 1 \in 1..Len(s) /\ Head(s) = s[1]
           /\ Len(Tail(s)) \in Nat
           /\ \A i \in 1..Len(Tail(s)) : i + 1 \in 1..Len(s) /\ Tail(s)[i] = s[i + 1]
  <1> DEFINE S == ToSet(s)
             t == Tail(s)
  <1>1. s \in Seq(S)
    BY DEF IsSeq
  <1>2. /\ t \in Seq(S) /\ Len(s) \in Nat /\ Len(t) = Len(s) - 1 /\ Len(s) # 0
        /\ \A i \in 1..Len(t) : t[i] = s[i + 1]
        /\ DOMAIN t = 1..Len(t) /\ Len(t) \in Nat /\ Head(s) = s[1]
    BY <1>1, HeadTailProperties, EmptySeq, LenProperties
  <1>3. IsSeq(t)
    BY <1>2, SeqOfItself
  <1> QED
    BY <1>2, <1>3

LEMMA EmptyFacts == IsSeq(<<>>) /\ Len(<<>>) = 0
  BY DEF IsSeq, ToSet

-----------------------------------------------------------------------------
(* Rows *)

\* At most the status of r's row changes, to s, and the hash of a row.
RowsMove(r, s) ==
    /\ Known' = Known
    /\ \A x \in Known :
        /\ rows'[x] \in [status : QuoteRequestStatuses, destTxHash : {NoHash, RelayTxHash}, block : Nat]
        /\ rows'[x].block = rows[x].block
        /\ rows'[x].status = rows[x].status \/ (x = r /\ rows'[x].status = s)

LEMMA RowsKept == ASSUME TypeOK, UNCHANGED rows, NEW r, NEW s PROVE RowsMove(r, s)
  BY DEF TypeOK, RowsMove, Known

LEMMA StatusSet ==
    ASSUME TypeOK, NEW r, NEW s \in QuoteRequestStatuses, SetStatus(r, s)
    PROVE  RowsMove(r, s)
  BY DEF TypeOK, RowsMove, Known, SetStatus

LEMMA HashSet ==
    ASSUME TypeOK, NEW x, rows' = [rows EXCEPT ![x].destTxHash = RelayTxHash], NEW r, NEW s
    PROVE  RowsMove(r, s)
  BY DEF TypeOK, RowsMove, Known

LEMMA SnapshotType ==
    ASSUME TypeOK, NEW r \in Known
    PROVE  /\ Snapshot(r).request = r /\ Snapshot(r).status = rows[r].status
           /\ Snapshot(r).block = rows[r].block /\ Snapshot(r).destTxHash = rows[r].destTxHash
           /\ rows[r].destTxHash \in {NoHash, RelayTxHash} /\ rows[r].block \in Nat
           /\ rows[r].status \in QuoteRequestStatuses
  BY DEF TypeOK, Known, Snapshot

-----------------------------------------------------------------------------
(* Steps of the relayer: the chains do not move *)

LEMMA QuietChains ==
    ASSUME UNCHANGED chains
    PROVE  /\ ChainsAreSound => ChainsAreSound'
           /\ Origin!Requests' = Origin!Requests
           /\ UNCHANGED <<originLogs, originHead, destLogs, destBalance, bridgeProofs, rivalSteps>>
           /\ \A r : /\ RelayedBy({Self}, r)' <=> RelayedBy({Self}, r)
                     /\ IsOld(r)' <=> IsOld(r)
                     /\ ProvedBySelf(r)' <=> ProvedBySelf(r)
                     /\ Origin!Elapsed(r)' = Origin!Elapsed(r)
  <1> USE DEF chains, originVars, destVars, originChain, destChain
  <1>1. ChainsAreSound => ChainsAreSound'
    BY DEF ChainsAreSound, ContractIsSound, LogsAreSound, Origin!Requests, Origin!Status
  <1>2. ASSUME NEW r
        PROVE  /\ RelayedBy({Self}, r)' <=> RelayedBy({Self}, r)
               /\ IsOld(r)' <=> IsOld(r)
               /\ ProvedBySelf(r)' <=> ProvedBySelf(r)
               /\ Origin!Elapsed(r)' = Origin!Elapsed(r)
    BY DEF RelayedBy, IsOld, ProvedBySelf, Origin!Status, Origin!Requests, Origin!Elapsed
  <1> QED
    BY <1>1, <1>2 DEF Origin!Requests

\* While the queues do not move either.
LEMMA QuietQueues ==
    ASSUME RelayerInv, UNCHANGED chains, UNCHANGED queues
    PROVE  /\ ChainsAreSound' /\ QueuesAreSound' /\ RelaysWereSent' /\ ClaimsHold'
           /\ UNCHANGED <<originQueue, destQueue, relaysSent>>
  <1>1. ChainsAreSound' /\ Origin!Requests' = Origin!Requests
    BY QuietChains DEF RelayerInv
  <1>2. UNCHANGED <<originQueue, destQueue, relaysSent>>
    BY DEF queues
  <1>3. QueuesAreSound'
    BY <1>2 DEF RelayerInv, QueuesAreSound
  <1>4. RelaysWereSent'
    BY <1>1, <1>2, QuietChains DEF RelayerInv, RelaysWereSent
  <1>5. ClaimsHold'
    BY <1>1, <1>2, QuietChains DEF RelayerInv, ClaimsHold, Queued
  <1> QED
    BY <1>1, <1>2, <1>3, <1>4, <1>5

\* A relay that was submitted, or is about to be, is not submitted from another snapshot.
LEMMA SentFacts ==
    ASSUME RelayerInv, NEW r, r \in DOMAIN relaysSent
    PROVE  r \in Known /\ ~Stale(r) /\ ~Relaying(r) /\ rows[r].status \in BeyondRelay
  <1>1. r \in Known /\ ~Stale(r) /\ rows[r].status \in BeyondRelay
    BY DEF RelayerInv, TypeOK, RelayedOnce
  <1>2. ~Relaying(r)
    BY <1>1 DEF RelayerInv, SnapshotsAreOne, HandlerHasStatus, Relaying, Stale, Snapshots, BeforeRelay
  <1> QED
    BY <1>1, <1>2

LEMMA OwnRelayWasSent ==
    ASSUME RelayerInv, NEW r \in Origin!Requests, RelayedBy({Self}, r)
    PROVE  r \in DOMAIN relaysSent
  BY DEF RelayerInv, RelaysWereSent

\* An indexer handles a log: it may set the status of one row to one beyond the relay.
LEMMA IndexerStepKeeps ==
    ASSUME RelayerInv, UNCHANGED <<chains, queues, selector, cachedBalance>>,
           NEW r, NEW s \in AfterOwnRelay \cup {"RelayRaceLost"}, RowsMove(r, s),
           s \in AfterOwnRelay => RelayedBy({Self}, r),
           ListenersFollow', writingHash' \in BOOLEAN, stops' \in 0..MaxStops
    PROVE  RelayerInv'
  <1>1. /\ ChainsAreSound' /\ QueuesAreSound' /\ RelaysWereSent' /\ ClaimsHold'
        /\ UNCHANGED <<originQueue, destQueue, relaysSent>>
    BY QuietQueues
  <1>2. UNCHANGED <<pc, batch, current, claimCache>>
    BY DEF selector
  <1>3. Known' = Known /\ Known \subseteq Origin!Requests
    BY DEF RowsMove, RelayerInv, TypeOK
  <1>4. TypeOK'
    BY <1>1, <1>2, <1>3, QuietChains DEF RelayerInv, TypeOK, RowsMove, OriginCalls
  <1>5. SnapshotsAreOne'
    BY <1>2, <1>3 DEF RelayerInv, SnapshotsAreOne, Snapshots, HandlerHasStatus, RowsMove, TypeOK
  <1>6. OwnRelaysOnly'
    BY <1>1, <1>2, <1>3, QuietChains DEF RelayerInv, OwnRelaysOnly, Snapshots, RowsMove
  <1>7. /\ \A x \in Known : (Stale(x)' <=> Stale(x)) /\ (Relaying(x)' <=> Relaying(x))
        /\ s \in BeyondRelay /\ s # "RelayStarted"
        /\ s \in Started => s \in AfterOwnRelay
    BY <1>2 DEF Stale, Relaying, Snapshots, BeyondRelay, AfterOwnRelay, Started
  <1>8. s \in Started => ~Stale(r) \/ r \notin Known
    BY <1>3, <1>7, OwnRelayWasSent, SentFacts
  <1>9. RelayedOnce'
    <2>1. \A x \in DOMAIN relaysSent : x \in Known
      BY SentFacts
    <2> QED
      BY <1>1, <1>3, <1>7, <1>8, <2>1 DEF RelayerInv, RelayedOnce, RowsMove
  <1>10. ConfirmedFirst'
    BY <1>1, <1>2, <1>3, <1>7, QuietChains
       DEF RelayerInv, ConfirmedFirst, Snapshots, RowsMove, AfterOwnRelay, Started
  <1> QED
    BY <1>1, <1>4, <1>5, <1>6, <1>9, <1>10 DEF RelayerInv

\* The one snapshot that is handled.
LEMMA CurrentFacts ==
    ASSUME RelayerInv, NEW q \in current
    PROVE  /\ current = {q} /\ q \in Snapshots
           /\ q.request \in Known /\ q.status \in Selected
           /\ q.request \in Origin!Requests
           /\ \A p \in batch : p.request # q.request
           /\ \A r : Relaying(r) => r = q.request
           /\ q.status \in AfterOwnRelay => RelayedBy({Self}, q.request)
           /\ q.status = "CommittedConfirmed" => IsOld(q.request)
  <1>1. current = {q} /\ q \in Snapshots /\ \A p \in batch : p.request # q.request
    BY DEF RelayerInv, SnapshotsAreOne, Snapshots
  <1>2. q.request \in Known /\ q.status \in Selected /\ Known \subseteq Origin!Requests
    BY DEF RelayerInv, TypeOK
  <1>3. q.status \in AfterOwnRelay => RelayedBy({Self}, q.request)
    BY <1>1 DEF RelayerInv, OwnRelaysOnly
  <1>4. q.status = "CommittedConfirmed" => IsOld(q.request)
    BY <1>1 DEF RelayerInv, ConfirmedFirst
  <1> QED
    BY <1>1, <1>2, <1>3, <1>4 DEF Relaying

\* It is not handled with a status from before the relay if the relay was submitted.
LEMMA CurrentIsNotSent ==
    ASSUME RelayerInv, NEW q \in Snapshots, q.status \in BeforeRelay
    PROVE  q.request \notin DOMAIN relaysSent
  BY SentFacts DEF Stale

LEMMA FrameFacts ==
    ASSUME UNCHANGED selectorFrame
    PROVE  /\ UNCHANGED <<chains, indexers, cachedBalance, stops>>
           /\ ListenersFollow <=> ListenersFollow'
           /\ writingHash' = writingHash
  <1>1. UNCHANGED <<chains, indexers, cachedBalance, stops>>
    BY DEF selectorFrame
  <1>2. UNCHANGED <<originHead, oLatest, oCursor, dCursor, writingHash>>
    BY <1>1 DEF chains, originChain, indexers, oListener, dListener
  <1> QED
    BY <1>1, <1>2 DEF ListenersFollow

\* A handler that may set the status of its row returns.
LEMMA HandlerReturnsKeeps ==
    ASSUME RelayerInv, UNCHANGED <<selectorFrame, queues>>, HandlerReturns,
           NEW q \in current, pc # "relaying",
           NEW s \in QuoteRequestStatuses \ {"RelayStarted"}, RowsMove(q.request, s),
           claimCache' \subseteq claimCache \cup Known,
           s \in AfterOwnRelay => RelayedBy({Self}, q.request),
           s = "CommittedConfirmed" => IsOld(q.request),
           q.request \in DOMAIN relaysSent => s \in BeyondRelay
    PROVE  RelayerInv'
  <1>0. UNCHANGED chains /\ UNCHANGED queues
    BY FrameFacts
  <1>1. /\ ChainsAreSound' /\ QueuesAreSound' /\ RelaysWereSent' /\ ClaimsHold'
        /\ UNCHANGED <<originQueue, destQueue, relaysSent>>
    BY <1>0, QuietQueues
  <1>2. ListenersFollow' /\ writingHash' = writingHash /\ UNCHANGED <<cachedBalance, stops>>
    BY FrameFacts DEF RelayerInv
  <1>3. Known' = Known /\ Known \subseteq Origin!Requests
    BY DEF RowsMove, RelayerInv, TypeOK
  <1>4. batch' = batch /\ current' = {} /\ pc' = "select" /\ Snapshots' = batch
    BY DEF HandlerReturns, Snapshots
  <1>5. TypeOK'
    BY <1>0, <1>1, <1>2, <1>3, <1>4, QuietChains DEF RelayerInv, TypeOK, RowsMove, OriginCalls
  <1>6. SnapshotsAreOne'
    BY <1>3, <1>4 DEF RelayerInv, SnapshotsAreOne, Snapshots, RowsMove, TypeOK
  <1>7. OwnRelaysOnly'
    <2>1. \A r \in Known : rows'[r].status \in AfterOwnRelay => RelayedBy({Self}, r)
      BY DEF RelayerInv, OwnRelaysOnly, RowsMove
    <2>2. \A p \in batch : p.status \in AfterOwnRelay => RelayedBy({Self}, p.request)
      BY DEF RelayerInv, OwnRelaysOnly, Snapshots
    <2> QED
      BY <1>0, <1>1, <1>3, <1>4, <2>1, <2>2, QuietChains DEF RelayerInv, OwnRelaysOnly
  <1>8. /\ \A x : Stale(x)' => Stale(x) /\ x # q.request
        /\ \A x : ~Relaying(x)
    BY <1>4, CurrentFacts DEF Stale, Snapshots, Relaying
  <1>9. RelayedOnce'
    <2>1. \A x \in DOMAIN relaysSent : x \in Known
      BY SentFacts
    <2> QED
      BY <1>1, <1>3, <1>8, <2>1 DEF RelayerInv, RelayedOnce, RowsMove, Relaying, HandlerReturns
  <1>10. ConfirmedFirst'
    BY <1>0, <1>1, <1>3, <1>4, QuietChains DEF RelayerInv, ConfirmedFirst, Snapshots, RowsMove
  <1> QED
    BY <1>1, <1>2, <1>5, <1>6, <1>7, <1>9, <1>10 DEF RelayerInv

LEMMA TakeRowKeeps == ASSUME RelayerInv, NEW q \in batch, TakeRow(q) PROVE RelayerInv'
  <1>0. UNCHANGED chains /\ UNCHANGED queues /\ UNCHANGED claimCache
    BY FrameFacts DEF TakeRow
  <1>1. /\ ChainsAreSound' /\ QueuesAreSound' /\ RelaysWereSent' /\ ClaimsHold'
        /\ UNCHANGED <<originQueue, destQueue, relaysSent>>
    BY <1>0, QuietQueues
  <1>2. ListenersFollow' /\ writingHash' = writingHash /\ UNCHANGED <<cachedBalance, stops>>
    BY FrameFacts DEF RelayerInv, TakeRow
  <1>3. /\ batch' = batch \ {q} /\ current' = {q} /\ pc' = "handle" /\ pc = "select"
        /\ current = {} /\ Snapshots' = Snapshots /\ q \in Snapshots
    BY DEF TakeRow, RelayerInv, TypeOK, Snapshots
  <1>4. q.status \in Selected /\ q.request \in Known /\ Known \subseteq Origin!Requests
    BY DEF RelayerInv, TypeOK
  <1>5. RowsMove(q.request, "DeadlineExceeded")
    BY RowsKept, StatusSet DEF TakeRow, RelayerInv, QuoteRequestStatuses
  <1>6. q.request \in DOMAIN relaysSent => UNCHANGED rows
    BY <1>3, <1>4, CurrentIsNotSent DEF TakeRow, DeadlineApplies, BeforeRelayCompleted, BeforeRelay, Selected
  <1>7. TypeOK'
    BY <1>0, <1>1, <1>2, <1>3, <1>5, QuietChains DEF RelayerInv, TypeOK, RowsMove, OriginCalls
  <1>8. SnapshotsAreOne'
    BY <1>3, <1>5 DEF RelayerInv, SnapshotsAreOne, Snapshots, RowsMove, TypeOK, HandlerHasStatus
  <1>9. OwnRelaysOnly'
    <2>1. \A r \in Known : rows'[r].status \in AfterOwnRelay => RelayedBy({Self}, r)
      BY <1>5 DEF RelayerInv, OwnRelaysOnly, RowsMove, AfterOwnRelay, Started
    <2>2. \A p \in Snapshots : p.status \in AfterOwnRelay => RelayedBy({Self}, p.request)
      BY DEF RelayerInv, OwnRelaysOnly
    <2>3. Known' = Known
      BY <1>5 DEF RowsMove
    <2> QED
      BY <1>0, <1>1, <1>3, <2>1, <2>2, <2>3, QuietChains DEF RelayerInv, OwnRelaysOnly
  <1>10. \A x : (Stale(x)' <=> Stale(x)) /\ ~Relaying(x)
    BY <1>3 DEF Stale, Relaying
  <1>11. RelayedOnce'
    <2>1. \A x \in DOMAIN relaysSent : x \in Known
      BY SentFacts
    <2>2. \A x \in DOMAIN relaysSent : rows'[x].status = rows[x].status
      BY <1>5, <1>6, <2>1 DEF RowsMove
    <2>3. \A x \in Known : rows'[x].status \in Started => rows[x].status \in Started
      BY <1>5 DEF RowsMove, Started
    <2>4. \A x : ~Relaying(x)'
      BY <1>3 DEF Relaying
    <2> QED
      BY <1>1, <1>5, <1>10, <2>2, <2>3, <2>4 DEF RelayerInv, RelayedOnce, RowsMove
  <1>12. ConfirmedFirst'
    BY <1>0, <1>1, <1>3, <1>5, QuietChains DEF RelayerInv, ConfirmedFirst, RowsMove
  <1> QED
    BY <1>1, <1>2, <1>7, <1>8, <1>9, <1>11, <1>12 DEF RelayerInv

LEMMA LoadBatchKeeps == ASSUME RelayerInv, LoadBatch PROVE RelayerInv'
  <1>0. UNCHANGED chains /\ UNCHANGED queues /\ UNCHANGED <<rows, pc, current, claimCache>>
    BY FrameFacts DEF LoadBatch
  <1>1. /\ ChainsAreSound' /\ QueuesAreSound' /\ RelaysWereSent' /\ ClaimsHold'
        /\ UNCHANGED <<originQueue, destQueue, relaysSent>>
    BY <1>0, QuietQueues
  <1>2. ListenersFollow' /\ writingHash' = writingHash /\ UNCHANGED <<cachedBalance, stops>>
    BY FrameFacts DEF RelayerInv, LoadBatch
  <1>3. /\ current = {} /\ pc = "select" /\ Known' = Known
        /\ Snapshots' = batch'
        /\ \A q \in batch' : /\ q.request \in Known /\ q.status \in Selected
                             /\ q.status = rows[q.request].status
                             /\ q.block = rows[q.request].block
                             /\ q.destTxHash \in {NoHash, RelayTxHash}
                             /\ q = Snapshot(q.request)
    BY <1>0, SnapshotType DEF LoadBatch, RelayerInv, Snapshots, Known
  <1>4. TypeOK'
    BY <1>0, <1>1, <1>2, <1>3, QuietChains DEF RelayerInv, TypeOK, OriginCalls
  <1>5. SnapshotsAreOne'
    BY <1>0, <1>3 DEF RelayerInv, SnapshotsAreOne
  <1>6. OwnRelaysOnly'
    BY <1>0, <1>1, <1>3, QuietChains DEF RelayerInv, OwnRelaysOnly
  <1>7. \A x : Stale(x)' => x \in Known /\ rows[x].status \in BeforeRelay
    BY <1>3 DEF Stale
  <1>8. RelayedOnce'
    BY <1>0, <1>1, <1>3, <1>7 DEF RelayerInv, RelayedOnce, BeforeRelay, BeyondRelay, Started, Relaying
  <1>9. ConfirmedFirst'
    BY <1>0, <1>1, <1>3, QuietChains DEF RelayerInv, ConfirmedFirst
  <1> QED
    BY <1>1, <1>2, <1>4, <1>5, <1>6, <1>8, <1>9 DEF RelayerInv

\* Each handler that returns at once, or after the transaction it has submitted.
LEMMA BeforeRelayReturns ==
    ASSUME RelayerInv, NEW q \in current, pc = "handle", q.status \in BeforeRelay,
           UNCHANGED <<selectorFrame, queues, claimCache>>, HandlerReturns,
           NEW s \in QuoteRequestStatuses \ (AfterOwnRelay \cup {"RelayStarted"}),
           SetStatus(q.request, s) \/ UNCHANGED rows,
           s = "CommittedConfirmed" => IsOld(q.request)
    PROVE  RelayerInv'
  <1>1. RowsMove(q.request, s)
    BY RowsKept, StatusSet DEF RelayerInv
  <1>2. q.request \notin DOMAIN relaysSent
    BY CurrentFacts, CurrentIsNotSent
  <1>3. /\ UNCHANGED <<selectorFrame, queues>>
        /\ claimCache' \subseteq claimCache \cup Known
    OBVIOUS
  <1> QED
    BY <1>1, <1>2, <1>3, HandlerReturnsKeeps

LEMMA AfterRelayReturns ==
    ASSUME RelayerInv, NEW q \in current, pc # "relaying", q.status \in AfterOwnRelay,
           UNCHANGED <<selectorFrame, queues>>, HandlerReturns,
           claimCache' \subseteq claimCache \cup Known,
           NEW s \in AfterOwnRelay, SetStatus(q.request, s) \/ UNCHANGED rows
    PROVE  RelayerInv'
  <1>1. /\ s \in QuoteRequestStatuses \ {"RelayStarted"} /\ s \in BeyondRelay
        /\ s # "CommittedConfirmed"
    BY DEF AfterOwnRelay, Started, BeyondRelay, QuoteRequestStatuses
  <1>2. RowsMove(q.request, s)
    BY <1>1, RowsKept, StatusSet DEF RelayerInv
  <1>3. RelayedBy({Self}, q.request)
    BY CurrentFacts
  <1> QED
    BY <1>1, <1>2, <1>3, HandlerReturnsKeeps

\* A transaction that was confirmed for its snapshot is on the chain for long enough.
LEMMA ConfirmedIsOld ==
    ASSUME RelayerInv, NEW q \in Snapshots, IsConfirmed(q)
    PROVE  IsOld(q.request)
  <1>1. q.request \in Known /\ q.block = rows[q.request].block
    BY DEF RelayerInv, TypeOK, SnapshotsAreOne, Snapshots
  <1>2. /\ [kind |-> "BridgeRequested", request |-> q.request, relayer |-> ZeroAddress,
            block |-> q.block] \in ToSet(originLogs)
        /\ q.block \in Nat
    BY <1>1 DEF RelayerInv, TypeOK
  <1>3. PICK i \in 1..Len(originLogs) :
            /\ originLogs[i].kind = "BridgeRequested" /\ originLogs[i].request = q.request
            /\ originLogs[i].block = q.block
    <2>1. DOMAIN originLogs = 1..Len(originLogs)
      BY LenProperties DEF RelayerInv, ChainsAreSound, ContractIsSound, LogsAreSound, IsSeq
    <2> QED
      BY <1>2, <2>1 DEF ToSet
  <1>4. oLatest \in Nat /\ originHead \in Nat /\ oLatest <= originHead
    BY DEF RelayerInv, ListenersFollow, ChainsAreSound, ContractIsSound, LogsAreSound
  <1>5. q.block + Confirmations <= originHead
    BY <1>2, <1>4 DEF IsConfirmed
  <1> QED
    BY <1>3, <1>5 DEF IsOld

LEMMA RefuseLateKeeps == ASSUME RelayerInv, NEW q \in current, RefuseLate(q) PROVE RelayerInv'
  <1>1. /\ "DeadlineExceeded" \in QuoteRequestStatuses \ (AfterOwnRelay \cup {"RelayStarted"})
        /\ "DeadlineExceeded" # "CommittedConfirmed"
    BY DEF QuoteRequestStatuses, AfterOwnRelay, Started
  <1> QED
    BY <1>1, BeforeRelayReturns DEF RefuseLate

LEMMA SkipWithoutGasKeeps == ASSUME RelayerInv, NEW q \in current, SkipWithoutGas(q) PROVE RelayerInv'
  <1>1. /\ "Seen" \in QuoteRequestStatuses \ (AfterOwnRelay \cup {"RelayStarted"})
        /\ "Seen" # "CommittedConfirmed"
    BY DEF QuoteRequestStatuses, AfterOwnRelay, Started
  <1> QED
    BY <1>1, BeforeRelayReturns DEF SkipWithoutGas

LEMMA HandleSeenKeeps == ASSUME RelayerInv, NEW q \in current, HandleSeen(q) PROVE RelayerInv'
  <1>1. PICK s \in {"WillNotProcess", "NotEnoughInventory", "CommittedPending"} :
            SetStatus(q.request, s) \/ UNCHANGED rows
    BY DEF HandleSeen
  <1>2. /\ s \in QuoteRequestStatuses \ (AfterOwnRelay \cup {"RelayStarted"})
        /\ s # "CommittedConfirmed"
    BY DEF QuoteRequestStatuses, AfterOwnRelay, Started
  <1> QED
    BY <1>1, <1>2, BeforeRelayReturns DEF HandleSeen, Handling, BeforeRelay

LEMMA HandleNotEnoughInventoryKeeps ==
    ASSUME RelayerInv, NEW q \in current, HandleNotEnoughInventory(q)
    PROVE  RelayerInv'
  <1>1. /\ "CommittedPending" \in QuoteRequestStatuses \ (AfterOwnRelay \cup {"RelayStarted"})
        /\ "CommittedPending" # "CommittedConfirmed"
    BY DEF QuoteRequestStatuses, AfterOwnRelay, Started
  <1>2. SetStatus(q.request, "CommittedPending") \/ UNCHANGED rows
    BY DEF HandleNotEnoughInventory
  <1> QED
    BY <1>1, <1>2, BeforeRelayReturns DEF HandleNotEnoughInventory, Handling, BeforeRelay

LEMMA HandleCommitPendingKeeps ==
    ASSUME RelayerInv, NEW q \in current, HandleCommitPending(q)
    PROVE  RelayerInv'
  <1>1. /\ "CommittedConfirmed" \in QuoteRequestStatuses \ (AfterOwnRelay \cup {"RelayStarted"})
        /\ "Seen" \in QuoteRequestStatuses \ (AfterOwnRelay \cup {"RelayStarted"})
        /\ "Seen" # "CommittedConfirmed"
    BY DEF QuoteRequestStatuses, AfterOwnRelay, Started
  <1>2. /\ pc = "handle" /\ q.status \in BeforeRelay
        /\ UNCHANGED <<selectorFrame, queues, claimCache>> /\ HandlerReturns
    BY DEF HandleCommitPending, Handling, BeforeRelay
  <1>3. CASE CommitHolds(q)
    <2>1. IsOld(q.request)
      BY <1>3, CurrentFacts, ConfirmedIsOld DEF CommitHolds
    <2>2. SetStatus(q.request, "CommittedConfirmed")
      BY <1>3 DEF HandleCommitPending
    <2> QED
      BY <1>1, <1>2, <2>1, <2>2, BeforeRelayReturns
  <1>4. CASE ~CommitHolds(q)
    <2>1. UNCHANGED rows
      BY <1>4 DEF HandleCommitPending
    <2> QED
      BY <1>1, <1>2, <2>1, BeforeRelayReturns
  <1> QED
    BY <1>3, <1>4

LEMMA WriteProvePostingKeeps ==
    ASSUME RelayerInv, NEW q \in current, WriteProvePosting(q)
    PROVE  RelayerInv'
  <1>1. q.status = "RelayCompleted"
    BY DEF RelayerInv, SnapshotsAreOne, HandlerHasStatus, WriteProvePosting
  <1>2. q.status \in AfterOwnRelay /\ "ProvePosting" \in AfterOwnRelay
    BY <1>1 DEF AfterOwnRelay, Started
  <1>3. claimCache' \subseteq claimCache \cup Known
    BY DEF WriteProvePosting
  <1> QED
    BY <1>2, <1>3, AfterRelayReturns DEF WriteProvePosting

LEMMA WriteClaimPendingKeeps ==
    ASSUME RelayerInv, NEW q \in current, WriteClaimPending(q)
    PROVE  RelayerInv'
  <1>1. q.status = "ProvePosted"
    BY DEF RelayerInv, SnapshotsAreOne, HandlerHasStatus, WriteClaimPending
  <1>2. q.status \in AfterOwnRelay /\ "ClaimPending" \in AfterOwnRelay
    BY <1>1 DEF AfterOwnRelay, Started
  <1>3. claimCache' \subseteq claimCache \cup Known
    BY DEF WriteClaimPending
  <1> QED
    BY <1>2, <1>3, AfterRelayReturns DEF WriteClaimPending

LEMMA CheckProofKeeps == ASSUME RelayerInv, NEW q \in current, CheckProof(q) PROVE RelayerInv'
  <1>1. q.status \in AfterOwnRelay /\ "ClaimCompleted" \in AfterOwnRelay
    BY DEF AfterOwnRelay, Started, CheckProof, Handling
  <1>2. claimCache' \subseteq claimCache \cup Known
    BY CurrentFacts DEF CheckProof
  <1>3. SetStatus(q.request, "ClaimCompleted") \/ UNCHANGED rows
    BY DEF CheckProof
  <1> QED
    BY <1>1, <1>2, <1>3, AfterRelayReturns DEF CheckProof, Handling

\* The relay is started: the status is written, the transaction is not submitted yet.
LEMMA HandleCommitConfirmedKeeps ==
    ASSUME RelayerInv, NEW q \in current, HandleCommitConfirmed(q)
    PROVE  RelayerInv'
  <1>0. UNCHANGED chains /\ UNCHANGED queues /\ UNCHANGED claimCache
    BY FrameFacts DEF HandleCommitConfirmed
  <1>1. /\ ChainsAreSound' /\ QueuesAreSound' /\ RelaysWereSent' /\ ClaimsHold'
        /\ UNCHANGED <<originQueue, destQueue, relaysSent>>
    BY <1>0, QuietQueues
  <1>2. ListenersFollow' /\ writingHash' = writingHash /\ UNCHANGED <<cachedBalance, stops>>
    BY FrameFacts DEF RelayerInv, HandleCommitConfirmed
  <1>3. /\ batch' = batch /\ current' = current /\ current = {q} /\ pc = "handle" /\ pc' = "relaying"
        /\ q.status = "CommittedConfirmed" /\ q.request \in Known /\ q \in Snapshots
        /\ IsOld(q.request)
    BY CurrentFacts DEF HandleCommitConfirmed, ContinueAt, Handling
  <1>4. RowsMove(q.request, "RelayStarted") /\ rows'[q.request].status = "RelayStarted"
    <2>1. "RelayStarted" \in QuoteRequestStatuses /\ SetStatus(q.request, "RelayStarted")
      BY DEF QuoteRequestStatuses, HandleCommitConfirmed
    <2>2. rows'[q.request].status = "RelayStarted"
      BY <1>3, <2>1 DEF SetStatus, Known, RelayerInv, TypeOK
    <2> QED
      BY <2>1, <2>2, StatusSet DEF RelayerInv
  <1>5. q.request \notin DOMAIN relaysSent
    BY <1>3, CurrentIsNotSent DEF BeforeRelay
  <1>6. TypeOK'
    BY <1>0, <1>1, <1>2, <1>3, <1>4, QuietChains DEF RelayerInv, TypeOK, RowsMove, OriginCalls
  <1>7. SnapshotsAreOne'
    BY <1>3, <1>4 DEF RelayerInv, SnapshotsAreOne, Snapshots, RowsMove, TypeOK, HandlerHasStatus
  <1>8. OwnRelaysOnly'
    BY <1>0, <1>1, <1>3, <1>4, QuietChains
       DEF RelayerInv, OwnRelaysOnly, RowsMove, AfterOwnRelay, Snapshots
  <1>9. RelayedOnce'
    <2>1. \A x \in DOMAIN relaysSent : x \in Known /\ x # q.request
      BY <1>5, SentFacts
    <2>2. \A x : (Stale(x)' <=> Stale(x)) /\ (Relaying(x)' <=> x = q.request) /\ ~Relaying(x)
      BY <1>3 DEF Stale, Snapshots, Relaying
    <2> QED
      BY <1>1, <1>3, <1>4, <2>1, <2>2 DEF RelayerInv, RelayedOnce, RowsMove, BeyondRelay, Started
  <1>10. ConfirmedFirst'
    BY <1>0, <1>1, <1>3, <1>4, QuietChains DEF RelayerInv, ConfirmedFirst, Snapshots, RowsMove
  <1> QED
    BY <1>1, <1>2, <1>6, <1>7, <1>8, <1>9, <1>10 DEF RelayerInv

\* The relay is submitted, for the first time.
LEMMA SubmitRelayKeeps == ASSUME RelayerInv, NEW q \in current, SubmitRelay(q) PROVE RelayerInv'
  <1>0. UNCHANGED chains /\ UNCHANGED <<originQueue, rows, claimCache>>
    BY FrameFacts DEF SubmitRelay
  <1>1. ListenersFollow' /\ writingHash' = writingHash /\ UNCHANGED <<cachedBalance, stops>>
    BY FrameFacts DEF RelayerInv, SubmitRelay
  <1>2. /\ batch' = batch /\ current' = {} /\ current = {q} /\ pc = "relaying" /\ pc' = "select"
        /\ q.request \in Known /\ q \in Snapshots /\ Snapshots' = batch
        /\ \A p \in batch : p.request # q.request
    BY CurrentFacts DEF SubmitRelay, HandlerReturns, Snapshots
  <1>3. q.status = "CommittedConfirmed" /\ IsOld(q.request)
    BY <1>2, CurrentFacts DEF RelayerInv, SnapshotsAreOne, HandlerHasStatus
  <1>4. q.request \notin DOMAIN relaysSent
    BY <1>2, <1>3, CurrentIsNotSent DEF BeforeRelay
  <1>5. /\ DOMAIN relaysSent' = DOMAIN relaysSent \cup {q.request}
        /\ relaysSent'[q.request] = 1
        /\ \A r \in DOMAIN relaysSent : relaysSent'[r] = relaysSent[r]
    BY <1>4 DEF SubmitRelay, Origin!Assign, Count
  <1>6. /\ IsSeq(destQueue') /\ Len(destQueue) \in Nat /\ Len(destQueue') = Len(destQueue) + 1
        /\ \A i \in 1..Len(destQueue) : destQueue'[i] = destQueue[i]
        /\ destQueue'[Len(destQueue) + 1] = q.request
    BY AppendFacts DEF SubmitRelay, RelayerInv, QueuesAreSound
  <1>7. \A i \in 1..Len(destQueue') : i \in 1..Len(destQueue) \/ destQueue'[i] = q.request
    BY <1>6
  <1>8. ChainsAreSound' /\ Origin!Requests' = Origin!Requests /\ Known' = Known
    BY <1>0, QuietChains DEF RelayerInv, Known
  <1>9. QueuesAreSound'
    BY <1>0, <1>6 DEF RelayerInv, QueuesAreSound
  <1>10. RelaysWereSent'
    BY <1>0, <1>5, <1>6, <1>7, <1>8, QuietChains DEF RelayerInv, RelaysWereSent
  <1>11. ClaimsHold'
    BY <1>0, <1>8, QuietChains DEF RelayerInv, ClaimsHold, Queued
  <1>12. TypeOK'
    BY <1>0, <1>1, <1>2, <1>5, <1>6, <1>7, <1>8, QuietChains DEF RelayerInv, TypeOK, OriginCalls
  <1>13. SnapshotsAreOne'
    BY <1>0, <1>2 DEF RelayerInv, SnapshotsAreOne, Snapshots
  <1>14. OwnRelaysOnly'
    BY <1>0, <1>2, <1>8, QuietChains DEF RelayerInv, OwnRelaysOnly, Snapshots
  <1>15. RelayedOnce'
    <2>1. /\ \A x : (Stale(x)' => Stale(x) /\ x # q.request)
          /\ \A x : (Relaying(x) <=> x = q.request) /\ ~Relaying(x)'
      BY <1>2 DEF Stale, Snapshots, Relaying
    <2>2. rows[q.request].status \in BeyondRelay
      BY <1>2, <2>1 DEF RelayerInv, RelayedOnce
    <2> QED
      BY <1>0, <1>5, <1>8, <2>1, <2>2 DEF RelayerInv, RelayedOnce
  <1>16. ConfirmedFirst'
    BY <1>0, <1>2, <1>3, <1>5, <1>8, QuietChains DEF RelayerInv, ConfirmedFirst, Snapshots
  <1> QED
    BY <1>1, <1>9, <1>8, <1>10, <1>11, <1>12, <1>13, <1>14, <1>15, <1>16 DEF RelayerInv

\* A proof, or a claim that holds, is submitted for a relay of this relayer.
LEMMA SubmitKeeps ==
    ASSUME RelayerInv, NEW q \in current, UNCHANGED <<selectorFrame, destQueue, relaysSent, rows>>,
           pc = "handle", q.status \in AfterOwnRelay,
           NEW call \in {"prove", "claim"}, Submit(call, q),
           NEW label \in {"proving", "claiming"}, ContinueAt(label),
           label = "proving" => q.status = "RelayCompleted",
           label = "claiming" => q.status = "ProvePosted",
           claimCache' \subseteq claimCache \cup Known,
           call = "claim" => ProvedBySelf(q.request) /\ Origin!Elapsed(q.request) > DISPUTE_PERIOD
    PROVE  RelayerInv'
  <1>0. UNCHANGED chains /\ UNCHANGED <<destQueue, relaysSent, rows>>
    BY FrameFacts
  <1>1. ListenersFollow' /\ writingHash' = writingHash /\ UNCHANGED <<cachedBalance, stops>>
    BY FrameFacts DEF RelayerInv
  <1>2. /\ batch' = batch /\ current' = current /\ current = {q} /\ pc' = label /\ Snapshots' = Snapshots
        /\ q.request \in Known /\ q.request \in Origin!Requests /\ q \in Snapshots
        /\ RelayedBy({Self}, q.request)
    BY CurrentFacts DEF ContinueAt, Snapshots
  <1> DEFINE tx == [call |-> call, request |-> q.request, destTxHash |-> q.destTxHash]
  <1>3. /\ IsSeq(originQueue') /\ Len(originQueue) \in Nat /\ Len(originQueue') = Len(originQueue) + 1
        /\ \A i \in 1..Len(originQueue) : originQueue'[i] = originQueue[i]
        /\ originQueue'[Len(originQueue) + 1] = tx
    BY AppendFacts DEF Submit, RelayerInv, QueuesAreSound
  <1>4. \A i \in 1..Len(originQueue') : i \in 1..Len(originQueue) \/ originQueue'[i] = tx
    BY <1>3
  <1>5. tx \in OriginCalls /\ tx.request = q.request /\ tx.call = call
    BY <1>2 DEF OriginCalls, RelayerInv, SnapshotsAreOne
  <1>6. ChainsAreSound' /\ Origin!Requests' = Origin!Requests /\ Known' = Known
    BY <1>0, QuietChains DEF RelayerInv, Known
  <1>7. QueuesAreSound'
    BY <1>0, <1>3 DEF RelayerInv, QueuesAreSound
  <1>8. RelaysWereSent'
    BY <1>0, <1>6, QuietChains DEF RelayerInv, RelaysWereSent
  <1> HIDE DEF tx
  <1>9. ClaimsHold'
    <2>1. \A r : Queued("claim", r)' => Queued("claim", r) \/ (call = "claim" /\ r = q.request)
      BY <1>3, <1>4, <1>5 DEF Queued
    <2> QED
      BY <1>0, <1>6, <2>1, QuietChains DEF RelayerInv, ClaimsHold
  <1>10. TypeOK'
    BY <1>0, <1>1, <1>2, <1>3, <1>4, <1>5, <1>6, QuietChains DEF RelayerInv, TypeOK, OriginCalls
  <1>11. SnapshotsAreOne'
    BY <1>0, <1>2 DEF RelayerInv, SnapshotsAreOne, HandlerHasStatus
  <1>12. OwnRelaysOnly'
    BY <1>0, <1>2, <1>3, <1>4, <1>5, <1>6, QuietChains DEF RelayerInv, OwnRelaysOnly
  <1>13. RelayedOnce'
    <2>1. \A x : (Stale(x)' <=> Stale(x)) /\ ~Relaying(x) /\ ~Relaying(x)'
      BY <1>2 DEF Stale, Relaying
    <2> QED
      BY <1>0, <1>6, <2>1 DEF RelayerInv, RelayedOnce
  <1>14. ConfirmedFirst'
    BY <1>0, <1>2, <1>6, QuietChains DEF RelayerInv, ConfirmedFirst
  <1> QED
    BY <1>1, <1>6, <1>7, <1>8, <1>9, <1>10, <1>11, <1>12, <1>13, <1>14 DEF RelayerInv

-----------------------------------------------------------------------------
(* Time *)

LEMMA ClockIsExact ==
    ASSUME NEW x \in Nat, x <= MaxTime
    PROVE  x % (MaxTime + 1) = x
  OBVIOUS

\* What the contract computes is the time since the proof, as long as the clock has
\* not gone all the way round.
LEMMA TimeSinceProof ==
    ASSUME ChainsAreSound, NEW r \in Origin!Requests, Origin!Status(r) = "RELAYER_PROVED"
    PROVE  /\ Origin!TimeSince(bridgeProofs[r]) = Origin!Elapsed(r)
           /\ Origin!Elapsed(r) \in Nat
  <1>1. /\ bridgeProofs[r].timestamp = provedAt[r]
        /\ provedAt[r] \in Nat /\ now \in Nat /\ provedAt[r] <= now /\ now <= MaxTime
    BY DEF ChainsAreSound, ContractIsSound, LogsAreSound
  <1>2. PICK elapsed : elapsed = now - provedAt[r]
    OBVIOUS
  <1>3. elapsed \in Nat /\ elapsed <= MaxTime
    BY <1>1, <1>2
  <1>4. now % (MaxTime + 1) = now /\ elapsed % (MaxTime + 1) = elapsed
    <2>1. now % (MaxTime + 1) = now
      BY <1>1, ClockIsExact
    <2>2. elapsed % (MaxTime + 1) = elapsed
      BY <1>3, ClockIsExact
    <2> QED
      BY <2>1, <2>2
  <1>5. Origin!TimeSince(bridgeProofs[r]) = elapsed % (MaxTime + 1)
    <2>1. Origin!TimeSince(bridgeProofs[r])
            = ((now % (MaxTime + 1)) - bridgeProofs[r].timestamp) % (MaxTime + 1)
      BY DEF Origin!TimeSince
    <2> QED
      BY <1>1, <1>2, <1>4, <2>1
  <1> QED
    BY <1>2, <1>3, <1>4, <1>5 DEF Origin!Elapsed

LEMMA HandleRelayCompletedKeeps ==
    ASSUME RelayerInv, NEW q \in current, HandleRelayCompleted(q)
    PROVE  RelayerInv'
  <1>1. /\ UNCHANGED <<selectorFrame, destQueue, relaysSent, rows>>
        /\ pc = "handle" /\ q.status \in AfterOwnRelay /\ q.status = "RelayCompleted"
        /\ Submit("prove", q) /\ ContinueAt("proving")
        /\ claimCache' \subseteq claimCache \cup Known
    BY DEF HandleRelayCompleted, Handling, AfterOwnRelay, Started
  <1>2. "prove" \in {"prove", "claim"} /\ "proving" \in {"proving", "claiming"}
        /\ "prove" # "claim" /\ "proving" # "claiming"
    OBVIOUS
  <1> QED
    BY <1>1, <1>2, SubmitKeeps

LEMMA ClaimDepositKeeps == ASSUME RelayerInv, NEW q \in current, ClaimDeposit(q) PROVE RelayerInv'
  <1>1. /\ UNCHANGED <<selectorFrame, destQueue, relaysSent, rows>>
        /\ pc = "handle" /\ q.status \in AfterOwnRelay /\ q.status = "ProvePosted"
        /\ Submit("claim", q) /\ ContinueAt("claiming")
        /\ claimCache' = claimCache \cup {q.request} /\ MayClaim(q)
    BY DEF ClaimDeposit, Handling, AfterOwnRelay, Started
  <1>2. q.request \in Known /\ q.request \in Origin!Requests
    BY CurrentFacts
  <1>3. ProvedBySelf(q.request) /\ Origin!Elapsed(q.request) > DISPUTE_PERIOD
    <2>1. /\ Origin!Status(q.request) = "RELAYER_PROVED"
          /\ bridgeProofs[q.request].relayer = Self
          /\ Origin!TimeSince(bridgeProofs[q.request]) > DISPUTE_PERIOD
      BY <1>1 DEF MayClaim, Origin!CanClaim
    <2> QED
      BY <1>2, <2>1, TimeSinceProof DEF RelayerInv, ProvedBySelf
  <1>4. "claim" \in {"prove", "claim"} /\ "claiming" \in {"proving", "claiming"}
        /\ "proving" # "claiming"
    OBVIOUS
  <1> QED
    BY <1>1, <1>2, <1>3, <1>4, SubmitKeeps

-----------------------------------------------------------------------------
(* The process *)

\* The steps that leave the rows and only forget snapshots.
LEMMA ForgettingKeeps ==
    ASSUME RelayerInv, UNCHANGED <<chains, queues, rows>>,
           \/ UNCHANGED <<pc, batch, current>>
           \/ pc' \in {"select", "down"} /\ current' = {} /\ batch' \subseteq batch,
           claimCache' \subseteq claimCache,
           ListenersFollow', writingHash' \in BOOLEAN, stops' \in 0..MaxStops,
           cachedBalance' \in Nat
    PROVE  RelayerInv'
  <1>1. /\ ChainsAreSound' /\ QueuesAreSound' /\ RelaysWereSent' /\ ClaimsHold'
        /\ UNCHANGED <<originQueue, destQueue, relaysSent>>
    BY QuietQueues
  <1>2. /\ Known' = Known /\ Snapshots' \subseteq Snapshots /\ batch' \subseteq batch
        /\ current' \subseteq current
    BY DEF Known, Snapshots
  <1>3. TypeOK'
    BY <1>1, <1>2, QuietChains DEF RelayerInv, TypeOK, OriginCalls
  <1>4. SnapshotsAreOne'
    BY <1>2 DEF RelayerInv, SnapshotsAreOne, HandlerHasStatus
  <1>5. OwnRelaysOnly'
    BY <1>1, <1>2, QuietChains DEF RelayerInv, OwnRelaysOnly
  <1>6. RelayedOnce'
    <2>1. CASE UNCHANGED <<pc, batch, current>>
      BY <1>1, <1>2, <2>1 DEF RelayerInv, RelayedOnce, Stale, Relaying, Snapshots
    <2>2. CASE pc' \in {"select", "down"} /\ current' = {} /\ batch' \subseteq batch
      <3>1. \A x : Stale(x)' => Stale(x) /\ \E q \in batch : q.request = x
        BY <2>2 DEF Stale, Snapshots
      <3>2. \A x : Stale(x)' => ~Relaying(x)
        BY <3>1 DEF Relaying, RelayerInv, SnapshotsAreOne
      <3>3. \A x : ~Relaying(x)'
        BY <2>2 DEF Relaying
      <3> QED
        BY <1>1, <1>2, <3>1, <3>2, <3>3 DEF RelayerInv, RelayedOnce
    <2> QED
      BY <2>1, <2>2
  <1>7. ConfirmedFirst'
    BY <1>1, <1>2, QuietChains DEF RelayerInv, ConfirmedFirst
  <1> QED
    BY <1>1, <1>3, <1>4, <1>5, <1>6, <1>7 DEF RelayerInv

LEMMA ExpireKeeps == ASSUME RelayerInv, NEW r, ExpireClaimCache(r) PROVE RelayerInv'
  <1>1. /\ UNCHANGED <<chains, queues, rows>> /\ UNCHANGED <<pc, batch, current>>
        /\ claimCache' \subseteq claimCache /\ UNCHANGED <<cachedBalance, stops>>
    BY FrameFacts DEF ExpireClaimCache
  <1>2. ListenersFollow' /\ writingHash' \in BOOLEAN /\ stops' \in 0..MaxStops /\ cachedBalance' \in Nat
    BY <1>1, FrameFacts DEF ExpireClaimCache, RelayerInv, TypeOK
  <1> QED
    BY <1>1, <1>2, ForgettingKeeps

LEMMA RefreshKeeps == ASSUME RelayerInv, RefreshBalances PROVE RelayerInv'
  <1>1. /\ UNCHANGED <<chains, queues, rows>> /\ UNCHANGED <<pc, batch, current>>
        /\ claimCache' \subseteq claimCache
    BY DEF RefreshBalances, selector
  <1>2. ListenersFollow' /\ writingHash' \in BOOLEAN /\ stops' \in 0..MaxStops /\ cachedBalance' \in Nat
    BY DEF RefreshBalances, RelayerInv, TypeOK, ListenersFollow, indexers, oListener, dListener,
           chains, originChain
  <1> QED
    BY <1>1, <1>2, ForgettingKeeps

LEMMA GoDownKeeps == ASSUME RelayerInv, GoDown, stops' \in 0..MaxStops PROVE RelayerInv'
  <1>1. /\ UNCHANGED <<chains, queues, rows>>
        /\ pc' \in {"select", "down"} /\ current' = {} /\ batch' \subseteq batch
        /\ claimCache' \subseteq claimCache
    BY DEF GoDown
  <1>2. ListenersFollow' /\ writingHash' \in BOOLEAN /\ cachedBalance' \in Nat
    BY DEF GoDown, RelayerInv, TypeOK, ListenersFollow, oListener, chains, originChain
  <1> QED
    BY <1>1, <1>2, ForgettingKeeps

LEMMA RestartKeeps == ASSUME RelayerInv, Restart PROVE RelayerInv'
  <1>1. /\ UNCHANGED <<chains, queues, rows>>
        /\ current = {} /\ pc' \in {"select", "down"} /\ current' = {} /\ batch' \subseteq batch
        /\ claimCache' \subseteq claimCache
    BY DEF Restart, RelayerInv, TypeOK
  <1>2. ListenersFollow'
    BY DEF Restart, OL!ListenerRestart, DL!ListenerRestart, RelayerInv, ChainsAreSound, ContractIsSound, LogsAreSound,
           ListenersFollow, chains, originChain
  <1>3. writingHash' \in BOOLEAN /\ stops' \in 0..MaxStops /\ cachedBalance' \in Nat
    BY DEF Restart, RelayerInv, TypeOK
  <1> QED
    BY <1>1, <1>2, <1>3, ForgettingKeeps

-----------------------------------------------------------------------------
(* The indexers *)

\* A poll, or a handler that fails, leaves the rows.
LEMMA PollKeeps ==
    ASSUME RelayerInv, UNCHANGED <<chains, queues, selector, cachedBalance, rows>>,
           ListenersFollow', writingHash' \in BOOLEAN, stops' \in 0..MaxStops
    PROVE  RelayerInv'
  <1>1. UNCHANGED <<chains, queues, selector, cachedBalance>>
    OBVIOUS
  <1>2. RowsMove(NoHash, "RelayRaceLost")
    BY RowsKept DEF RelayerInv
  <1>3. "RelayRaceLost" \notin AfterOwnRelay
    BY DEF AfterOwnRelay, Started
  <1> QED
    BY <1>1, <1>2, <1>3, IndexerStepKeeps

LEMMA QuietListeners ==
    ASSUME ListenersFollow, UNCHANGED chains,
           oLatest' \in {0, oLatest, originHead}, originHead \in Nat,
           oCursor' \in Nat \ {0}, dCursor' \in Nat \ {0}
    PROVE  ListenersFollow'
  BY DEF ListenersFollow, chains, originChain

LEMMA ListenerPolls ==
    ASSUME RelayerInv, OriginPoll \/ OriginPollDone \/ OriginLogFails
                        \/ DestPoll \/ DestPollDone \/ DestLogFails
    PROVE  RelayerInv'
  <1>1. UNCHANGED <<chains, queues, selector, cachedBalance, rows>>
    BY DEF OriginPoll, OriginPollDone, OriginLogFails, DestPoll, DestPollDone, DestLogFails
  <1>2. stops' \in 0..MaxStops /\ writingHash' \in BOOLEAN
    <2>1. stops \in 0..MaxStops /\ writingHash \in BOOLEAN
      BY DEF RelayerInv, TypeOK
    <2>2. stops' = stops \/ (stops < MaxStops /\ stops' = stops + 1)
      BY DEF OriginPoll, OriginPollDone, OriginLogFails, DestPoll, DestPollDone, DestLogFails
    <2>3. writingHash' = writingHash \/ writingHash' = FALSE
      BY DEF OriginPoll, OriginPollDone, OriginLogFails, DestPoll, DestPollDone, DestLogFails, dListener
    <2>4. stops' \in 0..MaxStops
      BY <2>1, <2>2
    <2>5. writingHash' \in BOOLEAN
      BY <2>1, <2>3
    <2> QED
      BY <2>4, <2>5
  <1>3. originHead \in Nat /\ ListenersFollow /\ IsSeq(originLogs) /\ IsSeq(destLogs)
    BY DEF RelayerInv, ChainsAreSound, ContractIsSound, LogsAreSound
  <1>4. oLatest' \in {0, oLatest, originHead} /\ oCursor' \in Nat \ {0} /\ dCursor' \in Nat \ {0}
    <2> USE DEF ListenersFollow
    <2>1. CASE OriginPoll
      <3>1. dCursor' = dCursor
        BY <2>1 DEF OriginPoll, dListener
      <3>2. oLatest' = originHead /\ oCursor' \in Nat \ {0}
        <4>1. Len(originLogs) \in Nat
          BY <1>3, LenProperties DEF IsSeq
        <4> QED
          BY <1>3, <2>1, <4>1 DEF OriginPoll, OL!BeginPoll, OL!PollNothingNew
      <3> QED
        BY <1>3, <3>1, <3>2
    <2>2. CASE OriginPollDone \/ OriginLogFails
      BY <1>3, <2>2 DEF OriginPollDone, OriginLogFails, dListener, OL!FinishPoll, OL!LogFailed, OL!Reparse
    <2>3. CASE DestPoll
      <3>1. oCursor' = oCursor /\ oLatest' = oLatest
        BY <2>3 DEF DestPoll, oListener
      <3>2. dCursor' \in Nat \ {0}
        <4>1. Len(destLogs) \in Nat
          BY <1>3, LenProperties DEF IsSeq
        <4> QED
          BY <1>3, <2>3, <4>1 DEF DestPoll, DL!BeginPoll, DL!PollNothingNew
      <3> QED
        BY <1>3, <3>1, <3>2
    <2>4. CASE DestPollDone \/ DestLogFails
      BY <1>3, <2>4 DEF DestPollDone, DestLogFails, oListener, DL!FinishPoll, DL!LogFailed, DL!Reparse
    <2> QED
      BY <2>1, <2>2, <2>3, <2>4
  <1>5. ListenersFollow'
    BY <1>1, <1>3, <1>4, QuietListeners
  <1> QED
    BY <1>1, <1>2, <1>5, PollKeeps

\* The log that the origin listener is at, and what the relayer knows of it.
LEMMA OriginLogFacts ==
    ASSUME RelayerInv, OL!LogHandled
    PROVE  /\ oCursor \in 1..Len(originLogs) /\ originLogs[oCursor] \in ToSet(originLogs)
           /\ originLogs[oCursor].request \in Origin!Requests
           /\ originLogs[oCursor].block \in Nat
           /\ originLogs[oCursor].kind = "BridgeRequested" => originLogs[oCursor].relayer = ZeroAddress
           /\ originLogs[oCursor].relayer = Self => RelayedBy({Self}, originLogs[oCursor].request)
           /\ oCursor' \in Nat \ {0} /\ oLatest' = oLatest
  <1>1. Len(originLogs) \in Nat /\ DOMAIN originLogs = 1..Len(originLogs)
    BY LenProperties DEF RelayerInv, ChainsAreSound, ContractIsSound, LogsAreSound, IsSeq
  <1>2. /\ oCursor \in 1..Len(originLogs) /\ oCursor' \in Nat \ {0}
        /\ oLatest' = oLatest
    BY <1>1 DEF OL!LogHandled, OL!LogsLeft, RelayerInv, ListenersFollow
  <1>3. originLogs[oCursor] \in ToSet(originLogs)
    BY <1>1, <1>2 DEF ToSet
  <1>4. /\ originLogs[oCursor].request \in Origin!Requests
        /\ originLogs[oCursor].block \in Nat
        /\ originLogs[oCursor].kind = "BridgeRequested" => originLogs[oCursor].relayer = ZeroAddress
    BY <1>2 DEF RelayerInv, ChainsAreSound, ContractIsSound, LogsAreSound
  <1>5. originLogs[oCursor].relayer = Self => RelayedBy({Self}, originLogs[oCursor].request)
    BY <1>2 DEF RelayerInv, OwnRelaysOnly
  <1> QED
    BY <1>2, <1>3, <1>4, <1>5

\* A row for a request that was not known.
LEMMA StoreKeeps ==
    ASSUME RelayerInv, UNCHANGED <<chains, queues, selector, cachedBalance, writingHash, stops>>,
           ListenersFollow',
           NEW r \in Origin!Requests \ Known, NEW block \in Nat,
           [kind |-> "BridgeRequested", request |-> r, relayer |-> ZeroAddress,
            block |-> block] \in ToSet(originLogs),
           StoreQuoteRequest(r, block)
    PROVE  RelayerInv'
  <1>1. /\ ChainsAreSound' /\ QueuesAreSound' /\ RelaysWereSent' /\ ClaimsHold'
        /\ UNCHANGED <<originQueue, destQueue, relaysSent>>
    BY QuietQueues
  <1>2. UNCHANGED <<pc, batch, current, claimCache>> /\ Snapshots' = Snapshots
    BY DEF selector, Snapshots
  <1> DEFINE row == [status |-> "Seen", destTxHash |-> NoHash, block |-> block]
  <1>3. /\ Known' = Known \cup {r} /\ rows'[r] = row
        /\ \A x \in Known : rows'[x] = rows[x]
    BY DEF StoreQuoteRequest, Known, Origin!Assign
  <1>4. row \in [status : QuoteRequestStatuses, destTxHash : {NoHash, RelayTxHash}, block : Nat]
    BY DEF QuoteRequestStatuses
  <1>5. TypeOK'
    <2>1. Known' \subseteq Origin!Requests'
      BY <1>3, QuietChains DEF RelayerInv, TypeOK
    <2>2. \A x \in Known' :
            /\ rows'[x] \in [status : QuoteRequestStatuses, destTxHash : {NoHash, RelayTxHash}, block : Nat]
            /\ [kind |-> "BridgeRequested", request |-> x, relayer |-> ZeroAddress,
                block |-> rows'[x].block] \in ToSet(originLogs)
      BY <1>3, <1>4 DEF RelayerInv, TypeOK
    <2>3. OriginCalls \subseteq OriginCalls'
      BY <1>3 DEF OriginCalls
    <2> QED
      BY <1>1, <1>2, <1>3, <2>1, <2>2, <2>3, QuietChains DEF RelayerInv, TypeOK
  <1>6. SnapshotsAreOne'
    <2>1. \A q \in Snapshots : q.request \in Known
      BY DEF RelayerInv, TypeOK, Snapshots
    <2> QED
      BY <1>2, <1>3, <2>1 DEF RelayerInv, SnapshotsAreOne, HandlerHasStatus
  <1> HIDE DEF row
  <1>7. row.status = "Seen"
    BY DEF row
  <1>8. OwnRelaysOnly'
    BY <1>1, <1>2, <1>3, <1>7, QuietChains DEF RelayerInv, OwnRelaysOnly, AfterOwnRelay, Started
  <1>9. RelayedOnce'
    <2>1. \A x \in DOMAIN relaysSent : x \in Known
      BY SentFacts
    <2>2. \A x : (Stale(x)' <=> Stale(x)) /\ (Relaying(x)' <=> Relaying(x))
      BY <1>2 DEF Stale, Relaying
    <2>3. ~Relaying(r)
      BY DEF Relaying, RelayerInv, TypeOK
    <2> QED
      BY <1>1, <1>3, <1>7, <2>1, <2>2, <2>3 DEF RelayerInv, RelayedOnce, Started
  <1>10. ConfirmedFirst'
    BY <1>1, <1>2, <1>3, <1>7, QuietChains DEF RelayerInv, ConfirmedFirst
  <1> QED
    BY <1>1, <1>5, <1>6, <1>8, <1>9, <1>10 DEF RelayerInv

LEMMA IndexOriginLogKeeps == ASSUME RelayerInv, IndexOriginLog PROVE RelayerInv'
  <1> DEFINE event == originLogs[oCursor]
             r == event.request
  <1>1. OL!LogHandled /\ HandleOriginEvent(event)
        /\ UNCHANGED <<chains, queues, selector, cachedBalance>> /\ UNCHANGED <<dListener, stops>>
    BY DEF IndexOriginLog
  <1>2. writingHash' = writingHash /\ dCursor' = dCursor
    BY <1>1 DEF dListener
  <1>3. stops' \in 0..MaxStops /\ writingHash' \in BOOLEAN
    BY <1>1, <1>2 DEF RelayerInv, TypeOK
  <1>4. /\ event \in ToSet(originLogs) /\ r \in Origin!Requests /\ event.block \in Nat
        /\ event.kind = "BridgeRequested" => event.relayer = ZeroAddress
        /\ event.relayer = Self => RelayedBy({Self}, r)
        /\ oCursor' \in Nat \ {0} /\ oLatest' = oLatest
    BY <1>1, OriginLogFacts
  <1>5. ListenersFollow'
    BY <1>1, <1>2, <1>4, QuietListeners DEF RelayerInv, ListenersFollow, ChainsAreSound, ContractIsSound, LogsAreSound
  <1> HIDE DEF r
  <1>6. CASE UNCHANGED rows
    BY <1>1, <1>3, <1>5, <1>6, PollKeeps
  <1>7. CASE SetStatus(r, StatusForOriginEvent(event))
    <2> DEFINE s == StatusForOriginEvent(event)
    <2>1. /\ s \in AfterOwnRelay \cup {"RelayRaceLost"} /\ s \in QuoteRequestStatuses
          /\ s \in AfterOwnRelay => event.relayer = Self
      BY DEF StatusForOriginEvent, WasMe, AfterOwnRelay, Started, QuoteRequestStatuses
    <2> HIDE DEF s, event
    <2>2. SetStatus(r, s)
      BY <1>7 DEF s
    <2>3. RowsMove(r, s)
      BY <2>1, <2>2, StatusSet DEF RelayerInv
    <2> QED
      BY <1>1, <1>3, <1>4, <1>5, <2>1, <2>3, IndexerStepKeeps
  <1>8. CASE /\ event.kind = "BridgeRequested" /\ r \notin Known
             /\ StoreQuoteRequest(r, event.block)
    <2>1. [kind |-> "BridgeRequested", request |-> r, relayer |-> ZeroAddress,
           block |-> event.block] \in ToSet(originLogs)
      <3>1. \A i \in 1..Len(originLogs) : originLogs[i] = 
              [kind |-> originLogs[i].kind, request |-> originLogs[i].request,
               relayer |-> originLogs[i].relayer, block |-> originLogs[i].block]
        BY DEF RelayerInv, ChainsAreSound, ContractIsSound, LogsAreSound
      <3> QED
        BY <1>1, <1>4, <1>8, <3>1, OriginLogFacts DEF r
    <2> HIDE DEF event
    <2> QED
      BY <1>1, <1>2, <1>4, <1>5, <1>8, <2>1, StoreKeeps
  <1> QED
    BY <1>1, <1>6, <1>7, <1>8 DEF HandleOriginEvent, StoreQuoteRequest, r

\* The log that the destination listener is at.
LEMMA DestLogFacts ==
    ASSUME RelayerInv, DL!LogsLeft
    PROVE  /\ dCursor \in 1..Len(destLogs) /\ dCursor + 1 \in Nat \ {0}
           /\ destLogs[dCursor].relayer = Self => RelayedBy({Self}, destLogs[dCursor].request)
  <1>1. Len(destLogs) \in Nat
    BY LenProperties DEF RelayerInv, ChainsAreSound, ContractIsSound, LogsAreSound, IsSeq
  <1>2. dCursor \in 1..Len(destLogs)
    BY <1>1 DEF DL!LogsLeft, RelayerInv, ListenersFollow
  <1> QED
    BY <1>1, <1>2 DEF RelayedBy

LEMMA IndexRelaysKeeps ==
    ASSUME RelayerInv, IndexForeignRelay \/ IndexOwnRelay \/ IndexOwnRelayHash
    PROVE  RelayerInv'
  <1> DEFINE event == destLogs[dCursor]
             r == event.request
  <1>1. /\ UNCHANGED <<chains, queues, selector, cachedBalance>> /\ UNCHANGED <<oListener, stops>>
        /\ DL!LogsLeft
    BY DEF IndexForeignRelay, IndexOwnRelay, IndexOwnRelayHash, DL!LogHandled
  <1>2. oCursor' = oCursor /\ oLatest' = oLatest
    BY <1>1 DEF oListener
  <1>3. dCursor' \in {dCursor, dCursor + 1} /\ writingHash' \in {writingHash, TRUE, FALSE}
    BY DEF IndexForeignRelay, IndexOwnRelay, IndexOwnRelayHash, DL!LogHandled
  <1>4. stops' \in 0..MaxStops /\ writingHash' \in BOOLEAN
    <2>1. stops \in 0..MaxStops /\ writingHash \in BOOLEAN
      BY DEF RelayerInv, TypeOK
    <2>2. writingHash' \in BOOLEAN
      BY <1>3, <2>1
    <2> QED
      BY <1>1, <2>1, <2>2
  <1>5. ListenersFollow'
    BY <1>1, <1>2, <1>3, DestLogFacts, QuietListeners DEF RelayerInv, ListenersFollow, ChainsAreSound, ContractIsSound, LogsAreSound
  <1>6. PICK s \in {"RelayRaceLost", "RelayCompleted"} :
            RowsMove(r, s) /\ (s = "RelayCompleted" => event.relayer = Self)
    <2>1. CASE IndexForeignRelay
      <3>1. SetStatus(r, "RelayRaceLost") \/ UNCHANGED rows
        BY <2>1 DEF IndexForeignRelay
      <3>2. "RelayRaceLost" \in QuoteRequestStatuses
        BY DEF QuoteRequestStatuses
      <3> HIDE DEF r
      <3> QED
        BY <3>1, <3>2, StatusSet, RowsKept DEF RelayerInv
    <2>2. CASE IndexOwnRelay
      <3>1. SetStatus(r, "RelayCompleted") /\ event.relayer = Self
        BY <2>2 DEF IndexOwnRelay, CompletesRelay, WasMe
      <3>2. "RelayCompleted" \in QuoteRequestStatuses
        BY DEF QuoteRequestStatuses
      <3> HIDE DEF r
      <3> QED
        BY <3>1, <3>2, StatusSet DEF RelayerInv
    <2>3. CASE IndexOwnRelayHash
      <3>1. rows' = [rows EXCEPT ![r].destTxHash = RelayTxHash]
        BY <2>3 DEF IndexOwnRelayHash
      <3> HIDE DEF r
      <3> QED
        BY <3>1, HashSet DEF RelayerInv
    <2> QED
      BY <2>1, <2>2, <2>3
  <1>7. s \in AfterOwnRelay \cup {"RelayRaceLost"} /\ (s \in AfterOwnRelay => RelayedBy({Self}, r))
    BY <1>1, <1>6, DestLogFacts DEF AfterOwnRelay, Started
  <1> HIDE DEF r
  <1> QED
    BY <1>1, <1>4, <1>5, <1>6, <1>7, IndexerStepKeeps

LEMMA IndexerKeeps == ASSUME RelayerInv, IndexerStep PROVE RelayerInv'
  BY ListenerPolls, IndexOriginLogKeeps, IndexRelaysKeeps DEF IndexerStep

LEMMA HandleRowKeeps == ASSUME RelayerInv, NEW q \in current, HandleRow(q) PROVE RelayerInv'
  BY RefuseLateKeeps, SkipWithoutGasKeeps, HandleSeenKeeps, HandleNotEnoughInventoryKeeps,
     HandleCommitPendingKeeps, HandleCommitConfirmedKeeps, SubmitRelayKeeps,
     HandleRelayCompletedKeeps, WriteProvePostingKeeps, CheckProofKeeps, ClaimDepositKeeps,
     WriteClaimPendingKeeps DEF HandleRow

LEMMA SelectorKeeps == ASSUME RelayerInv, SelectorStep PROVE RelayerInv'
  BY LoadBatchKeeps, TakeRowKeeps, HandleRowKeeps, ExpireKeeps, RefreshKeeps DEF SelectorStep

LEMMA ProcessKeeps == ASSUME RelayerInv, ProcessStep PROVE RelayerInv'
  <1>1. stops \in 0..MaxStops
    BY DEF RelayerInv, TypeOK
  <1>2. ASSUME NEW q \in current, StopOnError(q) PROVE RelayerInv'
    BY <1>1, <1>2, GoDownKeeps DEF StopOnError
  <1>3. CASE Crash
    <2>1. stops' \in 0..MaxStops /\ GoDown
      BY <1>1, <1>3 DEF Crash
    <2> QED
      BY <2>1, GoDownKeeps
  <1> QED
    BY <1>2, <1>3, RestartKeeps DEF ProcessStep

-----------------------------------------------------------------------------
(* The contract *)

\* A proof of this relayer that nobody can dispute any more.
Final(r) == ProvedBySelf(r) /\ Origin!Elapsed(r) > DISPUTE_PERIOD

\* What any call of the contract keeps.
ContractKept ==
    /\ ContractIsSound'
    /\ Origin!Requests \subseteq Origin!Requests'
    /\ \A r \in Origin!Requests : Final(r) => Final(r)'

\* No proof of this relayer is new but that of a request in S.
NoOwnProofBut(S) ==
    \A r \in Origin!Requests' :
        bridgeProofs'[r].relayer = Self =>
            \/ r \in S
            \/ r \in Origin!Requests /\ bridgeProofs[r].relayer = Self

LEMMA ContractQuiet ==
    ASSUME ContractIsSound, UNCHANGED <<now, originVars>>
    PROVE  ContractKept /\ NoOwnProofBut({}) /\ Origin!Requests' = Origin!Requests
  BY DEF ContractIsSound, ContractKept, NoOwnProofBut, originVars, Final, ProvedBySelf,
         Origin!Requests, Origin!Status, Origin!Elapsed

LEMMA ContractTicks ==
    ASSUME ContractIsSound, Origin!Tick
    PROVE  ContractKept /\ NoOwnProofBut({}) /\ Origin!Requests' = Origin!Requests
  <1>1. /\ now < MaxTime /\ now' = now + 1 /\ now \in Nat /\ now' \in 0..MaxTime
        /\ UNCHANGED <<bridgeStatuses, bridgeProofs, nonce, provedAt>>
    BY DEF Origin!Tick, Origin!originVars, ContractIsSound
  <1>2. ContractIsSound'
    BY <1>1 DEF ContractIsSound, Origin!Requests, Origin!Status
  <1>3. \A r \in Origin!Requests : Final(r) => Final(r)'
    <2> SUFFICES ASSUME NEW r \in Origin!Requests, Final(r) PROVE Final(r)'
      OBVIOUS
    <2>1. provedAt[r] \in Nat
      BY DEF ContractIsSound
    <2>2. Origin!Elapsed(r)' > DISPUTE_PERIOD
      BY <1>1, <2>1 DEF Final, Origin!Elapsed
    <2> QED
      BY <1>1, <2>2 DEF Final, ProvedBySelf, Origin!Status, Origin!Requests
  <1> QED
    BY <1>1, <1>2, <1>3 DEF ContractKept, NoOwnProofBut, Origin!Requests

LEMMA ContractBridges ==
    ASSUME ContractIsSound, NEW p \in BridgeParams, Origin!Bridge(p, 0)
    PROVE  /\ ContractKept /\ NoOwnProofBut({})
           /\ Origin!RequestFor(p) \in Origin!Requests'
  <1> SUFFICES ASSUME NEW q, q = Origin!RequestFor(p)
               PROVE  ContractKept /\ NoOwnProofBut({}) /\ q \in Origin!Requests'
    OBVIOUS
  <1>1. /\ bridgeStatuses' = Origin!Assign(bridgeStatuses, q, "REQUESTED")
        /\ bridgeProofs' = Origin!Assign(bridgeProofs, q, Origin!NoProof)
        /\ provedAt' = Origin!Assign(provedAt, q, 0)
        /\ nonce' = nonce + 1 /\ now' = now
    BY DEF Origin!Bridge, Origin!IncrementNonce
  <1>2. q.nonce = nonce /\ q.destAmount = p.destAmount /\ p.destAmount \in Nat
    BY DEF Origin!RequestFor
  <1>3. q \notin Origin!Requests /\ nonce \in Nat /\ now \in 0..MaxTime
    BY <1>2 DEF ContractIsSound
  <1>4. /\ Origin!Requests' = Origin!Requests \cup {q}
        /\ DOMAIN bridgeProofs' = Origin!Requests' /\ DOMAIN provedAt' = Origin!Requests'
        /\ \A r \in Origin!Requests :
            /\ Origin!Status(r)' = Origin!Status(r)
            /\ bridgeProofs'[r] = bridgeProofs[r] /\ provedAt'[r] = provedAt[r]
        /\ Origin!Status(q)' = "REQUESTED"
        /\ bridgeProofs'[q].relayer = ZeroAddress /\ provedAt'[q] = 0
    <2>1. Origin!Requests = DOMAIN bridgeProofs /\ Origin!Requests = DOMAIN provedAt
      BY DEF ContractIsSound
    <2>2. /\ Origin!Requests' = Origin!Requests \cup {q}
          /\ \A r \in Origin!Requests : Origin!Status(r)' = Origin!Status(r)
          /\ Origin!Status(q)' = "REQUESTED"
      <3>1. /\ DOMAIN bridgeStatuses' = DOMAIN bridgeStatuses \cup {q}
            /\ \A r \in DOMAIN bridgeStatuses : r # q => bridgeStatuses'[r] = bridgeStatuses[r]
            /\ bridgeStatuses'[q] = "REQUESTED"
        BY <1>1 DEF Origin!Assign
      <3>2. q \notin DOMAIN bridgeStatuses
        BY <1>3 DEF Origin!Requests
      <3> QED
        BY <3>1, <3>2 DEF Origin!Requests, Origin!Status
    <2>3. /\ DOMAIN bridgeProofs' = Origin!Requests \cup {q}
          /\ \A r \in Origin!Requests : bridgeProofs'[r] = bridgeProofs[r]
          /\ bridgeProofs'[q] = Origin!NoProof
      BY <1>1, <1>3, <2>1 DEF Origin!Assign
    <2>4. /\ DOMAIN provedAt' = Origin!Requests \cup {q}
          /\ \A r \in Origin!Requests : provedAt'[r] = provedAt[r]
          /\ provedAt'[q] = 0
      BY <1>1, <1>3, <2>1 DEF Origin!Assign
    <2>5. Origin!NoProof.relayer = ZeroAddress
      BY DEF Origin!NoProof
    <2> QED
      BY <2>2, <2>3, <2>4, <2>5
  <1>5. ContractIsSound'
    <2>1. \A r \in Origin!Requests :
            /\ r.nonce \in Nat /\ r.nonce < nonce' /\ r.destAmount \in Nat
            /\ provedAt'[r] \in 0..now'
            /\ Origin!Status(r)' = "RELAYER_PROVED" => bridgeProofs'[r].timestamp = provedAt'[r]
            /\ Origin!Status(r)' = "REQUESTED" => bridgeProofs'[r].relayer = ZeroAddress
      <3> SUFFICES ASSUME NEW r \in Origin!Requests
                   PROVE  /\ r.nonce \in Nat /\ r.nonce < nonce' /\ r.destAmount \in Nat
                          /\ provedAt[r] \in 0..now
                          /\ Origin!Status(r) = "RELAYER_PROVED" => bridgeProofs[r].timestamp = provedAt[r]
                          /\ Origin!Status(r) = "REQUESTED" => bridgeProofs[r].relayer = ZeroAddress
        BY <1>1, <1>4
      <3>1. r.nonce \in Nat /\ r.nonce < nonce
        BY DEF ContractIsSound
      <3>2. r.nonce < nonce'
        BY <1>1, <1>3, <3>1
      <3> QED
        BY <3>1, <3>2 DEF ContractIsSound
    <2>2. /\ q.nonce \in Nat /\ q.nonce < nonce' /\ nonce' \in Nat /\ now' \in 0..MaxTime
          /\ 0 \in 0..now'
      BY <1>1, <1>2, <1>3
    <2>3. \A r \in Origin!Requests' :
            /\ r.nonce \in Nat /\ r.nonce < nonce' /\ r.destAmount \in Nat
            /\ provedAt'[r] \in 0..now'
            /\ Origin!Status(r)' = "RELAYER_PROVED" => bridgeProofs'[r].timestamp = provedAt'[r]
            /\ Origin!Status(r)' = "REQUESTED" => bridgeProofs'[r].relayer = ZeroAddress
      <3> SUFFICES ASSUME NEW r \in Origin!Requests'
                   PROVE  /\ r.nonce \in Nat /\ r.nonce < nonce' /\ r.destAmount \in Nat
                          /\ provedAt'[r] \in 0..now'
                          /\ Origin!Status(r)' = "RELAYER_PROVED" => bridgeProofs'[r].timestamp = provedAt'[r]
                          /\ Origin!Status(r)' = "REQUESTED" => bridgeProofs'[r].relayer = ZeroAddress
        OBVIOUS
      <3>1. CASE r \in Origin!Requests
        BY <2>1, <3>1
      <3>2. CASE r = q
        BY <1>2, <1>4, <2>2, <3>2
      <3> QED
        BY <1>4, <3>1, <3>2
    <2> QED
      BY <1>4, <2>2, <2>3 DEF ContractIsSound
  <1>6. \A r \in Origin!Requests : Final(r) => Final(r)'
    BY <1>1, <1>4 DEF Final, ProvedBySelf, Origin!Elapsed
  <1>7. NoOwnProofBut({})
    BY <1>4 DEF NoOwnProofBut
  <1> QED
    BY <1>4, <1>5, <1>6, <1>7 DEF ContractKept

\* A call sets the status, the proof and the time of one request that was made.
Settles(q, status, proof, time) ==
    /\ Origin!Requests' = Origin!Requests /\ UNCHANGED <<now, nonce>>
    /\ DOMAIN bridgeProofs' = Origin!Requests /\ DOMAIN provedAt' = Origin!Requests
    /\ \A r \in Origin!Requests :
        /\ Origin!Status(r)' = IF r = q THEN status ELSE Origin!Status(r)
        /\ bridgeProofs'[r] = IF r = q THEN proof ELSE bridgeProofs[r]
        /\ provedAt'[r] = IF r = q THEN time ELSE provedAt[r]

LEMMA CallSettles ==
    ASSUME ContractIsSound, NEW q \in Origin!Requests, NEW status, NEW proof, NEW time,
           bridgeStatuses' = Origin!Assign(bridgeStatuses, q, status),
           \/ bridgeProofs' = Origin!Assign(bridgeProofs, q, proof)
           \/ bridgeProofs' = bridgeProofs /\ proof = bridgeProofs[q],
           \/ provedAt' = Origin!Assign(provedAt, q, time)
           \/ provedAt' = provedAt /\ time = provedAt[q],
           UNCHANGED <<now, nonce>>
    PROVE  Settles(q, status, proof, time)
  <1>1. Origin!Requests = DOMAIN bridgeProofs /\ Origin!Requests = DOMAIN provedAt
    BY DEF ContractIsSound
  <1>2. /\ Origin!Requests' = Origin!Requests
        /\ \A r \in Origin!Requests :
            Origin!Status(r)' = IF r = q THEN status ELSE Origin!Status(r)
    BY DEF Origin!Assign, Origin!Requests, Origin!Status
  <1>3. /\ DOMAIN bridgeProofs' = Origin!Requests
        /\ \A r \in Origin!Requests : bridgeProofs'[r] = IF r = q THEN proof ELSE bridgeProofs[r]
    BY <1>1 DEF Origin!Assign
  <1>4. /\ DOMAIN provedAt' = Origin!Requests
        /\ \A r \in Origin!Requests : provedAt'[r] = IF r = q THEN time ELSE provedAt[r]
    BY <1>1 DEF Origin!Assign
  <1> QED
    BY <1>2, <1>3, <1>4 DEF Settles

LEMMA SettlingKeeps ==
    ASSUME ContractIsSound, NEW q \in Origin!Requests, NEW status, NEW proof, NEW time \in 0..now,
           Settles(q, status, proof, time),
           status = "RELAYER_PROVED" => proof.timestamp = time,
           status = "REQUESTED" => proof.relayer = ZeroAddress,
           Final(q) => /\ status \in {"RELAYER_PROVED", "RELAYER_CLAIMED"}
                       /\ proof.relayer = Self /\ time = provedAt[q]
    PROVE  /\ ContractKept /\ Origin!Requests' = Origin!Requests
           /\ NoOwnProofBut({q})
           /\ (proof.relayer = Self => bridgeProofs[q].relayer = Self)
              => NoOwnProofBut({})
  <1> USE DEF Settles
  <1>1. ContractIsSound'
    BY DEF ContractIsSound
  <1>2. \A r \in Origin!Requests : Final(r) => Final(r)'
    BY DEF Final, ProvedBySelf, Origin!Elapsed
  <1> QED
    BY <1>1, <1>2 DEF ContractKept, NoOwnProofBut

LEMMA ContractProves ==
    ASSUME ContractIsSound, NEW relayer, NEW q, Origin!Prove(relayer, q)
    PROVE  /\ ContractKept /\ Origin!Requests' = Origin!Requests
           /\ NoOwnProofBut({q}) /\ q \in Origin!Requests
           /\ relayer # Self => NoOwnProofBut({})
  <1> DEFINE proof == [timestamp |-> now % (MaxTime + 1), relayer |-> relayer]
  <1>1. /\ bridgeStatuses' = Origin!Assign(bridgeStatuses, q, "RELAYER_PROVED")
        /\ bridgeProofs' = Origin!Assign(bridgeProofs, q, proof)
        /\ provedAt' = Origin!Assign(provedAt, q, now) /\ UNCHANGED <<now, nonce>>
        /\ Origin!Status(q) = "REQUESTED"
    BY DEF Origin!Prove, Origin!Requested
  <1>2. q \in Origin!Requests
    BY <1>1 DEF Origin!Status
  <1>3. now \in 0..MaxTime /\ now \in 0..now /\ now % (MaxTime + 1) = now
    BY ClockIsExact DEF ContractIsSound
  <1>4. ~Final(q)
    BY <1>1 DEF Final, ProvedBySelf
  <1>5. proof.timestamp = now /\ proof.relayer = relayer
    BY <1>3
  <1> HIDE DEF proof
  <1>6. Settles(q, "RELAYER_PROVED", proof, now)
    BY <1>1, <1>2, CallSettles
  <1> QED
    BY <1>2, <1>3, <1>4, <1>5, <1>6, SettlingKeeps

LEMMA ContractClaims ==
    ASSUME ContractIsSound, NEW relayer, NEW q, NEW to, Origin!Claim(relayer, q, to)
    PROVE  /\ ContractKept /\ Origin!Requests' = Origin!Requests
           /\ NoOwnProofBut({}) /\ q \in Origin!Requests
  <1>1. /\ bridgeStatuses' = Origin!Assign(bridgeStatuses, q, "RELAYER_CLAIMED")
        /\ UNCHANGED <<bridgeProofs, provedAt, now, nonce>>
        /\ Origin!Status(q) = "RELAYER_PROVED"
    BY DEF Origin!Claim, Origin!CanClaim
  <1>2. q \in Origin!Requests
    BY <1>1 DEF Origin!Status
  <1>3. PICK proof, time : proof = bridgeProofs[q] /\ time = provedAt[q]
    OBVIOUS
  <1>4. Settles(q, "RELAYER_CLAIMED", proof, time)
    BY <1>1, <1>2, <1>3, CallSettles
  <1>5. time \in 0..now /\ (Final(q) => proof.relayer = Self)
    BY <1>2, <1>3 DEF ContractIsSound, Final, ProvedBySelf
  <1> QED
    BY <1>2, <1>3, <1>4, <1>5, SettlingKeeps

\* A dispute comes too late for a proof that is final, for the contract's guard on the
\* time since the proof is the opposite of the one of claim.
LEMMA ContractDisputes ==
    ASSUME ChainsAreSound, NEW guard, NEW q, Origin!Dispute(guard, q)
    PROVE  ContractKept /\ Origin!Requests' = Origin!Requests /\ NoOwnProofBut({})
  <1>1. /\ bridgeStatuses' = Origin!Assign(bridgeStatuses, q, "REQUESTED")
        /\ bridgeProofs' = Origin!Assign(bridgeProofs, q, Origin!NoProof)
        /\ UNCHANGED <<provedAt, now, nonce>>
        /\ Origin!Status(q) = "RELAYER_PROVED"
        /\ Origin!TimeSince(bridgeProofs[q]) <= DISPUTE_PERIOD
    BY DEF Origin!Dispute, Origin!DeleteProof
  <1>2. q \in Origin!Requests /\ ContractIsSound
    BY <1>1 DEF Origin!Status, ChainsAreSound
  <1>3. ~Final(q)
    BY <1>1, <1>2, TimeSinceProof DEF Final
  <1>4. PICK proof, time : proof = Origin!NoProof /\ time = provedAt[q]
    OBVIOUS
  <1>5. proof.relayer = ZeroAddress
    BY <1>4 DEF Origin!NoProof
  <1>6. Settles(q, "REQUESTED", proof, time)
    BY <1>1, <1>2, <1>4, CallSettles
  <1>7. time \in 0..now
    BY <1>2, <1>4 DEF ContractIsSound
  <1> QED
    BY <1>2, <1>3, <1>5, <1>6, <1>7, SettlingKeeps

LEMMA ContractRefunds ==
    ASSUME ContractIsSound, NEW account, NEW q, Origin!Refund(account, q)
    PROVE  ContractKept /\ Origin!Requests' = Origin!Requests /\ NoOwnProofBut({})
  <1>1. /\ bridgeStatuses' = Origin!Assign(bridgeStatuses, q, "REFUNDED")
        /\ UNCHANGED <<bridgeProofs, provedAt, now, nonce>>
        /\ Origin!Status(q) = "REQUESTED"
    BY DEF Origin!Refund, Origin!Requested
  <1>2. q \in Origin!Requests
    BY <1>1 DEF Origin!Status
  <1>3. PICK proof, time : proof = bridgeProofs[q] /\ time = provedAt[q]
    OBVIOUS
  <1>4. Settles(q, "REFUNDED", proof, time)
    BY <1>1, <1>2, <1>3, CallSettles
  <1>5. time \in 0..now /\ ~Final(q)
    BY <1>1, <1>2, <1>3 DEF ContractIsSound, Final, ProvedBySelf
  <1> QED
    BY <1>2, <1>3, <1>4, <1>5, SettlingKeeps

-----------------------------------------------------------------------------
(* Steps of the chains *)

\* A chain only ever gets longer, and an event names this relayer as the one that did
\* what it had a transaction queued for.
LogsGrow ==
    /\ LogsAreSound' /\ originHead <= originHead'
    /\ \A i \in 1..Len(originLogs) :
        i \in 1..Len(originLogs') /\ originLogs'[i] = originLogs[i]
    /\ \A i \in 1..Len(destLogs) : i \in 1..Len(destLogs') /\ destLogs'[i] = destLogs[i]
    /\ \A x \in ToSet(originLogs) : x \in ToSet(originLogs')
    /\ \A i \in 1..Len(originLogs') : originLogs'[i].relayer = Self =>
        i \in 1..Len(originLogs) \/ RelayedBy({Self}, originLogs'[i].request)
    /\ \A i \in 1..Len(destLogs') : destLogs'[i].relayer = Self =>
        \/ i \in 1..Len(destLogs)
        \/ \E j \in 1..Len(destQueue) : destQueue[j] = destLogs'[i].request

QueuesShrink ==
    /\ QueuesAreSound'
    /\ \A i \in 1..Len(originQueue') :
        \E j \in 1..Len(originQueue) : originQueue'[i] = originQueue[j]
    /\ \A i \in 1..Len(destQueue') : \E j \in 1..Len(destQueue) : destQueue'[i] = destQueue[j]

OwnProofs ==
    \A r \in Origin!Requests' :
        bridgeProofs'[r].relayer = Self => r \in Origin!Requests /\ RelayedBy({Self}, r)

LEMMA GrowthFacts ==
    ASSUME ChainsAreSound, LogsGrow
    PROVE  /\ \A r : RelayedBy({Self}, r) => RelayedBy({Self}, r)'
           /\ \A r : IsOld(r) => IsOld(r)'
           /\ \A r : RelayedBy({Self}, r)' =>
                RelayedBy({Self}, r) \/ \E j \in 1..Len(destQueue) : destQueue[j] = r
  <1>1. \A r : RelayedBy({Self}, r) => RelayedBy({Self}, r)'
    BY DEF LogsGrow, RelayedBy
  <1>2. ASSUME NEW r, IsOld(r) PROVE IsOld(r)'
    <2>1. PICK i \in 1..Len(originLogs) :
            /\ originLogs[i].kind = "BridgeRequested" /\ originLogs[i].request = r
            /\ originLogs[i].block + Confirmations <= originHead
      BY <1>2 DEF IsOld
    <2>2. /\ originHead \in Nat /\ originHead' \in Nat /\ originHead <= originHead'
          /\ originLogs[i].block \in Nat
      BY DEF LogsGrow, ChainsAreSound, LogsAreSound
    <2>3. originLogs[i].block + Confirmations <= originHead'
      BY <2>1, <2>2
    <2>4. i \in 1..Len(originLogs') /\ originLogs'[i] = originLogs[i]
      BY DEF LogsGrow
    <2> QED
      BY <2>1, <2>3, <2>4 DEF IsOld
  <1>3. \A r : RelayedBy({Self}, r)' =>
            RelayedBy({Self}, r) \/ \E j \in 1..Len(destQueue) : destQueue[j] = r
    BY DEF LogsGrow, RelayedBy
  <1> QED
    BY <1>1, <1>2, <1>3

\* What no step of a chain undoes is all that the relayer relies on.
LEMMA ChainKeeps ==
    ASSUME RelayerInv, UNCHANGED <<rows, indexers, selector, cachedBalance, stops, relaysSent>>,
           ContractKept, LogsGrow, QueuesShrink, OwnProofs,
           destBalance' \in Nat, rivalSteps' \in 0..MaxRivalSteps
    PROVE  RelayerInv'
  <1>1. /\ UNCHANGED <<pc, batch, current, claimCache, writingHash, oLatest, oCursor, dCursor>>
        /\ Known' = Known /\ Snapshots' = Snapshots
    BY DEF indexers, selector, oListener, dListener, Known, Snapshots
  <1>2. Known \subseteq Origin!Requests /\ Origin!Requests \subseteq Origin!Requests'
    BY DEF RelayerInv, TypeOK, ContractKept
  <1>3. ChainsAreSound' /\ QueuesAreSound'
    BY DEF ContractKept, LogsGrow, QueuesShrink, ChainsAreSound
  <1>4. ListenersFollow'
    <2>1. originHead \in Nat /\ originHead' \in Nat /\ originHead <= originHead'
      BY DEF LogsGrow, LogsAreSound, RelayerInv, ChainsAreSound
    <2> QED
      BY <1>1, <2>1 DEF RelayerInv, ListenersFollow
  <1>5. TypeOK'
    <2>1. \A r \in Known :
            /\ rows[r] \in [status : QuoteRequestStatuses, destTxHash : {NoHash, RelayTxHash}, block : Nat]
            /\ [kind |-> "BridgeRequested", request |-> r, relayer |-> ZeroAddress,
                block |-> rows[r].block] \in ToSet(originLogs')
      BY DEF RelayerInv, TypeOK, LogsGrow
    <2>2. \A i \in 1..Len(originQueue') : originQueue'[i] \in OriginCalls
      BY DEF RelayerInv, TypeOK, QueuesShrink
    <2>3. \A i \in 1..Len(destQueue') : destQueue'[i] \in Known
      BY DEF RelayerInv, TypeOK, QueuesShrink
    <2>4. OriginCalls' = OriginCalls
      BY <1>1 DEF OriginCalls
    <2> QED
      BY <1>1, <1>2, <2>1, <2>2, <2>3, <2>4 DEF RelayerInv, TypeOK
  <1>6. SnapshotsAreOne'
    BY <1>1 DEF RelayerInv, SnapshotsAreOne, HandlerHasStatus
  <1>7. RelaysWereSent'
    <2> SUFFICES ASSUME NEW r \in Origin!Requests',
                        RelayedBy({Self}, r)' \/ \E i \in 1..Len(destQueue') : destQueue'[i] = r
                 PROVE  r \in DOMAIN relaysSent
      BY DEF RelaysWereSent
    <2>1. RelayedBy({Self}, r) \/ \E i \in 1..Len(destQueue) : destQueue[i] = r
      <3>1. ChainsAreSound
        BY DEF RelayerInv
      <3>2. CASE RelayedBy({Self}, r)'
        BY <3>1, <3>2, GrowthFacts
      <3>3. CASE \E i \in 1..Len(destQueue') : destQueue'[i] = r
        BY <3>3 DEF QueuesShrink
      <3> QED
        BY <3>2, <3>3
    <2>2. r \in Origin!Requests
      BY <1>2, <2>1 DEF RelayerInv, TypeOK, RelayedBy, ChainsAreSound, LogsAreSound
    <2> QED
      BY <2>1, <2>2 DEF RelayerInv, RelaysWereSent
  <1>8. OwnRelaysOnly'
    <2>1. \A i \in 1..Len(originQueue') : RelayedBy({Self}, originQueue'[i].request)
      BY DEF RelayerInv, OwnRelaysOnly, QueuesShrink
    <2>2. \A i \in 1..Len(originLogs') :
            originLogs'[i].relayer = Self => RelayedBy({Self}, originLogs'[i].request)
      BY DEF RelayerInv, OwnRelaysOnly, LogsGrow
    <2>3. \A r \in Origin!Requests' : bridgeProofs'[r].relayer = Self => RelayedBy({Self}, r)
      BY DEF OwnProofs
    <2> QED
      BY <1>1, <2>1, <2>2, <2>3, GrowthFacts DEF RelayerInv, OwnRelaysOnly
  <1>9. RelayedOnce'
    BY <1>1 DEF RelayerInv, RelayedOnce, Stale, Relaying
  <1>10. ConfirmedFirst'
    BY <1>1, GrowthFacts DEF RelayerInv, ConfirmedFirst
  <1>11. ClaimsHold'
    <2> SUFFICES ASSUME NEW r \in Origin!Requests', Queued("claim", r)' PROVE Final(r)'
      BY DEF ClaimsHold, Final
    <2>1. Queued("claim", r)
      BY DEF Queued, QueuesShrink
    <2>2. r \in Origin!Requests
      BY <1>2, <2>1 DEF RelayerInv, TypeOK, Queued, OriginCalls
    <2>3. Final(r)
      BY <2>1, <2>2 DEF RelayerInv, ClaimsHold, Final
    <2> QED
      BY <2>2, <2>3 DEF ContractKept
  <1> QED
    BY <1>3, <1>4, <1>5, <1>6, <1>7, <1>8, <1>9, <1>10, <1>11 DEF RelayerInv

\* What appending one event to the log of the origin chain, or to that of the
\* destination chain, leaves.
LEMMA NoLogs ==
    ASSUME ChainsAreSound, UNCHANGED <<originLogs, destLogs>>,
           originHead' = originHead \/ originHead' = originHead + 1,
           Origin!Requests \subseteq Origin!Requests'
    PROVE  LogsGrow
  <1>1. originHead \in Nat /\ originHead' \in Nat /\ originHead <= originHead'
    BY DEF ChainsAreSound, LogsAreSound
  <1>2. LogsAreSound'
    BY <1>1 DEF ChainsAreSound, LogsAreSound
  <1> QED
    BY <1>1, <1>2 DEF LogsGrow

LEMMA OriginEmits ==
    ASSUME ChainsAreSound, NEW kind, NEW r, NEW relayer, EmitOnOrigin(kind, r, relayer),
           UNCHANGED destLogs, Origin!Requests \subseteq Origin!Requests',
           r \in Origin!Requests',
           kind = "BridgeRequested" => relayer = ZeroAddress,
           relayer = Self => RelayedBy({Self}, r)
    PROVE  LogsGrow
  <1> DEFINE event == [kind |-> kind, request |-> r, relayer |-> relayer, block |-> originHead + 1]
             n == Len(originLogs)
  <1>1. originLogs' = Append(originLogs, event) /\ originHead' = originHead + 1
    BY DEF EmitOnOrigin, Emit
  <1>2. originHead \in Nat /\ IsSeq(originLogs) /\ IsSeq(destLogs)
    BY DEF ChainsAreSound, LogsAreSound
  <1>3. /\ IsSeq(originLogs') /\ n \in Nat /\ Len(originLogs') = n + 1
        /\ \A i \in 1..n : originLogs'[i] = originLogs[i]
        /\ originLogs'[n + 1] = event
        /\ \A x \in ToSet(originLogs) : x \in ToSet(originLogs')
    BY <1>1, <1>2, AppendFacts
  <1>4. /\ \A i \in 1..Len(originLogs') : i \in 1..n \/ i = n + 1
        /\ \A i \in 1..n : i \in 1..Len(originLogs')
    BY <1>3
  <1>5. originHead' \in Nat /\ originHead <= originHead' /\ event.block \in Nat
    BY <1>1, <1>2
  <1>6. /\ event = [kind |-> event.kind, request |-> event.request,
                    relayer |-> event.relayer, block |-> event.block]
        /\ event.request = r /\ event.relayer = relayer /\ event.kind = kind
    OBVIOUS
  <1> HIDE DEF event
  <1>7. LogsAreSound'
    <2>1. \A i \in 1..n :
            /\ originLogs'[i] = [kind |-> originLogs'[i].kind, request |-> originLogs'[i].request,
                                 relayer |-> originLogs'[i].relayer, block |-> originLogs'[i].block]
            /\ originLogs'[i].request \in Origin!Requests'
            /\ originLogs'[i].block \in Nat
            /\ originLogs'[i].kind = "BridgeRequested" => originLogs'[i].relayer = ZeroAddress
      BY <1>3 DEF ChainsAreSound, LogsAreSound
    <2>2. \A i \in 1..Len(destLogs') : destLogs'[i].request \in Origin!Requests'
      BY DEF ChainsAreSound, LogsAreSound
    <2> QED
      BY <1>2, <1>3, <1>4, <1>5, <1>6, <2>1, <2>2 DEF LogsAreSound
  <1> QED
    BY <1>3, <1>4, <1>5, <1>6, <1>7 DEF LogsGrow

LEMMA DestEmits ==
    ASSUME ChainsAreSound, NEW r \in Origin!Requests, NEW relayer,
           EmitOnDest("BridgeRelayed", r, relayer),
           UNCHANGED <<originLogs, originHead>>, Origin!Requests' = Origin!Requests,
           relayer = Self => \E j \in 1..Len(destQueue) : destQueue[j] = r
    PROVE  LogsGrow
  <1> DEFINE event == [kind |-> "BridgeRelayed", request |-> r, relayer |-> relayer,
                       block |-> destHead + 1]
             n == Len(destLogs)
  <1>1. destLogs' = Append(destLogs, event)
    BY DEF EmitOnDest, Emit
  <1>2. originHead \in Nat /\ IsSeq(originLogs) /\ IsSeq(destLogs)
    BY DEF ChainsAreSound, LogsAreSound
  <1>3. /\ IsSeq(destLogs') /\ n \in Nat /\ Len(destLogs') = n + 1
        /\ \A i \in 1..n : destLogs'[i] = destLogs[i]
        /\ destLogs'[n + 1] = event
    BY <1>1, <1>2, AppendFacts
  <1>4. /\ \A i \in 1..Len(destLogs') : i \in 1..n \/ i = n + 1
        /\ \A i \in 1..n : i \in 1..Len(destLogs')
    BY <1>3
  <1>5. event.request = r /\ event.relayer = relayer
    OBVIOUS
  <1> HIDE DEF event
  <1>6. LogsAreSound'
    <2>1. \A i \in 1..Len(destLogs') : destLogs'[i].request \in Origin!Requests'
      BY <1>3, <1>4, <1>5 DEF ChainsAreSound, LogsAreSound
    <2> QED
      BY <1>2, <1>3, <2>1 DEF ChainsAreSound, LogsAreSound
  <1> QED
    BY <1>2, <1>3, <1>4, <1>5, <1>6 DEF LogsGrow

LEMMA NoQueues == ASSUME RelayerInv, UNCHANGED <<originQueue, destQueue>> PROVE QueuesShrink
  BY DEF RelayerInv, QueuesAreSound, QueuesShrink

LEMMA QueueTakes ==
    ASSUME RelayerInv,
           \/ originQueue # <<>> /\ originQueue' = Tail(originQueue) /\ UNCHANGED destQueue
           \/ destQueue # <<>> /\ destQueue' = Tail(destQueue) /\ UNCHANGED originQueue
    PROVE  QueuesShrink
  <1>1. IsSeq(originQueue) /\ IsSeq(destQueue)
    BY DEF RelayerInv, QueuesAreSound
  <1>2. ASSUME NEW s, NEW t, IsSeq(s), s # <<>>, t = Tail(s)
        PROVE  IsSeq(t) /\ \A i \in 1..Len(t) : \E j \in 1..Len(s) : t[i] = s[j]
    BY <1>2, TailFacts
  <1>3. /\ IsSeq(originQueue')
        /\ \A i \in 1..Len(originQueue') :
            \E j \in 1..Len(originQueue) : originQueue'[i] = originQueue[j]
    BY <1>1, <1>2
  <1>4. /\ IsSeq(destQueue')
        /\ \A i \in 1..Len(destQueue') : \E j \in 1..Len(destQueue) : destQueue'[i] = destQueue[j]
    BY <1>1, <1>2
  <1> QED
    BY <1>3, <1>4 DEF QueuesShrink, QueuesAreSound

\* Proofs of this relayer are about its relays as long as the new ones are.
LEMMA OwnProofsStay ==
    ASSUME RelayerInv, NEW S, NoOwnProofBut(S),
           \A r \in S : r \in Origin!Requests /\ RelayedBy({Self}, r)
    PROVE  OwnProofs
  BY DEF RelayerInv, OwnRelaysOnly, NoOwnProofBut, OwnProofs

LEMMA TickKeeps == ASSUME RelayerInv, Tick PROVE RelayerInv'
  <1>1. /\ Origin!Tick
        /\ UNCHANGED <<rows, indexers, selector, cachedBalance, stops, relaysSent,
                       originLogs, originHead, destLogs, originQueue, destQueue,
                       destBalance, rivalSteps>>
    BY DEF Tick, relayerVars, queues, destVars, originChain, destChain
  <1>2. ChainsAreSound /\ destBalance \in Nat /\ rivalSteps \in 0..MaxRivalSteps
    BY DEF RelayerInv, TypeOK
  <1>3. ContractKept /\ NoOwnProofBut({}) /\ Origin!Requests' = Origin!Requests
    BY <1>1, <1>2, ContractTicks DEF ChainsAreSound
  <1> QED
    BY <1>1, <1>2, <1>3, NoLogs, NoQueues, OwnProofsStay, ChainKeeps

LEMMA NewBlockKeeps == ASSUME RelayerInv, NewOriginBlock \/ NewDestBlock PROVE RelayerInv'
  <1>1. /\ UNCHANGED <<rows, indexers, selector, cachedBalance, stops, relaysSent,
                       originLogs, destLogs, originQueue, destQueue, destBalance, rivalSteps>>
        /\ UNCHANGED <<now, originVars>>
        /\ originHead' = originHead \/ originHead' = originHead + 1
    BY DEF NewOriginBlock, NewDestBlock, relayerVars, queues, destVars, originChain, destChain
  <1>2. ChainsAreSound /\ destBalance \in Nat /\ rivalSteps \in 0..MaxRivalSteps
    BY DEF RelayerInv, TypeOK
  <1>3. ContractKept /\ NoOwnProofBut({}) /\ Origin!Requests' = Origin!Requests
    BY <1>1, <1>2, ContractQuiet DEF ChainsAreSound
  <1> QED
    BY <1>1, <1>2, <1>3, NoLogs, NoQueues, OwnProofsStay, ChainKeeps

LEMMA UserBridgesKeeps ==
    ASSUME RelayerInv, NEW p \in BridgeParams, UserBridges(p)
    PROVE  RelayerInv'
  <1>1. PICK q : q = Origin!RequestFor(p)
    OBVIOUS
  <1>2. /\ Origin!Bridge(p, 0) /\ EmitOnOrigin("BridgeRequested", q, ZeroAddress)
        /\ UNCHANGED <<rows, indexers, selector, cachedBalance, stops, relaysSent,
                       destLogs, originQueue, destQueue, destBalance, rivalSteps>>
    BY <1>1 DEF UserBridges, relayerVars, queues, destVars, destChain
  <1>3. ChainsAreSound /\ destBalance \in Nat /\ rivalSteps \in 0..MaxRivalSteps
    BY DEF RelayerInv, TypeOK
  <1>4. ContractKept /\ NoOwnProofBut({}) /\ q \in Origin!Requests'
    BY <1>1, <1>2, <1>3, ContractBridges DEF ChainsAreSound
  <1>5. LogsGrow
    BY <1>2, <1>3, <1>4, OriginEmits DEF ContractKept
  <1> QED
    BY <1>2, <1>3, <1>4, <1>5, NoQueues, OwnProofsStay, ChainKeeps

\* A relay of this relayer is mined, or reverts.
LEMMA MineDestKeeps == ASSUME RelayerInv, MineDest PROVE RelayerInv'
  <1>1. PICK q : q = Head(destQueue)
    OBVIOUS
  <1>2. /\ destQueue # <<>> /\ destQueue' = Tail(destQueue)
        /\ MineRelay(q) \/ UNCHANGED <<now, destVars, destChain>>
        /\ UNCHANGED <<originVars, originLogs, originHead, rivalSteps, originQueue, relaysSent,
                       rows, indexers, selector, cachedBalance, stops>>
    BY <1>1 DEF MineDest, originChain
  <1>3. ChainsAreSound /\ destBalance \in Nat /\ rivalSteps \in 0..MaxRivalSteps
    BY DEF RelayerInv, TypeOK
  <1>4. QueuesShrink
    BY <1>2, QueueTakes
  <1>5. 1 \in 1..Len(destQueue) /\ destQueue[1] = q
    BY <1>1, <1>2, TailFacts DEF RelayerInv, QueuesAreSound
  <1>6. q \in Origin!Requests
    BY <1>5 DEF RelayerInv, TypeOK
  <1>7. now' = now
    BY <1>2 DEF MineRelay, Destination!Relay
  <1>8. ContractKept /\ NoOwnProofBut({}) /\ Origin!Requests' = Origin!Requests
    BY <1>2, <1>3, <1>7, ContractQuiet DEF ChainsAreSound
  <1>9. CASE MineRelay(q)
    <2>1. /\ destBalance >= q.destAmount /\ destBalance' = destBalance - q.destAmount
          /\ EmitOnDest("BridgeRelayed", q, Self)
      BY <1>9 DEF MineRelay
    <2>2. destBalance' \in Nat
      BY <1>3, <1>6, <2>1 DEF ChainsAreSound, ContractIsSound
    <2>3. LogsGrow
      BY <1>2, <1>3, <1>5, <1>6, <1>8, <2>1, DestEmits
    <2> QED
      BY <1>2, <1>3, <1>4, <1>8, <2>2, <2>3, OwnProofsStay, ChainKeeps
  <1>10. CASE UNCHANGED <<now, destVars, destChain>>
    <2>1. UNCHANGED <<destBalance, destLogs>>
      BY <1>10 DEF destVars, destChain
    <2>2. LogsGrow
      BY <1>2, <1>3, <1>8, <2>1, NoLogs
    <2> QED
      BY <1>2, <1>3, <1>4, <1>8, <2>1, <2>2, OwnProofsStay, ChainKeeps
  <1> QED
    BY <1>2, <1>9, <1>10

\* A proof or a claim of this relayer is mined, or reverts.
LEMMA MineOriginKeeps == ASSUME RelayerInv, MineOrigin PROVE RelayerInv'
  <1>1. PICK tx, q : tx = Head(originQueue) /\ q = tx.request
    OBVIOUS
  <1>2. /\ originQueue # <<>> /\ originQueue' = Tail(originQueue)
        /\ MineProve(tx) \/ MineClaim(tx) \/ UNCHANGED <<now, originVars, originChain>>
        /\ UNCHANGED <<destBalance, destLogs, rivalSteps, destQueue, relaysSent,
                       rows, indexers, selector, cachedBalance, stops>>
    BY <1>1 DEF MineOrigin, destVars, destChain
  <1>3. ChainsAreSound /\ destBalance \in Nat /\ rivalSteps \in 0..MaxRivalSteps
    BY DEF RelayerInv, TypeOK
  <1>4. QueuesShrink
    BY <1>2, QueueTakes
  <1>5. RelayedBy({Self}, q)
    <2>1. 1 \in 1..Len(originQueue) /\ originQueue[1] = tx
      BY <1>1, <1>2, TailFacts DEF RelayerInv, QueuesAreSound
    <2>2. RelayedBy({Self}, originQueue[1].request)
      BY <2>1 DEF RelayerInv, OwnRelaysOnly
    <2> QED
      BY <1>1, <2>1, <2>2 DEF RelayedBy
  <1>6. CASE MineProve(tx)
    <2>1. Origin!Prove(Self, q) /\ EmitOnOrigin("BridgeProofProvided", q, Self)
      BY <1>1, <1>6 DEF MineProve
    <2>2. /\ ContractKept /\ Origin!Requests' = Origin!Requests
          /\ NoOwnProofBut({q}) /\ q \in Origin!Requests
      BY <1>3, <2>1, ContractProves DEF ChainsAreSound
    <2>3. OwnProofs
      BY <1>5, <2>2, OwnProofsStay
    <2>4. LogsGrow
      BY <1>2, <1>3, <1>5, <2>1, <2>2, OriginEmits
    <2> QED
      BY <1>2, <1>3, <1>4, <2>2, <2>3, <2>4, ChainKeeps
  <1>7. CASE MineClaim(tx)
    <2>1. Origin!Claim(Self, q, Self) /\ EmitOnOrigin("BridgeDepositClaimed", q, Self)
      BY <1>1, <1>7 DEF MineClaim
    <2>2. /\ ContractKept /\ Origin!Requests' = Origin!Requests
          /\ NoOwnProofBut({}) /\ q \in Origin!Requests
      BY <1>3, <2>1, ContractClaims DEF ChainsAreSound
    <2>3. LogsGrow
      BY <1>2, <1>3, <1>5, <2>1, <2>2, OriginEmits
    <2> QED
      BY <1>2, <1>3, <1>4, <2>2, <2>3, OwnProofsStay, ChainKeeps
  <1>8. CASE UNCHANGED <<now, originVars, originChain>>
    <2>1. ContractKept /\ NoOwnProofBut({}) /\ Origin!Requests' = Origin!Requests
      BY <1>3, <1>8, ContractQuiet DEF ChainsAreSound
    <2>2. LogsGrow
      BY <1>2, <1>3, <1>8, <2>1, NoLogs DEF originChain
    <2> QED
      BY <1>2, <1>3, <1>4, <2>1, <2>2, OwnProofsStay, ChainKeeps
  <1> QED
    BY <1>2, <1>6, <1>7, <1>8

\* What others get mined.
LEMMA OthersKeep ==
    ASSUME RelayerInv, OthersStep, UNCHANGED destBalance, ContractKept, OwnProofs, LogsGrow
    PROVE  RelayerInv'
  <1>1. /\ UNCHANGED <<rows, indexers, selector, cachedBalance, stops, relaysSent,
                       originQueue, destQueue>>
        /\ rivalSteps < MaxRivalSteps /\ rivalSteps' = rivalSteps + 1
    BY DEF OthersStep, relayerVars, queues
  <1>2. destBalance \in Nat /\ rivalSteps' \in 0..MaxRivalSteps
    BY <1>1 DEF RelayerInv, TypeOK
  <1> QED
    BY <1>1, <1>2, NoQueues, ChainKeeps

LEMMA RivalsKeep ==
    ASSUME RelayerInv, NEW r \in Origin!Requests, NEW rival \in Rivals,
           RivalRelays(rival, r) \/ RivalProves(rival, r) \/ RivalClaims(rival, r)
    PROVE  RelayerInv'
  <1>1. rival # Self /\ ChainsAreSound /\ ContractIsSound
    BY DEF RelayerInv, ChainsAreSound
  <1>2. CASE RivalRelays(rival, r)
    <2>1. /\ OthersStep /\ EmitOnDest("BridgeRelayed", r, rival)
          /\ UNCHANGED <<now, originVars, originLogs, originHead, destBalance>>
      BY <1>2 DEF RivalRelays, Destination!Relay, originChain
    <2>2. ContractKept /\ NoOwnProofBut({}) /\ Origin!Requests' = Origin!Requests
      BY <1>1, <2>1, ContractQuiet
    <2>3. LogsGrow
      BY <1>1, <2>1, <2>2, DestEmits
    <2> QED
      BY <2>1, <2>2, <2>3, OwnProofsStay, OthersKeep
  <1>3. CASE RivalProves(rival, r)
    <2>1. /\ OthersStep /\ Origin!Prove(rival, r) /\ EmitOnOrigin("BridgeProofProvided", r, rival)
          /\ UNCHANGED <<destLogs, destBalance>>
      BY <1>3 DEF RivalProves, destVars, destChain
    <2>2. ContractKept /\ NoOwnProofBut({}) /\ Origin!Requests' = Origin!Requests
      BY <1>1, <2>1, ContractProves
    <2>3. LogsGrow
      BY <1>1, <2>1, <2>2, OriginEmits
    <2> QED
      BY <2>1, <2>2, <2>3, OwnProofsStay, OthersKeep
  <1>4. CASE RivalClaims(rival, r)
    <2>1. /\ OthersStep /\ Origin!Claim(rival, r, rival)
          /\ EmitOnOrigin("BridgeDepositClaimed", r, rival)
          /\ UNCHANGED <<destLogs, destBalance>>
      BY <1>4 DEF RivalClaims, destVars, destChain
    <2>2. ContractKept /\ NoOwnProofBut({}) /\ Origin!Requests' = Origin!Requests
      BY <1>1, <2>1, ContractClaims
    <2>3. LogsGrow
      BY <1>1, <2>1, <2>2, OriginEmits
    <2> QED
      BY <2>1, <2>2, <2>3, OwnProofsStay, OthersKeep
  <1> QED
    BY <1>2, <1>3, <1>4

LEMMA GuardsKeep ==
    ASSUME RelayerInv, NEW r, NEW account, GuardDisputes(account, r) \/ SomebodyRefunds(account, r)
    PROVE  RelayerInv'
  <1>1. ChainsAreSound /\ ContractIsSound
    BY DEF RelayerInv, ChainsAreSound
  <1>2. /\ Origin!Dispute(account, r) \/ Origin!Refund(account, r)
        /\ UNCHANGED <<originLogs, originHead, destLogs, destBalance>>
    BY DEF GuardDisputes, SomebodyRefunds, destVars, destChain, originChain
  <1>3. ContractKept /\ NoOwnProofBut({}) /\ Origin!Requests' = Origin!Requests
    BY <1>1, <1>2, ContractDisputes, ContractRefunds
  <1>4. LogsGrow
    BY <1>1, <1>2, <1>3, NoLogs
  <1>5. OthersStep
    BY DEF GuardDisputes, SomebodyRefunds
  <1> QED
    BY <1>2, <1>3, <1>4, <1>5, OwnProofsStay, OthersKeep

LEMMA ChainStepKeeps == ASSUME RelayerInv, ChainStep PROVE RelayerInv'
  BY TickKeeps, NewBlockKeeps, UserBridgesKeeps, MineDestKeeps, MineOriginKeeps,
     RivalsKeep, GuardsKeep DEF ChainStep

-----------------------------------------------------------------------------
(* The theorems *)

LEMMA InvInit == Init => RelayerInv
  <1> SUFFICES ASSUME Init PROVE RelayerInv
    OBVIOUS
  <1>1. /\ now = 0 /\ nonce = 0 /\ bridgeStatuses = [r \in {} |-> "NULL"]
        /\ DOMAIN bridgeStatuses = {} /\ DOMAIN bridgeProofs = {} /\ DOMAIN provedAt = {}
        /\ Origin!Requests = {}
    BY DEF Init, Origin!Init, Origin!Requests
  <1>2. /\ originLogs = <<>> /\ destLogs = <<>> /\ originQueue = <<>> /\ destQueue = <<>>
        /\ Known = {} /\ DOMAIN relaysSent = {} /\ batch = {} /\ current = {} /\ claimCache = {}
        /\ pc = "select" /\ writingHash = FALSE /\ stops = 0 /\ rivalSteps = 0
        /\ destBalance = DestFunds /\ cachedBalance = DestFunds /\ originHead = 0
        /\ Snapshots = {}
    BY DEF Init, Known, Empty, Snapshots
  <1>3. oLatest = 0 /\ oCursor = 1 /\ dCursor = 1
    BY DEF Init, OL!ListenerInit, DL!ListenerInit
  <1>4. TypeOK
    <2>1. /\ \A i \in 1..Len(originQueue) : originQueue[i] \in OriginCalls
          /\ \A i \in 1..Len(destQueue) : destQueue[i] \in Known
      BY <1>2, EmptyFacts
    <2>2. /\ stops \in 0..MaxStops /\ rivalSteps \in 0..MaxRivalSteps
          /\ destBalance \in Nat /\ cachedBalance \in Nat
      BY <1>2
    <2>3. writingHash \in BOOLEAN
      BY <1>2
    <2> QED
      BY <1>1, <1>2, <2>1, <2>2, <2>3 DEF TypeOK
  <1>5. ChainsAreSound
    BY <1>1, <1>2, EmptyFacts DEF ChainsAreSound, ContractIsSound, LogsAreSound
  <1>6. ListenersFollow /\ QueuesAreSound
    BY <1>2, <1>3, EmptyFacts DEF ListenersFollow, QueuesAreSound
  <1>7. SnapshotsAreOne
    BY <1>2 DEF SnapshotsAreOne
  <1>8. RelaysWereSent /\ RelayedOnce /\ ConfirmedFirst /\ ClaimsHold
    BY <1>1, <1>2, EmptyFacts DEF RelaysWereSent, RelayedOnce, ConfirmedFirst, ClaimsHold
  <1>9. OwnRelaysOnly
    BY <1>1, <1>2, EmptyFacts DEF OwnRelaysOnly
  <1> QED
    BY <1>4, <1>5, <1>6, <1>7, <1>8, <1>9 DEF RelayerInv

LEMMA InvStays == ASSUME RelayerInv, UNCHANGED vars PROVE RelayerInv'
  <1>1. /\ UNCHANGED <<chains, queues, rows, indexers, selector, cachedBalance, stops>>
        /\ UNCHANGED <<pc, batch, current, claimCache, writingHash>>
        /\ UNCHANGED <<oLatest, oCursor, dCursor, originHead>>
    BY DEF vars, selector, indexers, oListener, dListener, chains, originChain
  <1>2. /\ ListenersFollow' /\ writingHash' \in BOOLEAN /\ cachedBalance' \in Nat
        /\ stops' \in 0..MaxStops
    BY <1>1 DEF RelayerInv, TypeOK, ListenersFollow
  <1> QED
    BY <1>1, <1>2, ForgettingKeeps

LEMMA InvNext == RelayerInv /\ [Next]_vars => RelayerInv'
  BY ChainStepKeeps, IndexerKeeps, SelectorKeeps, ProcessKeeps, InvStays DEF Next

\* Whatever the requests, the rivals and the bounds are, no step of a chain, of an
\* indexer or of the selector, and no stop or start of the process, breaks the invariant.
THEOREM RelayerInvariant == Spec => []RelayerInv
  BY InvInit, InvNext, PTL DEF Spec

\* The rows, snapshots and queues have the values the code gives them, and every row is
\* about a request the origin chain has an event of, with the block of that event.
THEOREM TypeCorrect == Spec => []TypeOK
  <1>1. RelayerInv => TypeOK
    BY DEF RelayerInv
  <1> QED
    BY <1>1, RelayerInvariant, PTL

\* A request's relay is submitted at most once, crashes, failing handlers and events that
\* are delivered again included: handleCommitConfirmed writes RelayStarted before it
\* calls SubmitRelay, and no older snapshot of the row is left in the selector.
THEOREM SubmittedOnce == Spec => []RelaySubmittedOnce
  <1>1. RelayerInv => RelaySubmittedOnce
    BY DEF RelayerInv, RelayedOnce, RelaySubmittedOnce
  <1> QED
    BY <1>1, RelayerInvariant, PTL

\* A proof that is queued or on the chain is of a relay of this relayer: only
\* handleRelayLog, for an event that names it, writes RelayCompleted.
THEOREM ProvesOnlyOwn == Spec => []ProvesOnlyOwnRelay
  <1>1. RelayerInv => ProvesOnlyOwnRelay
    <2> SUFFICES ASSUME RelayerInv, NEW r \in Origin!Requests, Queued("prove", r) \/ ProvedBySelf(r)
                 PROVE  RelayedBy({Self}, r)
      BY DEF ProvesOnlyOwnRelay
    <2>1. CASE Queued("prove", r)
      BY <2>1 DEF RelayerInv, OwnRelaysOnly, Queued
    <2>2. CASE ProvedBySelf(r)
      BY <2>2 DEF RelayerInv, OwnRelaysOnly, ProvedBySelf
    <2> QED
      BY <2>1, <2>2
  <1> QED
    BY <1>1, RelayerInvariant, PTL

\* A relay is only submitted for a request that has its confirmations on the origin
\* chain, although the listener's latest block is read some time before.
THEOREM RelaysConfirmed == Spec => []RelaysOnlyConfirmed
  <1>1. RelayerInv => RelaysOnlyConfirmed
    BY DEF RelayerInv, ConfirmedFirst, IsOld, RelaysOnlyConfirmed
  <1> QED
    BY <1>1, RelayerInvariant, PTL

\* A claim that was submitted still holds when it is mined: after the dispute period
\* neither dispute nor refund can take the proof away, whatever is mined in between.
THEOREM ClaimsStillHold == Spec => []ClaimsHold
  <1>1. RelayerInv => ClaimsHold
    BY DEF RelayerInv
  <1> QED
    BY <1>1, RelayerInvariant, PTL

-----------------------------------------------------------------------------
(* The row of a relay that was started *)

RowsAdvance ==
    \A r \in Known : rows[r].status \in Started => rows'[r].status \in BeyondRelay

\* A status from beyond the relay can be written at any moment, another one only from
\* the snapshot of a row whose relay was not started.
LEMMA AdvanceBeyond ==
    ASSUME NEW r, NEW s \in BeyondRelay, RowsMove(r, s)
    PROVE  RowsAdvance
  BY DEF RowsMove, RowsAdvance, BeyondRelay

LEMMA AdvanceBefore ==
    ASSUME RelayerInv, NEW q \in Snapshots, q.status \in BeforeRelay, pc # "relaying",
           NEW s \in QuoteRequestStatuses, SetStatus(q.request, s)
    PROVE  RowsAdvance
  <1>1. Stale(q.request) /\ ~Relaying(q.request)
    BY DEF Stale, Relaying
  <1>2. q.request \in Known => rows[q.request].status \notin Started
    BY <1>1 DEF RelayerInv, RelayedOnce
  <1>3. RowsMove(q.request, s)
    BY StatusSet DEF RelayerInv
  <1> QED
    BY <1>2, <1>3 DEF RowsMove, RowsAdvance, BeyondRelay

LEMMA AdvanceStay == ASSUME RelayerInv, UNCHANGED rows PROVE RowsAdvance
  BY DEF RowsAdvance, BeyondRelay

LEMMA AdvanceSet ==
    ASSUME RelayerInv, NEW r, NEW s \in BeyondRelay, SetStatus(r, s)
    PROVE  RowsAdvance
  <1>1. s \in QuoteRequestStatuses
    BY DEF BeyondRelay, Started, QuoteRequestStatuses
  <1> QED
    BY <1>1, StatusSet, AdvanceBeyond DEF RelayerInv

LEMMA IndexersAdvance == ASSUME RelayerInv, IndexerStep PROVE RowsAdvance
  <1>1. {"RelayRaceLost", "RelayCompleted", "ProvePosted", "ClaimCompleted"} \subseteq BeyondRelay
    BY DEF BeyondRelay, Started
  <1>2. CASE IndexOriginLog
    <2>1. PICK event, r : event = originLogs[oCursor] /\ r = event.request
      OBVIOUS
    <2>2. /\ HandleOriginEvent(event)
          /\ StatusForOriginEvent(event) \in BeyondRelay
      BY <1>1, <1>2, <2>1 DEF IndexOriginLog, StatusForOriginEvent
    <2>3. CASE SetStatus(r, StatusForOriginEvent(event))
      BY <2>2, <2>3, AdvanceSet
    <2>4. CASE StoreQuoteRequest(r, event.block)
      BY <2>4, AdvanceStay DEF StoreQuoteRequest, RowsAdvance, BeyondRelay, Known, Origin!Assign
    <2> QED
      BY <2>1, <2>2, <2>3, <2>4, AdvanceStay DEF HandleOriginEvent
  <1>3. CASE IndexForeignRelay
    BY <1>1, <1>3, AdvanceSet, AdvanceStay DEF IndexForeignRelay
  <1>4. CASE IndexOwnRelay
    BY <1>1, <1>4, AdvanceSet DEF IndexOwnRelay
  <1>5. CASE IndexOwnRelayHash
    <2>1. PICK r : rows' = [rows EXCEPT ![r].destTxHash = RelayTxHash]
      BY <1>5 DEF IndexOwnRelayHash
    <2>2. RowsMove(r, "RelayRaceLost")
      BY <2>1, HashSet DEF RelayerInv
    <2> QED
      BY <1>1, <2>2, AdvanceBeyond
  <1>6. ASSUME \/ OriginPoll \/ OriginLogFails \/ OriginPollDone
               \/ DestPoll \/ DestLogFails \/ DestPollDone
        PROVE  RowsAdvance
    BY <1>6, AdvanceStay DEF OriginPoll, OriginLogFails, OriginPollDone, DestPoll, DestLogFails, DestPollDone
  <1> QED
    BY <1>2, <1>3, <1>4, <1>5, <1>6 DEF IndexerStep

LEMMA HandlersAdvance == ASSUME RelayerInv, NEW q \in current, HandleRow(q) PROVE RowsAdvance
  <1>1. /\ q \in Snapshots
        /\ {"DeadlineExceeded", "WillNotProcess", "NotEnoughInventory", "CommittedPending",
            "CommittedConfirmed", "RelayStarted"} \subseteq QuoteRequestStatuses
        /\ {"RelayStarted", "ProvePosting", "ClaimPending", "ClaimCompleted"} \subseteq BeyondRelay
    BY DEF Snapshots, QuoteRequestStatuses, BeyondRelay, Started
  <1>2. CASE UNCHANGED rows
    BY <1>2, AdvanceStay
  <1>3. CASE RefuseLate(q)
    BY <1>1, <1>3, AdvanceBefore DEF RefuseLate
  <1>4. CASE HandleSeen(q)
    <2>1. q.status \in BeforeRelay /\ pc # "relaying"
      BY <1>4 DEF HandleSeen, Handling, BeforeRelay
    <2>2. \/ UNCHANGED rows
          \/ \E s \in {"WillNotProcess", "NotEnoughInventory", "CommittedPending"} :
                SetStatus(q.request, s)
      BY <1>4 DEF HandleSeen
    <2> QED
      BY <1>1, <1>2, <2>1, <2>2, AdvanceBefore
  <1>5. CASE HandleNotEnoughInventory(q)
    BY <1>1, <1>2, <1>5, AdvanceBefore DEF HandleNotEnoughInventory, Handling, BeforeRelay
  <1>6. CASE HandleCommitPending(q)
    BY <1>1, <1>2, <1>6, AdvanceBefore DEF HandleCommitPending, Handling, BeforeRelay
  <1>7. CASE HandleCommitConfirmed(q)
    BY <1>1, <1>7, AdvanceSet DEF HandleCommitConfirmed
  <1>8. CASE WriteProvePosting(q)
    BY <1>1, <1>8, AdvanceSet DEF WriteProvePosting
  <1>9. CASE CheckProof(q)
    BY <1>1, <1>2, <1>9, AdvanceSet DEF CheckProof
  <1>10. CASE WriteClaimPending(q)
    BY <1>1, <1>10, AdvanceSet DEF WriteClaimPending
  <1>11. ASSUME \/ SkipWithoutGas(q) \/ SubmitRelay(q) \/ HandleRelayCompleted(q) \/ ClaimDeposit(q)
         PROVE  UNCHANGED rows
    BY <1>11 DEF SkipWithoutGas, SubmitRelay, HandleRelayCompleted, ClaimDeposit
  <1> QED
    BY <1>2, <1>3, <1>4, <1>5, <1>6, <1>7, <1>8, <1>9, <1>10, <1>11 DEF HandleRow

LEMMA SelectorAdvances == ASSUME RelayerInv, SelectorStep PROVE RowsAdvance
  <1>1. ASSUME NEW q \in batch, TakeRow(q) PROVE RowsAdvance
    <2>1. q \in Snapshots /\ q.status \in Selected /\ pc = "select"
      BY <1>1 DEF Snapshots, RelayerInv, TypeOK, TakeRow
    <2>2. \/ UNCHANGED rows
          \/ q.status \in BeforeRelay /\ SetStatus(q.request, "DeadlineExceeded")
      BY <1>1, <2>1 DEF TakeRow, DeadlineApplies, BeforeRelayCompleted, Selected, BeforeRelay
    <2>3. "DeadlineExceeded" \in QuoteRequestStatuses
      BY DEF QuoteRequestStatuses
    <2> QED
      BY <2>1, <2>2, <2>3, AdvanceBefore, AdvanceStay
  <1>2. ASSUME LoadBatch \/ RefreshBalances \/ \E r \in claimCache : ExpireClaimCache(r)
        PROVE  RowsAdvance
    BY <1>2, AdvanceStay DEF LoadBatch, RefreshBalances, ExpireClaimCache
  <1> QED
    BY <1>1, <1>2, HandlersAdvance DEF SelectorStep

LEMMA ChainsAdvance == ASSUME RelayerInv, ChainStep PROVE RowsAdvance
  <1>1. UNCHANGED rows
    BY DEF ChainStep, Tick, NewOriginBlock, NewDestBlock, UserBridges, MineDest, MineOrigin,
           RivalRelays, RivalProves, RivalClaims, GuardDisputes, SomebodyRefunds, OthersStep,
           relayerVars
  <1> QED
    BY <1>1, AdvanceStay

LEMMA ProcessAdvances == ASSUME RelayerInv, ProcessStep PROVE RowsAdvance
  BY AdvanceStay DEF ProcessStep, StopOnError, Crash, Restart, GoDown

\* The row of a relay that was started never goes back to a status from which it would
\* be relayed again, whichever process writes it and from however old a snapshot.
THEOREM NeverBack == Spec => NeverBackBeforeRelay
  <1>1. RelayerInv /\ [Next]_vars => RowsAdvance
    BY IndexersAdvance, SelectorAdvances, ChainsAdvance, ProcessAdvances, AdvanceStay DEF Next, vars
  <1>2. BeyondRelay = QuoteRequestStatuses \ (BeforeRelayCompleted \ {"RelayStarted"})
    BY DEF BeyondRelay, Started, QuoteRequestStatuses, BeforeRelayCompleted
  <1>3. RelayerInv /\ [Next]_vars =>
            [\A r \in Known : rows[r].status \in Started =>
                rows'[r].status \in QuoteRequestStatuses \ (BeforeRelayCompleted \ {"RelayStarted"})]_vars
    BY <1>1, <1>2 DEF RowsAdvance
  <1> QED
    BY <1>3, RelayerInvariant, PTL DEF Spec, NeverBackBeforeRelay
=============================================================================
