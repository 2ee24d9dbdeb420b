------------------------------ MODULE Submitter ------------------------------
(***************************************************************************)
(* The transaction submitter (ethergo/submitter): callers that take a      *)
(* nonce and store a signed transaction, the loop that sends what is       *)
(* stored, raises its gas price until it is mined and then finds out which *)
(* attempt was, the table of attempts, and the chains with their mempools. *)
(***************************************************************************)
EXTENDS Integers, Sequences, FiniteSets, SequencesExt

CONSTANTS
    Chains,
    Calls,          \* what the callers want executed, one transaction each
    OraclePrices,   \* what the gas oracle may suggest
    MaxGasPrice,    \* the configured ceiling
    MaxFaults,      \* bound: crashes, failed writes, lost transactions
    MaxCrashes      \* bound: how many of the faults may be crashes

ASSUME SubmitterAssumption ==
    /\ OraclePrices \subseteq Nat
    /\ MaxGasPrice \in Nat /\ MaxFaults \in Nat /\ MaxCrashes \in Nat

VARIABLES
    rows,       \* per chain, the attempts stored, in the order of their ids
    mempool,    \* per chain, attempts that nodes know and that are not mined
    mined,      \* per chain, the attempts mined, in the order of their nonces
    caller,     \* per call: [pc, chain, nonce, price]
    sending,    \* per chain, the goroutine of processQueue that sends
    confirming, \* the goroutine of processQueue that looks for receipts
    faults, crashes

vars == <<rows, mempool, mined, caller, sending, confirming, faults, crashes>>

Attempts == [nonce : Nat, call : Calls, price : Nat]
Attempt(row) == [nonce |-> row.nonce, call |-> row.call, price |-> row.price]

(* db.Status, and what processQueue asks for. *)
Status == {"Pending", "Stored", "Submitted", "FailedSubmit",
           "ReplacedOrConfirmed", "Replaced", "Confirmed"}
PendingStatus == {"Pending", "Stored", "Submitted", "FailedSubmit"}

Rows == [nonce : Nat, call : Calls, price : Nat, status : Status]

Idle == [pc |-> "done"]

-----------------------------------------------------------------------------
(* The table *)

(* PutTXS: an attempt whose hash is known has its status updated. *)
PutTX(table, attempt, status) ==
    LET same == {i \in DOMAIN table : Attempt(table[i]) = attempt}
    IN  IF same = {}
        THEN Append(table, [nonce |-> attempt.nonce, call |-> attempt.call,
                            price |-> attempt.price, status |-> status])
        ELSE [i \in DOMAIN table |->
                IF i \in same THEN [table[i] EXCEPT !.status = status] ELSE table[i]]

Nonces(c) == {rows[c][i].nonce : i \in DOMAIN rows[c]}
WithStatus(c, S) == {i \in DOMAIN rows[c] : rows[c][i].status \in S}

(* A mutant: no limit of one nonce. *)
MutantPendingTX(c) == WithStatus(c, PendingStatus)
(* GetTXS: of the lowest nonce that has an attempt of these statuses        *)
(* (MaxResultsPerChain is 1), the attempt that was stored last.             *)
PendingTX(c) ==
    LET ids == WithStatus(c, PendingStatus)
    IN  {i \in ids : \A j \in ids : \/ rows[c][i].nonce < rows[c][j].nonce
                                    \/ rows[c][i].nonce = rows[c][j].nonce /\ i >= j}

(* GetAllTXAttemptByStatus for every chain at once: the limit is one nonce  *)
(* in all, the lowest, and all attempts at that nonce are returned.         *)
LowestUnsettled ==
    LET found == {p \in UNION {{c} \X DOMAIN rows[c] : c \in Chains} :
                     rows[p[1]][p[2]].status = "ReplacedOrConfirmed"}
    IN  {p \in found : \A q \in found : rows[p[1]][p[2]].nonce <= rows[q[1]][q[2]].nonce}

-----------------------------------------------------------------------------
Init ==
    /\ rows = [c \in Chains |-> << >>]
    /\ mempool = [c \in Chains |-> {}]
    /\ mined = [c \in Chains |-> << >>]
    /\ caller = [k \in Calls |-> [pc |-> "new"]]
    /\ sending = [c \in Chains |-> Idle]
    /\ confirming = Idle
    /\ faults = 0 /\ crashes = 0

Fault == faults < MaxFaults /\ faults' = faults + 1

-----------------------------------------------------------------------------
(* SubmitTransaction *)

(* getNonce: the larger of the chain's nonce and the last stored one plus 1. *)
NextNonce(c) ==
    Max({Len(mined[c])} \union {n + 1 : n \in Nonces(c)})

(* A mutant: the mutex is forgotten. *)
MutantLocked(c) == FALSE
Locked(c) == \E k \in Calls : caller[k].pc = "signed" /\ caller[k].chain = c

(* The Signer of the transactor: takes the chain's nonce mutex and signs.   *)
(* The price is the oracle's; that it exceeds the ceiling is only logged.   *)
SignTransaction(k) ==
    \E c \in Chains, p \in OraclePrices :
        /\ caller[k].pc = "new"
        /\ ~Locked(c)
        /\ caller' = [caller EXCEPT
              ![k] = [pc |-> "signed", chain |-> c, nonce |-> NextNonce(c), price |-> p]]
        /\ UNCHANGED <<rows, mempool, mined, sending, confirming, faults, crashes>>

CallerAttempt(k) == [nonce |-> caller[k].nonce, call |-> k, price |-> caller[k].price]

(* storeTX, and the mutex is released. *)
StoreTransaction(k) ==
    /\ caller[k].pc = "signed"
    /\ rows' = [rows EXCEPT ![caller[k].chain] = PutTX(@, CallerAttempt(k), "Stored")]
    /\ caller' = [caller EXCEPT ![k].pc = "stored"]
    /\ UNCHANGED <<mempool, mined, sending, confirming, faults, crashes>>

(* The write fails: the caller has an error and may call again. *)
StoreTransactionFails(k) ==
    /\ caller[k].pc = "signed"
    /\ Fault
    /\ caller' = [caller EXCEPT ![k] = [pc |-> "new"]]
    /\ UNCHANGED <<rows, mempool, mined, sending, confirming, crashes>>

-----------------------------------------------------------------------------
(* processQueue. A pass begins when the timer or retryNow fires and all     *)
(* goroutines of the previous pass have ended.                              *)

BeginPass ==
    /\ confirming = Idle
    /\ \A c \in Chains : sending[c] = Idle
    /\ sending' = [c \in Chains |->
                      IF PendingTX(c) = {} THEN Idle ELSE [pc |-> "read"]]
    /\ confirming' = [pc |-> "read"]
    /\ UNCHANGED <<rows, mempool, mined, caller, faults, crashes>>

(* chainPendingQueue is given the result of GetTXS and reads NonceAt. What   *)
(* another goroutine writes in between is above that nonce, or is settled.  *)
Todo(c) == IF sending[c].pc = "read" THEN PendingTX(c) ELSE {}

(* A mutant: "before or at the nonce", as the comment of the function says. *)
MutantMarkAllBeforeNonce(c) ==
    \E n \in Todo(c) :
        /\ rows[c][n].nonce < Len(mined[c])
        /\ rows' = [rows EXCEPT ![c] = [i \in DOMAIN @ |->
              IF @[i].nonce <= Len(mined[c])
              THEN [@[i] EXCEPT !.status = "ReplacedOrConfirmed"] ELSE @[i]]]
        /\ sending' = [sending EXCEPT ![c] = Idle]
        /\ UNCHANGED <<mempool, mined, caller, confirming, faults, crashes>>
(* MarkAllBeforeNonceReplacedOrConfirmed: whatever their status was. *)
MarkAllBeforeNonce(c) ==
    \E n \in Todo(c) :
        /\ rows[c][n].nonce < Len(mined[c])
        /\ rows' = [rows EXCEPT ![c] = [i \in DOMAIN @ |->
              IF @[i].nonce < Len(mined[c])
              THEN [@[i] EXCEPT !.status = "ReplacedOrConfirmed"] ELSE @[i]]]
        /\ sending' = [sending EXCEPT ![c] = Idle]
        /\ UNCHANGED <<mempool, mined, caller, confirming, faults, crashes>>

ToSubmit(attempt, status) ==
    [pc |-> "submit", attempt |-> attempt, status |-> status,
     unstored |-> {status}, phase |-> "send"]

(* The bump interval has not elapsed: the same attempt is sent again. *)
SendAgain(c) ==
    \E i \in Todo(c) :
        /\ rows[c][i].nonce >= Len(mined[c])
        /\ sending' = [sending EXCEPT ![c] = ToSubmit(Attempt(rows[c][i]), rows[c][i].status)]
        /\ UNCHANGED <<rows, mempool, mined, caller, confirming, faults, crashes>>

BumpedPrice(price, oracle) == IF oracle > price THEN oracle ELSE price + 1

(* bumpTX: a new attempt at a higher price. *)
BumpTX(c) ==
    \E i \in Todo(c), oracle \in OraclePrices :
        LET price == BumpedPrice(rows[c][i].price, oracle)
        IN  /\ rows[c][i].nonce >= Len(mined[c])
            /\ price <= MaxGasPrice
            /\ sending' = [sending EXCEPT ![c] =
                  ToSubmit([Attempt(rows[c][i]) EXCEPT !.price = price], "Stored")]
            /\ UNCHANGED <<rows, mempool, mined, caller, confirming, faults, crashes>>

(* bumpTX fails at the ceiling, and with it the pass over this chain. *)
GasCeiling(c) ==
    \E i \in Todo(c), oracle \in OraclePrices :
        /\ rows[c][i].nonce >= Len(mined[c])
        /\ BumpedPrice(rows[c][i].price, oracle) > MaxGasPrice
        /\ sending' = [sending EXCEPT ![c] = Idle]
        /\ UNCHANGED <<rows, mempool, mined, caller, confirming, faults, crashes>>

(* storeAndSubmit: one goroutine stores the queue, another sends it, cancels *)
(* the first and stores the outcome. Both use the same slice of statuses:    *)
(* unstored is what the first may still write.                               *)
(* A mutant: nobody waits for the two goroutines.                            *)
MutantJoined(g) == g
Joined(g) == IF g.unstored = {} /\ g.phase = "end" THEN Idle ELSE g

(* The first write: with the status that was read or the one set meanwhile. *)
StoreQueue(c) ==
    /\ sending[c].pc = "submit"
    /\ \E s \in sending[c].unstored :
          rows' = [rows EXCEPT ![c] = PutTX(@, sending[c].attempt, s)]
    /\ sending' = [sending EXCEPT ![c] = Joined([@ EXCEPT !.unstored = {}])]
    /\ UNCHANGED <<mempool, mined, caller, confirming, faults, crashes>>

(* cancelStore: the first write is cancelled by the end of the second call. *)
StoreCancelled(c) ==
    /\ sending[c].pc = "submit" /\ sending[c].unstored # {}
    /\ sending[c].phase # "send"
    /\ sending' = [sending EXCEPT ![c] = Joined([@ EXCEPT !.unstored = {}])]
    /\ UNCHANGED <<rows, mempool, mined, caller, confirming, faults, crashes>>

Sent(c, status) ==
    LET unstored == IF sending[c].unstored = {} THEN {} ELSE sending[c].unstored \union {status}
    IN  sending' = [sending EXCEPT ![c] =
                       [@ EXCEPT !.status = status, !.phase = "record", !.unstored = unstored]]

(* A node takes an attempt it does not know, for a nonce not mined yet. *)
SendBatch(c) ==
    LET attempt == sending[c].attempt
        taken == attempt \notin mempool[c] /\ attempt.nonce >= Len(mined[c])
    IN  /\ sending[c].pc = "submit" /\ sending[c].phase = "send"
        /\ mempool' = IF taken THEN [mempool EXCEPT ![c] = @ \union {attempt}] ELSE mempool
        /\ Sent(c, IF taken THEN "Submitted" ELSE "FailedSubmit")
        /\ UNCHANGED <<rows, mined, caller, confirming, faults, crashes>>

(* The call fails, before or after a node has taken the attempt. *)
SendBatchFails(c) ==
    /\ sending[c].pc = "submit" /\ sending[c].phase = "send"
    /\ Fault
    /\ \/ UNCHANGED mempool
       \/ /\ sending[c].attempt.nonce >= Len(mined[c])
          /\ mempool' = [mempool EXCEPT ![c] = @ \union {sending[c].attempt}]
    /\ Sent(c, "FailedSubmit")
    /\ UNCHANGED <<rows, mined, caller, confirming, crashes>>

(* The second write; its failure is only logged. *)
StoreOutcome(c) ==
    /\ sending[c].pc = "submit" /\ sending[c].phase = "record"
    /\ rows' = [rows EXCEPT ![c] = PutTX(@, sending[c].attempt, sending[c].status)]
    /\ sending' = [sending EXCEPT ![c] = Joined([@ EXCEPT !.phase = "end"])]
    /\ UNCHANGED <<mempool, mined, caller, confirming, faults, crashes>>

StoreOutcomeFails(c) ==
    /\ sending[c].pc = "submit" /\ sending[c].phase = "record"
    /\ Fault
    /\ sending' = [sending EXCEPT ![c] = Joined([@ EXCEPT !.phase = "end"])]
    /\ UNCHANGED <<rows, mempool, mined, caller, confirming, crashes>>

-----------------------------------------------------------------------------
(* processConfirmedQueue *)

(* A mutant: the join is on the id, as in GetTXS, and not on the nonce. *)
MutantReadUnsettled ==
    /\ confirming.pc = "read"
    /\ IF LowestUnsettled = {}
       THEN confirming' = Idle
       ELSE \E p \in LowestUnsettled :
               confirming' = [pc |-> "receipts", chain |-> p[1],
                              attempts |-> {Attempt(rows[p[1]][p[2]])}]
    /\ UNCHANGED <<rows, mempool, mined, caller, sending, faults, crashes>>

ReadUnsettled ==
    /\ confirming.pc = "read"
    /\ IF LowestUnsettled = {}
       THEN confirming' = Idle
       ELSE \E p \in LowestUnsettled :
               LET c == p[1]
                   n == rows[c][p[2]].nonce
               IN  confirming' = [pc |-> "receipts", chain |-> c,
                       attempts |-> {Attempt(rows[c][i]) :
                                       i \in {j \in DOMAIN rows[c] : rows[c][j].nonce = n}}]
    /\ UNCHANGED <<rows, mempool, mined, caller, sending, faults, crashes>>

(* A mutant: the highest price is taken for the one that was mined. *)
MutantSetConfirmation ==
    LET c == confirming.chain
        best == {x \in confirming.attempts : \A y \in confirming.attempts : x.price >= y.price}
    IN  /\ confirming.pc = "receipts"
        /\ rows' = [rows EXCEPT ![c] = [i \in DOMAIN @ |->
                      IF Attempt(@[i]) \notin confirming.attempts THEN @[i]
                      ELSE [@[i] EXCEPT !.status =
                              IF Attempt(rows[c][i]) \in best THEN "Confirmed" ELSE "Replaced"]]]
        /\ confirming' = Idle
        /\ UNCHANGED <<mempool, mined, caller, sending, faults, crashes>>

(* checkAndSetConfirmation: the attempt with a receipt is Confirmed and the *)
(* others are Replaced; without any receipt nothing is written.             *)
SetConfirmation ==
    LET c == confirming.chain
        found == confirming.attempts \intersect ToSet(mined[c])
    IN  /\ confirming.pc = "receipts"
        /\ rows' = IF found = {} THEN rows
                   ELSE [rows EXCEPT ![c] = [i \in DOMAIN @ |->
                          IF Attempt(@[i]) \notin confirming.attempts THEN @[i]
                          ELSE [@[i] EXCEPT !.status =
                                  IF Attempt(rows[c][i]) \in found THEN "Confirmed" ELSE "Replaced"]]]
        /\ confirming' = Idle
        /\ UNCHANGED <<mempool, mined, caller, sending, faults, crashes>>

(* The receipts cannot be had, or the write fails. *)
SetConfirmationFails ==
    /\ confirming.pc = "receipts"
    /\ Fault
    /\ confirming' = Idle
    /\ UNCHANGED <<rows, mempool, mined, caller, sending, crashes>>

-----------------------------------------------------------------------------
(* The chains and the process *)

(* Any attempt for the next nonce that some node knows may be mined. *)
MineNext(c) ==
    \E a \in mempool[c] :
        /\ a.nonce = Len(mined[c])
        /\ mined' = [mined EXCEPT ![c] = Append(@, a)]
        /\ mempool' = [mempool EXCEPT ![c] = {b \in @ : b.nonce > a.nonce}]
        /\ UNCHANGED <<rows, caller, sending, confirming, faults, crashes>>

(* A node forgets an attempt it had taken. *)
Forget(c) ==
    /\ Fault
    /\ \E a \in mempool[c] : mempool' = [mempool EXCEPT ![c] = @ \ {a}]
    /\ UNCHANGED <<rows, mined, caller, sending, confirming, crashes>>

(* The process dies and is started again: the table is all that is left. *)
Crash ==
    /\ crashes < MaxCrashes
    /\ crashes' = crashes + 1
    /\ Fault
    /\ sending' = [c \in Chains |-> Idle]
    /\ confirming' = Idle
    /\ caller' = [k \in Calls |->
                     IF caller[k].pc = "signed" THEN [pc |-> "new"] ELSE caller[k]]
    /\ UNCHANGED <<rows, mempool, mined>>

-----------------------------------------------------------------------------
SubmitTransaction(k) ==
    SignTransaction(k) \/ StoreTransaction(k) \/ StoreTransactionFails(k)

(* What the goroutines do by themselves. *)
Bump(c) == SendAgain(c) \/ BumpTX(c) \/ GasCeiling(c)
ChainQueue(c) ==
    \/ Bump(c) \/ MarkAllBeforeNonce(c)
    \/ StoreQueue(c) \/ SendBatch(c) \/ StoreOutcome(c)
ChainQueueFaults(c) ==
    StoreCancelled(c) \/ SendBatchFails(c) \/ StoreOutcomeFails(c)

Next ==
    \/ \E k \in Calls : SubmitTransaction(k)
    \/ BeginPass
    \/ \E c \in Chains : ChainQueue(c) \/ ChainQueueFaults(c)
    \/ ReadUnsettled \/ SetConfirmation \/ SetConfirmationFails
    \/ \E c \in Chains : MineNext(c) \/ Forget(c)
    \/ Crash

(* The loop of Start never ends, its goroutines and the holder of a mutex   *)
(* are scheduled, and a chain mines what its nodes keep.                    *)
Fairness ==
    /\ WF_vars(BeginPass)
    /\ \A c \in Chains : WF_vars(ChainQueue(c)) /\ WF_vars(MineNext(c))
    /\ WF_vars(ReadUnsettled) /\ WF_vars(SetConfirmation)
    /\ \A k \in Calls : WF_vars(StoreTransaction(k))

Spec == Init /\ [][Next]_vars /\ Fairness

-----------------------------------------------------------------------------
(* Properties *)

CallerStates ==
    [pc : {"new"}] \union [pc : {"signed", "stored"}, chain : Chains, nonce : Nat, price : Nat]
SendingStates ==
    [pc : {"done", "read"}]
      \union [pc : {"submit"}, attempt : Attempts, status : Status,
              unstored : SUBSET Status, phase : {"send", "record", "end"}]
ConfirmingStates ==
    [pc : {"done", "read"}]
      \union [pc : {"receipts"}, chain : Chains, attempts : SUBSET Attempts]

(* The variables have their types: the goroutines of the pass are where the *)
(* code can be, and the rows hold statuses of db.Status.                    *)
TypeOK ==
    /\ rows \in [Chains -> Seq(Rows)]
    /\ mempool \in [Chains -> SUBSET Attempts]
    /\ mined \in [Chains -> Seq(Attempts)]
    /\ caller \in [Calls -> CallerStates]
    /\ sending \in [Chains -> SendingStates]
    /\ \A c \in Chains : sending[c].pc = "submit" =>
          (sending[c].unstored # {} \/ sending[c].phase # "end")
    /\ confirming \in ConfirmingStates
    /\ faults \in 0..MaxFaults /\ crashes \in 0..MaxCrashes

Known(c) == {Attempt(rows[c][i]) : i \in DOMAIN rows[c]} \union mempool[c]
              \union ToSet(mined[c])

(* A nonce belongs to one call, in the table, in the mempools and on the    *)
(* chain, whichever callers raced for it and wherever the process died; and *)
(* the nonce of a caller between signing and storing is free.         *)
NonceHasOneCall ==
    \A c \in Chains :
        /\ \A a, b \in Known(c) : (a.nonce = b.nonce) <=> (a.call = b.call)
        /\ \A k \in Calls, a \in Known(c) :
              caller[k].pc = "signed" /\ caller[k].chain = c => a.nonce < caller[k].nonce

(* No transaction is sent ahead of the chain's nonce, so that a node never  *)
(* has to keep one it cannot execute, and stored nonces have no gap in      *)
(* which the account would be stuck.                                        *)
NeverAhead ==
    \A c \in Chains :
        /\ \A a \in mempool[c] : a.nonce = Len(mined[c])
        /\ Nonces(c) = 0 .. (Cardinality(Nonces(c)) - 1)
        /\ Len(mined[c]) <= Cardinality(Nonces(c))

(* What GetSubmissionStatus calls Confirmed has been mined, with the hash   *)
(* it reports; a Replaced attempt has not, and another one of its nonce is  *)
(* Confirmed: also while some of them are still in a mempool, and when the  *)
(* statuses were taken back and set again.                                  *)
SettledIsTrue ==
    \A c \in Chains : \A row \in ToSet(rows[c]) :
        /\ row.status = "Confirmed" => Attempt(row) \in ToSet(mined[c])
        /\ row.status = "Replaced" =>
              /\ Attempt(row) \notin ToSet(mined[c])
              /\ \E other \in ToSet(rows[c]) :
                    other.nonce = row.nonce /\ other.status = "Confirmed"

(* bumpTX refuses a new attempt when no node has one of the chain's nonce:  *)
(* nothing is sent, nor will be if every later pass is refused as well.     *)
Refused(c) == GasCeiling(c) /\ mempool[c] = {}

(* For each chain the submitter is a queue: an accepted call has its place   *)
(* for good, and what is executed next is the next call of the queue, once. *)
(* README.md adds that the call "will eventually get through as long as run *)
(* keeps running": it does, unless the ceiling refuses its chain for ever,  *)
(* by prices above it or by as many failed sends as there are prices below. *)
AcceptedCalls ==
    [c \in Chains |-> [n \in 1 .. Cardinality(Nonces(c)) |->
        (CHOOSE row \in ToSet(rows[c]) : row.nonce = n - 1).call]]
Queue == INSTANCE TxQueue WITH
    queue <- AcceptedCalls, executed <- [c \in Chains |-> Len(mined[c])]
ImplementsQueue ==
    /\ Queue!Spec
    /\ \A c \in Chains : Queue!Progress(c) \/ []<><<Refused(c)>>_vars

(* Every attempt that was mined is in the table. *)
Tracked == \A c \in Chains : \A x \in ToSet(mined[c]) :
              \E row \in ToSet(rows[c]) : Attempt(row) = x

WasMined(k) ==
    caller[k].pc = "stored" /\ \E x \in ToSet(mined[caller[k].chain]) : x.call = k
ReportedConfirmed(k) ==
    \E row \in ToSet(rows[caller[k].chain]) : row.call = k /\ row.status = "Confirmed"

(* A call that was executed is reported as Confirmed in the end and stays   *)
(* so, though every other nonce that is mined takes the status back and     *)
(* whatever the ceiling does to later nonces, as long as no attempt is      *)
(* mined that the table does not know.                                      *)
ConfirmedIfTracked ==
    \A k \in Calls : <>[](WasMined(k) => ReportedConfirmed(k) \/ ~Tracked)

(* db/service.go says of ReplacedOrConfirmed that the actual status will be *)
(* set later: every call that was executed is Confirmed in the end.         *)
EventuallyConfirmed == \A k \in Calls : <>[](WasMined(k) => ReportedConfirmed(k))
=============================================================================
