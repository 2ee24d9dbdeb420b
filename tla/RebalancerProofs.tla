--------------------------- MODULE RebalancerProofs ---------------------------
(***************************************************************************)
(* What the rebalancer keeps for any chains, settings, trades and faults,  *)
(* and for any number of goroutines that call Rebalance: a row keeps the   *)
(* id it was given, a row is Completed only when money of its chain has    *)
(* arrived that completed no other row, and no more transfers of a chain   *)
(* are in flight than there are goroutines.                                *)
(***************************************************************************)
EXTENDS Rebalancer, Sums, SequenceTheorems

USE RebalancerAssumption

-----------------------------------------------------------------------------
(* The invariant *)

Row == [id : {NoID} \cup DOMAIN transfers, origin : Chains, dest : Chains,
        status : Status, transfer : DOMAIN transfers]
Transfer == [plan : Plans, state : {"queued", "burnt", "reverted", "received"}]

Log == [event : Events, transfer : DOMAIN transfers]

\* A burn is logged on the chain of its transfer, and every event in the state of its
\* transfer; and there is one place for each worker.
LogIsTrue(c, log) ==
    IF log.event = "burn"
    THEN /\ transfers[log.transfer].plan.origin = c
         /\ transfers[log.transfer].state \in {"burnt", "received"}
    ELSE transfers[log.transfer].state = "received"
LogsAreTrue ==
    /\ \A c \in Chains : \A k \in DOMAIN logs[c] : LogIsTrue(c, logs[c][k])
    /\ DOMAIN worker = Workers

\* A row has the path of its transfer, and no id until a burn was seen.
RowsFollow ==
    \A i \in DOMAIN rows :
        /\ rows[i].origin = transfers[rows[i].transfer].plan.origin
        /\ rows[i].dest = transfers[rows[i].transfer].plan.dest
        /\ rows[i].status = "Initiated" <=> rows[i].id = NoID

\* The plan of a worker that submitted a transfer is the plan of that transfer.
WorkerHasPlan ==
    \A w \in Workers : At(w, "submitted") => worker[w].plan = transfers[worker[w].transfer].plan

\* What the listeners, the database and the chains rely on of each other.
Base == TypeOK /\ LogsAreTrue /\ RowsFollow

-----------------------------------------------------------------------------
(* Types *)

LEMMA AmountIsPositive == ASSUME NEW total, NEW amount \in 1..total PROVE amount \in Nat \ {0}
  OBVIOUS

LEMMA SeqFacts ==
    ASSUME TypeOK
    PROVE  /\ Len(rows) \in Nat /\ DOMAIN rows = 1..Len(rows)
           /\ Len(transfers) \in Nat /\ DOMAIN transfers = 1..Len(transfers)
           /\ rows \in Seq(Row) /\ transfers \in Seq(Transfer)
           /\ \A i \in DOMAIN rows : rows[i] \in Row
           /\ \A t \in DOMAIN transfers : transfers[t] \in Transfer
  <1>1. rows \in Seq(Row) /\ transfers \in Seq(Transfer)
    BY DEF TypeOK, Row, Transfer
  <1> QED
    BY <1>1, LenProperties

LEMMA LogFacts ==
    ASSUME TypeOK, NEW c \in Chains
    PROVE  /\ logs[c] \in Seq(Log) /\ Len(logs[c]) \in Nat
           /\ DOMAIN logs[c] = 1..Len(logs[c])
           /\ \A k \in DOMAIN logs[c] : logs[c][k] \in Log
  <1>1. logs[c] \in Seq(Log)
    BY DEF TypeOK, Log
  <1> QED
    BY <1>1, LenProperties

\* At most the status of row i changes, and its id.
RowSet(i, id, status) ==
    /\ rows' \in Seq(Row) /\ DOMAIN rows' = DOMAIN rows
    /\ \A k \in DOMAIN rows : k # i => rows'[k] = rows[k]
    /\ rows'[i].id = id /\ rows'[i].status = status
    /\ rows'[i].origin = rows[i].origin /\ rows'[i].dest = rows[i].dest
    /\ rows'[i].transfer = rows[i].transfer

LEMMA OneRowIsUpdated ==
    ASSUME TypeOK, NEW match \in SUBSET DOMAIN rows, NEW id \in DOMAIN transfers,
           NEW status \in Status, NEW event, UpdateRebalance(match, event, id, status)
    PROVE  /\ rows' = rows \/ \E i \in DOMAIN rows : match = {i} /\ RowSet(i, id, status)
           /\ lost' = lost \/ lost' = lost \cup {<<event, id>>}
  <1>1. CASE Matched(match)
    <2>1. IsFiniteSet(match)
      <3>1. Len(rows) \in Nat /\ match \subseteq 1..Len(rows)
        BY SeqFacts
      <3>2. IsFiniteSet(1..Len(rows))
        BY <3>1, FS_Interval
      <3> QED
        BY <3>1, <3>2, FS_Subset
    <2>2. PICK i : match = {i}
      BY <1>1, <2>1, FS_Singleton DEF Matched
    <2>3. i \in DOMAIN rows /\ rows[i] \in Row
      BY <2>2, SeqFacts
    <2>4. rows' = [k \in DOMAIN rows |->
                    IF k = i THEN [rows[i] EXCEPT !.id = id, !.status = status] ELSE rows[k]]
      BY <1>1, <2>2 DEF UpdateRebalance
    <2>5. [rows[i] EXCEPT !.id = id, !.status = status] \in Row
      BY <2>3 DEF Row
    <2>6. PICK n \in Nat : n = Len(rows)
      BY SeqFacts
    <2>7. rows' \in Seq(Row)
      <3>1. rows' \in [1..n -> Row]
        BY <2>4, <2>5, <2>6, SeqFacts
      <3> QED
        BY <3>1, SeqDef
    <2> QED
      BY <1>1, <2>2, <2>3, <2>4, <2>5, <2>7 DEF RowSet, Row, UpdateRebalance
  <1>2. CASE ~Matched(match)
    BY <1>2 DEF UpdateRebalance
  <1> QED
    BY <1>1, <1>2

WorkerStates ==
    {Idle} \cup [pc : {"planned", "execute"}, plan : Plans]
           \cup [pc : {"submitted"}, plan : Plans, transfer : DOMAIN transfers]

\* What the steps of the workers write.
LEMMA WorkerFacts ==
    ASSUME TypeOK, LogsAreTrue, NEW w \in Workers
    PROVE  /\ worker[w] \in WorkerStates
           /\ \A v \in Workers : v # w => \A e : [worker EXCEPT ![w] = e][v] = worker[v]
           /\ \A e : [worker EXCEPT ![w] = e][w] = e /\ DOMAIN [worker EXCEPT ![w] = e] = Workers
           /\ worker[w] # Idle => worker[w].plan \in Plans
           /\ At(w, "submitted") => worker[w].transfer \in DOMAIN transfers
           /\ At(w, "planned") \/ At(w, "execute") \/ At(w, "submitted") <=> worker[w] # Idle
           /\ At(w, "idle") <=> worker[w] = Idle
  <1>1. worker[w] \in WorkerStates
    BY DEF TypeOK, WorkerStates
  <1>2. Idle.pc = "idle"
    BY DEF Idle
  <1>3. /\ \A v \in Workers : v # w => \A e : [worker EXCEPT ![w] = e][v] = worker[v]
        /\ \A e : [worker EXCEPT ![w] = e][w] = e /\ DOMAIN [worker EXCEPT ![w] = e] = Workers
    BY DEF LogsAreTrue
  <1>4. /\ worker[w] # Idle => worker[w].plan \in Plans
        /\ At(w, "submitted") => worker[w].transfer \in DOMAIN transfers
    BY <1>1, <1>2 DEF WorkerStates, At
  <1>5. /\ At(w, "planned") \/ At(w, "execute") \/ At(w, "submitted") <=> worker[w] # Idle
        /\ At(w, "idle") <=> worker[w] = Idle
    BY <1>1, <1>2 DEF WorkerStates, At
  <1> QED
    BY <1>1, <1>3, <1>4, <1>5

\* One worker moves.
Moves(w, state) ==
    /\ DOMAIN worker' = Workers /\ worker'[w] = state
    /\ \A v \in Workers : v # w => worker'[v] = worker[v]

LEMMA WorkerMoves ==
    ASSUME TypeOK, LogsAreTrue, NEW w \in Workers, NEW state,
           worker' = [worker EXCEPT ![w] = state]
    PROVE  Moves(w, state)
  BY WorkerFacts DEF Moves

LEMMA PlanMoves ==
    ASSUME TypeOK, LogsAreTrue, NEW w \in Workers, Plan(w)
    PROVE  \E p \in Plans : Moves(w, [pc |-> "planned", plan |-> p])
  <1>1. PICK c \in Chains : \E p \in Rebalances(c) :
            worker' = [worker EXCEPT ![w] = [pc |-> "planned", plan |-> p]]
    BY DEF Plan
  <1>2. PICK p \in Rebalances(c) :
            worker' = [worker EXCEPT ![w] = [pc |-> "planned", plan |-> p]]
    BY <1>1
  <1>3. p \in [origin : Chains, dest : Chains,
               amount : 1..MapThenSumSet(LAMBDA d : cached[d], Chains)]
    BY DEF Rebalances
  <1>4. p \in Plans
    <2>1. PICK total : p \in [origin : Chains, dest : Chains, amount : 1..total]
      BY <1>3
    <2>2. p.amount \in Nat \ {0}
      BY <2>1, AmountIsPositive
    <2> QED
      BY <2>1, <2>2 DEF Plans
  <1> QED
    BY <1>2, <1>4, WorkerMoves

LEMMA CheckPendingMoves ==
    ASSUME TypeOK, LogsAreTrue, NEW w \in Workers, CheckPending(w)
    PROVE  /\ At(w, "planned") /\ worker[w].plan \in Plans
           /\ \/ Moves(w, Idle)
              \/ /\ ~HasPendingRebalance(worker[w].plan)
                 /\ Moves(w, [pc |-> "execute", plan |-> worker[w].plan])
  <1>1. At(w, "planned") /\ worker[w].plan \in Plans
    BY WorkerFacts DEF CheckPending
  <1>2. CASE Return(w)
    BY <1>1, <1>2, WorkerMoves DEF Return
  <1>3. CASE Goto(w, "execute") /\ ~HasPendingRebalance(worker[w].plan)
    <2>1. worker[w] = [pc |-> "planned", plan |-> worker[w].plan]
      <3>1. worker[w] \in [pc : {"planned", "execute"}, plan : Plans]
        BY <1>1, WorkerFacts DEF WorkerStates, At, Idle
      <3> QED
        BY <1>1, <3>1 DEF At
    <2>2. worker' = [worker EXCEPT ![w] = [worker[w] EXCEPT !.pc = "execute"]]
      BY <1>3 DEF Goto
    <2>3. [worker[w] EXCEPT !.pc = "execute"] = [pc |-> "execute", plan |-> worker[w].plan]
      BY <2>1
    <2> QED
      BY <1>1, <1>3, <2>2, <2>3, WorkerMoves
  <1> QED
    BY <1>1, <1>2, <1>3 DEF CheckPending

\* The transfers get one more.
Grows(transfer) ==
    /\ transfers' \in Seq(Transfer) /\ Len(transfers') = Len(transfers) + 1
    /\ DOMAIN transfers' = DOMAIN transfers \cup {Len(transfers) + 1}
    /\ Len(transfers) + 1 \notin DOMAIN transfers
    /\ \A t \in DOMAIN transfers : transfers'[t] = transfers[t]
    /\ transfers'[Len(transfers) + 1] = transfer

LEMMA SubmitBurnMoves ==
    ASSUME TypeOK, LogsAreTrue, NEW w \in Workers, SubmitBurn(w)
    PROVE  /\ At(w, "execute") /\ worker[w].plan \in Plans
           /\ Grows([plan |-> worker[w].plan, state |-> "queued"])
           /\ Moves(w, [pc |-> "submitted", plan |-> worker[w].plan,
                        transfer |-> Len(transfers) + 1])
  <1> DEFINE transfer == [plan |-> worker[w].plan, state |-> "queued"]
  <1>1. At(w, "execute") /\ worker[w].plan \in Plans
    BY WorkerFacts DEF SubmitBurn
  <1>2. transfers' = Append(transfers, transfer) /\ transfer \in Transfer
    BY <1>1 DEF SubmitBurn, Transfer
  <1> HIDE DEF transfer
  <1>3. Grows(transfer)
    <2>1. transfers \in Seq(Transfer) /\ Len(transfers) \in Nat /\ DOMAIN transfers = 1..Len(transfers)
      BY SeqFacts
    <2>2. /\ transfers' \in Seq(Transfer) /\ Len(transfers') = Len(transfers) + 1
          /\ \A t \in 1..Len(transfers) : transfers'[t] = transfers[t]
          /\ transfers'[Len(transfers) + 1] = transfer
      BY <1>2, <2>1, AppendProperties
    <2>3. DOMAIN transfers' = 1..(Len(transfers) + 1)
      BY <2>2, LenProperties
    <2> QED
      BY <2>1, <2>2, <2>3 DEF Grows
  <1>4. Moves(w, [pc |-> "submitted", plan |-> worker[w].plan, transfer |-> Len(transfers) + 1])
    BY WorkerMoves DEF SubmitBurn
  <1> QED
    BY <1>1, <1>3, <1>4 DEF transfer

LEMMA StoreMoves ==
    ASSUME TypeOK, LogsAreTrue, NEW w \in Workers, StoreRebalance(w)
    PROVE  /\ At(w, "submitted") /\ Moves(w, Idle)
           /\ worker[w].plan \in Plans /\ worker[w].transfer \in DOMAIN transfers
           /\ rows' \in Seq(Row) /\ DOMAIN rows' = DOMAIN rows \cup {Len(rows) + 1}
           /\ Len(rows) + 1 \notin DOMAIN rows
           /\ \A i \in DOMAIN rows : rows'[i] = rows[i]
           /\ rows'[Len(rows) + 1] =
                [id |-> NoID, origin |-> worker[w].plan.origin, dest |-> worker[w].plan.dest,
                 status |-> "Initiated", transfer |-> worker[w].transfer]
  <1> DEFINE row == [id |-> NoID, origin |-> worker[w].plan.origin, dest |-> worker[w].plan.dest,
                     status |-> "Initiated", transfer |-> worker[w].transfer]
  <1>1. /\ At(w, "submitted") /\ worker[w].plan \in Plans
        /\ worker[w].transfer \in DOMAIN transfers
    BY WorkerFacts DEF StoreRebalance
  <1>2. rows' = Append(rows, row) /\ row \in Row
    BY <1>1 DEF StoreRebalance, Row, Plans, Status
  <1>3. Moves(w, Idle)
    BY WorkerMoves DEF StoreRebalance, Return
  <1> HIDE DEF row
  <1>4. rows \in Seq(Row) /\ Len(rows) \in Nat /\ DOMAIN rows = 1..Len(rows)
    BY SeqFacts
  <1>5. /\ rows' \in Seq(Row) /\ Len(rows') = Len(rows) + 1
        /\ \A i \in 1..Len(rows) : rows'[i] = rows[i]
        /\ rows'[Len(rows) + 1] = row
    BY <1>2, <1>4, AppendProperties
  <1>6. DOMAIN rows' = 1..(Len(rows) + 1)
    BY <1>5, LenProperties
  <1> QED
    BY <1>1, <1>3, <1>4, <1>5, <1>6 DEF row

-----------------------------------------------------------------------------
(* The chains *)

\* At most the state of transfer t changes.
StateSet(t, state) ==
    /\ transfers' \in Seq(Transfer) /\ DOMAIN transfers' = DOMAIN transfers
    /\ Len(transfers') = Len(transfers)
    /\ \A u \in DOMAIN transfers : transfers'[u].plan = transfers[u].plan
    /\ \A u \in DOMAIN transfers : u # t => transfers'[u].state = transfers[u].state
    /\ transfers'[t].state = state

LEMMA StateIsSet ==
    ASSUME TypeOK, NEW t \in DOMAIN transfers,
           NEW state \in {"queued", "burnt", "reverted", "received"},
           transfers' = [transfers EXCEPT ![t].state = state]
    PROVE  StateSet(t, state)
  <1>1. PICK n \in Nat : n = Len(transfers)
    BY SeqFacts
  <1>2. /\ transfers[t] \in Transfer /\ DOMAIN transfers = 1..n
        /\ \A u \in DOMAIN transfers : transfers[u] \in Transfer
    BY <1>1, SeqFacts
  <1>3. [transfers[t] EXCEPT !.state = state] \in Transfer
    BY <1>2 DEF Transfer
  <1>4. /\ DOMAIN transfers' = DOMAIN transfers
        /\ \A u \in DOMAIN transfers : u # t => transfers'[u] = transfers[u]
        /\ transfers'[t] = [transfers[t] EXCEPT !.state = state]
    BY DEF TypeOK
  <1>5. transfers' = [transfers EXCEPT ![t] = [transfers[t] EXCEPT !.state = state]]
    OBVIOUS
  <1>6. transfers' \in Seq(Transfer)
    BY <1>1, <1>2, <1>3, <1>5, SeqFacts, ExceptSeq
  <1>7. Len(transfers') = n
    BY <1>1, <1>2, <1>4, <1>6, LenProperties
  <1>8. /\ transfers'[t].plan = transfers[t].plan /\ transfers'[t].state = state
    BY <1>2, <1>4 DEF Transfer
  <1> QED
    BY <1>1, <1>4, <1>6, <1>7, <1>8 DEF StateSet

\* The log of one chain gets one more event.
Logged(c, log) ==
    /\ logs' \in [Chains -> Seq(Log)]
    /\ \A d \in Chains : \A k \in DOMAIN logs'[d] :
        \/ k \in DOMAIN logs[d] /\ logs'[d][k] = logs[d][k]
        \/ d = c /\ logs'[d][k] = log

LEMMA LogIsLonger ==
    ASSUME TypeOK, NEW c \in Chains, NEW log \in Log,
           logs' = [logs EXCEPT ![c] = Append(@, log)]
    PROVE  Logged(c, log)
  <1>1. /\ DOMAIN logs' = DOMAIN logs /\ logs'[c] = Append(logs[c], log)
        /\ \A d \in Chains : d # c => logs'[d] = logs[d]
    BY DEF TypeOK
  <1>2. PICK S, s : S = Log /\ s = logs[c] /\ s \in Seq(S)
    BY LogFacts
  <1>3. /\ Append(s, log) \in Seq(S) /\ Len(Append(s, log)) = Len(s) + 1
        /\ \A k \in 1..Len(s) : Append(s, log)[k] = s[k]
        /\ Append(s, log)[Len(s) + 1] = log
        /\ DOMAIN s = 1..Len(s) /\ Len(s) \in Nat
    BY <1>2, AppendProperties, LenProperties
  <1>4. DOMAIN Append(s, log) = 1..(Len(s) + 1)
    BY <1>3, LenProperties
  <1>5. \A k \in DOMAIN Append(s, log) :
            (k \in DOMAIN s /\ Append(s, log)[k] = s[k]) \/ Append(s, log)[k] = log
    BY <1>3, <1>4
  <1>6. logs' \in [Chains -> Seq(S)]
    <2>1. logs \in [Chains -> Seq(S)]
      BY <1>2 DEF TypeOK, Log
    <2>2. logs' = [logs EXCEPT ![c] = Append(s, log)]
      BY <1>2
    <2> QED
      BY <1>3, <2>1, <2>2
  <1> QED
    BY <1>1, <1>2, <1>5, <1>6 DEF Logged

LEMMA MineBurnFacts ==
    ASSUME TypeOK, NEW c \in Chains, MineBurn(c)
    PROVE  \E t \in DOMAIN transfers :
            /\ transfers[t].state = "queued" /\ transfers[t].plan.origin = c
            /\ balance' \in [Chains -> Nat]
            /\ \/ StateSet(t, "burnt") /\ Logged(c, [event |-> "burn", transfer |-> t])
               \/ StateSet(t, "reverted") /\ UNCHANGED logs
  <1>1. PICK t : t = Min(Queued(c))
    OBVIOUS
  <1>2. t \in Queued(c)
    <2>1. DOMAIN transfers \subseteq Nat
      BY SeqFacts
    <2>2. Queued(c) \in SUBSET Nat
      BY <2>1 DEF Queued
    <2>3. Queued(c) # {}
      BY DEF MineBurn
    <2> QED
      BY <1>1, <2>2, <2>3, MinIsLeast
  <1>3. /\ t \in DOMAIN transfers /\ transfers[t].state = "queued" /\ transfers[t].plan.origin = c
    BY <1>2 DEF Queued
  <1>4. PICK amount : amount = transfers[t].plan.amount
    OBVIOUS
  <1>5. amount \in Nat /\ balance \in [Chains -> Nat]
    BY <1>3, <1>4, SeqFacts DEF Transfer, Plans, TypeOK
  <1>6. [event |-> "burn", transfer |-> t] \in Log
    BY <1>3 DEF Log, Events
  <1>7. CASE amount <= balance[c]
    <2>1. /\ balance' = [balance EXCEPT ![c] = @ - amount]
          /\ transfers' = [transfers EXCEPT ![t].state = "burnt"]
          /\ logs' = [logs EXCEPT ![c] = Append(@, [event |-> "burn", transfer |-> t])]
      BY <1>1, <1>4, <1>7 DEF MineBurn
    <2>2. balance' \in [Chains -> Nat]
      <3>1. balance[c] - amount \in Nat
        BY <1>5, <1>7
      <3> QED
        BY <1>5, <2>1, <3>1
    <2> QED
      BY <1>3, <1>6, <2>1, <2>2, StateIsSet, LogIsLonger
  <1>8. CASE ~(amount <= balance[c])
    <2>1. /\ transfers' = [transfers EXCEPT ![t].state = "reverted"]
          /\ UNCHANGED <<balance, logs>>
      BY <1>1, <1>4, <1>8 DEF MineBurn
    <2> QED
      BY <1>3, <1>5, <2>1, StateIsSet
  <1> QED
    BY <1>7, <1>8

LEMMA ReceiveFacts ==
    ASSUME TypeOK, NEW t \in DOMAIN transfers, ReceiveMessage(t)
    PROVE  /\ transfers[t].state = "burnt" /\ transfers[t].plan.dest \in Chains
           /\ balance' \in [Chains -> Nat] /\ StateSet(t, "received")
           /\ Logged(transfers[t].plan.dest, [event |-> "receive", transfer |-> t])
  <1>1. PICK c : c = transfers[t].plan.dest
    OBVIOUS
  <1>2. c \in Chains /\ transfers[t].plan.amount \in Nat /\ balance \in [Chains -> Nat]
    BY <1>1, SeqFacts DEF Transfer, Plans, TypeOK
  <1>3. /\ balance' = [balance EXCEPT ![c] = @ + transfers[t].plan.amount]
        /\ transfers' = [transfers EXCEPT ![t].state = "received"]
        /\ logs' = [logs EXCEPT ![c] = Append(@, [event |-> "receive", transfer |-> t])]
        /\ transfers[t].state = "burnt"
    BY <1>1 DEF ReceiveMessage
  <1>4. balance' \in [Chains -> Nat]
    <2>1. balance[c] + transfers[t].plan.amount \in Nat
      BY <1>2
    <2> QED
      BY <1>2, <1>3, <2>1
  <1>5. [event |-> "receive", transfer |-> t] \in Log
    BY DEF Log, Events
  <1> QED
    BY <1>1, <1>2, <1>3, <1>4, <1>5, StateIsSet, LogIsLonger

-----------------------------------------------------------------------------
(* The invariant is kept *)

ListenersFollow ==
    /\ next' \in [Listeners -> Nat \ {0}] /\ startBlock' \in [Chains -> Nat \ {0}]
    /\ lost' \subseteq Events \X DOMAIN transfers

\* A step that adds no transfer and no event, and at most updates a row.
LEMMA QuietKeeps ==
    ASSUME Base, UNCHANGED <<transfers, logs>>,
           balance' \in [Chains -> Nat], cached' \in [Chains -> Nat],
           disturbances' \in Nat,
           DOMAIN worker' = Workers, \A w \in Workers : worker'[w] \in WorkerStates,
           ListenersFollow,
           \/ rows' = rows
           \/ \E i \in DOMAIN rows, id \in DOMAIN transfers, status \in {"Pending", "Completed"} :
                RowSet(i, id, status)
    PROVE  Base'
  <1>1. /\ rows' \in Seq(Row) /\ DOMAIN rows' = DOMAIN rows
        /\ Row' = Row
    BY SeqFacts DEF Base, RowSet, Row
  <1>2. TypeOK'
    <2>1. \A w \in Workers :
            \/ worker'[w] = Idle
            \/ worker'[w] \in [pc : {"planned", "execute"}, plan : Plans]
            \/ worker'[w] \in [pc : {"submitted"}, plan : Plans, transfer : DOMAIN transfers]
      BY DEF WorkerStates
    <2> QED
      BY <1>1, <2>1 DEF Base, TypeOK, Row, ListenersFollow
  <1>3. LogsAreTrue'
    BY DEF Base, LogsAreTrue, LogIsTrue
  <1>4. RowsFollow'
    <2>1. CASE rows' = rows
      BY <2>1 DEF Base, RowsFollow
    <2>2. ASSUME NEW i \in DOMAIN rows, NEW id \in DOMAIN transfers,
                 NEW status \in {"Pending", "Completed"}, RowSet(i, id, status)
          PROVE  RowsFollow'
      <3>1. id # NoID /\ status # "Initiated"
        BY SeqFacts DEF NoID, Base
      <3> QED
        BY <1>1, <2>2, <3>1 DEF Base, RowsFollow, RowSet
    <2> QED
      BY <2>1, <2>2
  <1> QED
    BY <1>2, <1>3, <1>4 DEF Base

LEMMA StatesStay ==
    ASSUME TypeOK, LogsAreTrue
    PROVE  /\ \A w \in Workers : worker[w] \in WorkerStates
           /\ DOMAIN worker = Workers /\ Idle \in WorkerStates
  BY DEF TypeOK, LogsAreTrue, WorkerStates

\* A step of the listeners that writes no row.
LEMMA ListenersKeep ==
    ASSUME Base, UNCHANGED <<balance, cached, worker, rows, transfers, logs>>,
           ListenersFollow, disturbances' \in Nat
    PROVE  Base'
  <1>1. /\ balance' \in [Chains -> Nat] /\ cached' \in [Chains -> Nat]
    BY DEF Base, TypeOK
  <1>2. DOMAIN worker' = Workers /\ \A w \in Workers : worker'[w] \in WorkerStates
    BY StatesStay DEF Base
  <1> QED
    BY <1>1, <1>2, QuietKeeps

\* A step of the workers that adds neither a transfer nor a row.
LEMMA WorkersKeep ==
    ASSUME Base, UNCHANGED <<listenerVars, transfers, logs>>,
           balance' \in [Chains -> Nat], cached' \in [Chains -> Nat],
           disturbances' \in Nat,
           DOMAIN worker' = Workers, \A w \in Workers : worker'[w] \in WorkerStates
    PROVE  Base'
  <1>1. ListenersFollow /\ rows' = rows
    BY DEF Base, TypeOK, listenerVars, ListenersFollow
  <1> QED
    BY <1>1, QuietKeeps

LEMMA MovesFacts ==
    ASSUME TypeOK, LogsAreTrue, NEW w \in Workers, NEW state \in WorkerStates, Moves(w, state)
    PROVE  DOMAIN worker' = Workers /\ \A v \in Workers : worker'[v] \in WorkerStates
  BY StatesStay DEF Moves

LEMMA WorkersStepKeeps ==
    ASSUME Base, NEW w \in Workers, Plan(w) \/ CheckPending(w) \/ RebalanceFails(w)
    PROVE  Base'
  <1>1. /\ UNCHANGED <<balance, cached>> /\ UNCHANGED <<listenerVars, transfers, logs>>
        /\ balance \in [Chains -> Nat] /\ cached \in [Chains -> Nat]
        /\ disturbances' \in Nat
    BY DEF Base, TypeOK, Plan, CheckPending, RebalanceFails, Disturbance
  <1>2. \E state \in WorkerStates : Moves(w, state)
    <2>1. CASE Plan(w)
      BY <2>1, PlanMoves DEF Base, WorkerStates
    <2>2. CASE CheckPending(w)
      BY <2>2, CheckPendingMoves, StatesStay DEF Base, WorkerStates
    <2>3. CASE RebalanceFails(w)
      BY <2>3, WorkerMoves, StatesStay DEF Base, RebalanceFails, Return
    <2> QED
      BY <2>1, <2>2, <2>3
  <1> QED
    BY <1>1, <1>2, MovesFacts, WorkersKeep DEF Base

LEMMA BalancesKeep ==
    ASSUME Base, \/ \E c \in Chains : Refresh(c)
                 \/ \E c, d \in Chains : Trade(c, d)
    PROVE  Base'
  <1>1. balance \in [Chains -> Nat] /\ cached \in [Chains -> Nat] /\ disturbances \in Nat
    BY DEF Base, TypeOK
  <1>2. balance' \in [Chains -> Nat] /\ cached' \in [Chains -> Nat] /\ disturbances' \in Nat
    <2>1. ASSUME NEW c \in Chains, Refresh(c)
          PROVE  balance' \in [Chains -> Nat] /\ cached' \in [Chains -> Nat]
                 /\ disturbances' \in Nat
      BY <1>1, <2>1 DEF Refresh
    <2>2. ASSUME NEW c \in Chains, NEW d \in Chains, Trade(c, d)
          PROVE  balance' \in [Chains -> Nat] /\ cached' \in [Chains -> Nat]
                 /\ disturbances' \in Nat
      <3>1. balance[c] - 1 \in Nat /\ balance[d] + 1 \in Nat
        BY <1>1, <2>2 DEF Trade
      <3>2. balance' = [balance EXCEPT ![c] = balance[c] - 1, ![d] = balance[d] + 1] /\ c # d
        BY <2>2 DEF Trade
      <3>3. balance' \in [Chains -> Nat]
        BY <1>1, <3>1, <3>2
      <3> QED
        BY <1>1, <2>2, <3>3 DEF Trade, Disturbance
    <2> QED
      BY <2>1, <2>2
  <1>3. UNCHANGED <<listenerVars, transfers, logs, worker>>
    BY DEF Refresh, Trade
  <1> QED
    BY <1>2, <1>3, StatesStay, WorkersKeep DEF Base

LEMMA SubmitBurnKeeps == ASSUME Base, NEW w \in Workers, SubmitBurn(w) PROVE Base'
  <1> DEFINE n == Len(transfers) + 1
             transfer == [plan |-> worker[w].plan, state |-> "queued"]
             state == [pc |-> "submitted", plan |-> worker[w].plan, transfer |-> n]
  <1>1. worker[w].plan \in Plans /\ Grows(transfer) /\ Moves(w, state)
    BY SubmitBurnMoves DEF Base
  <1>2. UNCHANGED <<balance, cached, rows, next, startBlock, lost, logs, disturbances>>
    BY DEF SubmitBurn, listenerVars
  <1>3. /\ transfers' \in Seq(Transfer) /\ DOMAIN transfers \subseteq DOMAIN transfers'
        /\ n \in DOMAIN transfers' /\ \A t \in DOMAIN transfers : transfers'[t] = transfers[t]
    BY <1>1 DEF Grows
  <1>4. TypeOK'
    <2>1. \A v \in Workers :
            \/ worker'[v] = Idle
            \/ worker'[v] \in [pc : {"planned", "execute"}, plan : Plans]
            \/ worker'[v] \in [pc : {"submitted"}, plan : Plans, transfer : DOMAIN transfers']
      <3>1. worker'[w] \in [pc : {"submitted"}, plan : Plans, transfer : DOMAIN transfers']
        BY <1>1, <1>3 DEF Moves
      <3>2. \A v \in Workers : v # w => worker'[v] = worker[v] /\ worker[v] \in WorkerStates
        BY <1>1, StatesStay DEF Moves, Base
      <3> QED
        BY <1>3, <3>1, <3>2 DEF WorkerStates
    <2>2. rows \in Seq(Row')
      <3>1. rows \in Seq(Row) /\ Row \subseteq Row'
        BY <1>3, SeqFacts DEF Row, Base
      <3> QED
        BY <3>1, SeqMonotonic
    <2>3. logs \in [Chains -> Seq(Log')]
      <3>1. Log \subseteq Log'
        BY <1>3 DEF Log
      <3>2. \A c \in Chains : logs[c] \in Seq(Log')
        BY <3>1, LogFacts, SeqMonotonic DEF Base
      <3> QED
        BY <3>2 DEF Base, TypeOK
    <2>4. lost \subseteq Events \X DOMAIN transfers'
      BY <1>3 DEF Base, TypeOK
    <2>5. /\ balance \in [Chains -> Nat] /\ cached \in [Chains -> Nat]
          /\ disturbances \in Nat
          /\ next \in [Listeners -> Nat \ {0}] /\ startBlock \in [Chains -> Nat \ {0}]
      BY DEF Base, TypeOK
    <2> QED
      BY <1>2, <1>3, <2>1, <2>2, <2>3, <2>4, <2>5 DEF TypeOK, Row, Transfer, Log
  <1>5. LogsAreTrue'
    <2>1. ASSUME NEW c \in Chains, NEW k \in DOMAIN logs[c] PROVE LogIsTrue(c, logs[c][k])'
      <3>1. PICK log : log = logs[c][k]
        OBVIOUS
      <3>2. log.transfer \in DOMAIN transfers /\ LogIsTrue(c, log)
        BY <3>1, LogFacts DEF Base, LogsAreTrue, Log
      <3>3. transfers'[log.transfer] = transfers[log.transfer]
        BY <1>3, <3>2
      <3>4. log = logs'[c][k]
        BY <1>2, <3>1
      <3> QED
        BY <3>2, <3>3, <3>4 DEF LogIsTrue
    <2>2. DOMAIN worker' = Workers
      BY <1>1 DEF Moves
    <2> QED
      BY <1>2, <2>1, <2>2 DEF LogsAreTrue
  <1>6. RowsFollow'
    <2>1. \A i \in DOMAIN rows : rows[i].transfer \in DOMAIN transfers
      BY SeqFacts DEF Base, Row
    <2> QED
      BY <1>2, <1>3, <2>1 DEF Base, RowsFollow
  <1> QED
    BY <1>4, <1>5, <1>6 DEF Base

LEMMA StoreKeeps ==
    ASSUME Base, WorkerHasPlan, NEW w \in Workers, StoreRebalance(w)
    PROVE  Base'
  <1> DEFINE n == Len(rows) + 1
             row == [id |-> NoID, origin |-> worker[w].plan.origin, dest |-> worker[w].plan.dest,
                     status |-> "Initiated", transfer |-> worker[w].transfer]
  <1>1. /\ At(w, "submitted") /\ Moves(w, Idle)
        /\ worker[w].plan \in Plans /\ worker[w].transfer \in DOMAIN transfers
        /\ rows' \in Seq(Row) /\ DOMAIN rows' = DOMAIN rows \cup {n}
        /\ \A i \in DOMAIN rows : rows'[i] = rows[i]
        /\ rows'[n] = row
    BY StoreMoves DEF Base
  <1>2. UNCHANGED <<balance, cached, transfers, logs, next, startBlock, lost, disturbances>>
    BY DEF StoreRebalance
  <1>3. DOMAIN worker' = Workers /\ \A v \in Workers : worker'[v] \in WorkerStates
    BY <1>1, MovesFacts, StatesStay DEF Base
  <1>4. TypeOK'
    <2>1. \A v \in Workers :
            \/ worker'[v] = Idle
            \/ worker'[v] \in [pc : {"planned", "execute"}, plan : Plans]
            \/ worker'[v] \in [pc : {"submitted"}, plan : Plans, transfer : DOMAIN transfers]
      BY <1>3 DEF WorkerStates
    <2> QED
      BY <1>1, <1>2, <2>1 DEF Base, TypeOK, Row
  <1>5. LogsAreTrue'
    BY <1>2, <1>3 DEF Base, LogsAreTrue, LogIsTrue
  <1>6. RowsFollow'
    <2>1. worker[w].plan = transfers[worker[w].transfer].plan
      BY <1>1 DEF WorkerHasPlan
    <2>2. /\ rows'[n].origin = transfers[rows'[n].transfer].plan.origin
          /\ rows'[n].dest = transfers[rows'[n].transfer].plan.dest
          /\ rows'[n].status = "Initiated" /\ rows'[n].id = NoID
      BY <1>1, <2>1
    <2> QED
      BY <1>1, <1>2, <2>2 DEF Base, RowsFollow
  <1> QED
    BY <1>4, <1>5, <1>6 DEF Base

\* A burn or a receipt is mined.
LEMMA MinedKeeps ==
    ASSUME Base, UNCHANGED <<cached, worker, listenerVars, disturbances>>,
           balance' \in [Chains -> Nat], NEW t \in DOMAIN transfers,
           NEW state \in {"burnt", "received", "reverted"}, StateSet(t, state),
           \/ transfers[t].state = "queued" /\ state # "received"
           \/ transfers[t].state = "burnt" /\ state = "received",
           \/ UNCHANGED logs
           \/ /\ state = "burnt"
              /\ Logged(transfers[t].plan.origin, [event |-> "burn", transfer |-> t])
           \/ /\ state = "received"
              /\ Logged(transfers[t].plan.dest, [event |-> "receive", transfer |-> t])
    PROVE  Base'
  <1>1. PICK o, d : o = transfers[t].plan.origin /\ d = transfers[t].plan.dest
    OBVIOUS
  <1>2. /\ UNCHANGED <<rows, next, startBlock, lost>>
        /\ transfers' \in Seq(Transfer) /\ DOMAIN transfers' = DOMAIN transfers
        /\ \A u \in DOMAIN transfers : transfers'[u].plan = transfers[u].plan
        /\ \A u \in DOMAIN transfers :
            /\ transfers[u].state \in {"burnt", "received"} => transfers'[u].state \in {"burnt", "received"}
            /\ transfers[u].state = "received" => transfers'[u].state = "received"
        /\ transfers'[t].state = state
    BY DEF listenerVars, StateSet
  <1>3. logs' \in [Chains -> Seq(Log)]
    BY DEF Logged, Base, TypeOK, Log
  <1>4. TypeOK'
    BY <1>2, <1>3 DEF Base, TypeOK, Row, Transfer, Log
  <1>5. ASSUME NEW c \in Chains, NEW k \in DOMAIN logs[c]
        PROVE  LogIsTrue(c, logs[c][k])' \/ logs'[c][k] # logs[c][k]
    <2>1. PICK log : log = logs[c][k]
      OBVIOUS
    <2>2. log.transfer \in DOMAIN transfers /\ LogIsTrue(c, log)
      BY <2>1, LogFacts DEF Base, LogsAreTrue, Log
    <2>3. PICK u : u = log.transfer
      OBVIOUS
    <2>4. log.event = "burn" => transfers'[u].plan.origin = c /\ transfers'[u].state \in {"burnt", "received"}
      BY <1>2, <2>2, <2>3 DEF LogIsTrue
    <2>5. log.event # "burn" => transfers'[u].state = "received"
      BY <1>2, <2>2, <2>3 DEF LogIsTrue
    <2> QED
      BY <2>1, <2>3, <2>4, <2>5 DEF LogIsTrue
  <1>6. ASSUME NEW c \in Chains, NEW k \in DOMAIN logs'[c] PROVE LogIsTrue(c, logs[c][k])'
    <2>1. CASE k \in DOMAIN logs[c] /\ logs'[c][k] = logs[c][k]
      BY <1>5, <2>1
    <2>2. CASE state = "burnt" /\ c = o /\ logs'[c][k] = [event |-> "burn", transfer |-> t]
      <3>1. transfers'[t].plan.origin = c /\ transfers'[t].state = "burnt"
        BY <1>1, <1>2, <2>2
      <3>2. PICK log : log = logs'[c][k] /\ log.transfer = t
        BY <2>2
      <3>3. log.event = "burn"
        BY <2>2, <3>2
      <3> QED
        BY <3>1, <3>2, <3>3 DEF LogIsTrue
    <2>3. CASE state = "received" /\ logs'[c][k] = [event |-> "receive", transfer |-> t]
      <3>1. transfers'[t].state = "received"
        BY <1>2, <2>3
      <3>2. PICK log : log = logs'[c][k] /\ log.transfer = t
        BY <2>3
      <3>3. log.event # "burn"
        BY <2>3, <3>2
      <3> QED
        BY <3>1, <3>2, <3>3 DEF LogIsTrue
    <2> QED
      BY <1>1, <2>1, <2>2, <2>3 DEF Logged
  <1>7. LogsAreTrue'
    BY <1>6 DEF Base, LogsAreTrue
  <1>8. RowsFollow'
    <2>1. \A i \in DOMAIN rows : rows[i].transfer \in DOMAIN transfers
      BY SeqFacts DEF Base, Row
    <2> QED
      BY <1>2, <2>1 DEF Base, RowsFollow
  <1> QED
    BY <1>4, <1>7, <1>8 DEF Base

LEMMA MineBurnKeeps == ASSUME Base, NEW c \in Chains, MineBurn(c) PROVE Base'
  <1>1. PICK t \in DOMAIN transfers :
            /\ transfers[t].state = "queued" /\ transfers[t].plan.origin = c
            /\ balance' \in [Chains -> Nat]
            /\ \/ StateSet(t, "burnt") /\ Logged(c, [event |-> "burn", transfer |-> t])
               \/ StateSet(t, "reverted") /\ UNCHANGED logs
    BY MineBurnFacts DEF Base
  <1>2. UNCHANGED <<cached, worker, listenerVars, disturbances>>
    BY DEF MineBurn
  <1>3. CASE StateSet(t, "burnt") /\ Logged(c, [event |-> "burn", transfer |-> t])
    BY <1>1, <1>2, <1>3, MinedKeeps
  <1>4. CASE StateSet(t, "reverted") /\ UNCHANGED logs
    BY <1>1, <1>2, <1>4, MinedKeeps
  <1> QED
    BY <1>1, <1>3, <1>4

LEMMA ReceiveMessageKeeps ==
    ASSUME Base, NEW t \in DOMAIN transfers, ReceiveMessage(t) PROVE Base'
  <1>1. /\ transfers[t].state = "burnt" /\ balance' \in [Chains -> Nat]
        /\ StateSet(t, "received")
        /\ Logged(transfers[t].plan.dest, [event |-> "receive", transfer |-> t])
    BY ReceiveFacts DEF Base
  <1>2. UNCHANGED <<cached, worker, listenerVars, disturbances>>
    BY DEF ReceiveMessage
  <1> QED
    BY <1>1, <1>2, MinedKeeps

-----------------------------------------------------------------------------
(* The listeners *)

\* The log that a listener handles is there, and true.
LEMMA HandlingFacts ==
    ASSUME Base, NEW e \in Events, NEW c \in Chains, Handling(<<e, c>>)
    PROVE  \E k \in DOMAIN logs[c] :
               /\ k = Min(Unhandled(<<e, c>>)) /\ k \in Nat
               /\ NextLog(<<e, c>>) = logs[c][k].transfer /\ logs[c][k].event = e
               /\ NextLog(<<e, c>>) \in DOMAIN transfers /\ LogIsTrue(c, logs[c][k])
  <1>1. PICK T, k : T = Unhandled(<<e, c>>) /\ k = Min(T)
    OBVIOUS
  <1>2. T = {n \in DOMAIN logs[c] : n >= next[<<e, c>>] /\ logs[c][n].event = e}
    BY <1>1 DEF Unhandled
  <1>3. k \in T
    <2>1. T \in SUBSET Nat
      BY <1>2, LogFacts DEF Base
    <2>2. T # {}
      BY <1>1 DEF Handling
    <2> QED
      BY <1>1, <2>1, <2>2, MinIsLeast
  <1>4. /\ k \in DOMAIN logs[c] /\ k \in Nat /\ logs[c][k].event = e
        /\ logs[c][k] \in Log /\ LogIsTrue(c, logs[c][k])
    BY <1>2, <1>3, LogFacts DEF Base, LogsAreTrue
  <1>5. NextLog(<<e, c>>) = logs[c][k].transfer
    BY <1>1 DEF NextLog
  <1> QED
    BY <1>1, <1>4, <1>5 DEF Log

LEMMA HandledFollows ==
    ASSUME Base, NEW e \in Events, NEW c \in Chains, Handling(<<e, c>>), Handled(<<e, c>>)
    PROVE  next' \in [Listeners -> Nat \ {0}]
  <1>1. PICK k \in Nat : k = Min(Unhandled(<<e, c>>))
    BY HandlingFacts
  <1>2. next' = [next EXCEPT ![<<e, c>>] = k + 1] /\ next \in [Listeners -> Nat \ {0}]
    BY <1>1 DEF Handled, Base, TypeOK
  <1>3. k + 1 \in Nat \ {0}
    BY <1>1
  <1> QED
    BY <1>2, <1>3

LEMMA PollsKeep ==
    ASSUME Base, NEW l \in Listeners, WriteFails(l) \/ Reparse(l)
    PROVE  Base'
  <1>1. /\ UNCHANGED <<balance, cached, worker, rows, transfers, logs, startBlock>>
        /\ disturbances' \in Nat
    BY DEF Base, TypeOK, WriteFails, Reparse, Disturbance
  <1>2. /\ next \in [Listeners -> Nat \ {0}] /\ startBlock \in [Chains -> Nat \ {0}]
        /\ lost \subseteq Events \X DOMAIN transfers
    BY DEF Base, TypeOK
  <1>3. CASE WriteFails(l)
    <2>1. PICK e \in Events, c \in Chains : l = <<e, c>>
      BY DEF Listeners
    <2>2. Handling(<<e, c>>) /\ Handled(<<e, c>>) /\ lost' = lost \cup {<<e, NextLog(<<e, c>>)>>}
      BY <1>3, <2>1 DEF WriteFails
    <2>3. NextLog(<<e, c>>) \in DOMAIN transfers
      BY <2>2, HandlingFacts
    <2>4. next' \in [Listeners -> Nat \ {0}]
      BY <2>2, HandledFollows
    <2>5. ListenersFollow
      BY <1>1, <1>2, <2>2, <2>3, <2>4 DEF ListenersFollow
    <2> QED
      BY <1>1, <2>5, ListenersKeep
  <1>4. CASE Reparse(l)
    <2>1. PICK k \in startBlock[l[2]]..next[l] : next' = [next EXCEPT ![l] = k]
      BY <1>4 DEF Reparse, RangeStarts
    <2>2. l[2] \in Chains
      BY DEF Listeners
    <2>3. startBlock[l[2]] \in Nat \ {0} /\ next[l] \in Nat
      BY <1>2, <2>2
    <2>4. k \in Nat \ {0}
      BY <2>1, <2>3
    <2>5. ListenersFollow
      BY <1>1, <1>2, <1>4, <2>1, <2>4 DEF ListenersFollow, Reparse
    <2> QED
      BY <1>1, <2>5, ListenersKeep
  <1> QED
    BY <1>3, <1>4

\* A handler updates the one row that matches, if there is one.
LEMMA HandlersSetRows ==
    ASSUME Base, NEW c \in Chains
    PROVE  /\ HandleDepositForBurn(c) =>
                /\ NextLog(<<"burn", c>>) \in DOMAIN transfers
                /\ transfers[NextLog(<<"burn", c>>)].plan.origin = c
                /\ \/ rows' = rows
                   \/ \E i \in DOMAIN rows : /\ Initiated(c) = {i}
                                             /\ RowSet(i, NextLog(<<"burn", c>>), "Pending")
           /\ HandleMessageReceived(c) =>
                /\ NextLog(<<"receive", c>>) \in DOMAIN transfers
                /\ transfers[NextLog(<<"receive", c>>)].state = "received"
                /\ \/ rows' = rows
                   \/ \E i \in DOMAIN rows :
                        /\ WithID(NextLog(<<"receive", c>>)) = {i}
                        /\ RowSet(i, NextLog(<<"receive", c>>), "Completed")
  <1>1. "burn" \in Events /\ "receive" \in Events
    BY DEF Events
  <1>2. ASSUME HandleDepositForBurn(c)
        PROVE  /\ NextLog(<<"burn", c>>) \in DOMAIN transfers
               /\ transfers[NextLog(<<"burn", c>>)].plan.origin = c
               /\ \/ rows' = rows
                  \/ \E i \in DOMAIN rows : /\ Initiated(c) = {i}
                                            /\ RowSet(i, NextLog(<<"burn", c>>), "Pending")
    <2>1. PICK u : u = NextLog(<<"burn", c>>)
      OBVIOUS
    <2>2. Handling(<<"burn", c>>) /\ UpdateRebalance(Initiated(c), "burn", u, "Pending")
      BY <1>2, <2>1 DEF HandleDepositForBurn
    <2>3. u \in DOMAIN transfers /\ transfers[u].plan.origin = c
      BY <1>1, <2>1, <2>2, HandlingFacts DEF LogIsTrue
    <2>4. PICK match : match = Initiated(c) /\ match \in SUBSET DOMAIN rows
      BY DEF Initiated
    <2>5. rows' = rows \/ \E i \in DOMAIN rows : match = {i} /\ RowSet(i, u, "Pending")
      BY <2>2, <2>3, <2>4, OneRowIsUpdated DEF Base, Status
    <2> QED
      BY <2>1, <2>3, <2>4, <2>5
  <1>3. ASSUME HandleMessageReceived(c)
        PROVE  /\ NextLog(<<"receive", c>>) \in DOMAIN transfers
               /\ transfers[NextLog(<<"receive", c>>)].state = "received"
               /\ \/ rows' = rows
                  \/ \E i \in DOMAIN rows :
                       /\ WithID(NextLog(<<"receive", c>>)) = {i}
                       /\ RowSet(i, NextLog(<<"receive", c>>), "Completed")
    <2>1. PICK u : u = NextLog(<<"receive", c>>)
      OBVIOUS
    <2>2. Handling(<<"receive", c>>) /\ UpdateRebalance(WithID(u), "receive", u, "Completed")
      BY <1>3, <2>1 DEF HandleMessageReceived
    <2>3. u \in DOMAIN transfers /\ transfers[u].state = "received"
      BY <1>1, <2>1, <2>2, HandlingFacts DEF LogIsTrue
    <2>4. PICK match : match = WithID(u) /\ match \in SUBSET DOMAIN rows
      BY DEF WithID
    <2>5. rows' = rows \/ \E i \in DOMAIN rows : match = {i} /\ RowSet(i, u, "Completed")
      BY <2>2, <2>3, <2>4, OneRowIsUpdated DEF Base, Status
    <2> QED
      BY <2>1, <2>3, <2>4, <2>5
  <1> QED
    BY <1>2, <1>3

LEMMA HandlersKeep ==
    ASSUME Base, NEW c \in Chains, HandleDepositForBurn(c) \/ HandleMessageReceived(c)
    PROVE  Base'
  <1>1. /\ UNCHANGED <<balance, cached, worker, transfers, logs, startBlock, disturbances>>
        /\ \E e \in Events : Handling(<<e, c>>) /\ Handled(<<e, c>>)
    BY DEF HandleDepositForBurn, HandleMessageReceived, Events
  <1>2. lost' \subseteq Events \X DOMAIN transfers
    <2>1. PICK e \in Events :
            /\ Handling(<<e, c>>)
            /\ \E match, status : UpdateRebalance(match, e, NextLog(<<e, c>>), status)
      BY DEF HandleDepositForBurn, HandleMessageReceived, Events
    <2>2. PICK u : u = NextLog(<<e, c>>)
      OBVIOUS
    <2>3. u \in DOMAIN transfers
      BY <2>1, <2>2, HandlingFacts
    <2>4. lost' = lost \/ lost' = lost \cup {<<e, u>>}
      BY <2>1, <2>2 DEF UpdateRebalance
    <2> QED
      BY <2>3, <2>4 DEF Base, TypeOK
  <1>3. ListenersFollow
    BY <1>1, <1>2, HandledFollows DEF ListenersFollow, Base, TypeOK
  <1>4. \/ rows' = rows
        \/ \E i \in DOMAIN rows, id \in DOMAIN transfers, status \in {"Pending", "Completed"} :
                RowSet(i, id, status)
    BY HandlersSetRows
  <1>5. /\ balance \in [Chains -> Nat] /\ cached \in [Chains -> Nat] /\ disturbances \in Nat
    BY DEF Base, TypeOK
  <1>6. DOMAIN worker = Workers /\ \A w \in Workers : worker[w] \in WorkerStates
    BY StatesStay DEF Base
  <1> QED
    BY <1>1, <1>3, <1>4, <1>5, <1>6, QuietKeeps

LEMMA RestartKeeps == ASSUME Base, Restart PROVE Base'
  <1>1. /\ UNCHANGED <<balance, rows, transfers, logs>>
        /\ cached' = balance /\ worker' = [w \in Workers |-> Idle]
    BY DEF Restart
  <1>2. balance \in [Chains -> Nat] /\ disturbances' \in Nat
    BY DEF Base, TypeOK, Restart, Disturbance
  <1>3. DOMAIN worker' = Workers /\ \A w \in Workers : worker'[w] \in WorkerStates
    BY <1>1, StatesStay DEF Base
  <1>4. ListenersFollow
    <2>1. PICK lastIndexed \in [Chains -> 1..(2 * MaxSteps + 1)] :
            /\ startBlock' = lastIndexed
            /\ next' = [l \in Listeners |-> lastIndexed[l[2]]]
            /\ lost' = lost \cup UNION {LeftOut(l, lastIndexed[l[2]]) : l \in Listeners}
      BY DEF Restart
    <2>2. \A c \in Chains : lastIndexed[c] \in Nat \ {0}
      BY <2>1
    <2>3. \A l \in Listeners : l[1] \in Events /\ l[2] \in Chains
      BY DEF Listeners
    <2>4. \A l \in Listeners : \A n : LeftOut(l, n) \subseteq Events \X DOMAIN transfers
      <3> SUFFICES ASSUME NEW l \in Listeners, NEW n, NEW k \in Unhandled(l)
                   PROVE  <<l[1], logs[l[2]][k].transfer>> \in Events \X DOMAIN transfers
        BY DEF LeftOut
      <3>1. logs[l[2]][k] \in Log
        BY <2>3, LogFacts DEF Unhandled, Base
      <3> QED
        BY <2>3, <3>1 DEF Log
    <2>5. lost' \subseteq Events \X DOMAIN transfers
      BY <2>1, <2>4 DEF Base, TypeOK
    <2> QED
      BY <2>1, <2>2, <2>3, <2>5 DEF ListenersFollow
  <1> QED
    BY <1>1, <1>2, <1>3, <1>4, QuietKeeps

-----------------------------------------------------------------------------
(* Every step *)

\* A step that submits no burn leaves the plans of the transfers alone.
LEMMA PlansStay ==
    ASSUME Base, WorkerHasPlan,
           DOMAIN transfers' = DOMAIN transfers,
           \A t \in DOMAIN transfers : transfers'[t].plan = transfers[t].plan,
           \A w \in Workers :
               \/ worker'[w] = worker[w]
               \/ worker'[w].pc \in {"idle", "planned", "execute"}
    PROVE  WorkerHasPlan'
  <1> SUFFICES ASSUME NEW w \in Workers, At(w, "submitted")'
               PROVE  worker'[w].plan = transfers'[worker'[w].transfer].plan
    BY DEF WorkerHasPlan
  <1>1. worker'[w] = worker[w] /\ At(w, "submitted")
    BY DEF At
  <1>2. worker[w].transfer \in DOMAIN transfers
    BY <1>1, WorkerFacts DEF Base
  <1>3. PICK state : state = worker[w]
    OBVIOUS
  <1>4. state.plan = transfers[state.transfer].plan /\ state.transfer \in DOMAIN transfers
    BY <1>1, <1>2, <1>3 DEF WorkerHasPlan
  <1> QED
    BY <1>1, <1>3, <1>4

LEMMA InitIsBase == ASSUME Init PROVE Base /\ WorkerHasPlan
  <1>1. rows = <<>> /\ transfers = <<>> /\ DOMAIN rows = {} /\ DOMAIN transfers = {}
    BY DEF Init
  <1>2. /\ worker = [w \in Workers |-> Idle] /\ lost = {} /\ disturbances = 0
        /\ logs = [c \in Chains |-> <<>>]
        /\ next = [l \in Listeners |-> 1] /\ startBlock = [c \in Chains |-> 1]
        /\ balance = Funds /\ cached = Funds
    BY DEF Init
  <1>3. TypeOK
    <2>1. logs \in [Chains -> Seq(Log)]
      BY <1>2, EmptySeq
    <2>2. rows \in Seq(Row) /\ transfers \in Seq(Transfer)
      BY <1>1, EmptySeq
    <2> QED
      BY <1>2, <2>1, <2>2 DEF TypeOK, Row, Transfer, Log, RebalancerAssumption
  <1>4. LogsAreTrue
    <2>1. \A c \in Chains : DOMAIN logs[c] = {}
      BY <1>2
    <2> QED
      BY <1>2, <2>1 DEF LogsAreTrue
  <1>5. RowsFollow /\ WorkerHasPlan
    BY <1>1, <1>2 DEF RowsFollow, WorkerHasPlan, At, Idle
  <1> QED
    BY <1>3, <1>4, <1>5 DEF Base

\* What a step does to the workers and to the transfers.
LEMMA WorkerSteps ==
    ASSUME Base, NEW w \in Workers,
           Plan(w) \/ CheckPending(w) \/ StoreRebalance(w) \/ RebalanceFails(w)
    PROVE  /\ UNCHANGED transfers
           /\ \A v \in Workers : v # w => worker'[v] = worker[v]
           /\ worker'[w].pc \in {"idle", "planned", "execute"}
  <1>1. UNCHANGED transfers
    BY DEF Plan, CheckPending, StoreRebalance, RebalanceFails
  <1>2. CASE Plan(w)
    <2>1. PICK p : Moves(w, [pc |-> "planned", plan |-> p])
      BY <1>2, PlanMoves DEF Base
    <2> QED
      BY <1>1, <2>1 DEF Moves
  <1>3. CASE CheckPending(w)
    <2>1. PICK state : Moves(w, state) /\ state.pc \in {"idle", "execute"}
      <3>1. Idle.pc = "idle" /\ \A p : [pc |-> "execute", plan |-> p].pc = "execute"
        BY DEF Idle
      <3> QED
        BY <1>3, <3>1, CheckPendingMoves DEF Base
    <2> QED
      BY <1>1, <2>1 DEF Moves
  <1>4. CASE StoreRebalance(w)
    <2>1. Moves(w, Idle)
      BY <1>4, StoreMoves DEF Base
    <2> QED
      BY <1>1, <2>1 DEF Moves, Idle
  <1>5. CASE RebalanceFails(w)
    BY <1>1, <1>5, WorkerMoves DEF Base, RebalanceFails, Return, Moves, Idle
  <1> QED
    BY <1>2, <1>3, <1>4, <1>5

LEMMA WorkersNextKeeps ==
    ASSUME Base, WorkerHasPlan, NEW w \in Workers,
           \/ Plan(w) \/ CheckPending(w) \/ SubmitBurn(w)
           \/ StoreRebalance(w) \/ RebalanceFails(w)
    PROVE  Base' /\ WorkerHasPlan'
  <1>1. CASE SubmitBurn(w)
    <2> DEFINE n == Len(transfers) + 1
               transfer == [plan |-> worker[w].plan, state |-> "queued"]
    <2>1. /\ Grows(transfer)
          /\ Moves(w, [pc |-> "submitted", plan |-> worker[w].plan, transfer |-> n])
      BY <1>1, SubmitBurnMoves DEF Base
    <2>2. WorkerHasPlan'
      <3> SUFFICES ASSUME NEW v \in Workers, At(v, "submitted")'
                   PROVE  worker'[v].plan = transfers'[worker'[v].transfer].plan
        BY DEF WorkerHasPlan
      <3>1. CASE v = w
        BY <2>1, <3>1 DEF Moves, Grows
      <3>2. CASE v # w
        <4>1. PICK state : state = worker[v] /\ state = worker'[v]
          BY <2>1, <3>2 DEF Moves
        <4>2. At(v, "submitted")
          BY <4>1 DEF At
        <4>3. state.transfer \in DOMAIN transfers
          BY <4>1, <4>2, WorkerFacts DEF Base
        <4>4. state.plan = transfers[state.transfer].plan
          BY <4>1, <4>2 DEF WorkerHasPlan
        <4> QED
          BY <2>1, <4>1, <4>3, <4>4 DEF Grows
      <3> QED
        BY <3>1, <3>2
    <2> QED
      BY <1>1, <2>2, SubmitBurnKeeps
  <1>2. CASE Plan(w) \/ CheckPending(w) \/ StoreRebalance(w) \/ RebalanceFails(w)
    <2>1. Base'
      BY <1>2, WorkersStepKeeps, StoreKeeps
    <2>2. WorkerHasPlan'
      BY <1>2, WorkerSteps, PlansStay
    <2> QED
      BY <2>1, <2>2
  <1> QED
    BY <1>1, <1>2

LEMMA NextKeepsBase == ASSUME Base, WorkerHasPlan, [Next]_vars PROVE Base' /\ WorkerHasPlan'
  <1>1. ASSUME NEW w \in Workers, \/ Plan(w) \/ CheckPending(w) \/ SubmitBurn(w)
                                  \/ StoreRebalance(w) \/ RebalanceFails(w)
        PROVE  Base' /\ WorkerHasPlan'
    BY <1>1, WorkersNextKeeps
  <1>2. ASSUME \/ \E c \in Chains : Refresh(c)
               \/ \E c, d \in Chains : Trade(c, d)
        PROVE  Base' /\ WorkerHasPlan'
    <2>1. UNCHANGED <<transfers, worker>>
      BY <1>2 DEF Refresh, Trade
    <2> QED
      BY <1>2, <2>1, BalancesKeep, PlansStay
  <1>3. ASSUME NEW c \in Chains, MineBurn(c) PROVE Base' /\ WorkerHasPlan'
    <2>1. UNCHANGED worker /\ \E t, state : StateSet(t, state)
      BY <1>3, MineBurnFacts DEF Base, MineBurn
    <2> QED
      BY <1>3, <2>1, MineBurnKeeps, PlansStay DEF StateSet
  <1>4. ASSUME NEW t \in DOMAIN transfers, ReceiveMessage(t) PROVE Base' /\ WorkerHasPlan'
    <2>1. UNCHANGED worker /\ StateSet(t, "received")
      BY <1>4, ReceiveFacts DEF Base, ReceiveMessage
    <2> QED
      BY <1>4, <2>1, ReceiveMessageKeeps, PlansStay DEF StateSet
  <1>5. ASSUME NEW l \in Listeners,
               WriteFails(l) \/ Reparse(l)
        PROVE  Base' /\ WorkerHasPlan'
    <2>1. UNCHANGED <<transfers, worker>>
      BY <1>5 DEF WriteFails, Reparse
    <2> QED
      BY <1>5, <2>1, PollsKeep, PlansStay
  <1>6. ASSUME NEW c \in Chains, HandleDepositForBurn(c) \/ HandleMessageReceived(c)
        PROVE  Base' /\ WorkerHasPlan'
    <2>1. UNCHANGED <<transfers, worker>>
      BY <1>6 DEF HandleDepositForBurn, HandleMessageReceived
    <2> QED
      BY <1>6, <2>1, HandlersKeep, PlansStay
  <1>7. ASSUME Restart PROVE Base' /\ WorkerHasPlan'
    <2>1. UNCHANGED transfers /\ \A w \in Workers : worker'[w].pc = "idle"
      BY <1>7 DEF Restart, Idle
    <2> QED
      BY <1>7, <2>1, RestartKeeps, PlansStay
  <1>8. ASSUME UNCHANGED vars PROVE Base' /\ WorkerHasPlan'
    <2>1. UNCHANGED <<balance, cached, worker, rows, transfers, logs, next, startBlock, lost, disturbances>>
      BY <1>8 DEF vars, listenerVars
    <2>2. UNCHANGED <<listenerVars, transfers, logs>>
      BY <2>1 DEF listenerVars
    <2>3. /\ balance \in [Chains -> Nat] /\ cached \in [Chains -> Nat]
          /\ disturbances \in Nat
      BY DEF Base, TypeOK
    <2> QED
      BY <2>1, <2>2, <2>3, StatesStay, WorkersKeep, PlansStay DEF Base
  <1> QED
    BY <1>1, <1>2, <1>3, <1>4, <1>5, <1>6, <1>7, <1>8 DEF Next

\* What the listeners, the database and the chains rely on of each other, with any number
\* of goroutines that call Rebalance.
THEOREM BaseIsKept == Spec => [](Base /\ WorkerHasPlan)
  <1>1. Init => Base /\ WorkerHasPlan
    BY InitIsBase
  <1>2. (Base /\ WorkerHasPlan) /\ [Next]_vars => (Base /\ WorkerHasPlan)'
    BY NextKeepsBase
  <1> QED
    BY <1>1, <1>2, PTL DEF Spec

\* Every plan, row, log and range stays what its type says, whatever fails and however
\* many goroutines call Rebalance.
THEOREM TypeCorrect == Spec => []TypeOK
  BY BaseIsKept, PTL DEF Base

LEMMA NextKeepsIDs ==
    ASSUME Base, [Next]_vars, NEW i \in DOMAIN rows, rows[i].id # NoID
    PROVE  rows'[i].id = rows[i].id
  <1>1. CASE rows' = rows
    BY <1>1
  <1>2. ASSUME NEW w \in Workers, StoreRebalance(w) PROVE rows'[i].id = rows[i].id
    BY <1>2, StoreMoves DEF Base
  <1>3. ASSUME NEW c \in Chains, HandleDepositForBurn(c) PROVE rows'[i].id = rows[i].id
    <2>1. i \notin Initiated(c)
      BY DEF Initiated, Base, RowsFollow
    <2>2. PICK u : u = NextLog(<<"burn", c>>)
      OBVIOUS
    <2>3. rows' = rows \/ \E k \in DOMAIN rows : Initiated(c) = {k} /\ RowSet(k, u, "Pending")
      BY <1>3, <2>2, HandlersSetRows
    <2> QED
      BY <2>1, <2>3 DEF RowSet
  <1>4. ASSUME NEW c \in Chains, HandleMessageReceived(c) PROVE rows'[i].id = rows[i].id
    <2>1. PICK u : u = NextLog(<<"receive", c>>)
      OBVIOUS
    <2>2. rows' = rows \/ \E k \in DOMAIN rows : WithID(u) = {k} /\ RowSet(k, u, "Completed")
      BY <1>4, <2>1, HandlersSetRows
    <2> QED
      BY <2>2 DEF RowSet, WithID
  <1> QED
    BY <1>1, <1>2, <1>3, <1>4
    DEF Next, vars, listenerVars, Refresh, MineBurn, Plan, CheckPending, SubmitBurn, RebalanceFails,
        ReceiveMessage, Trade, WriteFails, Reparse, Restart

\* The request id that ties a row to its transfer is never replaced, however often a burn
\* is seen: HandleDepositForBurn writes rows that are Initiated, which have none.
THEOREM IDsKept == Spec => IDsAreKept
  <1>1. Base /\ [Next]_vars => [\A i \in DOMAIN rows : rows[i].id # NoID => rows'[i].id = rows[i].id]_rows
    BY NextKeepsIDs
  <1> QED
    BY <1>1, BaseIsKept, PTL DEF Spec, IDsAreKept

-----------------------------------------------------------------------------
(* Rows and the money they stand for *)

\* A row that was tied to a burn was tied to one of its own chain.
IDsFollow ==
    \A i \in DOMAIN rows :
        rows[i].id # NoID => transfers[rows[i].id].plan.origin = rows[i].origin

Tied == IDsFollow /\ CompletedWasReceived

\* Transfers are never forgotten, nor called back when they were received.
ReceivedStay ==
    /\ DOMAIN transfers \subseteq DOMAIN transfers'
    /\ \A t \in DOMAIN transfers :
        /\ transfers'[t].plan = transfers[t].plan
        /\ transfers[t].state = "received" => transfers'[t].state = "received"

LEMMA TransfersStay == ASSUME Base, [Next]_vars PROVE ReceivedStay
  <1>1. CASE UNCHANGED transfers
    BY <1>1 DEF ReceivedStay
  <1>2. ASSUME NEW w \in Workers, SubmitBurn(w) PROVE ReceivedStay
    BY <1>2, SubmitBurnMoves DEF Base, ReceivedStay, Grows
  <1>3. ASSUME NEW t \in DOMAIN transfers, NEW state, StateSet(t, state),
               transfers[t].state # "received"
        PROVE  ReceivedStay
    BY <1>3 DEF ReceivedStay, StateSet
  <1>4. ASSUME NEW c \in Chains, MineBurn(c) PROVE ReceivedStay
    BY <1>3, <1>4, MineBurnFacts DEF Base
  <1>5. ASSUME NEW t \in DOMAIN transfers, ReceiveMessage(t) PROVE ReceivedStay
    BY <1>3, <1>5, ReceiveFacts DEF Base
  <1> QED
    BY <1>1, <1>2, <1>4, <1>5
    DEF Next, vars, Refresh, Plan, CheckPending, StoreRebalance, RebalanceFails, Trade,
        WriteFails, Reparse, HandleDepositForBurn, HandleMessageReceived, Restart

\* Rows that stay as they are stay tied.
LEMMA TiedStay == ASSUME Base, Tied, ReceivedStay, rows' = rows PROVE Tied'
  <1>1. \A i \in DOMAIN rows : rows[i].id # NoID => rows[i].id \in DOMAIN transfers
    BY SeqFacts DEF Base, Row
  <1>2. \A i \in DOMAIN rows : rows[i].status = "Completed" => rows[i].id # NoID
    BY DEF Base, RowsFollow
  <1>3. IDsFollow'
    BY <1>1 DEF Tied, IDsFollow, ReceivedStay
  <1>4. CompletedWasReceived'
    BY <1>1, <1>2 DEF Tied, CompletedWasReceived, ReceivedStay
  <1> QED
    BY <1>3, <1>4 DEF Tied

LEMMA StoreKeepsTied == ASSUME Base, Tied, NEW w \in Workers, StoreRebalance(w) PROVE Tied'
  <1>1. PICK n, row :
            /\ DOMAIN rows' = DOMAIN rows \cup {n} /\ n \notin DOMAIN rows
            /\ \A i \in DOMAIN rows : rows'[i] = rows[i]
            /\ rows'[n] = row /\ row.id = NoID /\ row.status = "Initiated"
    <2>1. PICK n : n = Len(rows) + 1
      OBVIOUS
    <2>2. PICK row : row = [id |-> NoID, origin |-> worker[w].plan.origin,
                            dest |-> worker[w].plan.dest, status |-> "Initiated",
                            transfer |-> worker[w].transfer]
      OBVIOUS
    <2>3. row.id = NoID /\ row.status = "Initiated"
      BY <2>2
    <2> QED
      BY <2>1, <2>2, <2>3, StoreMoves DEF Base
  <1>2. transfers' = transfers
    BY DEF StoreRebalance
  <1>3. IDsFollow'
    BY <1>1, <1>2 DEF Tied, IDsFollow
  <1>4. CompletedWasReceived'
    BY <1>1, <1>2 DEF Tied, CompletedWasReceived
  <1> QED
    BY <1>3, <1>4 DEF Tied

\* The burn of a transfer of the row's chain ties it, and the receipt of a transfer that
\* no other row is tied to completes it.
LEMMA HandlersKeepTied ==
    ASSUME Base, Tied, NEW c \in Chains, HandleDepositForBurn(c) \/ HandleMessageReceived(c)
    PROVE  Tied'
  <1>1. transfers' = transfers /\ ReceivedStay
    BY DEF HandleDepositForBurn, HandleMessageReceived, ReceivedStay
  <1>2. ASSUME NEW i \in DOMAIN rows, NEW u \in DOMAIN transfers, Initiated(c) = {i},
               RowSet(i, u, "Pending"), transfers[u].plan.origin = c
        PROVE  Tied'
    <2>1. rows[i].origin = c /\ rows[i].status = "Initiated"
      BY <1>2 DEF Initiated
    <2>2. IDsFollow'
      <3>1. rows'[i].id = u /\ rows'[i].origin = c
        BY <1>2, <2>1 DEF RowSet
      <3>2. DOMAIN rows' = DOMAIN rows /\ \A k \in DOMAIN rows : k # i => rows'[k] = rows[k]
        BY <1>2 DEF RowSet
      <3> QED
        BY <1>1, <1>2, <3>1, <3>2 DEF Tied, IDsFollow
    <2>3. CompletedWasReceived'
      BY <1>1, <1>2 DEF Tied, CompletedWasReceived, RowSet
    <2> QED
      BY <2>2, <2>3 DEF Tied
  <1>3. ASSUME NEW i \in DOMAIN rows, NEW u \in DOMAIN transfers, WithID(u) = {i},
               RowSet(i, u, "Completed"), transfers[u].state = "received"
        PROVE  Tied'
    <2>1. rows[i].id = u /\ \A k \in DOMAIN rows : rows[k].id = u => k = i
      BY <1>3 DEF WithID
    <2>2. u # NoID
      BY SeqFacts DEF NoID, Base
    <2>3. transfers[u].plan.origin = rows[i].origin
      BY <2>1, <2>2 DEF Tied, IDsFollow
    <2>4. IDsFollow'
      BY <1>1, <1>3, <2>1 DEF Tied, IDsFollow, RowSet
    <2>5. CompletedWasReceived'
      <3>1. rows'[i].id = u /\ rows'[i].origin = rows[i].origin
        BY <1>3 DEF RowSet
      <3>2. DOMAIN rows' = DOMAIN rows /\ \A k \in DOMAIN rows : k # i => rows'[k] = rows[k]
        BY <1>3 DEF RowSet
      <3>3. \A k \in DOMAIN rows : rows'[k].id = u => k = i
        BY <2>1, <3>2
      <3> SUFFICES ASSUME NEW k \in DOMAIN rows, rows'[k].status = "Completed"
                   PROVE  /\ transfers[rows'[k].id].state = "received"
                          /\ transfers[rows'[k].id].plan.origin = rows'[k].origin
                          /\ \A n \in DOMAIN rows :
                                rows'[n].status = "Completed" /\ rows'[n].id = rows'[k].id => n = k
        BY <1>1, <3>2 DEF CompletedWasReceived
      <3>4. CASE k = i
        BY <1>3, <2>3, <3>1, <3>3, <3>4
      <3>5. CASE k # i
        <4>1. rows'[k] = rows[k] /\ rows'[k].id # u
          BY <3>2, <3>3, <3>5
        <4> QED
          BY <3>1, <3>2, <4>1 DEF Tied, CompletedWasReceived
      <3> QED
        BY <3>4, <3>5
    <2> QED
      BY <2>4, <2>5 DEF Tied
  <1>4. CASE HandleDepositForBurn(c)
    <2>1. PICK u \in DOMAIN transfers :
            /\ transfers[u].plan.origin = c
            /\ rows' = rows \/ \E i \in DOMAIN rows : Initiated(c) = {i} /\ RowSet(i, u, "Pending")
      BY <1>4, HandlersSetRows
    <2> QED
      BY <1>1, <1>2, <2>1, TiedStay
  <1>5. CASE HandleMessageReceived(c)
    <2>1. PICK u \in DOMAIN transfers :
            /\ transfers[u].state = "received"
            /\ rows' = rows \/ \E i \in DOMAIN rows : WithID(u) = {i} /\ RowSet(i, u, "Completed")
      BY <1>5, HandlersSetRows
    <2> QED
      BY <1>1, <1>3, <2>1, TiedStay
  <1> QED
    BY <1>4, <1>5

LEMMA NextKeepsTied == ASSUME Base, Tied, [Next]_vars PROVE Tied'
  <1>1. ReceivedStay
    BY TransfersStay
  <1>2. CASE rows' = rows
    BY <1>1, <1>2, TiedStay
  <1>3. ASSUME NEW w \in Workers, StoreRebalance(w) PROVE Tied'
    BY <1>3, StoreKeepsTied
  <1>4. ASSUME NEW c \in Chains, HandleDepositForBurn(c) \/ HandleMessageReceived(c)
        PROVE  Tied'
    BY <1>4, HandlersKeepTied
  <1> QED
    BY <1>2, <1>3, <1>4
    DEF Next, vars, listenerVars, Refresh, MineBurn, Plan, CheckPending, SubmitBurn,
        RebalanceFails, ReceiveMessage, Trade, WriteFails, Reparse, Restart

LEMMA TiedIsKept == Spec => []Tied
  <1>1. Init => Tied
    <2> SUFFICES ASSUME Init PROVE Tied
      OBVIOUS
    <2>1. DOMAIN rows = {}
      BY DEF Init
    <2> QED
      BY <2>1 DEF Tied, IDsFollow, CompletedWasReceived
  <1>2. Base /\ Tied /\ [Next]_vars => Tied'
    BY NextKeepsTied
  <1> QED
    BY <1>1, <1>2, BaseIsKept, PTL DEF Spec

\* A row is Completed for money of its chain that has arrived, and no other row is for the
\* same: the receipt completes a row only if it alone has the id, and a burn that is seen
\* again ties a row that is Initiated, which the receipt then does not match alone.
THEOREM CompletedIsReceived == Spec => []CompletedWasReceived
  BY TiedIsKept, PTL DEF Tied

-----------------------------------------------------------------------------
(* How many transfers are in flight *)

\* The rows of chain c that are not Completed, and the workers that found none.
Open(c) == {i \in DOMAIN rows : rows[i].origin = c /\ rows[i].status # "Completed"}
Active(c) ==
    {w \in Workers : worker[w].pc \in {"execute", "submitted"} /\ worker[w].plan.origin = c}

\* A worker that executes a plan either finds rows or is one of those that found none.
Room ==
    \A c \in Chains :
        Cardinality(Open(c)) + Cardinality(Active(c)) <= Cardinality(Workers)

\* All of these sets are finite.
LEMMA CountsAreNat ==
    ASSUME TypeOK, NEW c \in Chains
    PROVE  /\ IsFiniteSet(DOMAIN rows) /\ IsFiniteSet(DOMAIN transfers)
           /\ IsFiniteSet(Open(c)) /\ Cardinality(Open(c)) \in Nat
           /\ IsFiniteSet(Active(c)) /\ Cardinality(Active(c)) \in Nat
           /\ Cardinality(Active(c)) <= Cardinality(Workers)
           /\ IsFiniteSet(Workers) /\ Cardinality(Workers) \in Nat
  <1>1. IsFiniteSet(DOMAIN rows) /\ IsFiniteSet(DOMAIN transfers)
    BY SeqFacts, FS_Interval
  <1>2. Open(c) \in SUBSET DOMAIN rows /\ Active(c) \in SUBSET Workers
    BY DEF Open, Active
  <1>3. IsFiniteSet(Workers)
    BY DEF RebalancerAssumption
  <1> QED
    BY <1>1, <1>2, <1>3, FS_Subset, FS_CardinalityType

\* Room is kept where no row opens and no worker becomes active.
LEMMA FewerKeepRoom ==
    ASSUME TypeOK, TypeOK', Room,
           \A c \in Chains : Open(c)' \subseteq Open(c) /\ Active(c)' \subseteq Active(c)
    PROVE  Room'
  <1> SUFFICES ASSUME NEW c \in Chains
               PROVE  Cardinality(Open(c)') + Cardinality(Active(c)') <= Cardinality(Workers)
    BY DEF Room
  <1>1. PICK R, S, A, B : R = Open(c) /\ S = Open(c)' /\ A = Active(c) /\ B = Active(c)'
    OBVIOUS
  <1>2. /\ IsFiniteSet(R) /\ IsFiniteSet(A) /\ S \in SUBSET R /\ B \in SUBSET A
        /\ Cardinality(R) \in Nat /\ Cardinality(A) \in Nat /\ Cardinality(Workers) \in Nat
        /\ Cardinality(R) + Cardinality(A) <= Cardinality(Workers)
    BY <1>1, CountsAreNat DEF Room
  <1>3. /\ Cardinality(S) <= Cardinality(R) /\ Cardinality(B) <= Cardinality(A)
        /\ Cardinality(S) \in Nat /\ Cardinality(B) \in Nat
    BY <1>2, FS_Subset, FS_CardinalityType
  <1> QED
    BY <1>1, <1>2, <1>3

\* A worker becomes active where no row is open.
LEMMA CheckKeepsRoom ==
    ASSUME Base, Base', Room, NEW w \in Workers, CheckPending(w)
    PROVE  Room'
  <1>1. UNCHANGED rows
    BY DEF CheckPending, listenerVars
  <1>2. \A c \in Chains : Open(c)' = Open(c)
    BY <1>1 DEF Open
  <1>3. CASE Moves(w, Idle)
    <2>1. \A c \in Chains : Active(c)' \subseteq Active(c)
      BY <1>3 DEF Active, Moves, Idle
    <2> QED
      BY <1>2, <2>1, FewerKeepRoom DEF Base
  <1>4. CASE /\ ~HasPendingRebalance(worker[w].plan)
             /\ Moves(w, [pc |-> "execute", plan |-> worker[w].plan])
    <2> SUFFICES ASSUME NEW c \in Chains
                 PROVE  Cardinality(Open(c)') + Cardinality(Active(c)') <= Cardinality(Workers)
      BY DEF Room
    <2>1. CASE c = worker[w].plan.origin
      <3>1. Open(c) = {}
        <4> SUFFICES ASSUME NEW i \in DOMAIN rows, rows[i].origin = c, rows[i].status # "Completed"
                     PROVE  FALSE
          BY DEF Open
        <4>1. rows[i].status \in {"Initiated", "Pending"}
          BY SeqFacts DEF Base, Row, Status
        <4> QED
          BY <1>4, <2>1, <4>1 DEF HasPendingRebalance
      <3>2. Cardinality(Open(c)') = 0
        BY <1>2, <3>1, FS_EmptySet
      <3>3. /\ Cardinality(Active(c)') <= Cardinality(Workers)
            /\ Cardinality(Active(c)') \in Nat /\ Cardinality(Workers) \in Nat
        <4>1. Active(c)' \in SUBSET Workers
          BY DEF Active
        <4>2. IsFiniteSet(Workers)
          BY DEF RebalancerAssumption
        <4> QED
          BY <4>1, <4>2, FS_Subset, FS_CardinalityType
      <3> QED
        BY <3>2, <3>3
    <2>2. CASE c # worker[w].plan.origin
      <3>1. Active(c)' \subseteq Active(c)
        <4>1. PICK p : p = worker[w].plan
          OBVIOUS
        <4>2. worker'[w].plan = p
          BY <1>4, <4>1 DEF Moves
        <4> SUFFICES ASSUME NEW v \in Active(c)' PROVE v \in Active(c)
          OBVIOUS
        <4>3. v # w
          BY <2>2, <4>1, <4>2 DEF Active
        <4> QED
          BY <1>4, <4>3 DEF Active, Moves
      <3>2. PICK A, B : A = Active(c) /\ B = Active(c)'
        OBVIOUS
      <3>3. /\ IsFiniteSet(A) /\ B \in SUBSET A /\ Cardinality(A) \in Nat
            /\ Cardinality(Open(c)) \in Nat /\ Cardinality(Workers) \in Nat
            /\ Cardinality(Open(c)) + Cardinality(A) <= Cardinality(Workers)
        BY <3>1, <3>2, CountsAreNat DEF Room, Base
      <3>4. Cardinality(B) <= Cardinality(A) /\ Cardinality(B) \in Nat
        BY <3>3, FS_Subset, FS_CardinalityType
      <3> QED
        BY <1>2, <3>2, <3>3, <3>4
    <2> QED
      BY <2>1, <2>2
  <1> QED
    BY <1>3, <1>4, CheckPendingMoves DEF Base

\* The row of an active worker opens as the worker is done.
LEMMA StoreKeepsRoom ==
    ASSUME Base, Room, NEW w \in Workers, StoreRebalance(w)
    PROVE  Room'
  <1>1. PICK n, row, o :
            /\ DOMAIN rows' = DOMAIN rows \cup {n} /\ n \notin DOMAIN rows
            /\ \A i \in DOMAIN rows : rows'[i] = rows[i]
            /\ rows'[n] = row /\ row.status = "Initiated" /\ row.origin = o
            /\ o = worker[w].plan.origin
    <2>1. PICK n, o : n = Len(rows) + 1 /\ o = worker[w].plan.origin
      OBVIOUS
    <2>2. PICK row : row = [id |-> NoID, origin |-> worker[w].plan.origin,
                            dest |-> worker[w].plan.dest, status |-> "Initiated",
                            transfer |-> worker[w].transfer]
      OBVIOUS
    <2>3. row.status = "Initiated" /\ row.origin = o
      BY <2>1, <2>2
    <2> QED
      BY <2>1, <2>2, <2>3, StoreMoves DEF Base
  <1>2. At(w, "submitted") /\ Moves(w, Idle)
    BY StoreMoves DEF Base
  <1> SUFFICES ASSUME NEW c \in Chains
               PROVE  Cardinality(Open(c)') + Cardinality(Active(c)') <= Cardinality(Workers)
    BY DEF Room
  <1>3. PICK R, S, A, B : R = Open(c) /\ S = Open(c)' /\ A = Active(c) /\ B = Active(c)'
    OBVIOUS
  <1>4. /\ IsFiniteSet(R) /\ IsFiniteSet(A)
        /\ Cardinality(R) \in Nat /\ Cardinality(A) \in Nat /\ Cardinality(Workers) \in Nat
        /\ Cardinality(R) + Cardinality(A) <= Cardinality(Workers)
    BY <1>3, CountsAreNat DEF Room, Base
  <1>5. B = A \ {w}
    BY <1>2, <1>3 DEF Active, Moves, Idle
  <1>6. CASE c = o
    <2>1. S = R \cup {n} /\ n \notin R
      BY <1>1, <1>3, <1>6 DEF Open
    <2>2. w \in A
      BY <1>1, <1>2, <1>3, <1>6 DEF Active, At
    <2>3. Cardinality(S) = Cardinality(R) + 1
      BY <1>4, <2>1, FS_AddElement
    <2>4. Cardinality(B) = Cardinality(A) - 1
      BY <1>4, <1>5, <2>2, FS_RemoveElement
    <2> QED
      BY <1>3, <1>4, <2>3, <2>4
  <1>7. CASE c # o
    <2>1. S = R
      BY <1>1, <1>3, <1>7 DEF Open
    <2>2. Cardinality(B) <= Cardinality(A) /\ Cardinality(B) \in Nat
      BY <1>4, <1>5, FS_Subset, FS_CardinalityType
    <2> QED
      BY <1>3, <1>4, <2>1, <2>2
  <1> QED
    BY <1>6, <1>7

LEMMA NextKeepsRoom == ASSUME Base, Base', Room, [Next]_vars PROVE Room'
  <1>1. ASSUME rows' = rows, \A c \in Chains : Active(c)' \subseteq Active(c)
        PROVE  Room'
    <2>1. \A c \in Chains : Open(c)' \subseteq Open(c)
      BY <1>1 DEF Open
    <2> QED
      BY <1>1, <2>1, FewerKeepRoom DEF Base
  <1>2. ASSUME UNCHANGED <<rows, worker>> PROVE Room'
    BY <1>1, <1>2 DEF Active
  <1>3. ASSUME NEW w \in Workers, Plan(w) PROVE Room'
    <2>1. PICK p : Moves(w, [pc |-> "planned", plan |-> p])
      BY <1>3, PlanMoves DEF Base
    <2>2. rows' = rows
      BY <1>3 DEF Plan, listenerVars
    <2> QED
      BY <1>1, <2>1, <2>2 DEF Active, Moves
  <1>4. ASSUME NEW w \in Workers, SubmitBurn(w) PROVE Room'
    <2>1. PICK p, n : /\ p = worker[w].plan
                      /\ At(w, "execute") /\ Moves(w, [pc |-> "submitted", plan |-> p, transfer |-> n])
      BY <1>4, SubmitBurnMoves DEF Base
    <2>2. worker'[w].plan = p
      BY <2>1 DEF Moves
    <2>3. rows' = rows
      BY <1>4 DEF SubmitBurn, listenerVars
    <2>4. ASSUME NEW c \in Chains, NEW v \in Active(c)' PROVE v \in Active(c)
      BY <2>1, <2>2, <2>4 DEF Active, Moves, At
    <2> QED
      BY <1>1, <2>3, <2>4
  <1>5. ASSUME NEW w \in Workers, RebalanceFails(w) PROVE Room'
    <2>1. Moves(w, Idle)
      BY <1>5, WorkerMoves DEF Base, RebalanceFails, Return
    <2>2. rows' = rows
      BY <1>5 DEF RebalanceFails, listenerVars
    <2> QED
      BY <1>1, <2>1, <2>2 DEF Active, Moves, Idle
  <1>6. ASSUME Restart PROVE Room'
    <2>1. rows' = rows /\ \A w \in Workers : worker'[w].pc = "idle"
      BY <1>6 DEF Restart, Idle
    <2> QED
      BY <1>1, <2>1 DEF Active
  <1>7. ASSUME NEW c \in Chains, HandleDepositForBurn(c) \/ HandleMessageReceived(c)
        PROVE  Room'
    <2>1. UNCHANGED worker
      BY <1>7 DEF HandleDepositForBurn, HandleMessageReceived
    <2>2. ASSUME NEW i \in DOMAIN rows, NEW id, NEW status, RowSet(i, id, status),
                 rows[i].status # "Completed"
          PROVE  \A d \in Chains : Open(d)' \subseteq Open(d)
      BY <2>2 DEF Open, RowSet
    <2>3. ASSUME NEW i \in DOMAIN rows, NEW id, RowSet(i, id, "Completed")
          PROVE  \A d \in Chains : Open(d)' \subseteq Open(d)
      BY <2>3 DEF Open, RowSet
    <2>4. \A i \in Initiated(c) : rows[i].status # "Completed"
      BY DEF Initiated
    <2>5. \A d \in Chains : Open(d)' \subseteq Open(d)
      <3>1. CASE rows' = rows
        BY <3>1 DEF Open
      <3> QED
        BY <1>7, <2>2, <2>3, <2>4, <3>1, HandlersSetRows
    <2> QED
      BY <2>1, <2>5, FewerKeepRoom DEF Active, Base
  <1>8. ASSUME NEW w \in Workers, CheckPending(w) \/ StoreRebalance(w) PROVE Room'
    BY <1>8, CheckKeepsRoom, StoreKeepsRoom
  <1> QED
    BY <1>2, <1>3, <1>4, <1>5, <1>6, <1>7, <1>8
    DEF Next, vars, listenerVars, Refresh, MineBurn, ReceiveMessage, Trade, WriteFails, Reparse

\* A function has no more values than arguments.
LEMMA ImageIsSmaller ==
    ASSUME NEW S, IsFiniteSet(S), NEW f, DOMAIN f = S, f = [x \in S |-> f[x]]
    PROVE  IsFiniteSet({f[x] : x \in S}) /\ Cardinality({f[x] : x \in S}) <= Cardinality(S)
  <1>1. PICK T : T = {f[x] : x \in S}
    OBVIOUS
  <1>2. f \in Surjection(S, T)
    BY <1>1 DEF Surjection
  <1> QED
    BY <1>1, <1>2, FS_Surjection

LEMMA DisjointAdd ==
    ASSUME NEW S, NEW T, IsFiniteSet(S), IsFiniteSet(T), S \cap T = {}
    PROVE  Cardinality(S \cup T) = Cardinality(S) + Cardinality(T)
  <1>1. Cardinality(S \cup T) = Cardinality(S) + Cardinality(T) - Cardinality(S \cap T)
    BY FS_Union
  <1>2. Cardinality(S \cap T) = 0
    BY FS_EmptySet
  <1>3. Cardinality(S) \in Nat /\ Cardinality(T) \in Nat
    BY FS_CardinalityType
  <1> QED
    BY <1>1, <1>2, <1>3

\* As long as every transfer has its row or its worker, the received ones make up for the
\* rows that are Completed, and the others for those in flight.
LEMMA RoomIsEnough ==
    ASSUME Base, WorkerHasPlan, Tied, Room
    PROVE  FewInFlight
  <1> SUFFICES ASSUME AllRecorded, NEW c \in Chains
               PROVE  Cardinality({t \in InFlight : transfers[t].plan.origin = c}) <= Cardinality(Workers)
    BY DEF FewInFlight
  <1>1. PICK flight, received, all :
            /\ flight = {t \in InFlight : transfers[t].plan.origin = c}
            /\ received = {t \in DOMAIN transfers :
                            transfers[t].plan.origin = c /\ transfers[t].state = "received"}
            /\ all = {t \in DOMAIN transfers : transfers[t].plan.origin = c}
    OBVIOUS
  <1>2. PICK stored, open, done, busy, active :
            /\ stored = {i \in DOMAIN rows : rows[i].origin = c}
            /\ open = Open(c)
            /\ done = {i \in DOMAIN rows : rows[i].origin = c /\ rows[i].status = "Completed"}
            /\ busy = {w \in Workers : At(w, "submitted") /\ worker[w].plan.origin = c}
            /\ active = Active(c)
    OBVIOUS
  <1>3. /\ IsFiniteSet(DOMAIN rows) /\ IsFiniteSet(DOMAIN transfers) /\ IsFiniteSet(Workers)
        /\ IsFiniteSet(active) /\ IsFiniteSet(open) /\ Cardinality(Workers) \in Nat
        /\ Cardinality(open) + Cardinality(active) <= Cardinality(Workers)
    BY <1>2, CountsAreNat DEF Room, Base
  <1>4. /\ all \in SUBSET DOMAIN transfers /\ flight \in SUBSET all /\ received \in SUBSET all
        /\ stored \in SUBSET DOMAIN rows /\ done \in SUBSET stored
        /\ busy \in SUBSET Workers /\ busy \in SUBSET active
    BY <1>1, <1>2 DEF InFlight, Active, At
  <1>5. /\ IsFiniteSet(all) /\ IsFiniteSet(stored) /\ IsFiniteSet(busy)
        /\ IsFiniteSet(flight) /\ IsFiniteSet(received) /\ IsFiniteSet(done)
        /\ Cardinality(busy) <= Cardinality(active)
    BY <1>3, <1>4, FS_Subset
  <1>6. /\ Cardinality(all) \in Nat /\ Cardinality(stored) \in Nat /\ Cardinality(busy) \in Nat
        /\ Cardinality(flight) \in Nat /\ Cardinality(received) \in Nat
        /\ Cardinality(done) \in Nat /\ Cardinality(open) \in Nat /\ Cardinality(active) \in Nat
    BY <1>3, <1>5, FS_CardinalityType
  <1>7. Cardinality(flight) + Cardinality(received) <= Cardinality(all)
    <2>1. flight \cap received = {} /\ flight \cup received \in SUBSET all
      BY <1>1, <1>4 DEF InFlight
    <2>2. Cardinality(flight \cup received) = Cardinality(flight) + Cardinality(received)
      BY <1>5, <2>1, DisjointAdd
    <2>3. Cardinality(flight \cup received) <= Cardinality(all)
      BY <1>5, <2>1, FS_Subset
    <2> QED
      BY <2>2, <2>3
  <1>8. Cardinality(stored) = Cardinality(open) + Cardinality(done)
    <2>1. open \cap done = {} /\ open \cup done = stored
      BY <1>2 DEF Open
    <2> QED
      BY <1>3, <1>5, <2>1, DisjointAdd
  <1>9. Cardinality(done) <= Cardinality(received)
    <2>1. \A i \in done : rows[i].id \in received
      <3> SUFFICES ASSUME NEW i \in done PROVE rows[i].id \in received
        OBVIOUS
      <3>1. /\ i \in DOMAIN rows /\ rows[i].status = "Completed" /\ rows[i].origin = c
            /\ transfers[rows[i].id].state = "received"
            /\ transfers[rows[i].id].plan.origin = c
        BY <1>2 DEF Tied, CompletedWasReceived
      <3>2. rows[i].id \in DOMAIN transfers
        BY <3>1, SeqFacts DEF Base, RowsFollow, Row
      <3> QED
        BY <1>1, <3>1, <3>2
    <2>2. \A i, k \in done : rows[i].id = rows[k].id => i = k
      BY <1>2 DEF Tied, CompletedWasReceived
    <2>3. PICK f : f = [i \in done |-> rows[i].id]
      OBVIOUS
    <2>4. f \in Injection(done, received)
      BY <2>1, <2>2, <2>3 DEF Injection, IsInjective
    <2> QED
      BY <1>5, <2>4, FS_Injection
  <1>10. Cardinality(all) <= Cardinality(stored) + Cardinality(busy)
    <2>1. PICK f, g : /\ f = [i \in stored |-> rows[i].transfer]
                      /\ g = [w \in busy |-> worker[w].transfer]
      OBVIOUS
    <2>2. PICK F, G : F = {f[i] : i \in stored} /\ G = {g[w] : w \in busy}
      OBVIOUS
    <2>3. /\ IsFiniteSet(F) /\ Cardinality(F) <= Cardinality(stored)
          /\ IsFiniteSet(G) /\ Cardinality(G) <= Cardinality(busy)
      BY <1>5, <2>1, <2>2, ImageIsSmaller
    <2>4. all \in SUBSET (F \cup G)
      <3> SUFFICES ASSUME NEW t \in all PROVE t \in F \cup G
        OBVIOUS
      <3>1. t \in DOMAIN transfers /\ transfers[t].plan.origin = c
        BY <1>1
      <3>2. CASE Recorded(t)
        <4>1. PICK i \in DOMAIN rows : rows[i].transfer = t
          BY <3>2 DEF Recorded
        <4>2. i \in stored
          BY <1>2, <3>1, <4>1 DEF Base, RowsFollow
        <4>3. f[i] = t
          BY <2>1, <4>1, <4>2
        <4> QED
          BY <2>2, <4>2, <4>3
      <3>3. CASE BeingRecorded(t)
        <4>1. PICK w \in Workers : At(w, "submitted") /\ worker[w].transfer = t
          BY <3>3 DEF BeingRecorded
        <4>2. w \in busy
          BY <1>2, <3>1, <4>1 DEF WorkerHasPlan
        <4>3. g[w] = t
          BY <2>1, <4>1, <4>2
        <4> QED
          BY <2>2, <4>2, <4>3
      <3> QED
        BY <3>1, <3>2, <3>3 DEF AllRecorded
    <2>5. /\ IsFiniteSet(F \cup G) /\ IsFiniteSet(F \cap G)
          /\ Cardinality(F \cup G) = Cardinality(F) + Cardinality(G) - Cardinality(F \cap G)
      BY <2>3, FS_Union, FS_Intersection
    <2>6. /\ Cardinality(F) \in Nat /\ Cardinality(G) \in Nat /\ Cardinality(F \cap G) \in Nat
          /\ Cardinality(F \cup G) \in Nat /\ Cardinality(all) <= Cardinality(F \cup G)
      BY <2>3, <2>4, <2>5, FS_Subset, FS_CardinalityType
    <2> QED
      BY <1>6, <2>3, <2>5, <2>6
  <1> QED
    BY <1>1, <1>3, <1>5, <1>6, <1>7, <1>8, <1>9, <1>10

\* What the unlocked check is worth, with any number of goroutines: no more transfers of a
\* chain are in flight than there are goroutines that call Rebalance, if each has its row.
THEOREM FewAreInFlight == Spec => []FewInFlight
  <1>1. Init => Room
    <2> SUFFICES ASSUME Init, NEW c \in Chains
                 PROVE  Cardinality(Open(c)) + Cardinality(Active(c)) <= Cardinality(Workers)
      BY DEF Room
    <2>1. DOMAIN rows = {} /\ worker = [w \in Workers |-> Idle]
      BY DEF Init
    <2>2. Open(c) = {} /\ Active(c) = {}
      BY <2>1 DEF Open, Active, Idle
    <2>3. Cardinality(Workers) \in Nat
      BY FS_CardinalityType DEF RebalancerAssumption
    <2> QED
      BY <2>2, <2>3, FS_EmptySet
  <1>2. Base /\ Base' /\ Room /\ [Next]_vars => Room'
    BY NextKeepsRoom
  <1>3. Base /\ WorkerHasPlan /\ Tied /\ Room => FewInFlight
    BY RoomIsEnough
  <1> QED
    BY <1>1, <1>2, <1>3, BaseIsKept, TiedIsKept, PTL DEF Spec
=============================================================================
