------------------------------ MODULE Rebalancer ------------------------------
(***************************************************************************)
(* How the RFQ relayer moves a token between its chains: Rebalance plans   *)
(* from cached balances, asks the database whether the path is free, burns *)
(* the token through the transaction submitter and stores a row; listeners *)
(* take the row to Pending and to Completed when they see the burn and the *)
(* mint.  Circle's contracts are modelled from the events the code reads;  *)
(* synapse.go does the same with one contract for both events.             *)
(***************************************************************************)
EXTENDS Integers, Sequences, FiniteSetsExt, SequencesExt

CONSTANTS
    Chains,
    Workers,          \* goroutines that call Rebalance: the interval loop, the indexers
    MaintenancePct, InitialPct, MinRebalanceAmount, MaxRebalanceAmount,
    Funds,            \* per chain, the balance at the start
    MaxSteps          \* bound: transfers, trades and faults together

ASSUME RebalancerAssumption ==
    /\ IsFiniteSet(Chains) /\ IsFiniteSet(Workers)
    /\ MaintenancePct \in [Chains -> 0..100] /\ InitialPct \in [Chains -> 0..100]
    /\ MinRebalanceAmount \in [Chains -> Nat] /\ MaxRebalanceAmount \in [Chains -> Nat]
    /\ Funds \in [Chains -> Nat]
    /\ MaxSteps \in Nat

VARIABLES
    balance,     \* per chain, the token the relayer owns there
    cached,      \* tokens[chain].Balance: what refreshBalances read last
    worker,      \* per worker, where it is in Rebalance, with its plan
    rows,        \* the rebalance table; id is NoID until a burn is seen
    transfers,   \* the burns submitted, in order, each with its plan and its state
    logs,        \* per chain, the events of Circle's contracts, each in a block of its own;
                 \* an index in transfers stands for the request id, which Circle makes unique
    next,        \* per contract and chain, the next log that its listener handles
    startBlock,  \* per chain, the log from which its listeners started
    lost,        \* history: events that came to the handler and changed no row, or that a
                 \* restart left out
    disturbances \* trades and faults so far

listenerVars == <<rows, next, startBlock, lost>>
vars == <<balance, cached, worker, listenerVars, transfers, logs, disturbances>>

Idle == [pc |-> "idle"]
NoID == 0
Status == {"Initiated", "Pending", "Completed"}
Plans == [origin : Chains, dest : Chains, amount : Nat \ {0}]
Events == {"burn", "receive"}
Listeners == Events \X Chains
WithinBound == Len(transfers) + disturbances < MaxSteps
Disturbance == WithinBound /\ disturbances' = disturbances + 1

Init ==
    /\ balance = Funds /\ cached = Funds
    /\ worker = [w \in Workers |-> Idle]
    /\ rows = <<>> /\ transfers = <<>>
    /\ logs = [c \in Chains |-> <<>>]
    /\ next = [l \in Listeners |-> 1] /\ startBlock = [c \in Chains |-> 1]
    /\ lost = {}
    /\ disturbances = 0

-----------------------------------------------------------------------------
(* Rebalance *)

\* refreshBalances fetches the balances of each chain concurrently.
Refresh(c) ==
    /\ cached' = [cached EXCEPT ![c] = balance[c]]
    /\ UNCHANGED <<balance, worker, listenerVars, transfers, logs, disturbances>>

Share(pct, total) == (pct * total) \div 100

\* getRebalance, called for chain c: from the richest chain to the poorest one
\* (the first of the map if all are equal), what exceeds the origin's initial share.
Rebalances(c) ==
    LET total == MapThenSumSet(LAMBDA d : cached[d], Chains)
        surplus(d) == cached[d] - Share(InitialPct[d], total)
    IN  {p \in [origin : Chains, dest : Chains, amount : 1..total] :
            /\ \A d \in Chains : cached[p.dest] <= cached[d] /\ cached[d] <= cached[p.origin]
            /\ cached[p.dest] = cached[p.origin] => p.dest = p.origin
            /\ cached[p.dest] <= Share(MaintenancePct[c], total)
            /\ surplus(p.origin) >= MinRebalanceAmount[p.origin]
            /\ p.amount = Min({surplus(p.origin), MaxRebalanceAmount[p.origin]})}

At(w, pc) == worker[w].pc = pc
Goto(w, pc) == worker' = [worker EXCEPT ![w].pc = pc]
Return(w) == worker' = [worker EXCEPT ![w] = Idle]

Plan(w) ==
    /\ At(w, "idle")
    /\ \E c \in Chains : \E p \in Rebalances(c) :
           worker' = [worker EXCEPT ![w] = [pc |-> "planned", plan |-> p]]
    /\ UNCHANGED <<balance, cached, listenerVars, transfers, logs, disturbances>>

MutantHasPendingRebalance(p) ==
    \E i \in DOMAIN rows :
        /\ rows[i].status = "Pending"
        /\ {rows[i].origin, rows[i].dest} \cap {p.origin, p.dest} # {}
HasPendingRebalance(p) ==
    \E i \in DOMAIN rows :
        /\ rows[i].status \in {"Initiated", "Pending"}
        /\ {rows[i].origin, rows[i].dest} \cap {p.origin, p.dest} # {}

CheckPending(w) ==
    /\ At(w, "planned")
    /\ IF HasPendingRebalance(worker[w].plan) THEN Return(w) ELSE Goto(w, "execute")
    /\ UNCHANGED <<balance, cached, listenerVars, transfers, logs, disturbances>>

\* Execute up to SubmitTransaction, which queues the burn.
SubmitBurn(w) ==
    /\ At(w, "execute")
    /\ WithinBound
    /\ transfers' = Append(transfers, [plan |-> worker[w].plan, state |-> "queued"])
    /\ worker' = [worker EXCEPT ![w] = [pc |-> "submitted", plan |-> @.plan,
                                        transfer |-> Len(transfers) + 1]]
    /\ UNCHANGED <<balance, cached, listenerVars, logs, disturbances>>

\* The rest of Execute.  The transfer is for the properties: the row has no id yet.
StoreRebalance(w) ==
    /\ At(w, "submitted")
    /\ rows' = Append(rows, [id |-> NoID, origin |-> worker[w].plan.origin,
                             dest |-> worker[w].plan.dest, status |-> "Initiated",
                             transfer |-> worker[w].transfer])
    /\ Return(w)
    /\ UNCHANGED <<balance, cached, transfers, logs, next, startBlock, lost, disturbances>>

\* The database or the submitter returns an error, and Rebalance does too.
RebalanceFails(w) ==
    /\ ~At(w, "idle")
    /\ Disturbance
    /\ Return(w)
    /\ UNCHANGED <<balance, cached, listenerVars, transfers, logs>>

-----------------------------------------------------------------------------
(* The chains *)

Queued(c) == {t \in DOMAIN transfers : transfers[t].plan.origin = c /\ transfers[t].state = "queued"}

\* The oldest burn queued on a chain is mined.
MineBurn(c) ==
    /\ Queued(c) # {}
    /\ LET t == Min(Queued(c))
           amount == transfers[t].plan.amount
       IN  IF amount <= balance[c]
           THEN /\ balance' = [balance EXCEPT ![c] = @ - amount]
                /\ transfers' = [transfers EXCEPT ![t].state = "burnt"]
                /\ logs' = [logs EXCEPT ![c] = Append(@, [event |-> "burn", transfer |-> t])]
           ELSE /\ transfers' = [transfers EXCEPT ![t].state = "reverted"]
                /\ UNCHANGED <<balance, logs>>
    /\ UNCHANGED <<cached, worker, listenerVars, disturbances>>

\* Somebody takes Circle's attestation to the destination.
ReceiveMessage(t) ==
    /\ transfers[t].state = "burnt"
    /\ transfers' = [transfers EXCEPT ![t].state = "received"]
    /\ LET c == transfers[t].plan.dest
       IN  /\ balance' = [balance EXCEPT ![c] = @ + transfers[t].plan.amount]
           /\ logs' = [logs EXCEPT ![c] = Append(@, [event |-> "receive", transfer |-> t])]
    /\ UNCHANGED <<cached, worker, listenerVars, disturbances>>

\* Fills and claims of the relayer.
Trade(c, d) ==
    /\ Disturbance
    /\ c # d /\ balance[c] > 0
    /\ balance' = [balance EXCEPT ![c] = @ - 1, ![d] = @ + 1]
    /\ UNCHANGED <<cached, worker, listenerVars, transfers, logs>>

-----------------------------------------------------------------------------
(* The listeners; ChainListener has their detail *)

MutantMatched(match) == match # {}
\* UpdateRebalance commits only if one row is affected.
Matched(match) == Cardinality(match) = 1

\* A row that is matched by its id keeps it.
UpdateRebalance(match, event, id, status) ==
    IF Matched(match)
    THEN /\ rows' = [i \in DOMAIN rows |->
                        IF i \in match THEN [rows[i] EXCEPT !.id = id, !.status = status]
                        ELSE rows[i]]
         /\ UNCHANGED lost
    ELSE /\ UNCHANGED rows
         /\ lost' = lost \cup {<<event, id>>}

\* The rows that a burn on chain c, and that the receipt of transfer t, updates.
MutantInitiated(c) == {i \in DOMAIN rows : rows[i].origin = c /\ rows[i].status # "Completed"}
Initiated(c) == {i \in DOMAIN rows : rows[i].origin = c /\ rows[i].status = "Initiated"}
WithID(t) == {i \in DOMAIN rows : rows[i].id = t}

\* The logs of the listener's own contract that it has not handled yet.
Unhandled(l) == {k \in DOMAIN logs[l[2]] : k >= next[l] /\ logs[l[2]][k].event = l[1]}
Handling(l) == Unhandled(l) # {}
NextLog(l) == logs[l[2]][Min(Unhandled(l))].transfer

Handled(l) == next' = [next EXCEPT ![l] = Min(Unhandled(l)) + 1]

HandleDepositForBurn(c) ==
    LET l == <<"burn", c>> IN
    /\ Handling(l) /\ Handled(l)
    /\ UpdateRebalance(Initiated(c), "burn", NextLog(l), "Pending")
    /\ UNCHANGED <<balance, cached, worker, transfers, logs, startBlock, disturbances>>

HandleMessageReceived(c) ==
    LET l == <<"receive", c>> IN
    /\ Handling(l) /\ Handled(l)
    /\ UpdateRebalance(WithID(NextLog(l)), "receive", NextLog(l), "Completed")
    /\ UNCHANGED <<balance, cached, worker, transfers, logs, startBlock, disturbances>>

\* A failed write is logged, and the listener goes on.
WriteFails(l) ==
    /\ Handling(l) /\ Handled(l)
    /\ Disturbance
    /\ lost' = lost \cup {<<l[1], NextLog(l)>>}
    /\ UNCHANGED <<balance, cached, worker, rows, transfers, logs, startBlock>>

MutantRangeStarts(l) == {next[l] + 1}
MutantRangeStartsEarlier(l) == {startBlock[l[2]] - 1}
\* Where the range that is handled may have begun: ranges end at the newest block, or 2000
\* blocks on.
RangeStarts(l) == startBlock[l[2]]..next[l]

\* Logs come again: a handler whose call of the node fails returns the error, and the range
\* is fetched again; or the next range begins in the last block of this one.
Reparse(l) ==
    /\ Handling(l) \/ next[l] > startBlock[l[2]]
    /\ Disturbance
    /\ \E k \in RangeStarts(l) : next' = [next EXCEPT ![l] = k]
    /\ UNCHANGED <<balance, cached, worker, rows, transfers, logs, startBlock, lost>>

\* What a listener had still to handle before the block it starts from again.
LeftOut(l, position) ==
    {<<l[1], logs[l[2]][k].transfer>> : k \in {n \in Unhandled(l) : n < position}}

\* The process stops and starts again: the plans are lost, and the listeners of a chain
\* start where its row of LastIndexed says.  The two of Circle's contracts and the one of
\* the FastBridge write their own progress there, one over the other, so that it has any
\* place between where they started and the newest block, whatever a listener handled.
Restart ==
    /\ Disturbance
    /\ worker' = [w \in Workers |-> Idle]
    /\ cached' = balance
    /\ \E lastIndexed \in [Chains -> 1..(2 * MaxSteps + 1)] :
        /\ \A c \in Chains : lastIndexed[c] \in startBlock[c]..(Len(logs[c]) + 1)
        /\ startBlock' = lastIndexed
        /\ next' = [l \in Listeners |-> lastIndexed[l[2]]]
        /\ lost' = lost \cup UNION {LeftOut(l, lastIndexed[l[2]]) : l \in Listeners}
    /\ UNCHANGED <<balance, rows, transfers, logs>>

Next ==
    \/ \E c \in Chains : Refresh(c) \/ MineBurn(c)
    \/ \E w \in Workers : \/ Plan(w) \/ CheckPending(w) \/ SubmitBurn(w)
                          \/ StoreRebalance(w) \/ RebalanceFails(w)
    \/ \E t \in DOMAIN transfers : ReceiveMessage(t)
    \/ \E c, d \in Chains : Trade(c, d)
    \/ \E l \in Listeners : WriteFails(l) \/ Reparse(l)
    \/ \E c \in Chains : HandleDepositForBurn(c) \/ HandleMessageReceived(c)
    \/ Restart

Spec == Init /\ [][Next]_vars

\* The listeners poll as long as the process lives, and the chains mine what they
\* are sent.
Fairness ==
    /\ \A c \in Chains :
        /\ WF_vars(HandleDepositForBurn(c)) /\ WF_vars(HandleMessageReceived(c))
        /\ WF_vars(MineBurn(c))
    /\ \A t \in 1..MaxSteps : WF_vars(t \in DOMAIN transfers /\ ReceiveMessage(t))

FairSpec == Spec /\ Fairness

-----------------------------------------------------------------------------
\* The types.
TypeOK ==
    /\ balance \in [Chains -> Nat] /\ cached \in [Chains -> Nat]
    /\ \A w \in Workers :
        \/ worker[w] = Idle
        \/ worker[w] \in [pc : {"planned", "execute"}, plan : Plans]
        \/ worker[w] \in [pc : {"submitted"}, plan : Plans, transfer : DOMAIN transfers]
    /\ rows \in Seq([id : {NoID} \cup DOMAIN transfers, origin : Chains, dest : Chains,
                     status : Status, transfer : DOMAIN transfers])
    /\ transfers \in Seq([plan : Plans, state : {"queued", "burnt", "reverted", "received"}])
    /\ logs \in [Chains -> Seq([event : Events, transfer : DOMAIN transfers])]
    /\ next \in [Listeners -> Nat \ {0}] /\ startBlock \in [Chains -> Nat \ {0}]
    /\ lost \subseteq Events \X DOMAIN transfers
    /\ disturbances \in Nat

\* A transfer is recorded once its row is stored; one whose row was lost with the
\* process, or by a failed write, never is.
Recorded(t) == \E i \in DOMAIN rows : rows[i].transfer = t
BeingRecorded(t) == \E w \in Workers : At(w, "submitted") /\ worker[w].transfer = t
AllRecorded == \A t \in DOMAIN transfers : Recorded(t) \/ BeingRecorded(t)

InFlight == {t \in DOMAIN transfers : transfers[t].state \in {"queued", "burnt"}}
Path(t) == {transfers[t].plan.origin, transfers[t].plan.dest}

\* "make sure there are no pending rebalances that touch the given path": two
\* transfers that are not received yet never share a chain, or the second is
\* planned without the money of the first - as long as every transfer has its row.
OneInFlight ==
    AllRecorded => \A t, u \in InFlight : t # u => Path(t) \cap Path(u) = {}

\* What the check is worth without a lock: each goroutine may add one transfer from a
\* chain to what it found there, and none adds a second one before all have arrived,
\* whichever row was completed by which receipt.
FewInFlight ==
    AllRecorded => \A c \in Chains :
        Cardinality({t \in InFlight : transfers[t].plan.origin = c}) <= Cardinality(Workers)

\* A row that is Completed lets go of its chains, and "has been confirmed on the
\* destination": money that left its origin has arrived, and no other row is Completed
\* for the same money, although several rows may have been tied to the same burn.
CompletedWasReceived ==
    \A i \in DOMAIN rows : rows[i].status = "Completed" =>
        /\ transfers[rows[i].id].state = "received"
        /\ transfers[rows[i].id].plan.origin = rows[i].origin
        /\ \A k \in DOMAIN rows :
              rows[k].status = "Completed" /\ rows[k].id = rows[i].id => k = i

\* The request id that ties a row to its transfer is never replaced, whichever burn
\* is seen, again or for the first time.
IDsAreKept ==
    [][\A i \in DOMAIN rows : rows[i].id # NoID => rows'[i].id = rows[i].id]_rows

\* An event is missed when it was lost and did not come again.
Effective(event, t) ==
    \E i \in DOMAIN rows : rows[i].id = t /\ (event = "receive" => rows[i].status = "Completed")
NoneMissed == \A e \in lost : Effective(e[1], e[2])
NoneReverted == \A t \in DOMAIN transfers : transfers[t].state # "reverted"

\* Every row is Completed in the end, whichever burn it was tied to and whatever handler
\* or process fails, unless a burn reverted, a transfer has no row, or an event was
\* missed: it matched no row or two, its write failed, or a restart left it out.
EventuallyCompleted ==
    \A i \in 1..MaxSteps :
        <>[](i \in DOMAIN rows /\ AllRecorded /\ NoneReverted /\ NoneMissed
                => rows[i].status = "Completed")
=============================================================================
