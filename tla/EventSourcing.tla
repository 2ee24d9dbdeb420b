---------------------------- MODULE EventSourcing ----------------------------
(***************************************************************************)
(* A chain listener at work: a chain that grows, a handler that may fail,  *)
(* and a process that may stop at any moment and start again.              *)
(***************************************************************************)
EXTENDS ChainListener

CONSTANTS
    MaxBlocks,     \* bound: the height of the chain
    MaxLogs,       \* bound: the length of logs
    MaxFailures,   \* bound: how often the handler fails
    MaxRestarts    \* bound: how often the process restarts

VARIABLES
    handled,       \* history: the indices of the logs the handler accepted
    failures, restarts

sourceVars == <<chainVars, listenerVars, handled, failures, restarts>>

Init ==
    /\ logs = <<>>
    /\ head = 0
    /\ ListenerInit
    /\ handled = {}
    /\ failures = 0
    /\ restarts = 0

\* A block with any number of logs of the contract.
MineBlock(n) ==
    /\ head < MaxBlocks
    /\ Len(logs) + n <= MaxLogs
    /\ head' = head + 1
    /\ logs' = logs \o [i \in 1..n |-> [block |-> head + 1]]
    /\ UNCHANGED <<listenerVars, handled, failures, restarts>>

Poll ==
    /\ BeginPoll \/ PollNothingNew
    /\ UNCHANGED <<chainVars, handled, failures, restarts>>

Handle ==
    /\ LogHandled
    /\ handled' = handled \cup {cursor}
    /\ UNCHANGED <<chainVars, failures, restarts>>

HandlerFails ==
    /\ failures < MaxFailures
    /\ LogFailed
    /\ failures' = failures + 1
    /\ UNCHANGED <<chainVars, handled, restarts>>

Finish ==
    /\ FinishPoll
    /\ UNCHANGED <<chainVars, handled, failures, restarts>>

Restart ==
    /\ restarts < MaxRestarts
    /\ ListenerRestart
    /\ restarts' = restarts + 1
    /\ UNCHANGED <<chainVars, handled, failures>>

Next ==
    \/ \E n \in 0..MaxLogs : MineBlock(n)
    \/ Poll
    \/ Handle
    \/ HandlerFails
    \/ Finish
    \/ Restart

Spec == Init /\ [][Next]_sourceVars

\* Listen polls in a loop for as long as the process lives, and the chain goes on
\* producing blocks (a log in the very block a poll starts from is not fetched
\* before there is a later one).
Fairness ==
    /\ WF_sourceVars(Poll) /\ WF_sourceVars(Handle) /\ WF_sourceVars(Finish)
    /\ WF_sourceVars(\E n \in 0..MaxLogs : MineBlock(n))

FairSpec == Spec /\ Fairness

-----------------------------------------------------------------------------
\* The types, and where the range being parsed lies on the chain: never beyond the
\* block the node reported, from which logs would be lost.
TypeOK ==
    /\ logs \in Seq([block : Nat \ {0}])
    /\ head \in Nat /\ stored \in Nat /\ latestBlock \in Nat /\ startBlock \in Nat
    /\ endBlock \in {NoRange} \cup 0..latestBlock /\ latestBlock <= head
    /\ cursor \in 1..(Len(logs) + 1)
    /\ handled \subseteq 1..Len(logs)
    /\ failures \in Nat /\ restarts \in Nat

Watched(i) == logs[i].block >= InitialBlock

\* LastIndexed "is used to make sure we haven't missed any events while offline":
\* whatever block a restart goes on from, every log up to it has been accepted by
\* the handler, failures in the middle of a range and ranges shorter than the
\* distance to the head included.
NothingMissed ==
    \A i \in 1..Len(logs) : Watched(i) /\ logs[i].block <= stored => i \in handled

\* A log is never handled for the first time before the logs emitted before it,
\* even if it is handled again and again: the relayer's state machine relies on
\* the order of requests, relays, proofs and claims.
FirstHandledInOrder ==
    \A i \in handled : \A j \in 1..(i - 1) : Watched(j) => j \in handled

\* Every log of the chain reaches the handler, after any number of failures and
\* restarts that come to an end.
EveryLogHandled ==
    \A i \in 1..MaxLogs :
        (i <= Len(logs) /\ logs[i].block >= InitialBlock) ~> (i \in handled)
=============================================================================
