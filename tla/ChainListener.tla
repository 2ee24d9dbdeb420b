---------------------------- MODULE ChainListener ----------------------------
(***************************************************************************)
(* One chain listener of ethergo: it polls a chain for the logs of one     *)
(* contract, hands them to a handler one by one, and stores how far it     *)
(* got, from where it goes on after a restart.  A handler that fails makes *)
(* the listener parse the whole range again.                               *)
(*                                                                         *)
(* The chain is a sequence of logs in block order and the height of its    *)
(* head; the module that extends or instantiates this one says how they    *)
(* grow.  A step that needs a handler takes what the handler did as the    *)
(* other conjuncts of the caller's action.                                 *)
(***************************************************************************)
EXTENDS Integers, Sequences

CONSTANTS
    InitialBlock,      \* where a listener without history starts
    MaxGetLogsRange    \* the most blocks of one eth_getLogs

ASSUME ListenerAssumption ==
    /\ InitialBlock \in Nat
    /\ MaxGetLogsRange \in Nat \ {0}

VARIABLES
    logs,          \* what the contract emitted: a sequence of records with a block
    head,          \* the number of the chain's latest block
    startBlock, latestBlock,
    endBlock,      \* the end of the range being parsed, NoRange between polls
    cursor,        \* index in logs of the next log of that range
    stored         \* the LastIndexed row of the chain, 0 if there is none

NoRange == -1

chainVars == <<logs, head>>
memoryVars == <<startBlock, latestBlock, endBlock, cursor>>
listenerVars == <<memoryVars, stored>>

\* The block getMetadata starts from.  (It compares with c.startBlock, which is
\* still 0, and not with the initial block.)
StartBlock == IF stored > 0 THEN stored ELSE InitialBlock

ListenerInit ==
    /\ stored = 0
    /\ startBlock = InitialBlock
    /\ latestBlock = 0
    /\ endBlock = NoRange
    /\ cursor = 1

\* i is the index of the first log of a range that begins at block b.
FirstLogFrom(i, b) ==
    /\ \A j \in 1..(i - 1) : logs[j].block < b
    /\ \A j \in i..Len(logs) : logs[j].block >= b

MutantRangeEnd == startBlock + MaxGetLogsRange
RangeEnd ==
    IF startBlock + MaxGetLogsRange < head THEN startBlock + MaxGetLogsRange ELSE head

\* doPoll up to FilterLogs.
BeginPoll ==
    /\ endBlock = NoRange
    /\ latestBlock' = head
    /\ head # startBlock
    /\ endBlock' = RangeEnd
    /\ \E i \in 1..(Len(logs) + 1) : FirstLogFrom(i, startBlock) /\ cursor' = i
    /\ UNCHANGED <<startBlock, stored>>

\* doPoll on a chain without a new block.
PollNothingNew ==
    /\ endBlock = NoRange
    /\ head = startBlock
    /\ latestBlock' = head
    /\ UNCHANGED <<startBlock, endBlock, cursor, stored>>

LogsLeft == cursor <= Len(logs) /\ logs[cursor].block <= endBlock

\* The handler of the log at the cursor returned nil.
LogHandled ==
    /\ endBlock # NoRange /\ LogsLeft
    /\ cursor' = cursor + 1
    /\ UNCHANGED <<startBlock, latestBlock, endBlock, stored>>

\* It returned an error: "handle log failed, will reparse".
MutantSkipLog ==
    /\ cursor' = cursor + 1
    /\ UNCHANGED endBlock
Reparse ==
    /\ endBlock' = NoRange
    /\ UNCHANGED cursor

LogFailed ==
    /\ endBlock # NoRange /\ LogsLeft
    /\ Reparse
    /\ UNCHANGED <<startBlock, latestBlock, stored>>

\* The range is done: PutLatestBlock, and the next range begins where it ends.
MutantIndexedToHead == latestBlock
IndexedTo == endBlock

FinishPoll ==
    /\ endBlock # NoRange /\ ~LogsLeft
    /\ stored' = IndexedTo
    /\ startBlock' = endBlock
    /\ endBlock' = NoRange
    /\ UNCHANGED <<latestBlock, cursor>>

\* The process stops and starts again: only the database is left.
ListenerRestart ==
    /\ startBlock' = StartBlock
    /\ latestBlock' = 0
    /\ endBlock' = NoRange
    /\ cursor' = 1
    /\ UNCHANGED stored
=============================================================================
