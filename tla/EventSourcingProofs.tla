------------------------- MODULE EventSourcingProofs -------------------------
(***************************************************************************)
(* What a chain listener guarantees for chains of any length, any range of *)
(* eth_getLogs and any number of failures and restarts.                    *)
(***************************************************************************)
EXTENDS EventSourcing, SequenceTheorems, TLAPS

USE ListenerAssumption

-----------------------------------------------------------------------------
\* The logs are in the order of their blocks, and none is beyond the head.
ChainOrdered ==
    /\ \A i, j \in 1..Len(logs) : i <= j => logs[i].block <= logs[j].block
    /\ \A i \in 1..Len(logs) : logs[i].block <= head

\* No position of the listener is beyond the head, but the initial block.
BehindTheHead ==
    /\ stored <= head
    /\ startBlock <= head \/ startBlock = InitialBlock

\* A poll has nothing to fetch from the blocks before the one it starts from.
DoneBeforeStart ==
    \A i \in 1..Len(logs) : Watched(i) /\ logs[i].block < startBlock => i \in handled

\* The logs of the range before the cursor are handled.
DoneBeforeCursor ==
    endBlock # NoRange =>
        \A i \in 1..Len(logs) : Watched(i) /\ i < cursor => i \in handled

SourceInv ==
    /\ TypeOK
    /\ ChainOrdered
    /\ BehindTheHead
    /\ DoneBeforeStart
    /\ DoneBeforeCursor
    /\ NothingMissed
    /\ FirstHandledInOrder

LEMMA SourceInvInit == Init => SourceInv
  BY DEF Init, ListenerInit, SourceInv, TypeOK, ChainOrdered, BehindTheHead, DoneBeforeStart,
     DoneBeforeCursor, NothingMissed, FirstHandledInOrder, NoRange

-----------------------------------------------------------------------------
Logs == [block : Nat \ {0}]

LEMMA BlockNumbers ==
    ASSUME NEW s \in Seq(Logs)
    PROVE  /\ Len(s) \in Nat
           /\ \A i \in 1..Len(s) : s[i].block \in Nat
  <1>1. \A i \in 1..Len(s) : s[i] \in Logs
    BY ElementOfSeq
  <1> QED
    BY <1>1 DEF Logs

LEMMA LogBlocks ==
    ASSUME TypeOK
    PROVE  /\ Len(logs) \in Nat
           /\ \A i \in 1..Len(logs) : logs[i].block \in Nat
  <1>1. logs \in Seq(Logs)
    BY DEF TypeOK, Logs
  <1> QED
    BY <1>1, BlockNumbers

\* A new block puts its logs behind the ones there are and changes none of them.
LEMMA NewLogs ==
    ASSUME SourceInv, NEW n \in 0..MaxLogs, MineBlock(n)
    PROVE  /\ logs' \in Seq(Logs)
           /\ Len(logs') = Len(logs) + n
           /\ \A i \in 1..Len(logs) : logs'[i] = logs[i]
           /\ \A i \in (Len(logs) + 1)..Len(logs') : logs'[i].block = head + 1
  <1> DEFINE new == [i \in 1..n |-> [block |-> head + 1]]
  <1>1. n \in Nat /\ head \in Nat /\ logs \in Seq(Logs)
    BY DEF SourceInv, TypeOK, MineBlock, Logs
  <1>2. new \in Seq(Logs) /\ Len(new) = n
    BY <1>1 DEF Logs
  <1>3. logs' = logs \o new
    BY DEF MineBlock
  <1> HIDE DEF new
  <1>4. /\ logs' \in Seq(Logs)
        /\ Len(logs') = Len(logs) + n
        /\ \A i \in 1..Len(logs) : logs'[i] = logs[i]
        /\ \A i \in (Len(logs) + 1)..Len(logs') : logs'[i] = new[i - Len(logs)]
    <2>1. /\ logs \o new \in Seq(Logs)
          /\ Len(logs \o new) = Len(logs) + Len(new)
          /\ \A i \in 1..(Len(logs) + Len(new)) :
                (logs \o new)[i] = IF i <= Len(logs) THEN logs[i] ELSE new[i - Len(logs)]
      BY <1>1, <1>2, ConcatProperties
    <2>2. Len(logs) \in Nat
      BY <1>1
    <2> QED
      BY <1>1, <1>2, <1>3, <2>1, <2>2
  <1>5. \A i \in (Len(logs) + 1)..Len(logs') : new[i - Len(logs)].block = head + 1
    BY <1>1, <1>4 DEF new
  <1> QED
    BY <1>4, <1>5

LEMMA MineBlockKeepsInv ==
    ASSUME SourceInv, NEW n \in 0..MaxLogs, MineBlock(n)
    PROVE  SourceInv'
  <1>1. /\ head' = head + 1
        /\ UNCHANGED <<startBlock, latestBlock, endBlock, cursor, stored, handled, failures, restarts>>
    BY DEF MineBlock, listenerVars, memoryVars
  <1>2. /\ logs' \in Seq(Logs)
        /\ Len(logs') = Len(logs) + n
        /\ \A i \in 1..Len(logs) : logs'[i] = logs[i]
        /\ \A i \in (Len(logs) + 1)..Len(logs') : logs'[i].block = head + 1
    BY NewLogs
  <1>3. n \in Nat /\ Len(logs) \in Nat /\ head \in Nat /\ TypeOK
    BY LogBlocks DEF SourceInv, TypeOK
  <1>4. TypeOK'
    BY <1>1, <1>2, <1>3 DEF TypeOK, Logs
  <1>5. ChainOrdered'
    <2>1. \A i \in 1..Len(logs') : logs'[i].block \in Nat
      BY <1>2, BlockNumbers
    <2>2. \A i \in 1..Len(logs) : logs'[i].block <= head
      BY <1>2 DEF SourceInv, ChainOrdered
    <2>3. \A i \in 1..Len(logs') : i \in 1..Len(logs) \/ i \in (Len(logs) + 1)..Len(logs')
      BY <1>2, <1>3
    <2>4. ASSUME NEW i \in 1..Len(logs'), NEW j \in 1..Len(logs'), i <= j
          PROVE  logs'[i].block <= logs'[j].block
      <3>1. CASE j \in 1..Len(logs)
        <4>1. i \in 1..Len(logs)
          BY <1>2, <1>3, <2>4, <3>1
        <4> QED
          BY <1>2, <2>4, <3>1, <4>1 DEF SourceInv, ChainOrdered
      <3>2. CASE j \in (Len(logs) + 1)..Len(logs')
        <4>1. logs'[j].block = head + 1
          BY <1>2, <3>2
        <4>2. logs'[i].block \in 0..(head + 1)
          BY <1>2, <1>3, <2>1, <2>2, <2>3
        <4> QED
          BY <1>3, <4>1, <4>2
      <3> QED
        BY <2>3, <3>1, <3>2
    <2>5. ASSUME NEW i \in 1..Len(logs')
          PROVE  logs'[i].block <= head + 1
      BY <1>2, <1>3, <2>1, <2>2, <2>3
    <2> QED
      BY <1>1, <2>4, <2>5 DEF ChainOrdered
  <1>6. BehindTheHead'
    BY <1>1, <1>3 DEF SourceInv, BehindTheHead, TypeOK
  <1>7. ASSUME NEW i \in 1..Len(logs'), Watched(i)', i \notin 1..Len(logs)
        PROVE  /\ ~(logs'[i].block < startBlock)
               /\ ~(logs'[i].block <= stored)
               /\ ~(i < cursor)
    <2>1. i \in (Len(logs) + 1)..Len(logs') /\ logs'[i].block = head + 1
      BY <1>2, <1>3, <1>7
    <2> QED
      BY <1>3, <1>7, <2>1 DEF SourceInv, BehindTheHead, TypeOK, Watched
  <1>8. \A i \in 1..Len(logs) : Watched(i)' <=> Watched(i)
    BY <1>2 DEF Watched
  <1>9. DoneBeforeStart' /\ DoneBeforeCursor' /\ NothingMissed'
    BY <1>1, <1>2, <1>7, <1>8 DEF SourceInv, DoneBeforeStart, DoneBeforeCursor, NothingMissed
  <1>10. FirstHandledInOrder'
    <2>1. ASSUME NEW i \in handled, NEW j \in 1..(i - 1)
          PROVE  j \in 1..Len(logs)
      BY <1>3 DEF TypeOK
    <2> QED
      BY <1>1, <1>8, <2>1 DEF SourceInv, FirstHandledInOrder
  <1> QED
    BY <1>4, <1>5, <1>6, <1>9, <1>10 DEF SourceInv

LEMMA PollKeepsInv == SourceInv /\ Poll => SourceInv'
  <1> SUFFICES ASSUME SourceInv, Poll PROVE SourceInv'
    OBVIOUS
  <1>1. UNCHANGED <<logs, head, stored, startBlock, handled, failures, restarts>>
    BY DEF Poll, BeginPoll, PollNothingNew, chainVars
  <1>2. CASE BeginPoll
    <2>1. endBlock' = RangeEnd /\ latestBlock' = head /\ RangeEnd \in 0..head
      BY <1>2 DEF BeginPoll, RangeEnd, SourceInv, TypeOK
    <2>2. PICK k \in 1..(Len(logs) + 1) : FirstLogFrom(k, startBlock) /\ cursor' = k
      BY <1>2 DEF BeginPoll
    <2>3. TypeOK'
      BY <1>1, <2>1, <2>2 DEF SourceInv, TypeOK
    <2>4. ASSUME NEW i \in 1..Len(logs), i < k
          PROVE  logs[i].block < startBlock
      <3>1. Len(logs) \in Nat
        BY LogBlocks DEF SourceInv
      <3>2. i \in 1..(k - 1)
        BY <2>4, <3>1
      <3> QED
        BY <2>2, <3>2 DEF FirstLogFrom
    <2>5. DoneBeforeCursor'
      BY <1>1, <2>2, <2>4 DEF SourceInv, DoneBeforeStart, DoneBeforeCursor, Watched
    <2> QED
      BY <1>1, <2>3, <2>5 DEF SourceInv, ChainOrdered, BehindTheHead, DoneBeforeStart,
         NothingMissed, FirstHandledInOrder, Watched
  <1>3. CASE PollNothingNew
    <2>1. UNCHANGED <<endBlock, cursor>> /\ latestBlock' = head /\ endBlock = NoRange
      BY <1>3 DEF PollNothingNew
    <2>2. TypeOK'
      BY <1>1, <2>1 DEF SourceInv, TypeOK
    <2> QED
      BY <1>1, <2>1, <2>2 DEF SourceInv, ChainOrdered, BehindTheHead, DoneBeforeStart,
         DoneBeforeCursor, NothingMissed, FirstHandledInOrder, Watched
  <1> QED
    BY <1>2, <1>3 DEF Poll

LEMMA HandleKeepsInv == SourceInv /\ Handle => SourceInv'
  <1> SUFFICES ASSUME SourceInv, Handle PROVE SourceInv'
    OBVIOUS
  <1>1. /\ UNCHANGED <<logs, head, stored, startBlock, latestBlock, endBlock, failures, restarts>>
        /\ cursor' = cursor + 1 /\ handled' = handled \cup {cursor}
        /\ endBlock # NoRange /\ cursor \in 1..Len(logs)
    BY DEF Handle, LogHandled, LogsLeft, chainVars, SourceInv, TypeOK
  <1>2. TypeOK'
    BY <1>1 DEF SourceInv, TypeOK
  <1>3. DoneBeforeCursor'
    BY <1>1 DEF SourceInv, TypeOK, DoneBeforeCursor, Watched
  <1>4. FirstHandledInOrder'
    <2>1. \A j \in 1..(cursor - 1) : Watched(j) => j \in handled
      BY <1>1 DEF SourceInv, TypeOK, DoneBeforeCursor
    <2> QED
      BY <1>1, <2>1 DEF SourceInv, FirstHandledInOrder, Watched
  <1> QED
    BY <1>1, <1>2, <1>3, <1>4 DEF SourceInv, ChainOrdered, BehindTheHead, DoneBeforeStart,
       NothingMissed, Watched

\* When no log of the range is left, all of them are before the cursor.
LEMMA FinishKeepsInv == SourceInv /\ Finish => SourceInv'
  <1> SUFFICES ASSUME SourceInv, Finish PROVE SourceInv'
    OBVIOUS
  <1>1. /\ UNCHANGED <<logs, head, latestBlock, cursor, handled, failures, restarts>>
        /\ stored' = endBlock /\ startBlock' = endBlock /\ endBlock' = NoRange
        /\ endBlock # NoRange /\ ~LogsLeft
    BY DEF Finish, FinishPoll, IndexedTo, chainVars
  <1>2. endBlock \in 0..head
    BY <1>1 DEF SourceInv, TypeOK
  <1>3. ASSUME NEW i \in 1..Len(logs), Watched(i), logs[i].block <= endBlock
        PROVE  i \in handled
    <2>1. cursor \in Nat /\ Len(logs) \in Nat /\ \A j \in 1..Len(logs) : logs[j].block \in Nat
      BY LogBlocks DEF SourceInv, TypeOK
    <2>2. CASE i >= cursor
      <3>1. cursor \in 1..Len(logs)
        BY <2>1, <2>2 DEF SourceInv, TypeOK
      <3>2. logs[cursor].block <= logs[i].block
        BY <2>2, <3>1 DEF SourceInv, ChainOrdered
      <3> QED
        BY <1>1, <1>2, <1>3, <2>1, <3>1, <3>2 DEF LogsLeft
    <2>3. CASE i < cursor
      BY <1>1, <1>3, <2>3 DEF SourceInv, DoneBeforeCursor
    <2> QED
      BY <2>1, <2>2, <2>3
  <1>4. TypeOK'
    BY <1>1, <1>2 DEF SourceInv, TypeOK
  <1>5. DoneBeforeStart' /\ NothingMissed'
    <2>1. \A j \in 1..Len(logs) : logs[j].block \in Nat
      BY LogBlocks DEF SourceInv, TypeOK
    <2> QED
      BY <1>1, <1>2, <1>3, <2>1 DEF DoneBeforeStart, NothingMissed, Watched
  <1> QED
    BY <1>1, <1>2, <1>4, <1>5 DEF SourceInv, ChainOrdered, BehindTheHead, DoneBeforeCursor,
       FirstHandledInOrder, Watched

LEMMA HandlerFailsKeepsInv == SourceInv /\ HandlerFails => SourceInv'
  <1> SUFFICES ASSUME SourceInv, HandlerFails PROVE SourceInv'
    OBVIOUS
  <1>1. /\ UNCHANGED <<logs, head, startBlock, latestBlock, stored, cursor, handled, restarts>>
        /\ endBlock' = NoRange /\ failures' = failures + 1
    BY DEF HandlerFails, LogFailed, Reparse, chainVars
  <1> QED
    BY <1>1 DEF SourceInv, TypeOK, ChainOrdered, BehindTheHead, DoneBeforeStart,
       DoneBeforeCursor, NothingMissed, FirstHandledInOrder, Watched

LEMMA RestartKeepsInv == SourceInv /\ Restart => SourceInv'
  <1> SUFFICES ASSUME SourceInv, Restart PROVE SourceInv'
    OBVIOUS
  <1>1. /\ UNCHANGED <<logs, head, stored, handled, failures>>
        /\ startBlock' = StartBlock /\ latestBlock' = 0 /\ endBlock' = NoRange /\ cursor' = 1
        /\ restarts' = restarts + 1
    BY DEF Restart, ListenerRestart, chainVars
  <1>2. TypeOK'
    BY <1>1 DEF SourceInv, TypeOK, StartBlock
  <1>3. DoneBeforeStart'
    <2>1. \A j \in 1..Len(logs) : logs[j].block \in Nat
      BY LogBlocks DEF SourceInv, TypeOK
    <2> QED
      BY <1>1, <2>1 DEF SourceInv, TypeOK, DoneBeforeStart, NothingMissed, StartBlock, Watched
  <1> QED
    BY <1>1, <1>2, <1>3 DEF SourceInv, ChainOrdered, BehindTheHead, StartBlock,
       DoneBeforeCursor, NothingMissed, FirstHandledInOrder, Watched

LEMMA SourceInvStep ==
    ASSUME SourceInv, [Next]_sourceVars
    PROVE  SourceInv'
  <1>1. CASE \E n \in 0..MaxLogs : MineBlock(n)
    BY <1>1, MineBlockKeepsInv
  <1>2. CASE UNCHANGED sourceVars
    BY <1>2 DEF sourceVars, chainVars, listenerVars, memoryVars, SourceInv, TypeOK, ChainOrdered,
       BehindTheHead, DoneBeforeStart, DoneBeforeCursor, NothingMissed, FirstHandledInOrder,
       Watched
  <1> QED
    BY <1>1, <1>2, PollKeepsInv, HandleKeepsInv, FinishKeepsInv, HandlerFailsKeepsInv,
       RestartKeepsInv DEF Next

\* A listener that has its LastIndexed row to itself keeps its books right: the
\* positions it holds in memory and in the database never run ahead of the handler.
THEOREM BooksAreRight == Spec => []SourceInv
  <1>1. SourceInv /\ [Next]_sourceVars => SourceInv'
    BY SourceInvStep
  <1> QED
    BY <1>1, SourceInvInit, PTL DEF Spec

\* The types, and no range beyond the block the node reported.
THEOREM ListenerTypes == Spec => []TypeOK
  BY BooksAreRight, PTL DEF SourceInv

\* doPoll, PutLatestBlock and getLastIndexed never leave a log behind, whatever
\* fails and whenever the process restarts.
THEOREM NoLogIsMissed == Spec => []NothingMissed
  BY BooksAreRight, PTL DEF SourceInv

\* Handlers see the logs of their contract in the order of the chain.
THEOREM LogsAreHandledInOrder == Spec => []FirstHandledInOrder
  BY BooksAreRight, PTL DEF SourceInv
=============================================================================
