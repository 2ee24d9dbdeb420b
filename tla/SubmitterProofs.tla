--------------------------- MODULE SubmitterProofs ---------------------------
(***************************************************************************)
(* What the transaction submitter keeps for any chains, calls and prices:  *)
(* each nonce has one call, and nothing is sent ahead of the chain.        *)
(***************************************************************************)
EXTENDS Submitter, FiniteSetTheorems, SequenceTheorems, TLAPS

USE SubmitterAssumption

-----------------------------------------------------------------------------
(* The invariant *)

\* The nonces of a table with their calls.
Held(table) == {<<table[i].nonce, table[i].call>> : i \in DOMAIN table}
InTable(c, a) == <<a.nonce, a.call>> \in Held(rows[c])

\* In the table a nonce has one call and a call one nonce.
OneCallEach ==
    \A c \in Chains : \A p, q \in Held(rows[c]) : p[1] = q[1] <=> p[2] = q[2]

\* The stored nonces have no gap, and the chain is not ahead of them.
NoGaps ==
    \A c \in Chains : \E k \in Nat :
        /\ \A n \in Nat : (\E p \in Held(rows[c]) : p[1] = n) <=> n < k
        /\ Len(mined[c]) <= k

\* What was sent, or is about to be, has the nonce and the call of some row.
SentIsStored ==
    \A c \in Chains :
        /\ \A a \in mempool[c] : InTable(c, a)
        /\ \A i \in DOMAIN mined[c] : InTable(c, mined[c][i])
        /\ sending[c].pc = "submit" => InTable(c, sending[c].attempt)

\* A call that is not stored has no row, and the nonce its caller has taken is the
\* next one; no two callers have one at the same chain.
NotStored(k) == \A c \in Chains : \A p \in Held(rows[c]) : p[2] # k
IsNext(k) == \A n \in Nat : (\E p \in Held(rows[caller[k].chain]) : p[1] = n) <=> n < caller[k].nonce
CallersWait ==
    /\ \A k \in Calls : caller[k].pc \in {"new", "signed"} => NotStored(k)
    /\ \A k \in Calls : caller[k].pc = "signed" => IsNext(k)
    /\ \A j, k \in Calls :
        caller[j].pc = "signed" /\ caller[k].pc = "signed" /\ caller[j].chain = caller[k].chain => j = k

\* A row is settled only if its nonce was mined, and the attempts whose receipts are
\* looked for are of such rows.
SettledIsMined ==
    /\ \A c \in Chains : \A i \in DOMAIN rows[c] :
        rows[c][i].status \in PendingStatus \/ rows[c][i].nonce < Len(mined[c])
    /\ confirming.pc = "receipts" =>
        \A a \in confirming.attempts : a.nonce < Len(mined[confirming.chain])

\* The loop sends the chain's next nonce, or an older one, as pending.
SendsInOrder ==
    \A c \in Chains :
        /\ \A a \in mempool[c] : a.nonce = Len(mined[c])
        /\ sending[c].pc = "submit" =>
            /\ sending[c].attempt.nonce <= Len(mined[c])
            /\ sending[c].status \in PendingStatus /\ sending[c].unstored \subseteq PendingStatus

SubmitterInv ==
    /\ TypeOK
    /\ OneCallEach /\ NoGaps /\ SentIsStored /\ CallersWait /\ SettledIsMined /\ SendsInOrder

-----------------------------------------------------------------------------
(* The table *)

LEMMA RowFields ==
    ASSUME NEW row \in Rows
    PROVE  /\ Attempt(row) \in Attempts /\ row.status \in Status
           /\ Attempt(row).nonce = row.nonce /\ Attempt(row).call = row.call
           /\ row.nonce \in Nat /\ row.call \in Calls
  BY DEF Rows, Attempt, Attempts

LEMMA PendingIsStatus == PendingStatus \subseteq Status
  BY DEF PendingStatus, Status

\* Writing statuses leaves the nonces and the calls.
LEMMA Restatus ==
    ASSUME NEW table \in Seq(Rows), NEW new \in [DOMAIN table -> Rows],
           \A i \in DOMAIN table : new[i].nonce = table[i].nonce /\ new[i].call = table[i].call
    PROVE  new \in Seq(Rows) /\ Held(new) = Held(table)
  <1>1. DOMAIN table = 1..Len(table) /\ Len(table) \in Nat /\ DOMAIN new = DOMAIN table
    BY LenProperties
  <1>2. new \in Seq(Rows)
    BY <1>1
  <1> QED
    BY <1>1, <1>2 DEF Held

\* PutTXS adds an attempt, or finds it and writes its status.
LEMMA PutTXFacts ==
    ASSUME NEW table \in Seq(Rows), NEW x \in Attempts, NEW s \in Status
    PROVE  /\ PutTX(table, x, s) \in Seq(Rows)
           /\ Held(PutTX(table, x, s)) = Held(table) \union {<<x.nonce, x.call>>}
           /\ \A i \in DOMAIN PutTX(table, x, s) :
                \/ PutTX(table, x, s)[i].status = s
                \/ i \in DOMAIN table /\ PutTX(table, x, s)[i] = table[i]
  <1> DEFINE same == {i \in DOMAIN table : Attempt(table[i]) = x}
  <1>d. /\ DOMAIN table = 1..Len(table) /\ Len(table) \in Nat
        /\ \A i \in DOMAIN table : table[i] \in Rows
    BY LenProperties, ElementOfSeq
  <1>1. CASE same = {}
    <2> DEFINE row == [nonce |-> x.nonce, call |-> x.call, price |-> x.price, status |-> s]
    <2>1. row \in Rows /\ PutTX(table, x, s) = Append(table, row)
      BY <1>1 DEF PutTX, Rows, Attempts
    <2>2. /\ Append(table, row) \in Seq(Rows)
          /\ DOMAIN Append(table, row) = 1..(Len(table) + 1)
          /\ \A i \in 1..Len(table) : Append(table, row)[i] = table[i]
          /\ Append(table, row)[Len(table) + 1] = row
      BY <2>1, <1>d
    <2>3. row.nonce = x.nonce /\ row.call = x.call /\ row.status = s
      OBVIOUS
    <2>4. DOMAIN Append(table, row) = DOMAIN table \union {Len(table) + 1}
      BY <2>2, <1>d
    <2> HIDE DEF row
    <2>5. Held(Append(table, row)) = Held(table) \union {<<x.nonce, x.call>>}
      BY <2>2, <2>3, <2>4, <1>d DEF Held
    <2> QED
      BY <2>1, <2>2, <2>3, <2>4, <2>5, <1>d
  <1>2. CASE same # {}
    <2> DEFINE new == [i \in DOMAIN table |->
                          IF i \in same THEN [table[i] EXCEPT !.status = s] ELSE table[i]]
    <2>1. PutTX(table, x, s) = new
      BY <1>2 DEF PutTX
    <2>2. \A row \in Rows : /\ [row EXCEPT !.status = s] \in Rows
                            /\ [row EXCEPT !.status = s].status = s
                            /\ [row EXCEPT !.status = s].nonce = row.nonce
                            /\ [row EXCEPT !.status = s].call = row.call
      BY DEF Rows
    <2>3. new \in [DOMAIN table -> Rows]
      BY <2>2, <1>d
    <2>4. \A i \in DOMAIN table : new[i].nonce = table[i].nonce /\ new[i].call = table[i].call
      BY <2>2, <1>d
    <2>5. new \in Seq(Rows) /\ Held(new) = Held(table)
      BY <2>3, <2>4, Restatus
    <2>6. <<x.nonce, x.call>> \in Held(table)
      BY <1>2, <1>d, RowFields DEF Held
    <2>7. \A i \in DOMAIN table : IF i \in same THEN new[i].status = s ELSE new[i] = table[i]
      BY <2>2, <1>d
    <2>8. DOMAIN new = DOMAIN table
      OBVIOUS
    <2> HIDE DEF new, same
    <2> QED
      BY <2>1, <2>5, <2>6, <2>7, <2>8
  <1> QED
    BY <1>1, <1>2

LEMMA TableType ==
    ASSUME TypeOK, NEW c \in Chains
    PROVE  /\ rows[c] \in Seq(Rows)
           /\ \A i \in DOMAIN rows[c] : rows[c][i] \in Rows
           /\ DOMAIN rows[c] = 1..Len(rows[c]) /\ Len(rows[c]) \in Nat
           /\ Len(mined[c]) \in Nat /\ DOMAIN mined[c] = 1..Len(mined[c])
           /\ mempool[c] \subseteq Attempts
  <1>1. rows[c] \in Seq(Rows) /\ mined[c] \in Seq(Attempts)
    BY DEF TypeOK
  <1> QED
    BY <1>1, LenProperties, ElementOfSeq DEF TypeOK

-----------------------------------------------------------------------------
(* The types *)

Submitting == [pc : {"submit"}, attempt : Attempts, status : Status,
               unstored : SUBSET Status, phase : {"send", "record", "end"}]

LEMMA SendingType ==
    ASSUME TypeOK, NEW c \in Chains, sending[c].pc = "submit"
    PROVE  sending[c] \in Submitting
  BY DEF TypeOK, SendingStates, Submitting

LEMMA JoinedType ==
    ASSUME NEW g \in Submitting
    PROVE  /\ Joined(g) \in SendingStates
           /\ Joined(g).pc = "submit" => Joined(g) = g /\ (g.unstored # {} \/ g.phase # "end")
  BY DEF Joined, Idle, Submitting, SendingStates

LEMMA SendingStep ==
    ASSUME TypeOK, NEW c \in Chains, NEW g \in SendingStates,
           g.pc = "submit" => (g.unstored # {} \/ g.phase # "end"),
           sending' = [sending EXCEPT ![c] = g]
    PROVE  /\ sending' \in [Chains -> SendingStates]
           /\ \A d \in Chains : sending'[d].pc = "submit" =>
                 (sending'[d].unstored # {} \/ sending'[d].phase # "end")
  BY DEF TypeOK

LEMMA FaultType == TypeOK /\ Fault => faults' \in 0..MaxFaults
  BY DEF TypeOK, Fault

LEMMA CallerType ==
    ASSUME TypeOK, NEW k \in Calls, caller[k].pc = "signed"
    PROVE  /\ caller[k] \in [pc : {"signed", "stored"}, chain : Chains, nonce : Nat, price : Nat]
           /\ caller[k].chain \in Chains /\ caller[k].nonce \in Nat /\ caller[k].price \in Nat
           /\ CallerAttempt(k) \in Attempts
           /\ CallerAttempt(k).nonce = caller[k].nonce /\ CallerAttempt(k).call = k
  <1>1. caller[k] \in [pc : {"signed", "stored"}, chain : Chains, nonce : Nat, price : Nat]
    BY DEF TypeOK, CallerStates
  <1> QED
    BY <1>1 DEF CallerAttempt, Attempts

LEMMA HeldNonces ==
    \A c \in Chains : \A n : n \in Nonces(c) <=> \E p \in Held(rows[c]) : p[1] = n
  <1> SUFFICES ASSUME NEW c \in Chains, NEW n
               PROVE  n \in Nonces(c) <=> \E p \in Held(rows[c]) : p[1] = n
    OBVIOUS
  <1>1. ASSUME n \in Nonces(c) PROVE \E p \in Held(rows[c]) : p[1] = n
    <2>1. PICK i \in DOMAIN rows[c] : rows[c][i].nonce = n
      BY <1>1 DEF Nonces
    <2>2. <<rows[c][i].nonce, rows[c][i].call>> \in Held(rows[c])
      BY DEF Held
    <2> QED
      BY <2>1, <2>2
  <1>2. ASSUME NEW p \in Held(rows[c]), p[1] = n PROVE n \in Nonces(c)
    <2>1. PICK i \in DOMAIN rows[c] : p = <<rows[c][i].nonce, rows[c][i].call>>
      BY DEF Held
    <2> QED
      BY <1>2, <2>1 DEF Nonces
  <1> QED
    BY <1>1, <1>2

\* The next nonce is the number of nonces that are stored.
LEMMA NextNonceFacts ==
    ASSUME TypeOK, NoGaps, NEW c \in Chains
    PROVE  /\ NextNonce(c) \in Nat
           /\ \A n \in Nat : (\E p \in Held(rows[c]) : p[1] = n) <=> n < NextNonce(c)
           /\ Len(mined[c]) <= NextNonce(c)
  <1>1. PICK k \in Nat :
            /\ \A n \in Nat : (\E p \in Held(rows[c]) : p[1] = n) <=> n < k
            /\ Len(mined[c]) <= k
    BY DEF NoGaps
  <1>2. \A n \in Nat : n \in Nonces(c) <=> n < k
    BY <1>1, HeldNonces
  <1>3. Nonces(c) \subseteq Nat /\ Len(mined[c]) \in Nat
    BY TableType, RowFields DEF Nonces
  <1> DEFINE S == {Len(mined[c])} \union {n + 1 : n \in Nonces(c)}
  <1>4. \A x \in S : x \in Nat /\ x <= k
    BY <1>1, <1>2, <1>3
  <1>5. k \in S
    <2>1. CASE k = 0
      BY <2>1, <1>1, <1>3
    <2>2. CASE k # 0
      <3>1. k - 1 \in Nonces(c) /\ (k - 1) + 1 = k
        BY <2>2, <1>2
      <3> QED
        BY <3>1
    <2> QED
      BY <2>1, <2>2
  <1>6. NextNonce(c) = CHOOSE x \in S : \A y \in S : x >= y
    BY DEF NextNonce, Max
  <1> HIDE DEF S
  <1>7. \A y \in S : k >= y
    BY <1>4
  <1>8. \A x \in S : (\A y \in S : x >= y) => x = k
    BY <1>4, <1>5
  <1>9. NextNonce(c) = k
    BY <1>5, <1>6, <1>7, <1>8
  <1> QED
    BY <1>1, <1>9

-----------------------------------------------------------------------------
(* What the steps leave alone *)

\* Only the nonces and the calls of the table matter to these.
LEMMA TableFrame ==
    ASSUME OneCallEach, NoGaps, CallersWait,
           \A c \in Chains : Held(rows'[c]) = Held(rows[c]),
           UNCHANGED <<mined, caller>>,
           TypeOK
    PROVE  OneCallEach' /\ NoGaps' /\ CallersWait'
  <1>1. OneCallEach'
    BY DEF OneCallEach
  <1>2. NoGaps'
    BY DEF NoGaps
  <1>3. \A k \in Calls : caller[k].pc = "signed" => caller[k].chain \in Chains
    BY CallerType
  <1>4. CallersWait'
    BY <1>3 DEF CallersWait, NotStored, IsNext
  <1> QED
    BY <1>1, <1>2, <1>4

\* One table is written, with statuses only.
LEMMA RestatusFrame ==
    ASSUME TypeOK, NEW c \in Chains, NEW new \in [DOMAIN rows[c] -> Rows],
           \A i \in DOMAIN rows[c] : new[i].nonce = rows[c][i].nonce /\ new[i].call = rows[c][i].call,
           rows' = [rows EXCEPT ![c] = new]
    PROVE  /\ rows' \in [Chains -> Seq(Rows)]
           /\ \A d \in Chains : Held(rows'[d]) = Held(rows[d])
           /\ DOMAIN rows'[c] = DOMAIN rows[c] /\ rows'[c] = new
           /\ \A d \in Chains : d # c => rows'[d] = rows[d]
  <1>1. rows[c] \in Seq(Rows) /\ rows \in [Chains -> Seq(Rows)]
    BY DEF TypeOK
  <1>2. new \in Seq(Rows) /\ Held(new) = Held(rows[c])
    BY <1>1, Restatus
  <1> QED
    BY <1>1, <1>2

\* A step that leaves the table, the chains and the callers, and sends nothing new.
LEMMA QuietStep ==
    ASSUME SubmitterInv,
           UNCHANGED <<rows, mempool, mined, caller>>,
           TypeOK',
           \A c \in Chains : sending'[c].pc = "submit" =>
               /\ InTable(c, sending'[c].attempt)
               /\ sending'[c].attempt.nonce <= Len(mined[c])
               /\ sending'[c].status \in PendingStatus /\ sending'[c].unstored \subseteq PendingStatus,
           confirming'.pc = "receipts" =>
               \A a \in confirming'.attempts : a.nonce < Len(mined[confirming'.chain])
    PROVE  SubmitterInv'
  <1>1. OneCallEach' /\ NoGaps' /\ CallersWait'
    BY TableFrame DEF SubmitterInv
  <1>2. SentIsStored'
    BY DEF SubmitterInv, SentIsStored, InTable
  <1>3. SettledIsMined'
    BY DEF SubmitterInv, SettledIsMined
  <1>4. SendsInOrder'
    BY DEF SubmitterInv, SendsInOrder
  <1> QED
    BY <1>1, <1>2, <1>3, <1>4 DEF SubmitterInv

\* The statuses of the table are written.
LEMMA TableStep ==
    ASSUME SubmitterInv,
           UNCHANGED <<mempool, mined, caller>>,
           TypeOK',
           \A c \in Chains : Held(rows'[c]) = Held(rows[c]),
           \A c \in Chains : \A i \in DOMAIN rows'[c] :
               rows'[c][i].status \in PendingStatus \/ rows'[c][i].nonce < Len(mined[c]),
           \A c \in Chains : sending'[c].pc = "submit" =>
               /\ InTable(c, sending'[c].attempt)
               /\ sending'[c].attempt.nonce <= Len(mined[c])
               /\ sending'[c].status \in PendingStatus /\ sending'[c].unstored \subseteq PendingStatus,
           confirming'.pc = "receipts" =>
               \A a \in confirming'.attempts : a.nonce < Len(mined[confirming'.chain])
    PROVE  SubmitterInv'
  <1>1. OneCallEach' /\ NoGaps' /\ CallersWait'
    BY TableFrame DEF SubmitterInv
  <1>2. SentIsStored'
    BY DEF SubmitterInv, SentIsStored, InTable
  <1>3. SettledIsMined'
    BY DEF SubmitterInv, SettledIsMined
  <1>4. SendsInOrder'
    BY DEF SubmitterInv, SendsInOrder
  <1> QED
    BY <1>1, <1>2, <1>3, <1>4 DEF SubmitterInv

\* What the goroutines hold now.
LEMMA SendingFacts ==
    ASSUME SubmitterInv, NEW c \in Chains, sending[c].pc = "submit"
    PROVE  /\ sending[c] \in Submitting /\ sending[c].attempt \in Attempts
           /\ InTable(c, sending[c].attempt)
           /\ sending[c].attempt.nonce \in Nat /\ sending[c].attempt.nonce <= Len(mined[c])
           /\ sending[c].status \in PendingStatus /\ sending[c].unstored \subseteq PendingStatus
  <1>1. sending[c] \in Submitting
    BY SendingType DEF SubmitterInv
  <1> QED
    BY <1>1 DEF Submitting, Attempts, SubmitterInv, SentIsStored, SendsInOrder

\* The goroutine of one chain has moved on to g, and did not change what it sends.
LEMMA OneSends ==
    ASSUME SubmitterInv, NEW c \in Chains, NEW g,
           sending' = [sending EXCEPT ![c] = g],
           g.pc = "submit" =>
               /\ g \in Submitting /\ (g.unstored # {} \/ g.phase # "end")
               /\ InTable(c, g.attempt) /\ g.attempt.nonce <= Len(mined[c])
               /\ g.status \in PendingStatus /\ g.unstored \subseteq PendingStatus,
           g \in SendingStates
    PROVE  /\ sending' \in [Chains -> SendingStates]
           /\ \A d \in Chains : sending'[d].pc = "submit" =>
                 (sending'[d].unstored # {} \/ sending'[d].phase # "end")
           /\ \A d \in Chains : sending'[d].pc = "submit" =>
               /\ InTable(d, sending'[d].attempt)
               /\ sending'[d].attempt.nonce <= Len(mined[d])
               /\ sending'[d].status \in PendingStatus /\ sending'[d].unstored \subseteq PendingStatus
  <1>1. sending' \in [Chains -> SendingStates] /\ \A d \in Chains : sending'[d] = IF d = c THEN g ELSE sending[d]
    BY DEF SubmitterInv, TypeOK
  <1>2. \A d \in Chains : sending[d].pc = "submit" => (sending[d].unstored # {} \/ sending[d].phase # "end")
    BY DEF SubmitterInv, TypeOK
  <1>3. ASSUME NEW d \in Chains, sending'[d].pc = "submit"
        PROVE  /\ sending'[d].unstored # {} \/ sending'[d].phase # "end"
               /\ InTable(d, sending'[d].attempt)
               /\ sending'[d].attempt.nonce <= Len(mined[d])
               /\ sending'[d].status \in PendingStatus /\ sending'[d].unstored \subseteq PendingStatus
    <2>1. CASE d = c
      BY <1>1, <1>3, <2>1
    <2>2. CASE d # c
      BY <1>1, <1>2, <1>3, <2>2, SendingFacts
    <2> QED
      BY <2>1, <2>2
  <1> QED
    BY <1>1, <1>3

LEMMA IdleSends ==
    /\ Idle \in SendingStates /\ Idle.pc # "submit"
    /\ Idle \in ConfirmingStates /\ Idle.pc # "receipts"
  BY DEF Idle, SendingStates, ConfirmingStates

\* What the goroutine looking for receipts holds now.
LEMMA Receipts ==
    ASSUME SubmitterInv, confirming.pc = "receipts"
    PROVE  /\ confirming.chain \in Chains /\ confirming.attempts \subseteq Attempts
           /\ \A a \in confirming.attempts : a.nonce < Len(mined[confirming.chain])
  BY DEF SubmitterInv, TypeOK, ConfirmingStates, SettledIsMined

-----------------------------------------------------------------------------
(* The steps *)

LEMMA InvInit == Init => SubmitterInv
  <1> SUFFICES ASSUME Init PROVE SubmitterInv
    OBVIOUS
  <1>1. \A c \in Chains : rows[c] = << >> /\ mempool[c] = {} /\ mined[c] = << >> /\ sending[c] = Idle
    BY DEF Init
  <1>2. \A c \in Chains : Held(rows[c]) = {} /\ Len(mined[c]) = 0 /\ DOMAIN rows[c] = {} /\ DOMAIN mined[c] = {}
    BY <1>1 DEF Held
  <1>3. TypeOK
    BY IdleSends DEF Init, TypeOK, CallerStates
  <1>4. OneCallEach
    BY <1>2 DEF OneCallEach
  <1>5. NoGaps
    <2> SUFFICES ASSUME NEW c \in Chains
                 PROVE  /\ \A n \in Nat : (\E p \in Held(rows[c]) : p[1] = n) <=> n < 0
                        /\ Len(mined[c]) <= 0
      BY DEF NoGaps
    <2> QED
      BY <1>2
  <1>6. SentIsStored
    BY <1>1, <1>2, IdleSends DEF SentIsStored
  <1>7. CallersWait
    BY <1>2 DEF Init, CallersWait, NotStored
  <1>8. SettledIsMined
    BY <1>2, IdleSends DEF Init, SettledIsMined
  <1>9. SendsInOrder
    BY <1>1, IdleSends DEF SendsInOrder
  <1> QED
    BY <1>3, <1>4, <1>5, <1>6, <1>7, <1>8, <1>9 DEF SubmitterInv

LEMMA SignStep == ASSUME SubmitterInv, NEW k \in Calls, SignTransaction(k) PROVE SubmitterInv'
  <1>1. PICK c \in Chains, price \in OraclePrices :
            /\ caller[k].pc = "new" /\ ~Locked(c)
            /\ caller' = [caller EXCEPT
                  ![k] = [pc |-> "signed", chain |-> c, nonce |-> NextNonce(c), price |-> price]]
            /\ UNCHANGED <<rows, mempool, mined, sending, confirming, faults, crashes>>
    BY DEF SignTransaction
  <1>2. TypeOK /\ OneCallEach /\ NoGaps /\ SentIsStored /\ CallersWait /\ SettledIsMined /\ SendsInOrder
    BY DEF SubmitterInv
  <1>3. /\ NextNonce(c) \in Nat
        /\ \A n \in Nat : (\E p \in Held(rows[c]) : p[1] = n) <=> n < NextNonce(c)
    BY <1>2, NextNonceFacts
  <1> DEFINE signed == [pc |-> "signed", chain |-> c, nonce |-> NextNonce(c), price |-> price]
  <1>4. signed \in CallerStates
    BY <1>3, SubmitterAssumption DEF CallerStates
  <1>5. signed.pc = "signed" /\ signed.chain = c /\ signed.nonce = NextNonce(c)
    OBVIOUS
  <1> HIDE DEF signed
  <1>6. caller' \in [Calls -> CallerStates] /\ \A j \in Calls : caller'[j] = IF j = k THEN signed ELSE caller[j]
    BY <1>1, <1>2, <1>4 DEF TypeOK, signed
  <1>7. TypeOK'
    BY <1>1, <1>2, <1>6 DEF TypeOK
  <1>8. CallersWait'
    <2>1. \A j \in Calls : caller'[j].pc \in {"new", "signed"} => NotStored(j)'
      BY <1>1, <1>2, <1>6 DEF CallersWait, NotStored
    <2>2. \A j \in Calls : caller'[j].pc = "signed" => IsNext(j)'
      BY <1>1, <1>2, <1>3, <1>5, <1>6 DEF CallersWait, IsNext
    <2>3. \A i, j \in Calls :
            caller'[i].pc = "signed" /\ caller'[j].pc = "signed" /\ caller'[i].chain = caller'[j].chain => i = j
      BY <1>1, <1>2, <1>5, <1>6 DEF CallersWait, Locked
    <2> QED
      BY <2>1, <2>2, <2>3 DEF CallersWait
  <1>9. OneCallEach' /\ NoGaps' /\ SentIsStored' /\ SettledIsMined' /\ SendsInOrder'
    BY <1>1, <1>2 DEF OneCallEach, NoGaps, SentIsStored, InTable, SettledIsMined, SendsInOrder
  <1> QED
    BY <1>7, <1>8, <1>9 DEF SubmitterInv

LEMMA StoreStep == ASSUME SubmitterInv, NEW k \in Calls, StoreTransaction(k) PROVE SubmitterInv'
  <1> DEFINE c == caller[k].chain
             x == CallerAttempt(k)
             new == PutTX(rows[c], x, "Stored")
             pair == <<x.nonce, x.call>>
  <1>1. /\ caller[k].pc = "signed"
        /\ rows' = [rows EXCEPT ![c] = new]
        /\ caller' = [caller EXCEPT ![k].pc = "stored"]
        /\ UNCHANGED <<mempool, mined, sending, confirming, faults, crashes>>
    BY DEF StoreTransaction
  <1>2. TypeOK /\ OneCallEach /\ NoGaps /\ SentIsStored /\ CallersWait /\ SettledIsMined /\ SendsInOrder
    BY DEF SubmitterInv
  <1>3. /\ caller[k] \in [pc : {"signed", "stored"}, chain : Chains, nonce : Nat, price : Nat]
        /\ c \in Chains /\ x \in Attempts /\ x.nonce = caller[k].nonce /\ x.call = k /\ x.nonce \in Nat
    BY <1>1, <1>2, CallerType
  <1>4. rows[c] \in Seq(Rows) /\ rows \in [Chains -> Seq(Rows)]
    BY <1>2, <1>3 DEF TypeOK
  <1>5. "Stored" \in Status /\ "Stored" \in PendingStatus
    BY DEF Status, PendingStatus
  <1>6. /\ new \in Seq(Rows) /\ Held(new) = Held(rows[c]) \union {pair}
        /\ \A i \in DOMAIN new : \/ new[i].status = "Stored"
                                 \/ i \in DOMAIN rows[c] /\ new[i] = rows[c][i]
    BY <1>3, <1>4, <1>5, PutTXFacts
  <1>7. pair[1] = caller[k].nonce /\ pair[2] = k
    BY <1>3
  <1> HIDE DEF c, x, new, pair
  <1>8. /\ rows' \in [Chains -> Seq(Rows)]
        /\ \A d \in Chains : rows'[d] = IF d = c THEN new ELSE rows[d]
    BY <1>1, <1>4, <1>6
  <1>9. \A d \in Chains : Held(rows'[d]) = IF d = c THEN Held(rows[d]) \union {pair} ELSE Held(rows[d])
    BY <1>6, <1>8
  <1>10. /\ caller'[k] = [caller[k] EXCEPT !.pc = "stored"]
         /\ \A j \in Calls : j # k => caller'[j] = caller[j]
         /\ caller' \in [Calls -> CallerStates] /\ caller'[k].pc = "stored"
    BY <1>1, <1>2, <1>3 DEF TypeOK, CallerStates
  <1>11. TypeOK'
    BY <1>1, <1>2, <1>8, <1>10 DEF TypeOK
  <1>12. \A n \in Nat : (\E p \in Held(rows[c]) : p[1] = n) <=> n < caller[k].nonce
    BY <1>1, <1>2 DEF CallersWait, IsNext, c
  <1>13. \A d \in Chains : \A p \in Held(rows[d]) : p[2] # k
    BY <1>1, <1>2 DEF CallersWait, NotStored
  <1>14. \A p \in Held(rows[c]) : p[1] # caller[k].nonce
    <2>1. caller[k].nonce \in Nat /\ ~(caller[k].nonce < caller[k].nonce)
      BY <1>3
    <2> QED
      BY <1>12, <2>1
  <1>15. OneCallEach'
    <2> SUFFICES ASSUME NEW d \in Chains, NEW p \in Held(rows'[d]), NEW q \in Held(rows'[d])
                 PROVE  p[1] = q[1] <=> p[2] = q[2]
      BY DEF OneCallEach
    <2>1. CASE p \in Held(rows[d]) /\ q \in Held(rows[d])
      BY <2>1, <1>2 DEF OneCallEach
    <2>2. CASE p = pair /\ q = pair
      BY <2>2
    <2>3. CASE d = c /\ ((p = pair /\ q \in Held(rows[d])) \/ (q = pair /\ p \in Held(rows[d])))
      BY <2>3, <1>7, <1>13, <1>14
    <2> QED
      BY <2>1, <2>2, <2>3, <1>9
  <1>16. NoGaps'
    <2> SUFFICES ASSUME NEW d \in Chains
                 PROVE  \E m \in Nat :
                            /\ \A n \in Nat : (\E p \in Held(rows'[d]) : p[1] = n) <=> n < m
                            /\ Len(mined'[d]) <= m
      BY DEF NoGaps
    <2>1. CASE d # c
      BY <2>1, <1>1, <1>2, <1>9 DEF NoGaps
    <2>2. CASE d = c
      <3>1. PICK m \in Nat : /\ \A n \in Nat : (\E p \in Held(rows[c]) : p[1] = n) <=> n < m
                             /\ Len(mined[c]) <= m
        BY <1>2, <1>3 DEF NoGaps
      <3>2. caller[k].nonce \in Nat /\ \A n \in Nat : n < m <=> n < caller[k].nonce
        BY <3>1, <1>12, <1>3
      <3>3. m = caller[k].nonce
        BY <3>2
      <3>4. \A n \in Nat : (\E p \in Held(rows'[c]) : p[1] = n) <=> n < m \/ n = m
        <4>1. \A n \in Nat : (\E p \in Held(rows'[c]) : p[1] = n)
                                 <=> (\E p \in Held(rows[c]) : p[1] = n) \/ pair[1] = n
          BY <1>3, <1>9
        <4>2. pair[1] = m
          BY <1>7, <3>3
        <4> QED
          BY <3>1, <4>1, <4>2
      <3>5. \A n \in Nat : n < m \/ n = m <=> n < m + 1
        OBVIOUS
      <3>6. Len(mined'[c]) <= m + 1
        BY <3>1, <1>1, <1>2, <1>3, TableType
      <3> QED
        BY <2>2, <3>4, <3>5, <3>6
    <2> QED
      BY <2>1, <2>2
  <1>17. SentIsStored'
    <2>1. \A d \in Chains : \A a : InTable(d, a) => InTable(d, a)'
      BY <1>9 DEF InTable
    <2> QED
      BY <2>1, <1>1, <1>2 DEF SentIsStored
  <1>18. CallersWait'
    <2>1. \A j \in Calls : caller'[j].pc \in {"new", "signed"} => j # k /\ caller'[j] = caller[j]
      BY <1>10
    <2>2. \A j \in Calls : caller'[j].pc \in {"new", "signed"} => NotStored(j)'
      <3> SUFFICES ASSUME NEW j \in Calls, caller'[j].pc \in {"new", "signed"},
                          NEW d \in Chains, NEW p \in Held(rows'[d])
                   PROVE  p[2] # j
        BY DEF NotStored
      <3>1. j # k /\ NotStored(j)
        BY <2>1, <1>2 DEF CallersWait
      <3>2. p \in Held(rows[d]) \/ p[2] = k
        BY <1>7, <1>9
      <3> QED
        BY <3>1, <3>2 DEF NotStored
    <2>3. \A j \in Calls : caller'[j].pc = "signed" => caller[j].chain # c /\ caller[j].chain \in Chains
      BY <2>1, <1>1, <1>2, CallerType DEF CallersWait, c
    <2>4. \A j \in Calls : caller'[j].pc = "signed" => IsNext(j)'
      <3> SUFFICES ASSUME NEW j \in Calls, caller'[j].pc = "signed" PROVE IsNext(j)'
        OBVIOUS
      <3>1. caller'[j] = caller[j] /\ caller[j].pc = "signed" /\ IsNext(j)
        BY <2>1, <1>2 DEF CallersWait
      <3>2. Held(rows'[caller[j].chain]) = Held(rows[caller[j].chain])
        BY <2>3, <1>9
      <3> QED
        BY <3>1, <3>2 DEF IsNext
    <2> QED
      BY <2>1, <2>2, <2>4, <1>2 DEF CallersWait
  <1>19. SettledIsMined'
    <2>1. \A d \in Chains : \A i \in DOMAIN rows'[d] :
             rows'[d][i].status \in PendingStatus \/ rows'[d][i].nonce < Len(mined[d])
      <3> SUFFICES ASSUME NEW d \in Chains, NEW i \in DOMAIN rows'[d]
                   PROVE  rows'[d][i].status \in PendingStatus \/ rows'[d][i].nonce < Len(mined[d])
        OBVIOUS
      <3>1. rows'[d][i].status = "Stored" \/ (i \in DOMAIN rows[d] /\ rows'[d][i] = rows[d][i])
        BY <1>6, <1>8
      <3> QED
        BY <1>2, <1>5, <3>1 DEF SettledIsMined
    <2> QED
      BY <2>1, <1>1, <1>2 DEF SettledIsMined
  <1>20. SendsInOrder'
    BY <1>1, <1>2 DEF SendsInOrder
  <1> QED
    BY <1>11, <1>15, <1>16, <1>17, <1>18, <1>19, <1>20 DEF SubmitterInv

LEMMA CallersFail ==
    ASSUME SubmitterInv,
           UNCHANGED <<rows, mempool, mined>>, TypeOK',
           sending' = sending \/ sending' = [c \in Chains |-> Idle],
           confirming' = confirming \/ confirming' = Idle,
           \A k \in Calls : caller'[k] = caller[k] \/ (caller[k].pc = "signed" /\ caller'[k].pc = "new")
    PROVE  SubmitterInv'
  <1>1. TypeOK /\ OneCallEach /\ NoGaps /\ SentIsStored /\ CallersWait /\ SettledIsMined /\ SendsInOrder
    BY DEF SubmitterInv
  <1>2. CallersWait'
    BY <1>1 DEF CallersWait, NotStored, IsNext
  <1>3. OneCallEach' /\ NoGaps'
    BY <1>1 DEF OneCallEach, NoGaps
  <1>4. \A c \in Chains : sending'[c] = sending[c] \/ sending'[c].pc # "submit"
    BY IdleSends
  <1>5. SentIsStored' /\ SendsInOrder'
    BY <1>1, <1>4 DEF SentIsStored, SendsInOrder, InTable
  <1>6. SettledIsMined'
    BY <1>1, IdleSends DEF SettledIsMined
  <1> QED
    BY <1>2, <1>3, <1>5, <1>6 DEF SubmitterInv

-----------------------------------------------------------------------------
(* The steps of processQueue *)

\* The oldest nonce that is pending is not ahead of the chain: the nonces have no gap,
\* and a nonce that is not mined is pending.
LEMMA PendingFacts ==
    ASSUME SubmitterInv, NEW c \in Chains, NEW i \in PendingTX(c)
    PROVE  /\ i \in DOMAIN rows[c] /\ rows[c][i] \in Rows
           /\ rows[c][i].status \in PendingStatus
           /\ rows[c][i].nonce \in Nat /\ rows[c][i].nonce <= Len(mined[c])
           /\ InTable(c, rows[c][i])
  <1>1. TypeOK /\ NoGaps /\ SettledIsMined
    BY DEF SubmitterInv
  <1>2. /\ i \in DOMAIN rows[c] /\ rows[c][i].status \in PendingStatus
        /\ \A j \in DOMAIN rows[c] : rows[c][j].status \in PendingStatus =>
             rows[c][i].nonce < rows[c][j].nonce \/ rows[c][i].nonce = rows[c][j].nonce
    BY DEF PendingTX, WithStatus
  <1>3. \A j \in DOMAIN rows[c] : rows[c][j] \in Rows /\ rows[c][j].nonce \in Nat
    BY <1>1, TableType, RowFields
  <1>4. Len(mined[c]) \in Nat
    BY <1>1, TableType
  <1>5. rows[c][i].nonce <= Len(mined[c])
    <2> SUFFICES ASSUME Len(mined[c]) < rows[c][i].nonce PROVE FALSE
      BY <1>2, <1>3, <1>4
    <2>1. PICK k \in Nat : \A n \in Nat : (\E p \in Held(rows[c]) : p[1] = n) <=> n < k
      BY <1>1 DEF NoGaps
    <2>2. \E p \in Held(rows[c]) : p[1] = rows[c][i].nonce
      <3>1. <<rows[c][i].nonce, rows[c][i].call>> \in Held(rows[c])
        BY <1>2 DEF Held
      <3> QED
        BY <3>1
    <2>3. rows[c][i].nonce < k
      BY <2>1, <2>2, <1>2, <1>3
    <2>4. Len(mined[c]) < k
      BY <2>3, <1>2, <1>3, <1>4
    <2>5. PICK p \in Held(rows[c]) : p[1] = Len(mined[c])
      BY <2>1, <2>4, <1>4
    <2>6. PICK j \in DOMAIN rows[c] : p = <<rows[c][j].nonce, rows[c][j].call>>
      BY DEF Held
    <2>7. rows[c][j].nonce = Len(mined[c])
      BY <2>5, <2>6
    <2>8. rows[c][j].status \in PendingStatus
      BY <2>7, <1>1, <1>4 DEF SettledIsMined
    <2> QED
      BY <2>7, <2>8, <1>2, <1>3, <1>4
  <1> QED
    BY <1>2, <1>3, <1>5 DEF InTable, Held

\* The facts of the goroutines that a step which writes only tables needs.
LEMMA OthersSend ==
    ASSUME SubmitterInv
    PROVE  /\ \A c \in Chains : sending[c].pc = "submit" =>
                /\ InTable(c, sending[c].attempt)
                /\ sending[c].attempt.nonce <= Len(mined[c])
                /\ sending[c].status \in PendingStatus /\ sending[c].unstored \subseteq PendingStatus
           /\ confirming.pc = "receipts" =>
                \A a \in confirming.attempts : a.nonce < Len(mined[confirming.chain])
  BY SendingFacts, Receipts

LEMMA BeginStep == ASSUME SubmitterInv, BeginPass PROVE SubmitterInv'
  <1>1. /\ sending' = [c \in Chains |-> IF PendingTX(c) = {} THEN Idle ELSE [pc |-> "read"]]
        /\ confirming' = [pc |-> "read"]
        /\ UNCHANGED <<rows, mempool, mined, caller, faults, crashes>>
    BY DEF BeginPass
  <1>2. \A c \in Chains : sending'[c] \in SendingStates /\ sending'[c].pc # "submit"
    BY <1>1, IdleSends DEF SendingStates
  <1>3. confirming' \in ConfirmingStates /\ confirming'.pc # "receipts"
    BY <1>1 DEF ConfirmingStates
  <1>4. TypeOK'
    BY <1>1, <1>2, <1>3 DEF SubmitterInv, TypeOK
  <1> QED
    BY <1>1, <1>2, <1>3, <1>4, QuietStep

LEMMA MarkStep == ASSUME SubmitterInv, NEW c \in Chains, MarkAllBeforeNonce(c) PROVE SubmitterInv'
  <1> DEFINE new == [i \in DOMAIN rows[c] |->
                        IF rows[c][i].nonce < Len(mined[c])
                        THEN [rows[c][i] EXCEPT !.status = "ReplacedOrConfirmed"] ELSE rows[c][i]]
  <1>1. /\ rows' = [rows EXCEPT ![c] = new]
        /\ sending' = [sending EXCEPT ![c] = Idle]
        /\ UNCHANGED <<mempool, mined, caller, confirming, faults, crashes>>
    BY DEF MarkAllBeforeNonce
  <1>2. TypeOK
    BY DEF SubmitterInv
  <1>3. \A row \in Rows : /\ [row EXCEPT !.status = "ReplacedOrConfirmed"] \in Rows
                          /\ [row EXCEPT !.status = "ReplacedOrConfirmed"].nonce = row.nonce
                          /\ [row EXCEPT !.status = "ReplacedOrConfirmed"].call = row.call
    BY DEF Rows, Status
  <1>4. \A i \in DOMAIN rows[c] : rows[c][i] \in Rows
    BY <1>2, TableType
  <1>5. new \in [DOMAIN rows[c] -> Rows]
    BY <1>3, <1>4
  <1>6. \A i \in DOMAIN rows[c] : /\ new[i].nonce = rows[c][i].nonce /\ new[i].call = rows[c][i].call
                                  /\ new[i] = rows[c][i] \/ new[i].nonce < Len(mined[c])
    BY <1>3, <1>4
  <1> HIDE DEF new
  <1>7. /\ rows' \in [Chains -> Seq(Rows)]
        /\ \A d \in Chains : Held(rows'[d]) = Held(rows[d])
        /\ DOMAIN rows'[c] = DOMAIN rows[c] /\ rows'[c] = new
        /\ \A d \in Chains : d # c => rows'[d] = rows[d]
    BY <1>1, <1>2, <1>5, <1>6, RestatusFrame
  <1>8. \A d \in Chains : \A i \in DOMAIN rows'[d] :
           rows'[d][i].status \in PendingStatus \/ rows'[d][i].nonce < Len(mined[d])
    BY <1>6, <1>7 DEF SubmitterInv, SettledIsMined
  <1>9. /\ sending' \in [Chains -> SendingStates]
        /\ \A d \in Chains : sending'[d].pc = "submit" => sending'[d] = sending[d]
    BY <1>1, <1>2, IdleSends DEF TypeOK
  <1>10. TypeOK'
    BY <1>1, <1>2, <1>7, <1>9 DEF TypeOK
  <1> QED
    BY <1>1, <1>7, <1>8, <1>9, <1>10, OthersSend, TableStep

LEMMA ToSubmitFacts ==
    ASSUME NEW x \in Attempts, NEW s \in PendingStatus
    PROVE  /\ ToSubmit(x, s) \in Submitting /\ ToSubmit(x, s) \in SendingStates
           /\ ToSubmit(x, s).pc = "submit" /\ ToSubmit(x, s).attempt = x
           /\ ToSubmit(x, s).status = s /\ ToSubmit(x, s).unstored = {s}
  BY PendingIsStatus DEF ToSubmit, Submitting, SendingStates

\* A row that is pending is sent, at its own price or at another.
LEMMA SendRow ==
    ASSUME SubmitterInv, NEW c \in Chains, NEW i \in PendingTX(c),
           NEW x \in Attempts, NEW s \in PendingStatus,
           x.nonce = rows[c][i].nonce, x.call = rows[c][i].call,
           sending' = [sending EXCEPT ![c] = ToSubmit(x, s)],
           UNCHANGED <<rows, mempool, mined, caller, confirming, faults, crashes>>
    PROVE  SubmitterInv'
  <1> DEFINE g == ToSubmit(x, s)
  <1>1. /\ g \in Submitting /\ g \in SendingStates /\ g.attempt = x /\ g.status = s
        /\ g.unstored = {s} /\ g.unstored # {} /\ g.unstored \subseteq PendingStatus
    BY ToSubmitFacts
  <1>2. sending' = [sending EXCEPT ![c] = g]
    OBVIOUS
  <1> HIDE DEF g
  <1>3. InTable(c, g.attempt) /\ g.attempt.nonce <= Len(mined[c])
    BY <1>1, PendingFacts DEF InTable
  <1>4. /\ sending' \in [Chains -> SendingStates]
        /\ \A d \in Chains : sending'[d].pc = "submit" =>
              (sending'[d].unstored # {} \/ sending'[d].phase # "end")
        /\ \A d \in Chains : sending'[d].pc = "submit" =>
            /\ InTable(d, sending'[d].attempt)
            /\ sending'[d].attempt.nonce <= Len(mined[d])
            /\ sending'[d].status \in PendingStatus /\ sending'[d].unstored \subseteq PendingStatus
    BY <1>1, <1>2, <1>3, OneSends
  <1>5. TypeOK'
    BY <1>4 DEF SubmitterInv, TypeOK
  <1> QED
    BY <1>4, <1>5, OthersSend, QuietStep

LEMMA SendAgainStep == ASSUME SubmitterInv, NEW c \in Chains, SendAgain(c) PROVE SubmitterInv'
  <1>1. PICK i \in PendingTX(c) :
            /\ sending' = [sending EXCEPT ![c] = ToSubmit(Attempt(rows[c][i]), rows[c][i].status)]
            /\ UNCHANGED <<rows, mempool, mined, caller, confirming, faults, crashes>>
    BY DEF SendAgain, Todo
  <1>2. rows[c][i] \in Rows /\ rows[c][i].status \in PendingStatus
    BY PendingFacts
  <1>3. PICK x \in Attempts, s \in PendingStatus : x = Attempt(rows[c][i]) /\ s = rows[c][i].status
    BY <1>2, RowFields
  <1>4. x.nonce = rows[c][i].nonce /\ x.call = rows[c][i].call
    BY <1>2, <1>3, RowFields
  <1>5. sending' = [sending EXCEPT ![c] = ToSubmit(x, s)]
    BY <1>1, <1>3
  <1>6. UNCHANGED <<rows, mempool, mined, caller, confirming, faults, crashes>>
    BY <1>1
  <1> QED
    BY <1>4, <1>5, <1>6, SendRow

LEMMA BumpStep == ASSUME SubmitterInv, NEW c \in Chains, BumpTX(c) PROVE SubmitterInv'
  <1>1. PICK i \in PendingTX(c), oracle \in OraclePrices :
            /\ sending' = [sending EXCEPT ![c] =
                  ToSubmit([Attempt(rows[c][i]) EXCEPT !.price = BumpedPrice(rows[c][i].price, oracle)], "Stored")]
            /\ UNCHANGED <<rows, mempool, mined, caller, confirming, faults, crashes>>
    BY DEF BumpTX, Todo
  <1> DEFINE x == [Attempt(rows[c][i]) EXCEPT !.price = BumpedPrice(rows[c][i].price, oracle)]
  <1>2. rows[c][i] \in Rows
    BY PendingFacts
  <1>3. BumpedPrice(rows[c][i].price, oracle) \in Nat
    <2>1. rows[c][i].price \in Nat
      BY <1>2 DEF Rows
    <2>2. oracle \in Nat
      BY SubmitterAssumption
    <2> QED
      BY <2>1, <2>2 DEF BumpedPrice
  <1>4. x \in Attempts /\ x.nonce = rows[c][i].nonce /\ x.call = rows[c][i].call
    BY <1>2, <1>3 DEF Attempt, Attempts, Rows
  <1>5. "Stored" \in PendingStatus
    BY DEF PendingStatus
  <1>6. sending' = [sending EXCEPT ![c] = ToSubmit(x, "Stored")]
    BY <1>1
  <1> HIDE DEF x
  <1> QED
    BY <1>1, <1>4, <1>5, <1>6, SendRow

LEMMA CeilingStep == ASSUME SubmitterInv, NEW c \in Chains, GasCeiling(c) PROVE SubmitterInv'
  <1>1. /\ sending' = [sending EXCEPT ![c] = Idle]
        /\ UNCHANGED <<rows, mempool, mined, caller, confirming, faults, crashes>>
    BY DEF GasCeiling
  <1>2. /\ sending' \in [Chains -> SendingStates]
        /\ \A d \in Chains : sending'[d].pc = "submit" => sending'[d] = sending[d]
    BY <1>1, IdleSends DEF SubmitterInv, TypeOK
  <1>3. TypeOK'
    BY <1>1, <1>2 DEF SubmitterInv, TypeOK
  <1> QED
    BY <1>1, <1>2, <1>3, OthersSend, QuietStep

\* A goroutine of storeAndSubmit ends, or changes the statuses to write.
LEMMA MovesOn ==
    ASSUME SubmitterInv, NEW c \in Chains, sending[c].pc = "submit",
           NEW g \in Submitting, g.attempt = sending[c].attempt,
           g.status \in PendingStatus, g.unstored \subseteq PendingStatus,
           sending' = [sending EXCEPT ![c] = Joined(g)]
    PROVE  /\ sending' \in [Chains -> SendingStates]
           /\ \A d \in Chains : sending'[d].pc = "submit" =>
                 (sending'[d].unstored # {} \/ sending'[d].phase # "end")
           /\ \A d \in Chains : sending'[d].pc = "submit" =>
               /\ InTable(d, sending'[d].attempt)
               /\ sending'[d].attempt.nonce <= Len(mined[d])
               /\ sending'[d].status \in PendingStatus /\ sending'[d].unstored \subseteq PendingStatus
  <1>1. /\ Joined(g) \in SendingStates
        /\ Joined(g).pc = "submit" => Joined(g) = g /\ (g.unstored # {} \/ g.phase # "end")
    BY JoinedType
  <1>2. InTable(c, g.attempt) /\ g.attempt.nonce <= Len(mined[c])
    BY SendingFacts
  <1> DEFINE h == Joined(g)
  <1>3. /\ h \in SendingStates
        /\ h.pc = "submit" =>
             /\ h \in Submitting /\ (h.unstored # {} \/ h.phase # "end")
             /\ InTable(c, h.attempt) /\ h.attempt.nonce <= Len(mined[c])
             /\ h.status \in PendingStatus /\ h.unstored \subseteq PendingStatus
    BY <1>1, <1>2
  <1>4. sending' = [sending EXCEPT ![c] = h]
    OBVIOUS
  <1> HIDE DEF h
  <1> QED
    BY <1>3, <1>4, OneSends

\* The records that the goroutines of storeAndSubmit move to.
LEMMA SubmittingFields ==
    ASSUME NEW g \in Submitting
    PROVE  /\ [g EXCEPT !.unstored = {}] \in Submitting
           /\ [g EXCEPT !.unstored = {}].attempt = g.attempt
           /\ [g EXCEPT !.unstored = {}].status = g.status
           /\ [g EXCEPT !.unstored = {}].unstored = {}
           /\ [g EXCEPT !.phase = "end"] \in Submitting
           /\ [g EXCEPT !.phase = "end"].attempt = g.attempt
           /\ [g EXCEPT !.phase = "end"].status = g.status
           /\ [g EXCEPT !.phase = "end"].unstored = g.unstored
  BY DEF Submitting

\* A write of the attempt that is sent.
LEMMA PutStep ==
    ASSUME SubmitterInv, NEW c \in Chains, sending[c].pc = "submit", NEW s \in PendingStatus,
           NEW g \in Submitting, g.attempt = sending[c].attempt,
           g.status \in PendingStatus, g.unstored \subseteq PendingStatus,
           rows' = [rows EXCEPT ![c] = PutTX(@, sending[c].attempt, s)],
           sending' = [sending EXCEPT ![c] = Joined(g)],
           UNCHANGED <<mempool, mined, caller, confirming, faults, crashes>>
    PROVE  SubmitterInv'
  <1>1. TypeOK /\ SettledIsMined
    BY DEF SubmitterInv
  <1>2. /\ rows' \in [Chains -> Seq(Rows)]
        /\ \A d \in Chains : Held(rows'[d]) = Held(rows[d])
        /\ \A d \in Chains : \A i \in DOMAIN rows'[d] :
             rows'[d][i].status = s \/ (i \in DOMAIN rows[d] /\ rows'[d][i] = rows[d][i])
    <2>1. sending[c].attempt \in Attempts /\ InTable(c, sending[c].attempt) /\ s \in Status
      BY SendingFacts, PendingIsStatus
    <2>2. rows[c] \in Seq(Rows) /\ rows \in [Chains -> Seq(Rows)]
      BY <1>1 DEF TypeOK
    <2> DEFINE x == sending[c].attempt
               new == PutTX(rows[c], x, s)
    <2>3. rows' = [rows EXCEPT ![c] = new]
      OBVIOUS
    <2>4. /\ new \in Seq(Rows) /\ Held(new) = Held(rows[c]) \union {<<x.nonce, x.call>>}
          /\ \A i \in DOMAIN new :
                new[i].status = s \/ (i \in DOMAIN rows[c] /\ new[i] = rows[c][i])
      BY <2>1, <2>2, PutTXFacts
    <2> HIDE DEF new
    <2>5. Held(new) = Held(rows[c])
      BY <2>1, <2>4 DEF InTable
    <2> QED
      BY <2>2, <2>3, <2>4, <2>5
  <1>3. /\ sending' \in [Chains -> SendingStates]
        /\ \A d \in Chains : sending'[d].pc = "submit" =>
              (sending'[d].unstored # {} \/ sending'[d].phase # "end")
        /\ \A d \in Chains : sending'[d].pc = "submit" =>
            /\ InTable(d, sending'[d].attempt)
            /\ sending'[d].attempt.nonce <= Len(mined[d])
            /\ sending'[d].status \in PendingStatus /\ sending'[d].unstored \subseteq PendingStatus
    BY MovesOn
  <1>4. TypeOK'
    BY <1>1, <1>2, <1>3 DEF TypeOK
  <1>5. \A d \in Chains : \A i \in DOMAIN rows'[d] :
           rows'[d][i].status \in PendingStatus \/ rows'[d][i].nonce < Len(mined[d])
    BY <1>1, <1>2 DEF SettledIsMined
  <1> QED
    BY <1>2, <1>3, <1>4, <1>5, OthersSend, TableStep

LEMMA StoreQueueStep == ASSUME SubmitterInv, NEW c \in Chains, StoreQueue(c) PROVE SubmitterInv'
  <1>1. /\ sending[c].pc = "submit"
        /\ sending' = [sending EXCEPT ![c] = Joined([sending[c] EXCEPT !.unstored = {}])]
        /\ UNCHANGED <<mempool, mined, caller, confirming, faults, crashes>>
    BY DEF StoreQueue
  <1>2. PICK s \in sending[c].unstored : rows' = [rows EXCEPT ![c] = PutTX(@, sending[c].attempt, s)]
    BY DEF StoreQueue
  <1>3. sending[c] \in Submitting /\ s \in PendingStatus /\ sending[c].status \in PendingStatus
    BY <1>1, SendingFacts
  <1> DEFINE g == [sending[c] EXCEPT !.unstored = {}]
  <1>4. g \in Submitting /\ g.attempt = sending[c].attempt /\ g.status = sending[c].status /\ g.unstored = {}
    BY <1>3, SubmittingFields
  <1>5. sending' = [sending EXCEPT ![c] = Joined(g)]
    BY <1>1
  <1> HIDE DEF g
  <1> QED
    BY <1>1, <1>2, <1>3, <1>4, <1>5, PutStep

LEMMA StoreOutcomeStep == ASSUME SubmitterInv, NEW c \in Chains, StoreOutcome(c) PROVE SubmitterInv'
  <1>1. /\ sending[c].pc = "submit"
        /\ rows' = [rows EXCEPT ![c] = PutTX(@, sending[c].attempt, sending[c].status)]
        /\ sending' = [sending EXCEPT ![c] = Joined([sending[c] EXCEPT !.phase = "end"])]
        /\ UNCHANGED <<mempool, mined, caller, confirming, faults, crashes>>
    BY DEF StoreOutcome
  <1>2. /\ sending[c] \in Submitting /\ sending[c].status \in PendingStatus
        /\ sending[c].unstored \subseteq PendingStatus
    BY <1>1, SendingFacts
  <1> DEFINE g == [sending[c] EXCEPT !.phase = "end"]
  <1>3. /\ g \in Submitting /\ g.attempt = sending[c].attempt
        /\ g.status = sending[c].status /\ g.unstored = sending[c].unstored
    BY <1>2, SubmittingFields
  <1>4. sending' = [sending EXCEPT ![c] = Joined(g)]
    BY <1>1
  <1> HIDE DEF g
  <1> QED
    BY <1>1, <1>2, <1>3, <1>4, PutStep

\* The first write is cancelled, or the second fails.
LEMMA NoWriteStep ==
    ASSUME SubmitterInv, NEW c \in Chains, sending[c].pc = "submit",
           NEW g \in Submitting, g.attempt = sending[c].attempt,
           g.status \in PendingStatus, g.unstored \subseteq PendingStatus,
           sending' = [sending EXCEPT ![c] = Joined(g)],
           faults' \in 0..MaxFaults,
           UNCHANGED <<rows, mempool, mined, caller, confirming, crashes>>
    PROVE  SubmitterInv'
  <1>1. /\ sending' \in [Chains -> SendingStates]
        /\ \A d \in Chains : sending'[d].pc = "submit" =>
              (sending'[d].unstored # {} \/ sending'[d].phase # "end")
        /\ \A d \in Chains : sending'[d].pc = "submit" =>
            /\ InTable(d, sending'[d].attempt)
            /\ sending'[d].attempt.nonce <= Len(mined[d])
            /\ sending'[d].status \in PendingStatus /\ sending'[d].unstored \subseteq PendingStatus
    BY MovesOn
  <1>2. TypeOK'
    BY <1>1 DEF SubmitterInv, TypeOK
  <1> QED
    BY <1>1, <1>2, OthersSend, QuietStep

LEMMA CancelledStep == ASSUME SubmitterInv, NEW c \in Chains, StoreCancelled(c) PROVE SubmitterInv'
  <1>1. /\ sending[c].pc = "submit"
        /\ sending' = [sending EXCEPT ![c] = Joined([sending[c] EXCEPT !.unstored = {}])]
        /\ UNCHANGED <<rows, mempool, mined, caller, confirming, faults, crashes>>
    BY DEF StoreCancelled
  <1>2. sending[c] \in Submitting /\ sending[c].status \in PendingStatus
    BY <1>1, SendingFacts
  <1> DEFINE g == [sending[c] EXCEPT !.unstored = {}]
  <1>3. g \in Submitting /\ g.attempt = sending[c].attempt /\ g.status = sending[c].status /\ g.unstored = {}
    BY <1>2, SubmittingFields
  <1>4. sending' = [sending EXCEPT ![c] = Joined(g)]
    BY <1>1
  <1>5. faults' \in 0..MaxFaults
    BY <1>1 DEF SubmitterInv, TypeOK
  <1> HIDE DEF g
  <1> QED
    BY <1>1, <1>2, <1>3, <1>4, <1>5, NoWriteStep

LEMMA OutcomeFailsStep == ASSUME SubmitterInv, NEW c \in Chains, StoreOutcomeFails(c) PROVE SubmitterInv'
  <1>1. /\ sending[c].pc = "submit" /\ Fault
        /\ sending' = [sending EXCEPT ![c] = Joined([sending[c] EXCEPT !.phase = "end"])]
        /\ UNCHANGED <<rows, mempool, mined, caller, confirming, crashes>>
    BY DEF StoreOutcomeFails
  <1>2. /\ sending[c] \in Submitting /\ sending[c].status \in PendingStatus
        /\ sending[c].unstored \subseteq PendingStatus
    BY <1>1, SendingFacts
  <1> DEFINE g == [sending[c] EXCEPT !.phase = "end"]
  <1>3. /\ g \in Submitting /\ g.attempt = sending[c].attempt
        /\ g.status = sending[c].status /\ g.unstored = sending[c].unstored
    BY <1>2, SubmittingFields
  <1>4. sending' = [sending EXCEPT ![c] = Joined(g)]
    BY <1>1
  <1>5. faults' \in 0..MaxFaults
    BY <1>1, FaultType DEF SubmitterInv
  <1> HIDE DEF g
  <1> QED
    BY <1>1, <1>2, <1>3, <1>4, <1>5, NoWriteStep

\* A node has taken the attempt, or not: it is for the chain's next nonce.
LEMMA SentStep ==
    ASSUME SubmitterInv, NEW c \in Chains, sending[c].pc = "submit", sending[c].phase = "send",
           NEW s \in PendingStatus, Sent(c, s), faults' \in 0..MaxFaults,
           \/ mempool' = mempool
           \/ /\ sending[c].attempt.nonce >= Len(mined[c])
              /\ mempool' = [mempool EXCEPT ![c] = @ \union {sending[c].attempt}],
           UNCHANGED <<rows, mined, caller, confirming, crashes>>
    PROVE  SubmitterInv'
  <1> DEFINE g == [sending[c] EXCEPT !.status = s, !.phase = "record",
                      !.unstored = IF sending[c].unstored = {} THEN {} ELSE sending[c].unstored \union {s}]
  <1>1. sending' = [sending EXCEPT ![c] = g]
    BY DEF Sent
  <1>2. /\ sending[c] \in Submitting /\ sending[c].attempt \in Attempts
        /\ InTable(c, sending[c].attempt)
        /\ sending[c].attempt.nonce \in Nat /\ sending[c].attempt.nonce <= Len(mined[c])
        /\ sending[c].status \in PendingStatus /\ sending[c].unstored \subseteq PendingStatus
    BY SendingFacts
  <1>3. /\ g \in Submitting /\ g.attempt = sending[c].attempt
        /\ g.status = s /\ g.unstored \subseteq PendingStatus /\ g.phase = "record"
    BY <1>2, PendingIsStatus DEF Submitting
  <1>4. g \in SendingStates
    BY <1>3 DEF Submitting, SendingStates
  <1> HIDE DEF g
  <1>5. /\ sending' \in [Chains -> SendingStates]
        /\ \A d \in Chains : sending'[d].pc = "submit" =>
              (sending'[d].unstored # {} \/ sending'[d].phase # "end")
        /\ \A d \in Chains : sending'[d].pc = "submit" =>
            /\ InTable(d, sending'[d].attempt)
            /\ sending'[d].attempt.nonce <= Len(mined[d])
            /\ sending'[d].status \in PendingStatus /\ sending'[d].unstored \subseteq PendingStatus
    BY <1>1, <1>2, <1>3, <1>4, OneSends
  <1>6. TypeOK /\ OneCallEach /\ NoGaps /\ CallersWait /\ SentIsStored /\ SettledIsMined /\ SendsInOrder
    BY DEF SubmitterInv
  <1>7. /\ mempool' \in [Chains -> SUBSET Attempts]
        /\ \A d \in Chains : \A a \in mempool'[d] :
             a \in mempool[d] \/ (d = c /\ a = sending[c].attempt /\ a.nonce >= Len(mined[c]))
    <2>1. mempool \in [Chains -> SUBSET Attempts]
      BY <1>6 DEF TypeOK
    <2>2. PICK x \in Attempts : x = sending[c].attempt
      BY <1>2
    <2>3. CASE mempool' = mempool
      BY <2>1, <2>3
    <2>4. CASE x.nonce >= Len(mined[c]) /\ mempool' = [mempool EXCEPT ![c] = @ \union {x}]
      BY <2>1, <2>2, <2>4
    <2> QED
      BY <2>2, <2>3, <2>4
  <1>8. TypeOK'
    BY <1>5, <1>6, <1>7 DEF TypeOK
  <1>9. OneCallEach' /\ NoGaps' /\ CallersWait'
    BY <1>6, TableFrame
  <1>10. SettledIsMined'
    BY <1>6 DEF SettledIsMined
  <1>11. SentIsStored'
    <2>1. \A d \in Chains : \A a \in mempool'[d] : InTable(d, a)
      BY <1>2, <1>6, <1>7 DEF SentIsStored
    <2> QED
      BY <2>1, <1>5, <1>6 DEF SentIsStored, InTable
  <1>12. SendsInOrder'
    <2>1. \A d \in Chains : Len(mined[d]) \in Nat
      BY <1>6, TableType
    <2>2. \A d \in Chains : \A a \in mempool'[d] : a.nonce = Len(mined[d])
      BY <2>1, <1>2, <1>6, <1>7 DEF SendsInOrder
    <2> QED
      BY <2>2, <1>5 DEF SendsInOrder
  <1> QED
    BY <1>8, <1>9, <1>10, <1>11, <1>12 DEF SubmitterInv

LEMMA SendBatchStep == ASSUME SubmitterInv, NEW c \in Chains, SendBatch(c) PROVE SubmitterInv'
  <1> DEFINE taken == sending[c].attempt \notin mempool[c] /\ sending[c].attempt.nonce >= Len(mined[c])
             s == IF taken THEN "Submitted" ELSE "FailedSubmit"
  <1>1. /\ sending[c].pc = "submit" /\ sending[c].phase = "send"
        /\ mempool' = IF taken THEN [mempool EXCEPT ![c] = @ \union {sending[c].attempt}] ELSE mempool
        /\ Sent(c, s)
        /\ UNCHANGED <<rows, mined, caller, confirming, faults, crashes>>
    BY DEF SendBatch
  <1>2. s \in PendingStatus
    BY DEF PendingStatus
  <1>3. \/ mempool' = mempool
        \/ /\ sending[c].attempt.nonce >= Len(mined[c])
           /\ mempool' = [mempool EXCEPT ![c] = @ \union {sending[c].attempt}]
    BY <1>1
  <1>4. faults' \in 0..MaxFaults
    BY <1>1 DEF SubmitterInv, TypeOK
  <1> HIDE DEF s, taken
  <1> QED
    BY <1>1, <1>2, <1>3, <1>4, SentStep

LEMMA SendFailsStep == ASSUME SubmitterInv, NEW c \in Chains, SendBatchFails(c) PROVE SubmitterInv'
  <1>1. /\ sending[c].pc = "submit" /\ sending[c].phase = "send" /\ Fault
        /\ \/ mempool' = mempool
           \/ /\ sending[c].attempt.nonce >= Len(mined[c])
              /\ mempool' = [mempool EXCEPT ![c] = @ \union {sending[c].attempt}]
        /\ Sent(c, "FailedSubmit")
        /\ UNCHANGED <<rows, mined, caller, confirming, crashes>>
    BY DEF SendBatchFails
  <1>2. "FailedSubmit" \in PendingStatus /\ faults' \in 0..MaxFaults
    BY <1>1, FaultType DEF PendingStatus, SubmitterInv
  <1> QED
    BY <1>1, <1>2, SentStep

-----------------------------------------------------------------------------
(* The steps of processConfirmedQueue *)

LEMMA ReadStep == ASSUME SubmitterInv, ReadUnsettled PROVE SubmitterInv'
  <1>1. UNCHANGED <<rows, mempool, mined, caller, sending, faults, crashes>>
    BY DEF ReadUnsettled
  <1>2. TypeOK /\ SettledIsMined
    BY DEF SubmitterInv
  <1>3. CASE confirming' = Idle
    <2>1. TypeOK'
      BY <1>1, <1>2, <1>3, IdleSends DEF TypeOK
    <2> QED
      BY <1>1, <1>3, <2>1, IdleSends, OthersSend, QuietStep
  <1>4. CASE LowestUnsettled # {}
    <2>1. PICK p \in LowestUnsettled :
            confirming' = [pc |-> "receipts", chain |-> p[1],
                attempts |-> {Attempt(rows[p[1]][i]) :
                                i \in {j \in DOMAIN rows[p[1]] : rows[p[1]][j].nonce = rows[p[1]][p[2]].nonce}}]
      BY <1>4 DEF ReadUnsettled
    <2>2. /\ p[1] \in Chains /\ p[2] \in DOMAIN rows[p[1]]
          /\ rows[p[1]][p[2]].status = "ReplacedOrConfirmed"
      BY DEF LowestUnsettled
    <2>3. "ReplacedOrConfirmed" \notin PendingStatus
      BY DEF PendingStatus
    <2>4. rows[p[1]][p[2]].nonce < Len(mined[p[1]])
      BY <1>2, <2>2, <2>3 DEF SettledIsMined
    <2>5. \A i \in DOMAIN rows[p[1]] : /\ Attempt(rows[p[1]][i]) \in Attempts
                                       /\ Attempt(rows[p[1]][i]).nonce = rows[p[1]][i].nonce
      BY <1>2, <2>2, TableType, RowFields
    <2>6. /\ confirming'.pc = "receipts" /\ confirming'.chain = p[1]
          /\ confirming'.attempts \subseteq Attempts
          /\ \A a \in confirming'.attempts : a.nonce = rows[p[1]][p[2]].nonce
          /\ confirming' \in ConfirmingStates
      BY <2>1, <2>2, <2>5 DEF ConfirmingStates
    <2>7. TypeOK'
      BY <1>1, <1>2, <2>6 DEF TypeOK
    <2>8. \A a \in confirming'.attempts : a.nonce < Len(mined[confirming'.chain])
      BY <2>4, <2>6
    <2> QED
      BY <1>1, <2>7, <2>8, OthersSend, QuietStep
  <1> QED
    BY <1>3, <1>4 DEF ReadUnsettled

LEMMA ConfirmStep == ASSUME SubmitterInv, SetConfirmation PROVE SubmitterInv'
  <1> DEFINE c == confirming.chain
             found == confirming.attempts \intersect ToSet(mined[c])
             settled(i) == IF Attempt(rows[c][i]) \in found THEN "Confirmed" ELSE "Replaced"
             new == [i \in DOMAIN rows[c] |->
                        IF Attempt(rows[c][i]) \notin confirming.attempts THEN rows[c][i]
                        ELSE [rows[c][i] EXCEPT !.status = settled(i)]]
  <1>1. /\ confirming.pc = "receipts" /\ confirming' = Idle
        /\ rows' = rows \/ rows' = [rows EXCEPT ![c] = new]
        /\ UNCHANGED <<mempool, mined, caller, sending, faults, crashes>>
    BY DEF SetConfirmation
  <1>2. TypeOK /\ SettledIsMined
    BY DEF SubmitterInv
  <1>3. c \in Chains /\ \A a \in confirming.attempts : a.nonce < Len(mined[c])
    BY <1>1, Receipts
  <1>4. \A row \in Rows, s \in {"Confirmed", "Replaced"} :
            /\ [row EXCEPT !.status = s] \in Rows
            /\ [row EXCEPT !.status = s].nonce = row.nonce
            /\ [row EXCEPT !.status = s].call = row.call
    BY DEF Rows, Status
  <1>5. \A i \in DOMAIN rows[c] : /\ rows[c][i] \in Rows /\ Attempt(rows[c][i]).nonce = rows[c][i].nonce
                                  /\ settled(i) \in {"Confirmed", "Replaced"}
    BY <1>2, <1>3, TableType, RowFields
  <1> HIDE DEF c, settled
  <1>6. new \in [DOMAIN rows[c] -> Rows]
    BY <1>4, <1>5
  <1>7. \A i \in DOMAIN rows[c] : /\ new[i].nonce = rows[c][i].nonce /\ new[i].call = rows[c][i].call
                                  /\ new[i] = rows[c][i] \/ new[i].nonce < Len(mined[c])
    BY <1>3, <1>4, <1>5
  <1> HIDE DEF new
  <1>8. /\ rows' \in [Chains -> Seq(Rows)]
        /\ \A d \in Chains : Held(rows'[d]) = Held(rows[d])
        /\ \A d \in Chains : \A i \in DOMAIN rows'[d] :
             rows'[d][i].status \in PendingStatus \/ rows'[d][i].nonce < Len(mined[d])
    <2>1. CASE rows' = rows
      BY <2>1, <1>2 DEF TypeOK, SettledIsMined
    <2>2. CASE rows' = [rows EXCEPT ![c] = new]
      <3>1. /\ rows' \in [Chains -> Seq(Rows)]
            /\ \A d \in Chains : Held(rows'[d]) = Held(rows[d])
            /\ DOMAIN rows'[c] = DOMAIN rows[c] /\ rows'[c] = new
            /\ \A d \in Chains : d # c => rows'[d] = rows[d]
        <4>1. PICK d \in Chains : d = c
          BY <1>3
        <4>2. /\ new \in [DOMAIN rows[d] -> Rows] /\ rows' = [rows EXCEPT ![d] = new]
              /\ \A i \in DOMAIN rows[d] : new[i].nonce = rows[d][i].nonce /\ new[i].call = rows[d][i].call
          BY <2>2, <4>1, <1>6, <1>7
        <4>3. PICK f \in [DOMAIN rows[d] -> Rows] : f = new
          BY <4>2
        <4> QED
          BY <4>1, <4>2, <4>3, <1>2, RestatusFrame
      <3> QED
        BY <3>1, <1>2, <1>7 DEF SettledIsMined
    <2> QED
      BY <1>1, <2>1, <2>2
  <1>9. TypeOK'
    BY <1>1, <1>2, <1>8, IdleSends DEF TypeOK
  <1> QED
    BY <1>1, <1>8, <1>9, IdleSends, OthersSend, TableStep

LEMMA ConfirmFailsStep == ASSUME SubmitterInv, SetConfirmationFails PROVE SubmitterInv'
  <1>1. /\ confirming' = Idle /\ Fault
        /\ UNCHANGED <<rows, mempool, mined, caller, sending, crashes>>
    BY DEF SetConfirmationFails
  <1>2. TypeOK'
    BY <1>1, FaultType, IdleSends DEF SubmitterInv, TypeOK
  <1> QED
    BY <1>1, <1>2, IdleSends, OthersSend, QuietStep

-----------------------------------------------------------------------------
(* The steps of the chains and of the process *)

LEMMA MineStep == ASSUME SubmitterInv, NEW c \in Chains, MineNext(c) PROVE SubmitterInv'
  <1>1. PICK a \in mempool[c] :
            /\ a.nonce = Len(mined[c])
            /\ mined' = [mined EXCEPT ![c] = Append(@, a)]
            /\ mempool' = [mempool EXCEPT ![c] = {b \in @ : b.nonce > a.nonce}]
            /\ UNCHANGED <<rows, caller, sending, confirming, faults, crashes>>
    BY DEF MineNext
  <1>2. TypeOK /\ OneCallEach /\ NoGaps /\ SentIsStored /\ CallersWait /\ SettledIsMined /\ SendsInOrder
    BY DEF SubmitterInv
  <1>3. mined[c] \in Seq(Attempts) /\ a \in Attempts /\ Len(mined[c]) \in Nat
    BY <1>2, TableType DEF TypeOK
  <1>4. /\ Append(mined[c], a) \in Seq(Attempts)
        /\ Len(Append(mined[c], a)) = Len(mined[c]) + 1
        /\ DOMAIN Append(mined[c], a) = 1..(Len(mined[c]) + 1)
        /\ \A i \in 1..Len(mined[c]) : Append(mined[c], a)[i] = mined[c][i]
        /\ Append(mined[c], a)[Len(mined[c]) + 1] = a
        /\ DOMAIN mined[c] = 1..Len(mined[c])
    BY <1>3
  <1>5. /\ mined' \in [Chains -> Seq(Attempts)]
        /\ \A d \in Chains : mined'[d] = IF d = c THEN Append(mined[c], a) ELSE mined[d]
    BY <1>1, <1>2, <1>4 DEF TypeOK
  <1>6. \A d \in Chains : /\ Len(mined[d]) \in Nat /\ Len(mined'[d]) \in Nat
                          /\ Len(mined'[d]) = IF d = c THEN Len(mined[d]) + 1 ELSE Len(mined[d])
    BY <1>2, <1>4, <1>5, TableType
  <1>7. /\ mempool' \in [Chains -> SUBSET Attempts]
        /\ \A d \in Chains : mempool'[d] \subseteq mempool[d]
        /\ mempool'[c] = {}
    <2>1. \A b \in mempool[c] : ~(b.nonce > a.nonce)
      BY <1>1, <1>2, <1>3 DEF SendsInOrder
    <2> QED
      BY <2>1, <1>1, <1>2 DEF TypeOK
  <1>8. TypeOK'
    BY <1>1, <1>2, <1>5, <1>7 DEF TypeOK
  <1>9. OneCallEach' /\ CallersWait'
    BY <1>1, <1>2 DEF OneCallEach, CallersWait, NotStored, IsNext
  <1>10. NoGaps'
    <2> SUFFICES ASSUME NEW d \in Chains
                 PROVE  \E k \in Nat :
                            /\ \A n \in Nat : (\E p \in Held(rows[d]) : p[1] = n) <=> n < k
                            /\ Len(mined'[d]) <= k
      BY <1>1 DEF NoGaps
    <2>1. PICK k \in Nat : /\ \A n \in Nat : (\E p \in Held(rows[d]) : p[1] = n) <=> n < k
                           /\ Len(mined[d]) <= k
      BY <1>2 DEF NoGaps
    <2>2. CASE d # c
      BY <2>1, <2>2, <1>6
    <2>3. CASE d = c
      <3>1. InTable(c, a)
        BY <1>2 DEF SentIsStored
      <3>2. \E p \in Held(rows[c]) : p[1] = Len(mined[c])
        <4>1. <<a.nonce, a.call>> \in Held(rows[c]) /\ <<a.nonce, a.call>>[1] = Len(mined[c])
          BY <3>1, <1>1 DEF InTable
        <4> QED
          BY <4>1
      <3>3. Len(mined[c]) < k
        BY <2>1, <2>3, <3>2, <1>3
      <3> QED
        BY <2>1, <2>3, <3>3, <1>6
    <2> QED
      BY <2>2, <2>3
  <1>11. SentIsStored'
    <2>1. \A d \in Chains : \A b \in mempool'[d] : InTable(d, b)
      BY <1>2, <1>7 DEF SentIsStored
    <2>2. \A d \in Chains : \A i \in DOMAIN mined'[d] : InTable(d, mined'[d][i])
      BY <1>2, <1>3, <1>4, <1>5 DEF SentIsStored
    <2> QED
      BY <2>1, <2>2, <1>1, <1>2 DEF SentIsStored, InTable
  <1>12. SettledIsMined'
    <2>1. \A d \in Chains : \A i \in DOMAIN rows[d] : rows[d][i].nonce \in Nat
      BY <1>2, TableType, RowFields
    <2>2. \A d \in Chains : \A i \in DOMAIN rows[d] :
             rows[d][i].status \in PendingStatus \/ rows[d][i].nonce < Len(mined'[d])
      BY <2>1, <1>2, <1>6 DEF SettledIsMined
    <2>3. ASSUME confirming.pc = "receipts"
          PROVE  \A x \in confirming.attempts : x.nonce < Len(mined'[confirming.chain])
      <3>1. /\ confirming.chain \in Chains
            /\ \A x \in confirming.attempts : x.nonce \in Nat /\ x.nonce < Len(mined[confirming.chain])
        BY <2>3, Receipts DEF Attempts
      <3> QED
        BY <3>1, <1>6
    <2> QED
      BY <2>2, <2>3, <1>1 DEF SettledIsMined
  <1>13. SendsInOrder'
    <2>1. \A d \in Chains : \A b \in mempool'[d] : b.nonce = Len(mined'[d])
      BY <1>2, <1>6, <1>7 DEF SendsInOrder
    <2>2. \A d \in Chains : sending[d].pc = "submit" =>
            /\ sending[d].attempt.nonce <= Len(mined'[d])
            /\ sending[d].status \in PendingStatus /\ sending[d].unstored \subseteq PendingStatus
      BY <1>6, SendingFacts
    <2> QED
      BY <2>1, <2>2, <1>1 DEF SendsInOrder
  <1> QED
    BY <1>8, <1>9, <1>10, <1>11, <1>12, <1>13 DEF SubmitterInv

LEMMA ForgetStep == ASSUME SubmitterInv, NEW c \in Chains, Forget(c) PROVE SubmitterInv'
  <1>1. /\ Fault
        /\ \E a \in mempool[c] : mempool' = [mempool EXCEPT ![c] = @ \ {a}]
        /\ UNCHANGED <<rows, mined, caller, sending, confirming, crashes>>
    BY DEF Forget
  <1>2. TypeOK /\ OneCallEach /\ NoGaps /\ SentIsStored /\ CallersWait /\ SettledIsMined /\ SendsInOrder
    BY DEF SubmitterInv
  <1>3. /\ mempool' \in [Chains -> SUBSET Attempts]
        /\ \A d \in Chains : mempool'[d] \subseteq mempool[d]
    BY <1>1, <1>2 DEF TypeOK
  <1>4. TypeOK'
    BY <1>1, <1>2, <1>3, FaultType DEF TypeOK
  <1>5. OneCallEach' /\ NoGaps' /\ CallersWait'
    BY <1>1, <1>2, TableFrame
  <1>6. SettledIsMined'
    BY <1>1, <1>2 DEF SettledIsMined
  <1>7. SentIsStored' /\ SendsInOrder'
    BY <1>1, <1>2, <1>3 DEF SentIsStored, InTable, SendsInOrder
  <1> QED
    BY <1>4, <1>5, <1>6, <1>7 DEF SubmitterInv

LEMMA StoreFailsStep == ASSUME SubmitterInv, NEW k \in Calls, StoreTransactionFails(k) PROVE SubmitterInv'
  <1>1. /\ caller[k].pc = "signed" /\ Fault
        /\ caller' = [caller EXCEPT ![k] = [pc |-> "new"]]
        /\ UNCHANGED <<rows, mempool, mined, sending, confirming, crashes>>
    BY DEF StoreTransactionFails
  <1>2. /\ caller' \in [Calls -> CallerStates]
        /\ \A j \in Calls : caller'[j] = caller[j] \/ (caller[j].pc = "signed" /\ caller'[j].pc = "new")
    BY <1>1 DEF SubmitterInv, TypeOK, CallerStates
  <1>3. TypeOK'
    BY <1>1, <1>2, FaultType DEF SubmitterInv, TypeOK
  <1> QED
    BY <1>1, <1>2, <1>3, CallersFail

LEMMA CrashStep == ASSUME SubmitterInv, Crash PROVE SubmitterInv'
  <1>1. /\ crashes < MaxCrashes /\ crashes' = crashes + 1 /\ Fault
        /\ sending' = [c \in Chains |-> Idle] /\ confirming' = Idle
        /\ caller' = [k \in Calls |-> IF caller[k].pc = "signed" THEN [pc |-> "new"] ELSE caller[k]]
        /\ UNCHANGED <<rows, mempool, mined>>
    BY DEF Crash
  <1>2. /\ caller' \in [Calls -> CallerStates]
        /\ \A j \in Calls : caller'[j] = caller[j] \/ (caller[j].pc = "signed" /\ caller'[j].pc = "new")
    BY <1>1 DEF SubmitterInv, TypeOK, CallerStates
  <1>3. crashes' \in 0..MaxCrashes
    BY <1>1, SubmitterAssumption DEF SubmitterInv, TypeOK
  <1>4. \A c \in Chains : sending'[c] \in SendingStates /\ sending'[c].pc # "submit"
    BY <1>1, IdleSends
  <1>5. sending' \in [Chains -> SendingStates] /\ confirming' \in ConfirmingStates
    BY <1>1, IdleSends
  <1>6. TypeOK'
    BY <1>1, <1>2, <1>3, <1>4, <1>5, FaultType DEF SubmitterInv, TypeOK
  <1> QED
    BY <1>1, <1>2, <1>6, CallersFail

-----------------------------------------------------------------------------
(* The theorems *)

LEMMA InvNext == SubmitterInv /\ [Next]_vars => SubmitterInv'
  <1> SUFFICES ASSUME SubmitterInv, [Next]_vars PROVE SubmitterInv'
    OBVIOUS
  <1>1. ASSUME NEW k \in Calls, SubmitTransaction(k) PROVE SubmitterInv'
    BY <1>1, SignStep, StoreStep, StoreFailsStep DEF SubmitTransaction
  <1>2. CASE BeginPass
    BY <1>2, BeginStep
  <1>3. ASSUME NEW c \in Chains, ChainQueue(c) PROVE SubmitterInv'
    BY <1>3, SendAgainStep, BumpStep, CeilingStep, MarkStep, StoreQueueStep, SendBatchStep,
       StoreOutcomeStep DEF ChainQueue, Bump
  <1>4. ASSUME NEW c \in Chains, ChainQueueFaults(c) PROVE SubmitterInv'
    BY <1>4, CancelledStep, SendFailsStep, OutcomeFailsStep DEF ChainQueueFaults
  <1>5. CASE ReadUnsettled \/ SetConfirmation \/ SetConfirmationFails
    BY <1>5, ReadStep, ConfirmStep, ConfirmFailsStep
  <1>6. ASSUME NEW c \in Chains, MineNext(c) \/ Forget(c) PROVE SubmitterInv'
    BY <1>6, MineStep, ForgetStep
  <1>7. CASE Crash
    BY <1>7, CrashStep
  <1>8. CASE UNCHANGED vars
    <2>1. UNCHANGED <<rows, mempool, mined, caller, sending, confirming, faults, crashes>>
      BY <1>8 DEF vars
    <2>2. TypeOK'
      BY <2>1 DEF SubmitterInv, TypeOK
    <2> QED
      BY <2>1, <2>2, OthersSend, QuietStep
  <1> QED
    BY <1>1, <1>2, <1>3, <1>4, <1>5, <1>6, <1>7, <1>8 DEF Next

\* The invariant of the submitter, the types among it.
THEOREM SubmitterInvariant == Spec => []SubmitterInv
  <1>1. Init => SubmitterInv
    BY InvInit
  <1>2. SubmitterInv /\ [Next]_vars => SubmitterInv'
    BY InvNext
  <1> QED
    BY <1>1, <1>2, PTL DEF Spec

\* The variables have their types, for any chains, calls and prices.
THEOREM TypeHolds == Spec => []TypeOK
  <1>1. SubmitterInv => TypeOK
    BY DEF SubmitterInv
  <1> QED
    BY <1>1, SubmitterInvariant, PTL

\* A nonce belongs to one call, in the table, in the mempools and on the chain,
\* and the nonce of a caller that has signed and not stored is free.
THEOREM NonceHasOneCallHolds == Spec => []NonceHasOneCall
  <1>1. SubmitterInv => NonceHasOneCall
    <2> SUFFICES ASSUME SubmitterInv, NEW c \in Chains
                 PROVE  /\ \A a, b \in Known(c) : (a.nonce = b.nonce) <=> (a.call = b.call)
                        /\ \A k \in Calls, a \in Known(c) :
                              caller[k].pc = "signed" /\ caller[k].chain = c => a.nonce < caller[k].nonce
      BY DEF NonceHasOneCall
    <2>1. TypeOK /\ OneCallEach /\ SentIsStored /\ CallersWait
      BY DEF SubmitterInv
    <2>2. \A a \in Known(c) : InTable(c, a)
      <3>1. \A i \in DOMAIN rows[c] : InTable(c, Attempt(rows[c][i]))
        BY <2>1, TableType, RowFields DEF InTable, Held
      <3>2. \A a \in mempool[c] : InTable(c, a)
        BY <2>1 DEF SentIsStored
      <3>3. ToSet(mined[c]) = {mined[c][i] : i \in DOMAIN mined[c]}
        BY DEF ToSet
      <3>4. \A a \in ToSet(mined[c]) : InTable(c, a)
        BY <2>1, <3>3 DEF SentIsStored
      <3> QED
        BY <3>1, <3>2, <3>4 DEF Known
    <2>3. \A p \in Held(rows[c]) : p[1] \in Nat
      BY <2>1, TableType, RowFields DEF Held
    <2>4. ASSUME NEW a \in Known(c)
          PROVE  \E p \in Held(rows[c]) : p[1] = a.nonce /\ p[2] = a.call
      <3>1. <<a.nonce, a.call>> \in Held(rows[c])
        BY <2>2 DEF InTable
      <3> QED
        BY <3>1
    <2>5. ASSUME NEW a \in Known(c), NEW b \in Known(c)
          PROVE  a.nonce = b.nonce <=> a.call = b.call
      <3>1. PICK p \in Held(rows[c]) : p[1] = a.nonce /\ p[2] = a.call
        BY <2>4
      <3>2. PICK q \in Held(rows[c]) : q[1] = b.nonce /\ q[2] = b.call
        BY <2>4
      <3>3. p[1] = q[1] <=> p[2] = q[2]
        BY <2>1 DEF OneCallEach
      <3> QED
        BY <3>1, <3>2, <3>3
    <2>6. ASSUME NEW k \in Calls, NEW a \in Known(c), caller[k].pc = "signed", caller[k].chain = c
          PROVE  a.nonce < caller[k].nonce
      <3>1. \A n \in Nat : (\E p \in Held(rows[c]) : p[1] = n) <=> n < caller[k].nonce
        BY <2>1, <2>6 DEF CallersWait, IsNext
      <3>2. PICK p \in Held(rows[c]) : p[1] = a.nonce
        BY <2>4
      <3> QED
        BY <2>3, <3>1, <3>2
    <2> QED
      BY <2>5, <2>6
  <1> QED
    BY <1>1, SubmitterInvariant, PTL

\* Nothing is sent ahead of the chain, and the stored nonces have no gap.
THEOREM NeverAheadHolds == Spec => []NeverAhead
  <1>1. SubmitterInv => NeverAhead
    <2> SUFFICES ASSUME SubmitterInv, NEW c \in Chains
                 PROVE  /\ \A a \in mempool[c] : a.nonce = Len(mined[c])
                        /\ Nonces(c) = 0 .. (Cardinality(Nonces(c)) - 1)
                        /\ Len(mined[c]) <= Cardinality(Nonces(c))
      BY DEF NeverAhead
    <2>1. TypeOK /\ NoGaps /\ SendsInOrder
      BY DEF SubmitterInv
    <2>2. PICK k \in Nat : /\ \A n \in Nat : (\E p \in Held(rows[c]) : p[1] = n) <=> n < k
                           /\ Len(mined[c]) <= k
      BY <2>1 DEF NoGaps
    <2>3. Nonces(c) \subseteq Nat
      BY <2>1, TableType, RowFields DEF Nonces
    <2>4. \A n \in Nat : n \in Nonces(c) <=> n < k
      BY <2>2, HeldNonces
    <2>5. Nonces(c) = 0 .. (k - 1)
      <3>1. \A n : n \in Nonces(c) <=> n \in 0 .. (k - 1)
        BY <2>2, <2>3, <2>4
      <3> DEFINE S == Nonces(c)
                 T == 0 .. (k - 1)
      <3>2. \A n : n \in S <=> n \in T
        BY <3>1
      <3> HIDE DEF S, T
      <3>3. S = T
        BY <3>2
      <3> QED
        BY <3>3 DEF S, T
    <2>6. Cardinality(0 .. (k - 1)) = k
      BY FS_Interval
    <2> QED
      BY <2>1, <2>2, <2>5, <2>6 DEF SendsInOrder
  <1> QED
    BY <1>1, SubmitterInvariant, PTL

-----------------------------------------------------------------------------
(* What is called Confirmed was mined *)

IsPending(row) == row.status \in PendingStatus

\* The attempts for one nonce are settled together, as MarkAllBeforeNonce marks them all and
\* processConfirmedQueue reads them all.
SettledTogether ==
    \A c \in Chains : \A i, j \in DOMAIN rows[c] :
        rows[c][i].nonce = rows[c][j].nonce => (IsPending(rows[c][i]) <=> IsPending(rows[c][j]))

\* What is being sent, and is about to be written as pending, is for a nonce of which
\* no attempt is settled.
SendsPending ==
    \A c \in Chains : sending[c].pc = "submit" =>
        \A i \in DOMAIN rows[c] :
            rows[c][i].nonce = sending[c].attempt.nonce => IsPending(rows[c][i])

\* The receipts looked for are of all the attempts for one nonce.
LooksForAll ==
    confirming.pc = "receipts" =>
        /\ \A x, y \in confirming.attempts : x.nonce = y.nonce
        /\ \A x \in confirming.attempts :
            /\ \E i \in DOMAIN rows[confirming.chain] : Attempt(rows[confirming.chain][i]) = x
            /\ \A i \in DOMAIN rows[confirming.chain] :
                rows[confirming.chain][i].nonce = x.nonce =>
                    /\ Attempt(rows[confirming.chain][i]) \in confirming.attempts
                    /\ ~IsPending(rows[confirming.chain][i])

\* SettledIsTrue, row by row.
IsMined(c, x) == x \in ToSet(mined[c])
SettledRow(c, i) ==
    /\ rows[c][i].status = "Confirmed" => IsMined(c, Attempt(rows[c][i]))
    /\ rows[c][i].status = "Replaced" =>
        /\ ~IsMined(c, Attempt(rows[c][i]))
        /\ \E j \in DOMAIN rows[c] :
            rows[c][j].nonce = rows[c][i].nonce /\ rows[c][j].status = "Confirmed"
RowsAreTrue == \A c \in Chains : \A i \in DOMAIN rows[c] : SettledRow(c, i)

SettledInv == SettledTogether /\ SendsPending /\ LooksForAll /\ RowsAreTrue

LEMMA SettledStatus ==
    "Confirmed" \notin PendingStatus /\ "Replaced" \notin PendingStatus
    /\ "ReplacedOrConfirmed" \notin PendingStatus
  BY DEF PendingStatus

LEMMA RowTypes ==
    ASSUME SubmitterInv, NEW c \in Chains, NEW i \in DOMAIN rows[c]
    PROVE  /\ rows[c][i] \in Rows /\ rows[c][i].nonce \in Nat /\ Len(mined[c]) \in Nat
           /\ Attempt(rows[c][i]) \in Attempts
           /\ Attempt(rows[c][i]).nonce = rows[c][i].nonce
           /\ IsPending(rows[c][i]) \/ rows[c][i].nonce < Len(mined[c])
  BY TableType, RowFields DEF SubmitterInv, SettledIsMined, IsPending

\* No loop begins to write an attempt for a nonce that is settled.
NothingOldIsSent ==
    \A c \in Chains : sending'[c].pc = "submit" =>
        \/ sending[c].pc = "submit" /\ sending'[c].attempt = sending[c].attempt
        \/ Len(mined[c]) <= sending'[c].attempt.nonce

\* A step that writes no row; what is mined is for the next nonce.
LEMMA RowsStay ==
    ASSUME SubmitterInv, SettledInv, rows' = rows, NothingOldIsSent,
           confirming' = confirming \/ confirming'.pc # "receipts",
           \A c \in Chains : \A x :
               /\ IsMined(c, x) => IsMined(c, x)'
               /\ IsMined(c, x)' => IsMined(c, x) \/ x.nonce = Len(mined[c])
    PROVE  SettledInv'
  <1>1. SettledTogether' /\ LooksForAll'
    BY DEF SettledInv, SettledTogether, LooksForAll
  <1>2. SendsPending'
    <2> SUFFICES ASSUME NEW c \in Chains, sending'[c].pc = "submit", NEW i \in DOMAIN rows[c],
                        rows[c][i].nonce = sending'[c].attempt.nonce
                 PROVE  IsPending(rows[c][i])
      BY DEF SendsPending
    <2>1. CASE sending[c].pc = "submit" /\ sending'[c].attempt = sending[c].attempt
      BY <2>1 DEF SettledInv, SendsPending
    <2>2. CASE Len(mined[c]) <= sending'[c].attempt.nonce
      BY <2>2, RowTypes
    <2> QED
      BY <2>1, <2>2 DEF NothingOldIsSent
  <1>3. RowsAreTrue'
    <2> SUFFICES ASSUME NEW c \in Chains, NEW i \in DOMAIN rows[c] PROVE SettledRow(c, i)'
      BY DEF RowsAreTrue
    <2>1. SettledRow(c, i)
      BY DEF SettledInv, RowsAreTrue
    <2>2. PICK x : x = Attempt(rows[c][i])
      OBVIOUS
    <2>3. rows[c][i].status = "Replaced" => x.nonce # Len(mined[c])
      BY <2>2, RowTypes, SettledStatus DEF IsPending
    <2>4. (rows[c][i].status = "Confirmed" => IsMined(c, x)')
          /\ (rows[c][i].status = "Replaced" => ~IsMined(c, x)')
      BY <2>1, <2>2, <2>3 DEF SettledRow
    <2> QED
      BY <2>1, <2>2, <2>4 DEF SettledRow, IsMined
  <1> QED
    BY <1>1, <1>2, <1>3 DEF SettledInv

\* PutTXS writes its status to the attempt, wherever it is, and to no other row.
LEMMA PutTXRows ==
    ASSUME NEW table \in Seq(Rows), NEW x \in Attempts, NEW s \in Status
    PROVE  /\ DOMAIN table \subseteq DOMAIN PutTX(table, x, s)
           /\ \A i \in DOMAIN PutTX(table, x, s) :
                \/ i \in DOMAIN table /\ PutTX(table, x, s)[i] = table[i]
                \/ /\ Attempt(PutTX(table, x, s)[i]) = x /\ PutTX(table, x, s)[i].nonce = x.nonce
                   /\ PutTX(table, x, s)[i].status = s
           /\ \A i \in DOMAIN table :
                PutTX(table, x, s)[i] = table[i] \/ Attempt(table[i]) = x
  <1> DEFINE same == {i \in DOMAIN table : Attempt(table[i]) = x}
  <1>d. /\ DOMAIN table = 1..Len(table) /\ Len(table) \in Nat
        /\ \A i \in DOMAIN table : table[i] \in Rows
    BY LenProperties, ElementOfSeq
  <1>1. CASE same = {}
    <2> DEFINE row == [nonce |-> x.nonce, call |-> x.call, price |-> x.price, status |-> s]
    <2>1. row \in Rows /\ PutTX(table, x, s) = Append(table, row)
      BY <1>1 DEF PutTX, Rows, Attempts
    <2>2. /\ DOMAIN Append(table, row) = 1..(Len(table) + 1)
          /\ \A i \in 1..Len(table) : Append(table, row)[i] = table[i]
          /\ Append(table, row)[Len(table) + 1] = row
      BY <2>1, <1>d
    <2>3. Attempt(row) = x /\ row.nonce = x.nonce /\ row.status = s
      BY DEF Attempt, Attempts
    <2>4. DOMAIN Append(table, row) = DOMAIN table \union {Len(table) + 1}
      BY <2>2, <1>d
    <2> HIDE DEF row
    <2> QED
      BY <2>1, <2>2, <2>3, <2>4, <1>d
  <1>2. CASE same # {}
    <2> DEFINE new == [i \in DOMAIN table |->
                          IF i \in same THEN [table[i] EXCEPT !.status = s] ELSE table[i]]
    <2>1. PutTX(table, x, s) = new
      BY <1>2 DEF PutTX
    <2>2. \A row \in Rows : /\ Attempt([row EXCEPT !.status = s]) = Attempt(row)
                            /\ [row EXCEPT !.status = s].status = s
                            /\ [row EXCEPT !.status = s].nonce = Attempt(row).nonce
      BY DEF Rows, Attempt
    <2>3. \A i \in DOMAIN table :
            IF i \in same THEN Attempt(new[i]) = x /\ new[i].nonce = x.nonce /\ new[i].status = s
                          ELSE new[i] = table[i]
      BY <2>2, <1>d
    <2>4. DOMAIN new = DOMAIN table
      OBVIOUS
    <2> HIDE DEF new
    <2> QED
      BY <2>1, <2>3, <2>4
  <1> QED
    BY <1>1, <1>2

\* A pending attempt is written, for a nonce of which no attempt is settled.
LEMMA PutKeepsSettled ==
    ASSUME SubmitterInv, SettledInv, NEW c \in Chains, NEW x \in Attempts, NEW s \in PendingStatus,
           rows' = [rows EXCEPT ![c] = PutTX(@, x, s)],
           \A i \in DOMAIN rows[c] : rows[c][i].nonce = x.nonce => IsPending(rows[c][i]),
           UNCHANGED <<mined, confirming>>,
           \A d \in Chains : sending'[d].pc = "submit" =>
               sending[d].pc = "submit" /\ sending'[d].attempt = sending[d].attempt
    PROVE  SettledInv'
  <1>1. PICK new : new = PutTX(rows[c], x, s)
    OBVIOUS
  <1>2. /\ DOMAIN rows[c] \subseteq DOMAIN new
        /\ \A i \in DOMAIN new :
            \/ i \in DOMAIN rows[c] /\ new[i] = rows[c][i]
            \/ Attempt(new[i]) = x /\ new[i].nonce = x.nonce /\ new[i].status = s
        /\ \A i \in DOMAIN rows[c] : new[i] = rows[c][i] \/ Attempt(rows[c][i]) = x
    BY <1>1, TableType, PendingIsStatus, PutTXRows DEF SubmitterInv
  <1>3. /\ rows'[c] = new
        /\ \A d \in Chains : d # c => rows'[d] = rows[d]
    BY <1>1 DEF SubmitterInv, TypeOK
  <1>4. \A i \in DOMAIN new : ~IsPending(new[i]) =>
            /\ i \in DOMAIN rows[c] /\ new[i] = rows[c][i] /\ new[i].nonce # x.nonce
    BY <1>2 DEF IsPending
  <1>5. \A i \in DOMAIN rows[c] : ~IsPending(rows[c][i]) => new[i] = rows[c][i]
    BY <1>2, RowTypes
  <1>6. SettledTogether'
    <2> SUFFICES ASSUME NEW i \in DOMAIN new, NEW j \in DOMAIN new, new[i].nonce = new[j].nonce,
                        ~IsPending(new[i])
                 PROVE  ~IsPending(new[j])
      BY <1>3 DEF SettledInv, SettledTogether, IsPending
    <2>1. i \in DOMAIN rows[c] /\ new[i] = rows[c][i] /\ new[i].nonce # x.nonce
      BY <1>4
    <2>2. j \in DOMAIN rows[c] /\ new[j] = rows[c][j]
      BY <1>2, <2>1
    <2> QED
      BY <2>1, <2>2 DEF SettledInv, SettledTogether
  <1>7. SendsPending'
    <2> SUFFICES ASSUME NEW d \in Chains, sending[d].pc = "submit", NEW i \in DOMAIN rows'[d],
                        rows'[d][i].nonce = sending[d].attempt.nonce
                 PROVE  rows'[d][i].status \in PendingStatus
      BY DEF SendsPending, IsPending
    <2>1. CASE d = c
      BY <1>2, <1>3, <2>1 DEF SettledInv, SendsPending, IsPending
    <2>2. CASE d # c
      BY <1>3, <2>2 DEF SettledInv, SendsPending, IsPending
    <2> QED
      BY <2>1, <2>2
  <1>8. LooksForAll'
    <2> SUFFICES ASSUME confirming.pc = "receipts" PROVE LooksForAll'
      BY DEF LooksForAll
    <2>1. PICK d \in Chains : d = confirming.chain
      BY Receipts
    <2>2. \A a \in confirming.attempts :
            /\ \E i \in DOMAIN rows[d] : Attempt(rows[d][i]) = a
            /\ \A i \in DOMAIN rows[d] : rows[d][i].nonce = a.nonce =>
                    Attempt(rows[d][i]) \in confirming.attempts /\ ~IsPending(rows[d][i])
      BY <2>1 DEF SettledInv, LooksForAll
    <2>3. \A a, b \in confirming.attempts : a.nonce = b.nonce
      BY DEF SettledInv, LooksForAll
    <2>4. CASE d # c
      BY <1>3, <2>1, <2>2, <2>3, <2>4 DEF LooksForAll, IsPending
    <2>5. CASE d = c
      <3> SUFFICES ASSUME NEW a \in confirming.attempts
                   PROVE  /\ \E i \in DOMAIN new : Attempt(new[i]) = a
                          /\ \A i \in DOMAIN new : new[i].nonce = a.nonce =>
                                Attempt(new[i]) \in confirming.attempts /\ ~IsPending(new[i])
        BY <1>3, <2>1, <2>3, <2>5 DEF LooksForAll, IsPending
      <3>1. PICK i \in DOMAIN rows[c] : Attempt(rows[c][i]) = a
        BY <2>2, <2>5
      <3>2. ~IsPending(rows[c][i]) /\ rows[c][i].nonce = a.nonce
        BY <2>2, <2>5, <3>1, RowTypes
      <3>3. x.nonce # a.nonce
        BY <3>2
      <3>4. \A k \in DOMAIN new : new[k].nonce = a.nonce =>
                k \in DOMAIN rows[c] /\ new[k] = rows[c][k]
        BY <1>2, <3>3
      <3>5. i \in DOMAIN new /\ new[i] = rows[c][i]
        BY <1>2, <1>5, <3>2
      <3> QED
        BY <2>2, <2>5, <3>1, <3>4, <3>5
    <2> QED
      BY <2>4, <2>5
  <1>9. RowsAreTrue'
    <2> SUFFICES ASSUME NEW d \in Chains, NEW i \in DOMAIN rows'[d] PROVE SettledRow(d, i)'
      BY DEF RowsAreTrue
    <2>1. CASE d # c
      BY <1>3, <2>1 DEF SettledInv, RowsAreTrue, SettledRow, IsMined
    <2>2. CASE d = c
      <3> SUFFICES ASSUME ~IsPending(new[i])
                   PROVE  /\ new[i].status = "Confirmed" => IsMined(c, Attempt(new[i]))
                          /\ new[i].status = "Replaced" =>
                              /\ ~IsMined(c, Attempt(new[i]))
                              /\ \E j \in DOMAIN new :
                                  new[j].nonce = new[i].nonce /\ new[j].status = "Confirmed"
        BY <1>3, <2>2, SettledStatus DEF SettledRow, IsMined, IsPending
      <3>1. i \in DOMAIN rows[c] /\ new[i] = rows[c][i]
        BY <1>3, <1>4, <2>2
      <3>2. SettledRow(c, i)
        BY <3>1 DEF SettledInv, RowsAreTrue
      <3>3. ASSUME NEW j \in DOMAIN rows[c], rows[c][j].status = "Confirmed"
            PROVE  j \in DOMAIN new /\ new[j] = rows[c][j]
        BY <1>2, <1>5, <3>3, SettledStatus DEF IsPending
      <3> QED
        BY <3>1, <3>2, <3>3 DEF SettledRow
    <2> QED
      BY <2>1, <2>2
  <1> QED
    BY <1>6, <1>7, <1>8, <1>9 DEF SettledInv

\* What is written to the statuses of one table.
LEMMA StatusOnly ==
    ASSUME NEW row \in Rows, NEW s
    PROVE  /\ Attempt([row EXCEPT !.status = s]) = Attempt(row)
           /\ [row EXCEPT !.status = s].status = s
           /\ [row EXCEPT !.status = s].nonce = row.nonce
  BY DEF Rows, Attempt

\* MarkAllBeforeNonce settles all attempts of a nonce, and takes back every settled status.
LEMMA MarkKeepsSettled ==
    ASSUME SubmitterInv, SettledInv, NEW c \in Chains, MarkAllBeforeNonce(c)
    PROVE  SettledInv'
  <1>1. PICK new : new = [i \in DOMAIN rows[c] |->
                        IF rows[c][i].nonce < Len(mined[c])
                        THEN [rows[c][i] EXCEPT !.status = "ReplacedOrConfirmed"] ELSE rows[c][i]]
    OBVIOUS
  <1>2. /\ rows' = [rows EXCEPT ![c] = new]
        /\ sending' = [sending EXCEPT ![c] = Idle]
        /\ UNCHANGED <<mempool, mined, caller, confirming, faults, crashes>>
    BY <1>1 DEF MarkAllBeforeNonce
  <1>3. /\ rows'[c] = new /\ DOMAIN new = DOMAIN rows[c]
        /\ \A d \in Chains : d # c => rows'[d] = rows[d]
        /\ \A d \in Chains : sending'[d].pc = "submit" => d # c /\ sending'[d] = sending[d]
    BY <1>1, <1>2, IdleSends DEF SubmitterInv, TypeOK
  <1>4. \A i \in DOMAIN rows[c] :
            /\ Attempt(new[i]) = Attempt(rows[c][i]) /\ new[i].nonce = rows[c][i].nonce
            /\ new[i].nonce \in Nat
            /\ IsPending(new[i]) <=> ~(new[i].nonce < Len(mined[c]))
            /\ new[i].status \notin {"Confirmed", "Replaced"}
    <2> SUFFICES ASSUME NEW i \in DOMAIN rows[c]
                 PROVE  /\ Attempt(new[i]) = Attempt(rows[c][i]) /\ new[i].nonce = rows[c][i].nonce
                        /\ new[i].nonce \in Nat
                        /\ IsPending(new[i]) <=> ~(new[i].nonce < Len(mined[c]))
                        /\ new[i].status \notin {"Confirmed", "Replaced"}
      OBVIOUS
    <2>1. rows[c][i] \in Rows /\ rows[c][i].nonce \in Nat /\ Len(mined[c]) \in Nat
          /\ (IsPending(rows[c][i]) \/ rows[c][i].nonce < Len(mined[c]))
      BY RowTypes
    <2>2. CASE rows[c][i].nonce < Len(mined[c])
      <3>1. new[i] = [rows[c][i] EXCEPT !.status = "ReplacedOrConfirmed"]
        BY <1>1, <2>2
      <3>2. /\ Attempt(new[i]) = Attempt(rows[c][i]) /\ new[i].nonce = rows[c][i].nonce
            /\ new[i].status = "ReplacedOrConfirmed"
        BY <2>1, <3>1, StatusOnly
      <3> QED
        BY <2>1, <2>2, <3>2, SettledStatus DEF IsPending
    <2>3. CASE ~(rows[c][i].nonce < Len(mined[c]))
      <3>1. new[i] = rows[c][i]
        BY <1>1, <2>3
      <3> QED
        BY <2>1, <2>3, <3>1, SettledStatus DEF IsPending
    <2> QED
      BY <2>2, <2>3
  <1>5. SettledTogether'
    <2> SUFFICES ASSUME NEW d \in Chains, NEW i \in DOMAIN rows'[d], NEW j \in DOMAIN rows'[d],
                        rows'[d][i].nonce = rows'[d][j].nonce
                 PROVE  rows'[d][i].status \in PendingStatus <=> rows'[d][j].status \in PendingStatus
      BY DEF SettledTogether, IsPending
    <2>1. CASE d = c
      BY <1>3, <1>4, <2>1 DEF IsPending
    <2>2. CASE d # c
      BY <1>3, <2>2 DEF SettledInv, SettledTogether, IsPending
    <2> QED
      BY <2>1, <2>2
  <1>6. SendsPending'
    BY <1>3 DEF SettledInv, SendsPending, IsPending
  <1>7. LooksForAll'
    <2> SUFFICES ASSUME confirming.pc = "receipts" PROVE LooksForAll'
      BY <1>2 DEF LooksForAll
    <2>1. PICK d \in Chains : d = confirming.chain
      BY Receipts
    <2>2. CASE d # c
      BY <1>2, <1>3, <2>1, <2>2 DEF SettledInv, LooksForAll, IsPending
    <2>3. CASE d = c
      <3>1. \A x \in confirming.attempts : x.nonce < Len(mined[c])
        BY <2>1, <2>3, Receipts
      <3> QED
        BY <1>2, <1>3, <1>4, <2>1, <2>3, <3>1 DEF SettledInv, LooksForAll, IsPending
    <2> QED
      BY <2>2, <2>3
  <1>8. RowsAreTrue'
    <2> SUFFICES ASSUME NEW d \in Chains, NEW i \in DOMAIN rows'[d] PROVE SettledRow(d, i)'
      BY DEF RowsAreTrue
    <2>1. CASE d # c
      BY <1>2, <1>3, <2>1 DEF SettledInv, RowsAreTrue, SettledRow, IsMined
    <2>2. CASE d = c
      BY <1>3, <1>4, <2>2 DEF SettledRow
    <2> QED
      BY <2>1, <2>2
  <1> QED
    BY <1>5, <1>6, <1>7, <1>8 DEF SettledInv

\* checkAndSetConfirmation writes all the attempts of one nonce, each as the receipts say.
LEMMA ConfirmKeepsSettled ==
    ASSUME SubmitterInv, SettledInv, SetConfirmation
    PROVE  SettledInv'
  <1>1. confirming.pc = "receipts" /\ confirming' = Idle
        /\ UNCHANGED <<mempool, mined, caller, sending, faults, crashes>>
    BY DEF SetConfirmation
  <1>2. PICK c \in Chains : c = confirming.chain
    BY <1>1, Receipts
  <1>3. PICK found : found = confirming.attempts \intersect ToSet(mined[c])
    OBVIOUS
  <1>4. PICK new : new = [i \in DOMAIN rows[c] |->
                          IF Attempt(rows[c][i]) \notin confirming.attempts THEN rows[c][i]
                          ELSE [rows[c][i] EXCEPT !.status =
                                  IF Attempt(rows[c][i]) \in found THEN "Confirmed" ELSE "Replaced"]]
    OBVIOUS
  <1>5. rows' = IF found = {} THEN rows ELSE [rows EXCEPT ![c] = new]
    BY <1>2, <1>3, <1>4 DEF SetConfirmation
  <1>6. CASE found = {}
    <2>1. NothingOldIsSent
      BY <1>1 DEF NothingOldIsSent
    <2> QED
      BY <1>1, <1>5, <1>6, <2>1, IdleSends, RowsStay DEF IsMined
  <1>7. CASE found # {}
    <2>1. /\ rows'[c] = new /\ DOMAIN new = DOMAIN rows[c]
          /\ \A d \in Chains : d # c => rows'[d] = rows[d]
      BY <1>4, <1>5, <1>7 DEF SubmitterInv, TypeOK
    <2>2. \A x \in confirming.attempts :
            /\ \E i \in DOMAIN rows[c] : Attempt(rows[c][i]) = x
            /\ \A i \in DOMAIN rows[c] : rows[c][i].nonce = x.nonce =>
                    Attempt(rows[c][i]) \in confirming.attempts /\ ~IsPending(rows[c][i])
            /\ \A y \in confirming.attempts : x.nonce = y.nonce
      BY <1>1, <1>2 DEF SettledInv, LooksForAll
    <2>3. \A i \in DOMAIN rows[c] :
            /\ Attempt(new[i]) = Attempt(rows[c][i]) /\ new[i].nonce = rows[c][i].nonce
            /\ \/ new[i] = rows[c][i] /\ Attempt(rows[c][i]) \notin confirming.attempts
               \/ Attempt(rows[c][i]) \in found /\ new[i].status = "Confirmed"
               \/ /\ Attempt(rows[c][i]) \in confirming.attempts /\ Attempt(rows[c][i]) \notin found
                  /\ new[i].status = "Replaced"
      <3> SUFFICES ASSUME NEW i \in DOMAIN rows[c]
                   PROVE  /\ Attempt(new[i]) = Attempt(rows[c][i]) /\ new[i].nonce = rows[c][i].nonce
                          /\ \/ new[i] = rows[c][i] /\ Attempt(rows[c][i]) \notin confirming.attempts
                             \/ Attempt(rows[c][i]) \in found /\ new[i].status = "Confirmed"
                             \/ /\ Attempt(rows[c][i]) \in confirming.attempts
                                /\ Attempt(rows[c][i]) \notin found
                                /\ new[i].status = "Replaced"
        OBVIOUS
      <3>1. rows[c][i] \in Rows
        BY RowTypes
      <3>2. CASE Attempt(rows[c][i]) \notin confirming.attempts
        BY <1>4, <3>2
      <3>3. CASE Attempt(rows[c][i]) \in confirming.attempts
        <4>1. PICK s : s = IF Attempt(rows[c][i]) \in found THEN "Confirmed" ELSE "Replaced"
          OBVIOUS
        <4>2. new[i] = [rows[c][i] EXCEPT !.status = s]
          BY <1>4, <3>3, <4>1
        <4>3. /\ Attempt(new[i]) = Attempt(rows[c][i]) /\ new[i].nonce = rows[c][i].nonce
              /\ new[i].status = s
          BY <3>1, <4>2, StatusOnly
        <4> QED
          BY <3>3, <4>1, <4>3
      <3> QED
        BY <3>2, <3>3
    <2>4. \A i \in DOMAIN rows[c] : IsPending(new[i]) <=> IsPending(rows[c][i])
      <3> SUFFICES ASSUME NEW i \in DOMAIN rows[c], Attempt(rows[c][i]) \in confirming.attempts,
                          new[i].status \in {"Confirmed", "Replaced"}
                   PROVE  ~IsPending(rows[c][i]) /\ ~IsPending(new[i])
        BY <2>3, <1>3
      <3>1. ~IsPending(rows[c][i])
        BY <2>2, RowTypes
      <3> QED
        BY <3>1, SettledStatus DEF IsPending
    <2>5. SettledTogether'
      <3> SUFFICES ASSUME NEW d \in Chains, NEW i \in DOMAIN rows'[d], NEW j \in DOMAIN rows'[d],
                          rows'[d][i].nonce = rows'[d][j].nonce
                   PROVE  rows'[d][i].status \in PendingStatus <=> rows'[d][j].status \in PendingStatus
        BY DEF SettledTogether, IsPending
      <3>1. CASE d = c
        BY <2>1, <2>3, <2>4, <3>1 DEF IsPending, SettledInv, SettledTogether
      <3>2. CASE d # c
        BY <2>1, <3>2 DEF SettledInv, SettledTogether, IsPending
      <3> QED
        BY <3>1, <3>2
    <2>6. SendsPending'
      <3> SUFFICES ASSUME NEW d \in Chains, sending[d].pc = "submit", NEW i \in DOMAIN rows'[d],
                          rows'[d][i].nonce = sending[d].attempt.nonce
                   PROVE  rows'[d][i].status \in PendingStatus
        BY <1>1 DEF SendsPending, IsPending
      <3>1. CASE d = c
        BY <2>1, <2>3, <2>4, <3>1 DEF IsPending, SettledInv, SendsPending
      <3>2. CASE d # c
        BY <2>1, <3>2 DEF SettledInv, SendsPending, IsPending
      <3> QED
        BY <3>1, <3>2
    <2>7. LooksForAll'
      BY <1>1, IdleSends DEF LooksForAll
    <2>8. RowsAreTrue'
      <3> SUFFICES ASSUME NEW d \in Chains, NEW i \in DOMAIN rows'[d] PROVE SettledRow(d, i)'
        BY DEF RowsAreTrue
      <3>1. CASE d # c
        BY <1>1, <2>1, <3>1 DEF SettledInv, RowsAreTrue, SettledRow, IsMined
      <3>2. CASE d = c
        <4>1. i \in DOMAIN rows[c]
          BY <2>1, <3>2
        <4> SUFFICES /\ new[i].status = "Confirmed" => IsMined(c, Attempt(new[i]))
                     /\ new[i].status = "Replaced" =>
                          /\ ~IsMined(c, Attempt(new[i]))
                          /\ \E j \in DOMAIN new :
                              new[j].nonce = new[i].nonce /\ new[j].status = "Confirmed"
          BY <1>1, <2>1, <3>2 DEF SettledRow, IsMined
        <4>2. CASE new[i] = rows[c][i] /\ Attempt(rows[c][i]) \notin confirming.attempts
          <5>1. SettledRow(c, i)
            BY <4>1 DEF SettledInv, RowsAreTrue
          <5>2. ASSUME NEW j \in DOMAIN rows[c], rows[c][j].nonce = rows[c][i].nonce
                PROVE  new[j] = rows[c][j]
            <6>1. Attempt(rows[c][j]) \notin confirming.attempts
              <7> SUFFICES ASSUME Attempt(rows[c][j]) \in confirming.attempts PROVE FALSE
                OBVIOUS
              <7>1. rows[c][i].nonce = Attempt(rows[c][j]).nonce
                BY <5>2, RowTypes
              <7> QED
                BY <2>2, <4>1, <4>2, <7>1
            <6> QED
              BY <2>3, <6>1, <1>3
          <5> QED
            BY <2>1, <4>2, <5>1, <5>2 DEF SettledRow
        <4>3. CASE Attempt(rows[c][i]) \in found /\ new[i].status = "Confirmed"
          BY <1>3, <2>3, <4>1, <4>3 DEF IsMined
        <4>4. CASE /\ Attempt(rows[c][i]) \in confirming.attempts /\ Attempt(rows[c][i]) \notin found
                   /\ new[i].status = "Replaced"
          <5>1. ~IsMined(c, Attempt(new[i]))
            BY <1>3, <2>3, <4>1, <4>4 DEF IsMined
          <5>2. PICK x \in confirming.attempts : x \in found
            BY <1>3, <1>7
          <5>3. PICK j \in DOMAIN rows[c] : Attempt(rows[c][j]) = x
            BY <2>2
          <5>4. new[j].status = "Confirmed" /\ new[j].nonce = x.nonce
            BY <2>3, <5>2, <5>3, RowTypes
          <5>5. new[i].nonce = x.nonce
            BY <2>2, <2>3, <4>1, <4>4, RowTypes
          <5> QED
            BY <2>1, <4>4, <5>1, <5>4, <5>5
        <4> QED
          BY <2>3, <4>1, <4>2, <4>3, <4>4
      <3> QED
        BY <3>1, <3>2
    <2> QED
      BY <2>5, <2>6, <2>7, <2>8 DEF SettledInv
  <1> QED
    BY <1>6, <1>7

\* processConfirmedQueue reads all the attempts for a nonce, and one of them is settled.
LEMMA ReadKeepsSettled ==
    ASSUME SubmitterInv, SettledInv, ReadUnsettled
    PROVE  SettledInv'
  <1>1. UNCHANGED <<rows, mempool, mined, caller, sending, faults, crashes>>
    BY DEF ReadUnsettled
  <1>2. NothingOldIsSent
    BY <1>1 DEF NothingOldIsSent
  <1>3. CASE confirming' = Idle
    BY <1>1, <1>2, <1>3, IdleSends, RowsStay DEF IsMined
  <1>4. CASE LowestUnsettled # {}
    <2>1. PICK p \in LowestUnsettled :
            confirming' = [pc |-> "receipts", chain |-> p[1],
                attempts |-> {Attempt(rows[p[1]][i]) :
                                i \in {j \in DOMAIN rows[p[1]] : rows[p[1]][j].nonce = rows[p[1]][p[2]].nonce}}]
      BY <1>4 DEF ReadUnsettled
    <2>2. PICK c \in Chains : \E m \in DOMAIN rows[c] :
            p[1] = c /\ p[2] = m /\ rows[c][m].status = "ReplacedOrConfirmed"
      <3>1. p[1] \in Chains /\ p[2] \in DOMAIN rows[p[1]] /\ rows[p[1]][p[2]].status = "ReplacedOrConfirmed"
        BY DEF LowestUnsettled
      <3> QED
        BY <3>1
    <2>0. PICK m \in DOMAIN rows[c] : p[2] = m /\ rows[c][m].status = "ReplacedOrConfirmed"
      BY <2>2
    <2>3. PICK n : n = rows[c][m].nonce
      OBVIOUS
    <2>4. \A i \in DOMAIN rows[c] : /\ Attempt(rows[c][i]).nonce = rows[c][i].nonce
                                    /\ rows[c][i].nonce = n => ~IsPending(rows[c][i])
      BY <2>0, <2>3, RowTypes, SettledStatus DEF SettledInv, SettledTogether, IsPending
    <2>5. /\ confirming'.chain = c
          /\ \A x : x \in confirming'.attempts <=>
                \E i \in DOMAIN rows[c] : rows[c][i].nonce = n /\ x = Attempt(rows[c][i])
      BY <2>1, <2>2, <2>0, <2>3
    <2>6. LooksForAll'
      <3>1. \A x \in confirming'.attempts :
                /\ x.nonce = n
                /\ \E i \in DOMAIN rows[c] : Attempt(rows[c][i]) = x
        BY <2>4, <2>5
      <3>2. \A i \in DOMAIN rows[c] : rows[c][i].nonce = n =>
                Attempt(rows[c][i]) \in confirming'.attempts
        BY <2>5
      <3> QED
        BY <1>1, <2>4, <2>5, <3>1, <3>2 DEF LooksForAll, IsPending
    <2>7. SettledTogether' /\ SendsPending'
      BY <1>1 DEF SettledInv, SettledTogether, SendsPending
    <2>8. RowsAreTrue'
      BY <1>1 DEF SettledInv, RowsAreTrue, SettledRow, IsMined
    <2> QED
      BY <2>6, <2>7, <2>8 DEF SettledInv
  <1> QED
    BY <1>3, <1>4 DEF ReadUnsettled

\* A step that writes no row while no chain mines.
LEMMA NothingWritten ==
    ASSUME SubmitterInv, SettledInv, UNCHANGED <<rows, mined>>, NothingOldIsSent,
           confirming' = confirming \/ confirming'.pc # "receipts"
    PROVE  SettledInv'
  BY RowsStay DEF IsMined

\* The goroutine of one chain moves on with the attempt it has.
LEMMA SameAttempt ==
    ASSUME SubmitterInv, NEW c \in Chains, sending[c].pc = "submit",
           NEW g, g.pc = "submit" => g.attempt = sending[c].attempt,
           sending' = [sending EXCEPT ![c] = g]
    PROVE  /\ \A d \in Chains : sending'[d].pc = "submit" =>
                  sending[d].pc = "submit" /\ sending'[d].attempt = sending[d].attempt
           /\ NothingOldIsSent
  BY DEF SubmitterInv, TypeOK, NothingOldIsSent

LEMMA JoinedAttempt ==
    ASSUME SubmitterInv, NEW c \in Chains, sending[c].pc = "submit"
    PROVE  /\ Joined([sending[c] EXCEPT !.unstored = {}]).pc = "submit" =>
                Joined([sending[c] EXCEPT !.unstored = {}]).attempt = sending[c].attempt
           /\ Joined([sending[c] EXCEPT !.phase = "end"]).pc = "submit" =>
                Joined([sending[c] EXCEPT !.phase = "end"]).attempt = sending[c].attempt
  BY SendingFacts, SubmittingFields, JoinedType

LEMMA CallersKeepSettled ==
    ASSUME SubmitterInv, SettledInv, NEW k \in Calls, SubmitTransaction(k)
    PROVE  SettledInv'
  <1>1. CASE SignTransaction(k) \/ StoreTransactionFails(k)
    <2>1. UNCHANGED <<rows, mined, sending, confirming>>
      BY <1>1 DEF SignTransaction, StoreTransactionFails
    <2> QED
      BY <2>1, NothingWritten DEF NothingOldIsSent
  <1>2. CASE StoreTransaction(k)
    <2>1. /\ caller[k].pc = "signed"
          /\ rows' = [rows EXCEPT ![caller[k].chain] = PutTX(@, CallerAttempt(k), "Stored")]
          /\ UNCHANGED <<mempool, mined, sending, confirming, faults, crashes>>
      BY <1>2 DEF StoreTransaction
    <2>2. /\ CallerAttempt(k) \in Attempts /\ CallerAttempt(k).nonce = caller[k].nonce
          /\ caller[k].nonce \in Nat
      BY <2>1, CallerType DEF SubmitterInv
    <2>3. PICK c \in Chains : c = caller[k].chain
      BY <2>1, CallerType DEF SubmitterInv
    <2>4. \A n \in Nat : (\E p \in Held(rows[c]) : p[1] = n) <=> n < caller[k].nonce
      BY <2>1, <2>3 DEF SubmitterInv, CallersWait, IsNext
    <2>5. ASSUME NEW i \in DOMAIN rows[c], rows[c][i].nonce = caller[k].nonce PROVE FALSE
      <3>1. <<rows[c][i].nonce, rows[c][i].call>> \in Held(rows[c])
        BY DEF Held
      <3>2. \E p \in Held(rows[c]) : p[1] = caller[k].nonce
        BY <2>5, <3>1
      <3> QED
        BY <2>2, <2>4, <3>2
    <2>6. "Stored" \in PendingStatus
      BY DEF PendingStatus
    <2>7. PICK x \in Attempts : x = CallerAttempt(k)
      BY <2>2
    <2>8. \A i \in DOMAIN rows[c] : rows[c][i].nonce = x.nonce => IsPending(rows[c][i])
      BY <2>2, <2>5, <2>7
    <2>9. rows' = [rows EXCEPT ![c] = PutTX(@, x, "Stored")]
      BY <2>1, <2>3, <2>7
    <2>10. \A d \in Chains : sending'[d].pc = "submit" =>
              sending[d].pc = "submit" /\ sending'[d].attempt = sending[d].attempt
      BY <2>1
    <2>11. UNCHANGED <<mined, confirming>>
      BY <2>1
    <2> QED
      BY <2>6, <2>8, <2>9, <2>10, <2>11, PutKeepsSettled
  <1> QED
    BY <1>1, <1>2 DEF SubmitTransaction

LEMMA BumpKeepsSettled ==
    ASSUME SubmitterInv, SettledInv, NEW c \in Chains, Bump(c)
    PROVE  SettledInv'
  <1>1. UNCHANGED <<rows, mempool, mined, caller, confirming, faults, crashes>>
    BY DEF Bump, SendAgain, BumpTX, GasCeiling
  <1>2. \E g : /\ sending' = [sending EXCEPT ![c] = g]
               /\ g.pc = "submit" => Len(mined[c]) <= g.attempt.nonce
    <2>1. CASE SendAgain(c)
      <3>1. PICK i \in Todo(c) :
                /\ rows[c][i].nonce >= Len(mined[c])
                /\ sending' = [sending EXCEPT ![c] = ToSubmit(Attempt(rows[c][i]), rows[c][i].status)]
        BY <2>1 DEF SendAgain
      <3>2. i \in DOMAIN rows[c]
        BY PendingFacts DEF Todo
      <3>3. ToSubmit(Attempt(rows[c][i]), rows[c][i].status).attempt = Attempt(rows[c][i])
        BY DEF ToSubmit
      <3>4. Len(mined[c]) <= Attempt(rows[c][i]).nonce
        BY <3>1, <3>2, RowTypes
      <3> QED
        BY <3>1, <3>3, <3>4
    <2>2. CASE BumpTX(c)
      <3>1. PICK i \in Todo(c) : \E price :
                /\ rows[c][i].nonce >= Len(mined[c])
                /\ sending' = [sending EXCEPT ![c] =
                                  ToSubmit([Attempt(rows[c][i]) EXCEPT !.price = price], "Stored")]
        BY <2>2 DEF BumpTX
      <3>0. PICK price :
                sending' = [sending EXCEPT ![c] =
                               ToSubmit([Attempt(rows[c][i]) EXCEPT !.price = price], "Stored")]
        BY <3>1
      <3>2. i \in DOMAIN rows[c]
        BY PendingFacts DEF Todo
      <3>3. PICK x : x = [Attempt(rows[c][i]) EXCEPT !.price = price]
        OBVIOUS
      <3>4. Len(mined[c]) <= x.nonce
        BY <3>1, <3>2, <3>3, RowTypes DEF Attempt
      <3>5. ToSubmit(x, "Stored").attempt = x
        BY DEF ToSubmit
      <3> QED
        BY <3>0, <3>3, <3>4, <3>5
    <2>3. CASE GasCeiling(c)
      BY <2>3, IdleSends DEF GasCeiling
    <2> QED
      BY <2>1, <2>2, <2>3 DEF Bump
  <1>3. NothingOldIsSent
    BY <1>2 DEF NothingOldIsSent, SubmitterInv, TypeOK
  <1> QED
    BY <1>1, <1>3, NothingWritten

LEMMA WritesKeepSettled ==
    ASSUME SubmitterInv, SettledInv, NEW c \in Chains, StoreQueue(c) \/ StoreOutcome(c)
    PROVE  SettledInv'
  <1>1. /\ sending[c].pc = "submit"
        /\ UNCHANGED <<mempool, mined, caller, confirming, faults, crashes>>
    BY DEF StoreQueue, StoreOutcome
  <1>2. /\ sending[c].attempt \in Attempts /\ sending[c].status \in PendingStatus
        /\ sending[c].unstored \subseteq PendingStatus
    BY <1>1, SendingFacts
  <1>3. PICK s \in PendingStatus : rows' = [rows EXCEPT ![c] = PutTX(@, sending[c].attempt, s)]
    BY <1>2 DEF StoreQueue, StoreOutcome
  <1>4. \E g : /\ sending' = [sending EXCEPT ![c] = g]
               /\ g.pc = "submit" => g.attempt = sending[c].attempt
    BY <1>1, JoinedAttempt DEF StoreQueue, StoreOutcome
  <1>5. \A d \in Chains : sending'[d].pc = "submit" =>
            sending[d].pc = "submit" /\ sending'[d].attempt = sending[d].attempt
    BY <1>1, <1>4, SameAttempt
  <1>6. \A i \in DOMAIN rows[c] : rows[c][i].nonce = sending[c].attempt.nonce => IsPending(rows[c][i])
    BY <1>1 DEF SettledInv, SendsPending
  <1>7. PICK x \in Attempts : x = sending[c].attempt
    BY <1>2
  <1>8. rows' = [rows EXCEPT ![c] = PutTX(@, x, s)]
    BY <1>3, <1>7
  <1> QED
    BY <1>1, <1>5, <1>6, <1>7, <1>8, PutKeepsSettled

LEMMA SendingKeepsSettled ==
    ASSUME SubmitterInv, SettledInv, NEW c \in Chains, SendBatch(c) \/ ChainQueueFaults(c)
    PROVE  SettledInv'
  <1>1. /\ sending[c].pc = "submit"
        /\ UNCHANGED <<rows, mined, confirming>>
    BY DEF SendBatch, ChainQueueFaults, StoreCancelled, SendBatchFails, StoreOutcomeFails
  <1>2. \E g : /\ sending' = [sending EXCEPT ![c] = g]
               /\ g.pc = "submit" => g.attempt = sending[c].attempt
    <2>1. CASE SendBatch(c) \/ SendBatchFails(c)
      <3>1. PICK s : Sent(c, s)
        BY <2>1 DEF SendBatch, SendBatchFails
      <3>2. PICK u : sending' = [sending EXCEPT ![c] =
                        [sending[c] EXCEPT !.status = s, !.phase = "record", !.unstored = u]]
        BY <3>1 DEF Sent
      <3>3. sending[c] \in Submitting
        BY <1>1, SendingFacts
      <3>4. [sending[c] EXCEPT !.status = s, !.phase = "record", !.unstored = u].attempt = sending[c].attempt
        BY <3>3 DEF Submitting
      <3> QED
        BY <3>2, <3>4
    <2>2. CASE StoreCancelled(c) \/ StoreOutcomeFails(c)
      BY <1>1, <2>2, JoinedAttempt DEF StoreCancelled, StoreOutcomeFails
    <2> QED
      BY <2>1, <2>2 DEF ChainQueueFaults
  <1> QED
    BY <1>1, <1>2, SameAttempt, NothingWritten

LEMMA MineKeepsSettled ==
    ASSUME SubmitterInv, SettledInv, NEW c \in Chains, MineNext(c)
    PROVE  SettledInv'
  <1>1. PICK a \in mempool[c] :
            /\ a.nonce = Len(mined[c])
            /\ mined' = [mined EXCEPT ![c] = Append(@, a)]
            /\ UNCHANGED <<rows, caller, sending, confirming, faults, crashes>>
    BY DEF MineNext
  <1>2. mined \in [Chains -> Seq(Attempts)] /\ a \in Attempts /\ mined[c] \in Seq(Attempts)
    BY DEF SubmitterInv, TypeOK
  <1>3. \A d \in Chains : mined'[d] = IF d = c THEN Append(mined[c], a) ELSE mined[d]
    BY <1>1, <1>2
  <1>4. /\ DOMAIN Append(mined[c], a) = 1..(Len(mined[c]) + 1)
        /\ DOMAIN mined[c] = 1..Len(mined[c]) /\ Len(mined[c]) \in Nat
        /\ \A i \in 1..Len(mined[c]) : Append(mined[c], a)[i] = mined[c][i]
        /\ Append(mined[c], a)[Len(mined[c]) + 1] = a
    BY <1>2
  <1>5. \A x : (\E i \in DOMAIN Append(mined[c], a) : Append(mined[c], a)[i] = x)
                  <=> (\E i \in DOMAIN mined[c] : mined[c][i] = x) \/ x = a
    BY <1>4
  <1>6. \A x : x \in ToSet(Append(mined[c], a)) <=> x \in ToSet(mined[c]) \/ x = a
    BY <1>5 DEF ToSet
  <1>7. \A d \in Chains : \A x :
            /\ IsMined(d, x) => IsMined(d, x)'
            /\ IsMined(d, x)' => IsMined(d, x) \/ x.nonce = Len(mined[d])
    BY <1>1, <1>3, <1>6 DEF IsMined
  <1> QED
    BY <1>1, <1>7, RowsStay DEF NothingOldIsSent

LEMMA SettledNext == SubmitterInv /\ SettledInv /\ [Next]_vars => SettledInv'
  <1> SUFFICES ASSUME SubmitterInv, SettledInv, [Next]_vars PROVE SettledInv'
    OBVIOUS
  <1>1. ASSUME NEW k \in Calls, SubmitTransaction(k) PROVE SettledInv'
    BY <1>1, CallersKeepSettled
  <1>2. CASE BeginPass
    <2>1. /\ UNCHANGED <<rows, mined>> /\ confirming'.pc # "receipts"
          /\ sending' = [c \in Chains |-> IF PendingTX(c) = {} THEN Idle ELSE [pc |-> "read"]]
      BY <1>2 DEF BeginPass
    <2>2. NothingOldIsSent
      BY <2>1, IdleSends DEF NothingOldIsSent
    <2> QED
      BY <2>1, <2>2, NothingWritten
  <1>3. ASSUME NEW c \in Chains, ChainQueue(c) PROVE SettledInv'
    BY <1>3, BumpKeepsSettled, MarkKeepsSettled, WritesKeepSettled, SendingKeepsSettled
       DEF ChainQueue
  <1>4. ASSUME NEW c \in Chains, ChainQueueFaults(c) PROVE SettledInv'
    BY <1>4, SendingKeepsSettled
  <1>5. CASE ReadUnsettled \/ SetConfirmation
    BY <1>5, ReadKeepsSettled, ConfirmKeepsSettled
  <1>6. CASE SetConfirmationFails
    <2>1. UNCHANGED <<rows, mined, sending>> /\ confirming'.pc # "receipts"
      BY <1>6, IdleSends DEF SetConfirmationFails
    <2> QED
      BY <2>1, NothingWritten DEF NothingOldIsSent
  <1>7. ASSUME NEW c \in Chains, MineNext(c) PROVE SettledInv'
    BY <1>7, MineKeepsSettled
  <1>8. ASSUME NEW c \in Chains, Forget(c) PROVE SettledInv'
    <2>1. UNCHANGED <<rows, mined, sending, confirming>>
      BY <1>8 DEF Forget
    <2> QED
      BY <2>1, NothingWritten DEF NothingOldIsSent
  <1>9. CASE Crash
    <2>1. /\ UNCHANGED <<rows, mined>> /\ confirming'.pc # "receipts"
          /\ sending' = [c \in Chains |-> Idle]
      BY <1>9, IdleSends DEF Crash
    <2>2. NothingOldIsSent
      BY <2>1, IdleSends DEF NothingOldIsSent
    <2> QED
      BY <2>1, <2>2, NothingWritten
  <1>10. CASE UNCHANGED vars
    <2>1. UNCHANGED <<rows, mined, sending, confirming>>
      BY <1>10 DEF vars
    <2> QED
      BY <2>1, NothingWritten DEF NothingOldIsSent
  <1> QED
    BY <1>1, <1>2, <1>3, <1>4, <1>5, <1>6, <1>7, <1>8, <1>9, <1>10 DEF Next

\* What is called Confirmed was mined with that hash, and a Replaced attempt was not,
\* while another one of its nonce is Confirmed: through crashes, failed writes, statuses
\* that are taken back and attempts that are mined late.
THEOREM SettledIsTrueHolds == Spec => []SettledIsTrue
  <1>1. Init => SettledInv
    BY IdleSends DEF Init, SettledInv, SettledTogether, SendsPending, LooksForAll, RowsAreTrue
  <1>2. SubmitterInv /\ SettledInv /\ [Next]_vars => SettledInv'
    BY SettledNext
  <1>3. SettledInv => SettledIsTrue
    <2> SUFFICES ASSUME SettledInv, NEW c \in Chains, NEW row \in ToSet(rows[c])
                 PROVE  /\ row.status = "Confirmed" => Attempt(row) \in ToSet(mined[c])
                        /\ row.status = "Replaced" =>
                              /\ Attempt(row) \notin ToSet(mined[c])
                              /\ \E other \in ToSet(rows[c]) :
                                    other.nonce = row.nonce /\ other.status = "Confirmed"
      BY DEF SettledIsTrue
    <2>1. PICK i \in DOMAIN rows[c] : row = rows[c][i]
      BY DEF ToSet
    <2>2. SettledRow(c, i)
      BY DEF SettledInv, RowsAreTrue
    <2>3. \A j \in DOMAIN rows[c] : rows[c][j] \in ToSet(rows[c])
      BY DEF ToSet
    <2> QED
      BY <2>1, <2>2, <2>3 DEF SettledRow, IsMined
  <1> QED
    BY <1>1, <1>2, <1>3, SubmitterInvariant, PTL DEF Spec

-----------------------------------------------------------------------------
(* The queue that the callers see *)

\* The calls of a table, in the order of their nonces.
CallsIn(table) ==
    [n \in 1 .. Cardinality({table[i].nonce : i \in DOMAIN table}) |->
        (CHOOSE row \in ToSet(table) : row.nonce = n - 1).call]
FirstFree(table, k) == \A n \in Nat : (\E p \in Held(table) : p[1] = n) <=> n < k

LEMMA HeldRow ==
    ASSUME NEW table, NEW n, NEW v
    PROVE  <<n, v>> \in Held(table)
                <=> \E i \in DOMAIN table : table[i].nonce = n /\ table[i].call = v
  BY DEF Held

LEMMA HeldNonce ==
    ASSUME NEW table, NEW n
    PROVE  (\E p \in Held(table) : p[1] = n) <=> \E i \in DOMAIN table : table[i].nonce = n
  <1>1. ASSUME NEW p \in Held(table), p[1] = n
        PROVE  \E i \in DOMAIN table : table[i].nonce = n
    <2>1. PICK i \in DOMAIN table : p = <<table[i].nonce, table[i].call>>
      BY DEF Held
    <2> QED
      BY <1>1, <2>1
  <1>2. ASSUME NEW i \in DOMAIN table, table[i].nonce = n
        PROVE  \E p \in Held(table) : p[1] = n
    <2>1. <<table[i].nonce, table[i].call>> \in Held(table)
      BY DEF Held
    <2> QED
      BY <1>2, <2>1
  <1> QED
    BY <1>1, <1>2

\* With k nonces stored, the queue has k places, and each call has the place of its nonce.
LEMMA CallsInFacts ==
    ASSUME NEW table \in Seq(Rows), NEW k \in Nat, FirstFree(table, k)
    PROVE  /\ CallsIn(table) \in [1 .. k -> Calls]
           /\ \A n \in 1 .. k : <<n - 1, CallsIn(table)[n]>> \in Held(table)
  <1>1. \A i \in DOMAIN table : table[i] \in Rows /\ table[i].nonce \in Nat /\ table[i].call \in Calls
    BY ElementOfSeq, LenProperties, RowFields
  <1>2. \A n \in Nat : (\E i \in DOMAIN table : table[i].nonce = n) <=> n < k
    <2> SUFFICES ASSUME NEW n \in Nat
                 PROVE  (\E i \in DOMAIN table : table[i].nonce = n) <=> n < k
      OBVIOUS
    <2>1. (\E p \in Held(table) : p[1] = n) <=> n < k
      BY DEF FirstFree
    <2>2. (\E p \in Held(table) : p[1] = n) <=> \E i \in DOMAIN table : table[i].nonce = n
      BY HeldNonce
    <2> QED
      BY <2>1, <2>2
  <1> DEFINE S == {table[i].nonce : i \in DOMAIN table}
             T == 0 .. (k - 1)
  <1>3. \A n : n \in S <=> n \in T
    BY <1>1, <1>2
  <1>4. Cardinality(T) = k
    BY FS_Interval
  <1> HIDE DEF S, T
  <1>5. S = T
    BY <1>3
  <1>6. CallsIn(table) = [n \in 1 .. k |-> (CHOOSE row \in ToSet(table) : row.nonce = n - 1).call]
    BY <1>4, <1>5 DEF CallsIn, S
  <1>7. ASSUME NEW n \in 1 .. k
        PROVE  CallsIn(table)[n] \in Calls /\ <<n - 1, CallsIn(table)[n]>> \in Held(table)
    <2>1. \E i \in DOMAIN table : table[i].nonce = n - 1
      BY <1>2
    <2>2. \A x : x \in ToSet(table) <=> \E i \in DOMAIN table : x = table[i]
      BY DEF ToSet
    <2>3. \E row \in ToSet(table) : row.nonce = n - 1
      BY <2>1, <2>2
    <2>4. PICK r : r = CHOOSE row \in ToSet(table) : row.nonce = n - 1
      OBVIOUS
    <2>5. r \in ToSet(table) /\ r.nonce = n - 1
      BY <2>3, <2>4
    <2>6. PICK i \in DOMAIN table : table[i] = r
      BY <2>2, <2>5
    <2>7. CallsIn(table)[n] = table[i].call
      BY <1>6, <2>4, <2>6
    <2> QED
      BY <1>1, <2>5, <2>6, <2>7, HeldRow
  <1> QED
    BY <1>6, <1>7

\* The queue is given by what the table holds, whatever attempts and statuses it has.
LEMMA SameCalls ==
    ASSUME NEW table \in Seq(Rows), NEW new \in Seq(Rows), NEW k \in Nat, FirstFree(table, k),
           \A p, q \in Held(table) : p[1] = q[1] => p[2] = q[2],
           Held(new) = Held(table)
    PROVE  CallsIn(new) = CallsIn(table)
  <1>1. FirstFree(new, k)
    BY DEF FirstFree
  <1>2. PICK f \in [1 .. k -> Calls] : f = CallsIn(table)
    BY CallsInFacts
  <1>3. PICK g \in [1 .. k -> Calls] : g = CallsIn(new)
    BY <1>1, CallsInFacts
  <1>4. \A n \in 1 .. k : <<n - 1, f[n]>> \in Held(table) /\ <<n - 1, g[n]>> \in Held(table)
    BY <1>1, <1>2, <1>3, CallsInFacts
  <1>5. \A n \in 1 .. k : f[n] = g[n]
    <2> SUFFICES ASSUME NEW n \in 1 .. k PROVE f[n] = g[n]
      OBVIOUS
    <2>1. PICK p, q \in Held(table) : p = <<n - 1, f[n]>> /\ q = <<n - 1, g[n]>>
      BY <1>4
    <2> QED
      BY <2>1
  <1> QED
    BY <1>2, <1>3, <1>5

\* A call with the next nonce has the next place.
LEMMA NextCall ==
    ASSUME NEW table \in Seq(Rows), NEW new \in Seq(Rows), NEW k \in Nat, FirstFree(table, k),
           NEW v \in Calls, Held(new) = Held(table) \union {<<k, v>>},
           \A p, q \in Held(new) : p[1] = q[1] => p[2] = q[2]
    PROVE  CallsIn(new) = Append(CallsIn(table), v)
  <1>1. FirstFree(new, k + 1)
    <2>1. <<k, v>>[1] = k
      OBVIOUS
    <2>2. \A n \in Nat : (\E p \in Held(new) : p[1] = n) <=> (\E p \in Held(table) : p[1] = n) \/ n = k
      BY <2>1
    <2> QED
      BY <2>2 DEF FirstFree
  <1>2. PICK f \in [1 .. k -> Calls] : f = CallsIn(table)
    BY CallsInFacts
  <1>3. PICK g \in [1 .. (k + 1) -> Calls] : g = CallsIn(new)
    BY <1>1, CallsInFacts
  <1>4. /\ \A n \in 1 .. k : <<n - 1, f[n]>> \in Held(new)
        /\ \A n \in 1 .. (k + 1) : <<n - 1, g[n]>> \in Held(new)
        /\ <<(k + 1) - 1, v>> \in Held(new)
    <2>1. (k + 1) - 1 = k
      OBVIOUS
    <2>2. \A n \in 1 .. k : <<n - 1, f[n]>> \in Held(new)
      BY <1>2, CallsInFacts
    <2>3. \A n \in 1 .. (k + 1) : <<n - 1, g[n]>> \in Held(new)
      BY <1>1, <1>3, CallsInFacts
    <2> QED
      BY <2>1, <2>2, <2>3
  <1>5. \A n, x, y : <<n, x>> \in Held(new) /\ <<n, y>> \in Held(new) => x = y
    <2> SUFFICES ASSUME NEW n, NEW x, NEW y, <<n, x>> \in Held(new), <<n, y>> \in Held(new)
                 PROVE  x = y
      OBVIOUS
    <2>1. PICK p, q \in Held(new) : p = <<n, x>> /\ q = <<n, y>>
      OBVIOUS
    <2> QED
      BY <2>1
  <1>6. (\A n \in 1 .. k : g[n] = f[n]) /\ g[k + 1] = v
    <2>1. ASSUME NEW n \in 1 .. k PROVE g[n] = f[n]
      <3>1. n \in 1 .. (k + 1)
        OBVIOUS
      <3>2. <<n - 1, f[n]>> \in Held(new) /\ <<n - 1, g[n]>> \in Held(new)
        BY <1>4, <3>1
      <3> QED
        BY <1>5, <3>2
    <2>2. k + 1 \in 1 .. (k + 1)
      OBVIOUS
    <2>3. <<(k + 1) - 1, g[k + 1]>> \in Held(new) /\ <<(k + 1) - 1, v>> \in Held(new)
      BY <1>4, <2>2
    <2>4. g[k + 1] = v
      BY <1>5, <2>3
    <2> QED
      BY <2>1, <2>4
  <1>7. f \in Seq(Calls) /\ Len(f) = k
    OBVIOUS
  <1>8. /\ DOMAIN Append(f, v) = 1 .. (k + 1) /\ Append(f, v)[k + 1] = v
        /\ \A n \in 1 .. k : Append(f, v)[n] = f[n]
    BY <1>7
  <1>9. Append(f, v) \in [1 .. (k + 1) -> Calls]
    <2>1. Append(f, v) \in Seq(Calls) /\ Len(Append(f, v)) = k + 1
      BY <1>7
    <2> QED
      BY <2>1, LenProperties
  <1>10. \A n \in 1 .. (k + 1) : g[n] = Append(f, v)[n]
    BY <1>6, <1>8
  <1> QED
    BY <1>2, <1>3, <1>9, <1>10

Executed == [c \in Chains |-> Len(mined[c])]

LEMMA AcceptedIsCallsIn == AcceptedCalls = [c \in Chains |-> CallsIn(rows[c])]
  BY DEF AcceptedCalls, CallsIn, Nonces

\* What the other steps write leaves the nonces of the table and their calls.
LEMMA HeldStays ==
    ASSUME SubmitterInv, Next, \A k \in Calls : ~StoreTransaction(k)
    PROVE  \A c \in Chains : Held(rows'[c]) = Held(rows[c])
  <1>0. TypeOK /\ rows \in [Chains -> Seq(Rows)]
    BY DEF SubmitterInv, TypeOK
  <1>1. ASSUME NEW c \in Chains, NEW x \in Attempts, InTable(c, x), NEW s \in Status,
               rows' = [rows EXCEPT ![c] = PutTX(@, x, s)]
        PROVE  \A d \in Chains : Held(rows'[d]) = Held(rows[d])
    <2>1. PICK new : new = PutTX(rows[c], x, s)
      OBVIOUS
    <2>2. PICK table \in Seq(Rows) : table = rows[c]
      BY <1>0, TableType
    <2>3. Held(new) = Held(table) \union {<<x.nonce, x.call>>}
      BY <1>1, <2>1, <2>2, PutTXFacts
    <2>4. Held(new) = Held(rows[c])
      BY <1>1, <2>2, <2>3 DEF InTable
    <2> QED
      BY <1>0, <1>1, <2>1, <2>4
  <1>2. ASSUME NEW c \in Chains, NEW new,
               rows'[c] = new, \A d \in Chains : d # c => rows'[d] = rows[d],
               DOMAIN new = DOMAIN rows[c],
               \A i \in DOMAIN rows[c] : new[i].nonce = rows[c][i].nonce /\ new[i].call = rows[c][i].call
        PROVE  \A d \in Chains : Held(rows'[d]) = Held(rows[d])
    <2>1. Held(new) = Held(rows[c])
      BY <1>2 DEF Held
    <2> QED
      BY <1>0, <1>2, <2>1
  <1>3. \A row \in Rows : \A s : [row EXCEPT !.status = s].nonce = row.nonce
                                 /\ [row EXCEPT !.status = s].call = row.call
    BY DEF Rows
  <1>4. ASSUME NEW c \in Chains, StoreQueue(c) \/ StoreOutcome(c)
        PROVE  \A d \in Chains : Held(rows'[d]) = Held(rows[d])
    <2>1. sending[c].pc = "submit"
      BY <1>4 DEF StoreQueue, StoreOutcome
    <2>2. /\ sending[c].attempt \in Attempts /\ InTable(c, sending[c].attempt)
          /\ sending[c].status \in Status /\ sending[c].unstored \subseteq Status
      BY <2>1, SendingFacts, PendingIsStatus
    <2>3. PICK s \in Status : rows' = [rows EXCEPT ![c] = PutTX(@, sending[c].attempt, s)]
      BY <1>4, <2>2 DEF StoreQueue, StoreOutcome
    <2>4. PICK x \in Attempts : x = sending[c].attempt
      BY <2>2
    <2> QED
      BY <1>1, <2>2, <2>3, <2>4
  <1>5. ASSUME NEW c \in Chains, MarkAllBeforeNonce(c)
        PROVE  \A d \in Chains : Held(rows'[d]) = Held(rows[d])
    <2>1. PICK new : new = [i \in DOMAIN rows[c] |->
                        IF rows[c][i].nonce < Len(mined[c])
                        THEN [rows[c][i] EXCEPT !.status = "ReplacedOrConfirmed"] ELSE rows[c][i]]
      OBVIOUS
    <2>2. rows'[c] = new /\ \A d \in Chains : d # c => rows'[d] = rows[d]
      BY <1>0, <1>5, <2>1 DEF MarkAllBeforeNonce
    <2>3. \A i \in DOMAIN rows[c] : new[i].nonce = rows[c][i].nonce /\ new[i].call = rows[c][i].call
      BY <1>0, <1>3, <2>1, TableType
    <2>4. DOMAIN new = DOMAIN rows[c]
      BY <2>1
    <2> QED
      BY <1>2, <2>2, <2>3, <2>4
  <1>6. CASE SetConfirmation
    <2>1. PICK c \in Chains : c = confirming.chain
      BY <1>6, Receipts DEF SetConfirmation
    <2>2. PICK new : new = [i \in DOMAIN rows[c] |->
                          IF Attempt(rows[c][i]) \notin confirming.attempts THEN rows[c][i]
                          ELSE [rows[c][i] EXCEPT !.status =
                                  IF Attempt(rows[c][i]) \in confirming.attempts \intersect ToSet(mined[c])
                                  THEN "Confirmed" ELSE "Replaced"]]
      OBVIOUS
    <2>3. rows' = rows \/ (rows'[c] = new /\ \A d \in Chains : d # c => rows'[d] = rows[d])
      BY <1>0, <1>6, <2>1, <2>2 DEF SetConfirmation
    <2>4. \A i \in DOMAIN rows[c] : new[i].nonce = rows[c][i].nonce /\ new[i].call = rows[c][i].call
      BY <1>0, <1>3, <2>2, TableType
    <2>5. DOMAIN new = DOMAIN rows[c]
      BY <2>2
    <2> QED
      BY <1>2, <2>3, <2>4, <2>5
  <1>7. ASSUME UNCHANGED rows
        PROVE  \A d \in Chains : Held(rows'[d]) = Held(rows[d])
    BY <1>7
  <1>8. \/ \E c \in Chains : StoreQueue(c) \/ StoreOutcome(c) \/ MarkAllBeforeNonce(c)
        \/ SetConfirmation \/ UNCHANGED rows
    BY DEF Next, SubmitTransaction, SignTransaction, StoreTransactionFails, BeginPass, ChainQueue,
           Bump, SendAgain, BumpTX, GasCeiling, SendBatch, ChainQueueFaults, StoreCancelled,
           SendBatchFails, StoreOutcomeFails, ReadUnsettled, SetConfirmationFails, MineNext,
           Forget, Crash
  <1> QED
    BY <1>4, <1>5, <1>6, <1>7, <1>8

LEMMA MinedStays ==
    ASSUME Next, \A c \in Chains : ~MineNext(c)
    PROVE  mined' = mined
  BY DEF Next, SubmitTransaction, SignTransaction, StoreTransaction, StoreTransactionFails, BeginPass,
         ChainQueue, MarkAllBeforeNonce, StoreQueue, StoreOutcome, SetConfirmation,
         Bump, SendAgain, BumpTX, GasCeiling, SendBatch, ChainQueueFaults, StoreCancelled,
         SendBatchFails, StoreOutcomeFails, ReadUnsettled, SetConfirmationFails,
         Forget, Crash

LEMMA CallsStay ==
    ASSUME SubmitterInv, TypeOK', \A c \in Chains : Held(rows'[c]) = Held(rows[c])
    PROVE  AcceptedCalls' = AcceptedCalls
  <1>0. AcceptedCalls' = [c \in Chains |-> CallsIn(rows'[c])]
    BY DEF AcceptedCalls, CallsIn, Nonces
  <1> SUFFICES ASSUME NEW c \in Chains PROVE CallsIn(rows'[c]) = CallsIn(rows[c])
    BY <1>0, AcceptedIsCallsIn
  <1>1. rows[c] \in Seq(Rows) /\ rows'[c] \in Seq(Rows)
    BY DEF SubmitterInv, TypeOK
  <1>2. PICK k \in Nat : FirstFree(rows[c], k)
    BY DEF SubmitterInv, NoGaps, FirstFree
  <1>3. \A p, q \in Held(rows[c]) : p[1] = q[1] => p[2] = q[2]
    BY DEF SubmitterInv, OneCallEach
  <1>4. PICK table, new \in Seq(Rows) : table = rows[c] /\ new = rows'[c]
    BY <1>1
  <1> QED
    BY <1>2, <1>3, <1>4, SameCalls

\* SubmitTransaction gives its call the next place in the queue of the chain.
LEMMA StoreAccepts ==
    ASSUME SubmitterInv, SubmitterInv', NEW k \in Calls, StoreTransaction(k)
    PROVE  Queue!Next
  <1>1. /\ caller[k].pc = "signed"
        /\ rows' = [rows EXCEPT ![caller[k].chain] = PutTX(@, CallerAttempt(k), "Stored")]
        /\ UNCHANGED mined
    BY DEF StoreTransaction
  <1>2. /\ CallerAttempt(k) \in Attempts /\ CallerAttempt(k).nonce = caller[k].nonce
        /\ CallerAttempt(k).call = k /\ caller[k].nonce \in Nat
    BY <1>1, CallerType DEF SubmitterInv
  <1>3. PICK c \in Chains : c = caller[k].chain
    BY <1>1, CallerType DEF SubmitterInv
  <1>4. PICK table, new \in Seq(Rows) : table = rows[c] /\ new = rows'[c]
    BY DEF SubmitterInv, TypeOK
  <1>5. \A d \in Chains : d # c => rows'[d] = rows[d]
    BY <1>1, <1>3 DEF SubmitterInv, TypeOK
  <1>6. PICK n \in Nat : n = caller[k].nonce
    BY <1>2
  <1>7. Held(new) = Held(table) \union {<<n, k>>}
    <2>1. PICK x \in Attempts : x = CallerAttempt(k)
      BY <1>2
    <2>2. new = PutTX(table, x, "Stored")
      BY <1>1, <1>3, <1>4, <2>1 DEF SubmitterInv, TypeOK
    <2>3. "Stored" \in Status
      BY DEF Status
    <2>4. Held(PutTX(table, x, "Stored")) = Held(table) \union {<<x.nonce, x.call>>}
      BY <2>3, PutTXFacts
    <2> QED
      BY <1>2, <1>6, <2>1, <2>2, <2>4
  <1>8. FirstFree(table, n)
    BY <1>1, <1>3, <1>4, <1>6 DEF SubmitterInv, CallersWait, IsNext, FirstFree
  <1>9. \A p, q \in Held(new) : p[1] = q[1] => p[2] = q[2]
    BY <1>4 DEF SubmitterInv, OneCallEach
  <1>10. CallsIn(new) = Append(CallsIn(table), k)
    BY <1>7, <1>8, <1>9, NextCall
  <1>11. AcceptedCalls' = [AcceptedCalls EXCEPT ![c] = Append(@, k)]
    <2>1. AcceptedCalls' = [d \in Chains |-> CallsIn(rows'[d])]
      BY DEF AcceptedCalls, CallsIn, Nonces
    <2> QED
      BY <1>4, <1>5, <1>10, <2>1, AcceptedIsCallsIn
  <1>12. ASSUME NEW d \in Chains PROVE k \notin Range(AcceptedCalls[d])
    <2>1. NotStored(k)
      BY <1>1 DEF SubmitterInv, CallersWait
    <2>2. PICK m \in Nat : FirstFree(rows[d], m)
      BY DEF SubmitterInv, NoGaps, FirstFree
    <2>3. PICK t \in Seq(Rows) : t = rows[d]
      BY DEF SubmitterInv, TypeOK
    <2>4. PICK f \in [1 .. m -> Calls] : f = CallsIn(t)
      BY <2>2, <2>3, CallsInFacts
    <2>5. \A i \in 1 .. m : <<i - 1, f[i]>> \in Held(t)
      BY <2>2, <2>3, <2>4, CallsInFacts
    <2>6. \A i \in 1 .. m : f[i] # k
      <3> SUFFICES ASSUME NEW i \in 1 .. m PROVE f[i] # k
        OBVIOUS
      <3>1. PICK p \in Held(t) : p = <<i - 1, f[i]>>
        BY <2>5
      <3> QED
        BY <2>1, <2>3, <3>1 DEF NotStored
    <2>7. AcceptedCalls[d] = f
      BY <2>3, <2>4, AcceptedIsCallsIn
    <2> QED
      BY <2>6, <2>7 DEF Range
  <1>13. UNCHANGED Executed
    BY <1>1 DEF Executed
  <1> QED
    BY <1>11, <1>12, <1>13 DEF Queue!Next, Queue!Accept, Executed, Range, Queue!Range

\* What a chain mines is the next call of its queue.
LEMMA MineExecutes ==
    ASSUME SubmitterInv, SubmitterInv', NEW c \in Chains, MineNext(c)
    PROVE  Queue!Next
  <1>1. PICK a \in mempool[c] :
            /\ a.nonce = Len(mined[c])
            /\ mined' = [mined EXCEPT ![c] = Append(@, a)]
            /\ UNCHANGED <<rows, caller, sending, confirming, faults, crashes>>
    BY DEF MineNext
  <1>2. mined \in [Chains -> Seq(Attempts)] /\ a \in Attempts /\ mined[c] \in Seq(Attempts)
        /\ Len(mined[c]) \in Nat
    BY TableType DEF SubmitterInv, TypeOK
  <1>3. Len(Append(mined[c], a)) = Len(mined[c]) + 1
    BY <1>2
  <1>4. Executed' = [Executed EXCEPT ![c] = @ + 1]
    BY <1>1, <1>2, <1>3 DEF Executed
  <1>5. AcceptedCalls' = AcceptedCalls
    <2>1. \A d \in Chains : Held(rows'[d]) = Held(rows[d])
      BY <1>1
    <2>2. TypeOK'
      BY DEF SubmitterInv
    <2> QED
      BY <2>1, <2>2, CallsStay
  <1>6. PICK k \in Nat : FirstFree(rows[c], k)
    BY DEF SubmitterInv, NoGaps, FirstFree
  <1>7. Len(mined[c]) < k
    <2>1. <<a.nonce, a.call>> \in Held(rows[c])
      BY DEF SubmitterInv, SentIsStored, InTable
    <2>2. \E p \in Held(rows[c]) : p[1] = Len(mined[c])
      BY <1>1, <2>1
    <2> QED
      BY <1>2, <1>6, <2>2 DEF FirstFree
  <1>8. Executed[c] < Len(AcceptedCalls[c])
    <2>1. PICK t \in Seq(Rows) : t = rows[c]
      BY DEF SubmitterInv, TypeOK
    <2>2. PICK f \in [1 .. k -> Calls] : f = CallsIn(t)
      BY <1>6, <2>1, CallsInFacts
    <2>3. Len(f) = k
      OBVIOUS
    <2>4. AcceptedCalls[c] = f
      BY <2>1, <2>2, AcceptedIsCallsIn
    <2> QED
      BY <1>7, <2>3, <2>4 DEF Executed
  <1> QED
    BY <1>4, <1>5, <1>8 DEF Queue!Next, Queue!Execute, Executed

LEMMA QueueStep ==
    SubmitterInv /\ SubmitterInv' /\ [Next]_vars => [Queue!Next]_<<AcceptedCalls, Executed>>
  <1> SUFFICES ASSUME SubmitterInv, SubmitterInv', [Next]_vars
               PROVE  [Queue!Next]_<<AcceptedCalls, Executed>>
    OBVIOUS
  <1>1. TypeOK'
    BY DEF SubmitterInv
  <1>2. CASE UNCHANGED vars
    <2>1. UNCHANGED <<rows, mined>>
      BY <1>2 DEF vars
    <2>2. UNCHANGED Executed
      BY <2>1 DEF Executed
    <2>3. UNCHANGED AcceptedCalls
      BY <1>1, <2>1, CallsStay
    <2> QED
      BY <2>2, <2>3
  <1>3. CASE \E k \in Calls : StoreTransaction(k)
    BY <1>3, StoreAccepts
  <1>4. CASE \E c \in Chains : MineNext(c)
    BY <1>4, MineExecutes
  <1>5. CASE /\ Next
             /\ \A k \in Calls : ~StoreTransaction(k)
             /\ \A c \in Chains : ~MineNext(c)
    <2>1. UNCHANGED AcceptedCalls
      BY <1>1, <1>5, HeldStays, CallsStay
    <2>2. UNCHANGED Executed
      BY <1>5, MinedStays DEF Executed
    <2> QED
      BY <2>1, <2>2
  <1> QED
    BY <1>2, <1>3, <1>4, <1>5

\* The safety half of ImplementsQueue: the submitter is the queue TxQueue, for any chains,
\* calls, prices and faults: each chain executes the accepted calls in order and each
\* once, and a call that was accepted keeps its place.
THEOREM ImplementsQueueSafely == Spec => Queue!Spec
  <1>1. Init => Queue!Init
    <2> SUFFICES ASSUME Init PROVE Queue!Init
      OBVIOUS
    <2>1. \A c \in Chains : CallsIn(rows[c]) = << >> /\ Len(mined[c]) = 0
      <3> SUFFICES ASSUME NEW c \in Chains PROVE CallsIn(rows[c]) = << >> /\ Len(mined[c]) = 0
        OBVIOUS
      <3>1. rows[c] = << >> /\ mined[c] = << >>
        BY DEF Init
      <3>2. {rows[c][i].nonce : i \in DOMAIN rows[c]} = {}
        BY <3>1
      <3>3. Cardinality({}) = 0
        BY FS_EmptySet
      <3>4. DOMAIN CallsIn(rows[c]) = 1 .. 0
        BY <3>2, <3>3 DEF CallsIn
      <3>5. CallsIn(rows[c]) \in [1 .. 0 -> {}]
        BY <3>2, <3>3 DEF CallsIn
      <3> QED
        BY <3>1, <3>5
    <2>2. AcceptedCalls = [c \in Chains |-> << >>]
      BY <2>1, AcceptedIsCallsIn
    <2>3. Executed = [c \in Chains |-> 0]
      BY <2>1 DEF Executed
    <2> QED
      BY <2>2, <2>3 DEF Queue!Init, Executed
  <1>2. SubmitterInv /\ SubmitterInv' /\ [Next]_vars => [Queue!Next]_<<AcceptedCalls, Executed>>
    BY QueueStep
  <1>3. Executed = [c \in Chains |-> Len(mined[c])]
    BY DEF Executed
  <1>4. SubmitterInv /\ SubmitterInv' /\ [Next]_vars
            => [Queue!Next]_<<AcceptedCalls, [c \in Chains |-> Len(mined[c])]>>
    BY <1>2 DEF Executed
  <1> QED
    BY <1>1, <1>4, SubmitterInvariant, PTL DEF Spec, Queue!Spec
=============================================================================
