-------------------------- MODULE FastBridgeProofs --------------------------
(***************************************************************************)
(* What FastBridge guarantees for every value of its constants.            *)
(***************************************************************************)
EXTENDS FastBridge, Sums, FiniteSetTheorems, TLAPS

(* Sums of what requests are worth *)

Worth(r) == r.originAmount + r.originFeeAmount
Owed(S) == MapThenSumSet(LAMBDA r : r.originAmount + r.originFeeAmount, S)

\* MapThenSumSet takes the elements away one by one, in an order of its own.
First(s) == CHOOSE x \in s : TRUE
StepOf(g, s) == IF s = {} THEN 0 ELSE Worth(First(s)) + g[s \ {First(s)}]
IsSum(g, S) == g = [s \in SUBSET S |-> StepOf(g, s)]

LEMMA FirstIsIn == ASSUME NEW s, s # {} PROVE First(s) \in s
  BY DEF First

LEMMA OwedIsSum ==
    ASSUME NEW S, \E g : IsSum(g, S)
    PROVE  \E g : IsSum(g, S) /\ Owed(S) = g[S]
  <1>1. Owed(S) = (CHOOSE g : IsSum(g, S))[S]
    BY Zenon DEF Owed, MapThenSumSet, MapThenFoldSet, IsSum, StepOf, First, Worth
  <1> QED
    BY <1>1, Zenon

\* Such a sum exists: what is right for sets of k elements makes it right for one more.
LEMMA SumExists ==
    ASSUME NEW S, IsFiniteSet(S), \A r \in S : Worth(r) \in Nat
    PROVE  \E g \in [SUBSET S -> Nat] : IsSum(g, S)
  <1> DEFINE RightUpTo(k) == \E g \in [SUBSET S -> Nat] : \A s \in SUBSET S :
                                 Cardinality(s) <= k => g[s] = StepOf(g, s)
             Wrong == {k \in Nat : ~RightUpTo(k)}
  <1>1. \A s \in SUBSET S : IsFiniteSet(s) /\ Cardinality(s) \in Nat /\ Cardinality(s) <= Cardinality(S)
    BY FS_Subset, FS_CardinalityType
  <1>2. \A s \in SUBSET S : s # {} =>
            /\ First(s) \in S /\ s \ {First(s)} \in SUBSET S
            /\ Cardinality(s \ {First(s)}) = Cardinality(s) - 1
    BY <1>1, FirstIsIn, FS_RemoveElement
  <1>3. RightUpTo(0)
    <2> DEFINE g == [s \in SUBSET S |-> 0]
    <2>1. \A s \in SUBSET S : Cardinality(s) <= 0 => s = {}
      BY <1>1, FS_EmptySet
    <2>2. g \in [SUBSET S -> Nat] /\ \A s \in SUBSET S : Cardinality(s) <= 0 => g[s] = StepOf(g, s)
      BY <2>1 DEF StepOf
    <2> HIDE DEF g
    <2> QED
      BY <2>2
  <1>4. ASSUME NEW k \in Nat, RightUpTo(k) PROVE RightUpTo(k + 1)
    <2>1. PICK g \in [SUBSET S -> Nat] :
            \A s \in SUBSET S : Cardinality(s) <= k => g[s] = StepOf(g, s)
      BY <1>4
    <2>2. PICK h : h = [s \in SUBSET S |-> StepOf(g, s)]
      OBVIOUS
    <2>3. \A s \in SUBSET S : StepOf(g, s) \in Nat /\ h[s] = StepOf(g, s)
      BY <1>2, <2>2 DEF StepOf
    <2>4. h \in [SUBSET S -> Nat]
      BY <2>2, <2>3
    <2>5. ASSUME NEW s \in SUBSET S, Cardinality(s) <= k + 1
          PROVE  h[s] = StepOf(h, s)
      <3>1. CASE s = {}
        BY <2>3, <3>1 DEF StepOf
      <3>2. CASE s # {}
        <4>1. PICK u \in SUBSET S : u = s \ {First(s)}
          BY <1>2, <3>2
        <4>2. Cardinality(u) <= k
          BY <1>1, <1>2, <2>5, <3>2, <4>1
        <4>3. h[u] = g[u]
          BY <2>1, <2>3, <4>2
        <4> QED
          BY <2>3, <3>2, <4>1, <4>3 DEF StepOf
      <3> QED
        BY <3>1, <3>2
    <2> QED
      BY <2>4, <2>5
  <1> HIDE DEF RightUpTo
  <1>5. Wrong = {}
    <2> SUFFICES ASSUME Wrong # {} PROVE FALSE
      OBVIOUS
    <2>1. Wrong \in SUBSET Nat
      OBVIOUS
    <2>2. PICK k \in Wrong : \A j \in Wrong : k <= j
      BY <2>1, LeastExists
    <2>3. k \in Nat /\ ~RightUpTo(k) /\ k # 0
      BY <1>3
    <2>4. k - 1 \in Nat /\ k - 1 \notin Wrong /\ (k - 1) + 1 = k
      BY <2>2, <2>3
    <2>5. RightUpTo(k - 1)
      BY <2>4
    <2> QED
      BY <1>4, <2>3, <2>4, <2>5
  <1>6. RightUpTo(Cardinality(S))
    BY <1>5, FS_CardinalityType
  <1>7. PICK g \in [SUBSET S -> Nat] :
            \A s \in SUBSET S : Cardinality(s) <= Cardinality(S) => g[s] = StepOf(g, s)
    BY <1>6 DEF RightUpTo
  <1>8. \A s \in SUBSET S : g[s] = StepOf(g, s)
    BY <1>1, <1>7
  <1>9. g = [s \in SUBSET S |-> StepOf(g, s)]
    BY <1>8
  <1> QED
    BY <1>9 DEF IsSum

\* There is only one, also for the subsets.
LEMMA SumsAgree ==
    ASSUME NEW S, NEW T \in SUBSET S, IsFiniteSet(S), NEW g, IsSum(g, S), NEW h, IsSum(h, T)
    PROVE  \A s \in SUBSET T : h[s] = g[s]
  <1> DEFINE Wrong == {Cardinality(s) : s \in {t \in SUBSET T : h[t] # g[t]}}
  <1>1. \A s \in SUBSET T : /\ IsFiniteSet(s) /\ Cardinality(s) \in Nat
                            /\ h[s] = StepOf(h, s) /\ g[s] = StepOf(g, s)
    BY FS_Subset, FS_CardinalityType DEF IsSum
  <1> SUFFICES ASSUME Wrong # {} PROVE FALSE
    OBVIOUS
  <1>2. Wrong \in SUBSET Nat
    BY <1>1
  <1>3. PICK k \in Wrong : \A j \in Wrong : k <= j
    BY <1>2, LeastExists
  <1>4. PICK s \in SUBSET T : h[s] # g[s] /\ Cardinality(s) = k
    BY <1>3
  <1>5. s # {}
    BY <1>1, <1>4 DEF StepOf
  <1>6. PICK u \in SUBSET T : u = s \ {First(s)}
    OBVIOUS
  <1>7. Cardinality(u) = Cardinality(s) - 1
    BY <1>1, <1>5, <1>6, FirstIsIn, FS_RemoveElement
  <1>8. h[u] # g[u]
    BY <1>1, <1>4, <1>5, <1>6 DEF StepOf
  <1>9. Cardinality(u) \in Wrong
    BY <1>8
  <1>10. k <= Cardinality(u) /\ k \in Nat
    BY <1>3, <1>9, <1>2
  <1> QED
    BY <1>1, <1>4, <1>7, <1>10

\* The order does not matter: any element may be the first.
LEMMA AnyFirst ==
    ASSUME NEW S, IsFiniteSet(S), \A r \in S : Worth(r) \in Nat,
           NEW g \in [SUBSET S -> Nat], IsSum(g, S)
    PROVE  \A s \in SUBSET S : \A e \in s : g[s] = Worth(e) + g[s \ {e}]
  <1> DEFINE Bad(s) == \E e \in s : g[s] # Worth(e) + g[s \ {e}]
             Wrong == {Cardinality(s) : s \in {t \in SUBSET S : Bad(t)}}
  <1>1. \A s \in SUBSET S : /\ IsFiniteSet(s) /\ Cardinality(s) \in Nat
                            /\ g[s] = StepOf(g, s) /\ g[s] \in Nat
    BY FS_Subset, FS_CardinalityType DEF IsSum
  <1> SUFFICES ASSUME Wrong # {} PROVE FALSE
    OBVIOUS
  <1>2. Wrong \in SUBSET Nat
    BY <1>1
  <1>3. PICK k \in Wrong : \A j \in Wrong : k <= j
    BY <1>2, LeastExists
  <1>4. PICK s \in SUBSET S : Bad(s) /\ Cardinality(s) = k
    BY <1>3
  <1>5. PICK e \in s : g[s] # Worth(e) + g[s \ {e}]
    BY <1>4
  <1>6. PICK f \in s : f = First(s)
    BY <1>5, FirstIsIn
  <1>7. g[s] = Worth(f) + g[s \ {f}]
    BY <1>1, <1>5, <1>6 DEF StepOf
  <1>8. e # f
    BY <1>5, <1>7
  <1>9. /\ s \ {f} \in SUBSET S /\ s \ {e} \in SUBSET S
        /\ Cardinality(s \ {f}) = k - 1 /\ Cardinality(s \ {e}) = k - 1
    BY <1>1, <1>4, FS_RemoveElement
  <1>10. ASSUME NEW u \in SUBSET S, Cardinality(u) = k - 1, NEW x \in u
         PROVE  g[u] = Worth(x) + g[u \ {x}]
    <2>1. k \in Nat /\ ~(k <= Cardinality(u))
      BY <1>2, <1>10
    <2>2. Cardinality(u) \notin Wrong
      BY <1>3, <2>1
    <2>3. ~Bad(u)
      BY <2>2
    <2> QED
      BY <2>3
  <1>11. g[s \ {f}] = Worth(e) + g[(s \ {f}) \ {e}]
    BY <1>8, <1>9, <1>10
  <1>12. g[s \ {e}] = Worth(f) + g[(s \ {e}) \ {f}]
    BY <1>8, <1>9, <1>10
  <1>13. (s \ {f}) \ {e} = (s \ {e}) \ {f}
    OBVIOUS
  <1>14. PICK u \in SUBSET S : u = (s \ {f}) \ {e}
    OBVIOUS
  <1>15. g[u] \in Nat /\ Worth(e) \in Nat /\ Worth(f) \in Nat
    OBVIOUS
  <1>16. g[s \ {f}] = Worth(e) + g[u] /\ g[s \ {e}] = Worth(f) + g[u]
    BY <1>11, <1>12, <1>13, <1>14, Zenon
  <1>17. Worth(f) + (Worth(e) + g[u]) = Worth(e) + (Worth(f) + g[u])
    BY <1>15
  <1> QED
    BY <1>5, <1>7, <1>16, <1>17, Zenon

\* The sum of the empty set, and of one element more.
LEMMA OwedFacts ==
    ASSUME NEW S, IsFiniteSet(S), \A r \in S : Worth(r) \in Nat
    PROVE  /\ Owed(S) \in Nat
           /\ S = {} => Owed(S) = 0
           /\ \A e \in S : Owed(S) = Worth(e) + Owed(S \ {e})
  <1>1. PICK g \in [SUBSET S -> Nat] : IsSum(g, S)
    BY SumExists
  <1>2. ASSUME NEW T \in SUBSET S PROVE Owed(T) = g[T]
    <2>1. IsFiniteSet(T) /\ \A r \in T : Worth(r) \in Nat
      BY FS_Subset
    <2>2. \E f : IsSum(f, T)
      BY <2>1, SumExists
    <2>3. PICK h : IsSum(h, T) /\ Owed(T) = h[T]
      BY <2>2, OwedIsSum
    <2> QED
      BY <1>1, <2>3, SumsAgree
  <1>3. Owed(S) = g[S] /\ g[S] \in Nat
    BY <1>2
  <1>4. S = {} => g[S] = 0
    BY <1>1 DEF IsSum, StepOf
  <1>5. ASSUME NEW e \in S PROVE Owed(S) = Worth(e) + Owed(S \ {e})
    BY <1>1, <1>2, AnyFirst
  <1> QED
    BY <1>3, <1>4, <1>5

-----------------------------------------------------------------------------
USE TimeAssumption, FeeAssumption, AccountAssumption, InputAssumption

\* The protocol's share of a deposit is never more than the deposit.
LEMMA FeeBounded ==
    ASSUME NEW amount \in Nat, protocolFeeRate \in 0..FEE_RATE_MAX
    PROVE  OriginFee(amount) \in 0..amount
  <1>1. CASE protocolFeeRate > 0
    <2>1. amount * protocolFeeRate \in Nat
      BY <1>1
    <2>2. amount * protocolFeeRate <= amount * FEE_BPS
      BY <1>1
    <2>3. (amount * protocolFeeRate) \div FEE_BPS \in 0..amount
      BY <2>1, <2>2
    <2> QED
      BY <1>1, <2>3 DEF OriginFee
  <1>2. CASE ~(protocolFeeRate > 0)
    BY <1>2 DEF OriginFee
  <1> QED
    BY <1>1, <1>2

\* The amount pulled for a request is what its two amounts add up to.
LEMMA RequestAmounts ==
    ASSUME TypeOK, NEW p \in BridgeParams, p.originToken # ZeroAddress
    PROVE  /\ RequestFor(p).originAmount \in Nat
           /\ RequestFor(p).originFeeAmount \in Nat
           /\ RequestFor(p).originToken \in Tokens
           /\ RequestFor(p).deadline \in Nat
           /\ RequestFor(p).nonce = nonce
  <1> DEFINE pulled == AmountPulled(p.originToken, p.originAmount)
  <1>1. pulled \in Nat
    BY DEF AmountPulled, Received
  <1>2. OriginFee(pulled) \in 0..pulled
    BY <1>1, FeeBounded DEF TypeOK
  <1>3. pulled - OriginFee(pulled) \in Nat
    BY <1>1, <1>2
  <1> QED
    BY <1>1, <1>2, <1>3 DEF RequestFor, TypeOK

\* Extending or updating a function keeps its type, over the extended domain.
LEMMA AssignType ==
    ASSUME NEW S, NEW T, NEW f \in [S -> T], NEW x, NEW v \in T
    PROVE  /\ Assign(f, x, v) \in [S \cup {x} -> T]
           /\ Assign(f, x, v)[x] = v
           /\ \A y \in S \ {x} : Assign(f, x, v)[y] = f[y]
           /\ DOMAIN Assign(f, x, v) = S \cup {x}
  BY DEF Assign

LEMMA UpdateType ==
    ASSUME NEW S, NEW T, NEW f \in [S -> T], NEW x \in S, NEW v \in T
    PROVE  /\ Assign(f, x, v) \in [S -> T]
           /\ Assign(f, x, v)[x] = v
           /\ \A y \in S \ {x} : Assign(f, x, v)[y] = f[y]
           /\ DOMAIN Assign(f, x, v) = S
  BY DEF Assign

LEMMA TypeOKInit == Init => TypeOK
  BY DEF Init, TypeOK, Requests, Roles, Proofs, Statuses

LEMMA BridgeKeepsTypes ==
    ASSUME TypeOK, NEW p \in BridgeParams, NEW value \in MsgValues, Bridge(p, value)
    PROVE  TypeOK'
  <1> DEFINE r == RequestFor(p)
  <1>1. /\ r.originAmount \in Nat /\ r.originFeeAmount \in Nat
        /\ r.originToken \in Tokens
        /\ r.deadline \in Nat /\ r.nonce = nonce
    BY RequestAmounts DEF Bridge
  <1>2. /\ bridgeStatuses' \in [Requests \cup {r} -> Statuses \ {"NULL"}]
        /\ Requests' = Requests \cup {r}
    <2>1. bridgeStatuses' = Assign(bridgeStatuses, r, "REQUESTED")
      BY DEF Bridge
    <2>2. "REQUESTED" \in Statuses \ {"NULL"}
      BY DEF Statuses
    <2>3. bridgeStatuses \in [Requests -> Statuses \ {"NULL"}]
      BY DEF TypeOK
    <2>4. bridgeStatuses' \in [Requests \cup {r} -> Statuses \ {"NULL"}]
      BY <2>1, <2>2, <2>3, AssignType
    <2> QED
      BY <2>4 DEF Requests
  <1>3. bridgeProofs' \in [Requests' -> Proofs]
    <2>1. NoProof \in Proofs
      BY DEF NoProof, Proofs
    <2> QED
      BY <1>2, <2>1, AssignType DEF Bridge, TypeOK
  <1>4. /\ provedAt' \in [Requests' -> Nat]
        /\ paid' \in [Requests' -> Nat]
    BY <1>2, AssignType DEF Bridge, TypeOK
  <1>5. balances' \in [Tokens -> Nat]
    <2>1. balances' = Deposited(value, p.originToken, Received(p.originToken, p.originAmount))
      BY DEF Bridge
    <2>2. Received(p.originToken, p.originAmount) \in Nat
      BY DEF Bridge, Received
    <2> QED
      BY <2>1, <2>2 DEF Deposited, TypeOK
  <1>6. nonce' \in Nat
    BY DEF Bridge, IncrementNonce, TypeOK
  <1> QED
    BY <1>1, <1>2, <1>3, <1>4, <1>5, <1>6 DEF Bridge, TypeOK, relayVars, adminVars

LEMMA RelayKeepsTypes ==
    ASSUME TypeOK, NEW relayer \in Addresses, NEW r \in ForeignRequests,
           NEW value \in MsgValues, Relay(relayer, r, value)
    PROVE  TypeOK'
  <1>1. bridgeRelays' \subseteq ForeignRequests /\ DOMAIN fills' = bridgeRelays'
    BY DEF Relay, MarkRelayed, Assign, TypeOK
  <1>2. balances' \in [Tokens -> Nat]
    <2>1. EthPassedOn(r) \in Nat
      BY DEF EthPassedOn, EthForwarded, Rebate, TypeOK
    <2>2. balances[ETH] + (value - EthPassedOn(r)) \in Nat
      BY <2>1 DEF Relay, TypeOK
    <2>3. Received(r.destToken, r.destAmount) \in Nat
      BY DEF Received
    <2> QED
      BY <2>1, <2>2, <2>3 DEF Relay, Deposited, TypeOK
  <1> QED
    BY <1>1, <1>2 DEF Relay, TypeOK, originVars, adminVars, Requests

LEMMA TransferOutType ==
    ASSUME TypeOK, NEW t \in Tokens, NEW to, NEW amount \in Nat,
           TransferOut(t, to, amount)
    PROVE  balances' \in [Tokens -> Nat]
  BY DEF TransferOut, TypeOK

LEMMA SettledStatuses ==
    {"REQUESTED", "RELAYER_PROVED", "RELAYER_CLAIMED", "REFUNDED"} \subseteq Statuses \ {"NULL"}
  BY DEF Statuses

\* prove, claim, dispute and refund change the entries of requests the
\* contract knows, and add none.
LEMMA SettlementKeepsTypes ==
    ASSUME TypeOK, NEW account \in Addresses, NEW r \in Requests
    PROVE  /\ Prove(account, r) => TypeOK' /\ Requests' = Requests
           /\ \A to : Claim(account, r, to) => TypeOK' /\ Requests' = Requests
           /\ Dispute(account, r) => TypeOK' /\ Requests' = Requests
           /\ Refund(account, r) => TypeOK' /\ Requests' = Requests
  <1>1. ASSUME Prove(account, r) PROVE TypeOK' /\ Requests' = Requests
    <2>1. bridgeStatuses' \in [Requests -> Statuses \ {"NULL"}]
      BY <1>1, UpdateType, SettledStatuses DEF Prove, TypeOK
    <2>2. bridgeProofs' \in [Requests -> Proofs]
      <3>1. now % TimestampModulus \in Nat
        BY DEF TypeOK
      <3>2. [timestamp |-> now % TimestampModulus, relayer |-> account] \in Proofs
        BY <3>1 DEF Proofs
      <3> QED
        BY <1>1, <3>2, UpdateType DEF Prove, TypeOK
    <2>3. provedAt' \in [Requests -> Nat]
      BY <1>1, UpdateType DEF Prove, TypeOK
    <2>4. Requests' = Requests
      BY <2>1 DEF Requests
    <2> QED
      BY <1>1, <2>1, <2>2, <2>3, <2>4 DEF Prove, TypeOK, relayVars, adminVars
  <1>2. ASSUME NEW to, Claim(account, r, to) PROVE TypeOK' /\ Requests' = Requests
    <2>1. bridgeStatuses' \in [Requests -> Statuses \ {"NULL"}]
      BY <1>2, UpdateType, SettledStatuses DEF Claim, TypeOK
    <2>2. /\ r.originToken \in Tokens
          /\ r.originAmount \in Nat /\ r.originFeeAmount \in Nat
      BY DEF TypeOK
    <2>3. paid' \in [Requests -> Nat]
      <3>1. paid[r] + r.originAmount + r.originFeeAmount \in Nat
        BY <2>2 DEF TypeOK
      <3> QED
        BY <1>2, <3>1, UpdateType DEF Claim, TypeOK
    <2>4. balances' \in [Tokens -> Nat]
      BY <1>2, <2>2, TransferOutType DEF Claim
    <2>5. protocolFees' \in [Tokens -> Nat]
      BY <1>2, <2>2 DEF Claim, TypeOK
    <2>6. Requests' = Requests
      BY <2>1 DEF Requests
    <2> QED
      BY <1>2, <2>1, <2>3, <2>4, <2>5, <2>6 DEF Claim, TypeOK, relayVars
  <1>3. ASSUME Dispute(account, r) PROVE TypeOK' /\ Requests' = Requests
    <2>1. bridgeStatuses' \in [Requests -> Statuses \ {"NULL"}]
      BY <1>3, UpdateType, SettledStatuses DEF Dispute, TypeOK
    <2>2. NoProof \in Proofs
      BY DEF NoProof, Proofs
    <2>3. bridgeProofs' \in [Requests -> Proofs]
      BY <1>3, <2>2, UpdateType DEF Dispute, DeleteProof, TypeOK
    <2>4. Requests' = Requests
      BY <2>1 DEF Requests
    <2> QED
      BY <1>3, <2>1, <2>3, <2>4 DEF Dispute, TypeOK, relayVars, adminVars
  <1>4. ASSUME Refund(account, r) PROVE TypeOK' /\ Requests' = Requests
    <2>1. bridgeStatuses' \in [Requests -> Statuses \ {"NULL"}]
      BY <1>4, UpdateType, SettledStatuses DEF Refund, TypeOK
    <2>2. /\ r.originToken \in Tokens
          /\ r.originAmount \in Nat /\ r.originFeeAmount \in Nat
      BY DEF TypeOK
    <2>3. paid' \in [Requests -> Nat]
      <3>1. paid[r] + r.originAmount + r.originFeeAmount \in Nat
        BY <2>2 DEF TypeOK
      <3> QED
        BY <1>4, <3>1, UpdateType DEF Refund, TypeOK
    <2>4. balances' \in [Tokens -> Nat]
      BY <1>4, <2>2, TransferOutType DEF Refund
    <2>5. Requests' = Requests
      BY <2>1 DEF Requests
    <2> QED
      BY <1>4, <2>1, <2>3, <2>4, <2>5 DEF Refund, TypeOK, relayVars, adminVars
  <1> QED
    BY <1>1, <1>2, <1>3, <1>4

LEMMA AdminKeepsTypes ==
    ASSUME TypeOK, AdminStep
    PROVE  TypeOK'
  <1> USE DEF TypeOK, Requests, originVars, relayVars
  <1>1. ASSUME NEW governor \in Addresses, NEW rate \in FeeRates,
               SetProtocolFeeRate(governor, rate)
        PROVE  TypeOK'
    BY <1>1 DEF SetProtocolFeeRate
  <1>2. ASSUME NEW governor \in Addresses, NEW amount \in ChainGasAmounts,
               SetChainGasAmount(governor, amount)
        PROVE  TypeOK'
    BY <1>2 DEF SetChainGasAmount
  <1>3. ASSUME NEW governor \in Addresses, NEW t \in Tokens, NEW to,
               SweepProtocolFees(governor, t, to)
        PROVE  TypeOK'
    <2>1. balances' \in [Tokens -> Nat]
      BY <1>3, TransferOutType DEF SweepProtocolFees
    <2>2. protocolFees' \in [Tokens -> Nat]
      BY <1>3 DEF SweepProtocolFees
    <2> QED
      BY <1>3, <2>1, <2>2 DEF SweepProtocolFees
  <1>4. ASSUME NEW change \in RoleChanges, GrantRole(change[1], change[2])
        PROVE  TypeOK'
    BY <1>4 DEF GrantRole
  <1>5. ASSUME NEW change \in RoleChanges, RevokeRole(change[1], change[2])
        PROVE  TypeOK'
    BY <1>5 DEF RevokeRole
  <1> QED
    BY <1>1, <1>2, <1>3, <1>4, <1>5 DEF AdminStep

LEMMA TypeOKStep == TypeOK /\ [Next]_vars => TypeOK'
  <1> SUFFICES ASSUME TypeOK, [Next]_vars PROVE TypeOK'
    OBVIOUS
  <1>1. CASE Tick
    BY <1>1 DEF Tick, TypeOK, Requests, originVars, relayVars, adminVars
  <1>2. CASE BridgeStep
    BY <1>2, BridgeKeepsTypes DEF BridgeStep
  <1>3. CASE RelayStep
    BY <1>3, RelayKeepsTypes DEF RelayStep
  <1>4. CASE SettlementStep
    BY <1>4, SettlementKeepsTypes DEF SettlementStep
  <1>5. CASE AdminStep
    BY <1>5, AdminKeepsTypes
  <1>6. CASE UNCHANGED vars
    BY <1>6 DEF vars, TypeOK, Requests, originVars, relayVars, adminVars
  <1> QED
    BY <1>1, <1>2, <1>3, <1>4, <1>5, <1>6 DEF Next

\* Every storage slot of FastBridge keeps its type, and no transfer out of the
\* contract ever makes a balance negative.
THEOREM TypeCorrect == Spec => []TypeOK
  BY TypeOKInit, TypeOKStep, PTL DEF Spec

-----------------------------------------------------------------------------
(***************************************************************************)
(* The inductive invariant.  ProofMatchesStatus needs TypeOK (a relayer is *)
(* not the zero address), PaidOnce needs it for the arithmetic, and both   *)
(* need UniqueNonces: bridge would otherwise overwrite the status, and the *)
(* record of payments, of a request that was made before.                  *)
(***************************************************************************)
IInv == TypeOK /\ UniqueNonces /\ ProofMatchesStatus /\ PaidOnce /\ FilledOnce

LEMMA IInvInit == Init => IInv
  <1> SUFFICES ASSUME Init PROVE IInv
    OBVIOUS
  <1>1. Requests = {} /\ bridgeRelays = {}
    BY DEF Init, Requests
  <1> QED
    BY <1>1, TypeOKInit DEF IInv, UniqueNonces, ProofMatchesStatus, PaidOnce, FilledOnce

LEMMA EntryDomains ==
    ASSUME TypeOK
    PROVE  /\ DOMAIN bridgeStatuses = Requests /\ DOMAIN bridgeProofs = Requests
           /\ DOMAIN provedAt = Requests /\ DOMAIN paid = Requests
  BY DEF TypeOK

LEMMA BridgeKeepsIInv ==
    ASSUME IInv, NEW p \in BridgeParams, NEW value \in MsgValues, Bridge(p, value)
    PROVE  IInv'
  <1> DEFINE r == RequestFor(p)
  <1>1. TypeOK'
    BY BridgeKeepsTypes DEF IInv
  <1>2. r.nonce = nonce /\ r \notin Requests
    BY RequestAmounts DEF IInv, Bridge, UniqueNonces, TypeOK
  <1> HIDE DEF r
  <1>3. /\ bridgeStatuses' = Assign(bridgeStatuses, r, "REQUESTED")
        /\ bridgeProofs' = Assign(bridgeProofs, r, NoProof)
        /\ provedAt' = Assign(provedAt, r, 0)
        /\ paid' = Assign(paid, r, 0)
        /\ nonce' = nonce + 1 /\ now' = now
        /\ bridgeRelays' = bridgeRelays /\ fills' = fills
    BY DEF Bridge, IncrementNonce, relayVars, r
  <1>4. Requests' = Requests \cup {r}
    BY <1>3 DEF Assign, Requests
  <1>5. UniqueNonces'
    BY <1>2, <1>3, <1>4 DEF IInv, UniqueNonces, TypeOK
  <1>6. /\ bridgeStatuses'[r] = "REQUESTED" /\ bridgeProofs'[r] = NoProof
        /\ paid'[r] = 0
        /\ \A q \in Requests : /\ bridgeStatuses'[q] = bridgeStatuses[q]
                               /\ bridgeProofs'[q] = bridgeProofs[q]
                               /\ provedAt'[q] = provedAt[q]
                               /\ paid'[q] = paid[q]
    BY <1>2, <1>3, EntryDomains DEF IInv, Assign
  <1>7. ProofMatchesStatus'
    BY <1>3, <1>4, <1>6 DEF IInv, ProofMatchesStatus
  <1>8. PaidOnce'
    BY <1>4, <1>6 DEF IInv, PaidOnce, Open
  <1>9. FilledOnce'
    BY <1>3 DEF IInv, FilledOnce
  <1> QED
    BY <1>1, <1>5, <1>7, <1>8, <1>9 DEF IInv

LEMMA RelayKeepsIInv ==
    ASSUME IInv, NEW relayer \in Addresses, NEW r \in ForeignRequests,
           NEW value \in MsgValues, Relay(relayer, r, value)
    PROVE  IInv'
  <1>1. TypeOK'
    BY RelayKeepsTypes DEF IInv
  <1>2. r \notin bridgeRelays /\ r \notin DOMAIN fills
    BY DEF Relay, NotRelayed, IInv, TypeOK
  <1>3. bridgeRelays' = bridgeRelays \cup {r} /\ fills' = Assign(fills, r, 1)
    BY <1>2 DEF Relay, MarkRelayed
  <1>4. FilledOnce'
    BY <1>2, <1>3 DEF IInv, TypeOK, FilledOnce, Assign
  <1>5. UNCHANGED <<now, originVars>>
    BY DEF Relay
  <1> QED
    BY <1>1, <1>4, <1>5
    DEF IInv, originVars, UniqueNonces, ProofMatchesStatus, PaidOnce, Open, Requests

\* What is left to prove of a step that changes the entries of one request only.
LEMMA OneEntryKeepsIInv ==
    ASSUME IInv, TypeOK', NEW r \in Requests,
           Requests' = Requests, nonce' = nonce, now' = now, UNCHANGED relayVars,
           \A q \in Requests \ {r} :
                /\ bridgeStatuses'[q] = bridgeStatuses[q]
                /\ bridgeProofs'[q] = bridgeProofs[q]
                /\ provedAt'[q] = provedAt[q]
                /\ paid'[q] = paid[q],
           IF bridgeStatuses'[r] \in {"RELAYER_PROVED", "RELAYER_CLAIMED"}
           THEN /\ bridgeProofs'[r].relayer # ZeroAddress
                /\ bridgeProofs'[r].timestamp = provedAt'[r] % TimestampModulus
                /\ provedAt'[r] <= now
           ELSE bridgeProofs'[r] = NoProof,
           paid'[r] = IF bridgeStatuses'[r] \in {"REQUESTED", "RELAYER_PROVED"}
                      THEN 0 ELSE r.originAmount + r.originFeeAmount
    PROVE  IInv'
  <1>1. UniqueNonces' /\ FilledOnce'
    BY DEF IInv, UniqueNonces, FilledOnce, relayVars
  <1>2. ProofMatchesStatus'
    BY DEF IInv, ProofMatchesStatus
  <1>3. PaidOnce'
    BY DEF IInv, PaidOnce, Open
  <1> QED
    BY <1>1, <1>2, <1>3 DEF IInv

LEMMA ProveKeepsIInv ==
    ASSUME IInv, NEW account \in Addresses, NEW r \in Requests, Prove(account, r)
    PROVE  IInv'
  <1>1. TypeOK' /\ Requests' = Requests
    BY SettlementKeepsTypes DEF IInv
  <1>2. /\ bridgeStatuses[r] = "REQUESTED"
        /\ bridgeStatuses'[r] = "RELAYER_PROVED"
        /\ bridgeProofs'[r] = [timestamp |-> now % TimestampModulus, relayer |-> account]
        /\ provedAt'[r] = now /\ paid' = paid
        /\ \A q \in Requests \ {r} : /\ bridgeStatuses'[q] = bridgeStatuses[q]
                                     /\ bridgeProofs'[q] = bridgeProofs[q]
                                     /\ provedAt'[q] = provedAt[q]
    <2>1. /\ bridgeStatuses' = Assign(bridgeStatuses, r, "RELAYER_PROVED")
          /\ bridgeProofs' = Assign(bridgeProofs, r,
                [timestamp |-> now % TimestampModulus, relayer |-> account])
          /\ provedAt' = Assign(provedAt, r, now)
          /\ paid' = paid /\ bridgeStatuses[r] = "REQUESTED"
      BY DEF Prove, Requested, Status
    <2> QED
      BY <2>1, EntryDomains DEF IInv, Assign
  <1>3. now' = now /\ nonce' = nonce /\ UNCHANGED relayVars
    BY DEF Prove
  <1>4. paid[r] = 0
    BY <1>2 DEF IInv, PaidOnce, Open
  <1>5. account # ZeroAddress /\ now <= now
    BY DEF IInv, TypeOK
  <1> QED
    BY <1>1, <1>2, <1>3, <1>4, <1>5, OneEntryKeepsIInv

LEMMA ClaimKeepsIInv ==
    ASSUME IInv, NEW account \in Addresses, NEW r \in Requests, NEW to,
           Claim(account, r, to)
    PROVE  IInv'
  <1>1. TypeOK' /\ Requests' = Requests
    BY SettlementKeepsTypes DEF IInv
  <1>2. bridgeStatuses[r] = "RELAYER_PROVED"
    BY DEF Claim, CanClaim, Status
  <1>3. paid[r] = 0
    BY <1>2 DEF IInv, PaidOnce, Open
  <1>4. /\ bridgeStatuses'[r] = "RELAYER_CLAIMED"
        /\ bridgeProofs' = bridgeProofs /\ provedAt' = provedAt
        /\ paid'[r] = r.originAmount + r.originFeeAmount
        /\ \A q \in Requests \ {r} : /\ bridgeStatuses'[q] = bridgeStatuses[q]
                                     /\ paid'[q] = paid[q]
    <2>1. /\ bridgeStatuses' = Assign(bridgeStatuses, r, "RELAYER_CLAIMED")
          /\ bridgeProofs' = bridgeProofs /\ provedAt' = provedAt
          /\ paid' = Assign(paid, r, paid[r] + r.originAmount + r.originFeeAmount)
      BY DEF Claim
    <2>2. paid[r] + r.originAmount + r.originFeeAmount = r.originAmount + r.originFeeAmount
      BY <1>3 DEF IInv, TypeOK
    <2> QED
      BY <2>1, <2>2, EntryDomains DEF IInv, Assign
  <1>5. now' = now /\ nonce' = nonce /\ UNCHANGED relayVars
    BY DEF Claim
  <1> QED
    BY <1>1, <1>2, <1>4, <1>5, OneEntryKeepsIInv DEF IInv, ProofMatchesStatus

LEMMA DisputeKeepsIInv ==
    ASSUME IInv, NEW account \in Addresses, NEW r \in Requests, Dispute(account, r)
    PROVE  IInv'
  <1>1. TypeOK' /\ Requests' = Requests
    BY SettlementKeepsTypes DEF IInv
  <1>2. bridgeStatuses[r] = "RELAYER_PROVED"
    BY DEF Dispute, Status
  <1>3. /\ bridgeStatuses'[r] = "REQUESTED" /\ bridgeProofs'[r] = NoProof
        /\ paid' = paid /\ provedAt' = provedAt
        /\ \A q \in Requests \ {r} : /\ bridgeStatuses'[q] = bridgeStatuses[q]
                                     /\ bridgeProofs'[q] = bridgeProofs[q]
    <2>1. /\ bridgeStatuses' = Assign(bridgeStatuses, r, "REQUESTED")
          /\ bridgeProofs' = Assign(bridgeProofs, r, NoProof)
          /\ paid' = paid /\ provedAt' = provedAt
      BY DEF Dispute, DeleteProof
    <2> QED
      BY <2>1, EntryDomains DEF IInv, Assign
  <1>4. now' = now /\ nonce' = nonce /\ UNCHANGED relayVars
    BY DEF Dispute
  <1>5. paid[r] = 0
    BY <1>2 DEF IInv, PaidOnce, Open
  <1> QED
    BY <1>1, <1>3, <1>4, <1>5, OneEntryKeepsIInv

LEMMA RefundKeepsIInv ==
    ASSUME IInv, NEW account \in Addresses, NEW r \in Requests, Refund(account, r)
    PROVE  IInv'
  <1>1. TypeOK' /\ Requests' = Requests
    BY SettlementKeepsTypes DEF IInv
  <1>2. bridgeStatuses[r] = "REQUESTED"
    BY DEF Refund, Requested, Status
  <1>3. paid[r] = 0 /\ bridgeProofs[r] = NoProof
    BY <1>2 DEF IInv, PaidOnce, ProofMatchesStatus, Open
  <1>4. /\ bridgeStatuses'[r] = "REFUNDED"
        /\ bridgeProofs' = bridgeProofs /\ provedAt' = provedAt
        /\ paid'[r] = r.originAmount + r.originFeeAmount
        /\ \A q \in Requests \ {r} : /\ bridgeStatuses'[q] = bridgeStatuses[q]
                                     /\ paid'[q] = paid[q]
    <2>1. /\ bridgeStatuses' = Assign(bridgeStatuses, r, "REFUNDED")
          /\ bridgeProofs' = bridgeProofs /\ provedAt' = provedAt
          /\ paid' = Assign(paid, r, paid[r] + r.originAmount + r.originFeeAmount)
      BY DEF Refund
    <2>2. paid[r] + r.originAmount + r.originFeeAmount = r.originAmount + r.originFeeAmount
      BY <1>3 DEF IInv, TypeOK
    <2> QED
      BY <2>1, <2>2, EntryDomains DEF IInv, Assign
  <1>5. now' = now /\ nonce' = nonce /\ UNCHANGED relayVars
    BY DEF Refund
  <1> QED
    BY <1>1, <1>3, <1>4, <1>5, OneEntryKeepsIInv

LEMMA IInvStep == IInv /\ [Next]_vars => IInv'
  <1> SUFFICES ASSUME IInv, [Next]_vars PROVE IInv'
    OBVIOUS
  <1>0. TypeOK'
    BY TypeOKStep DEF IInv
  <1>1. CASE Tick
    <2>1. now <= now' /\ UNCHANGED <<originVars, relayVars>>
      BY <1>1 DEF Tick, IInv, TypeOK
    <2>2. \A r \in Requests : provedAt[r] <= now => provedAt[r] <= now'
      BY <2>1, <1>1 DEF Tick, IInv, TypeOK
    <2> QED
      BY <1>0, <2>1, <2>2 DEF originVars, relayVars, IInv, UniqueNonces,
         ProofMatchesStatus, PaidOnce, FilledOnce, Open, Requests
  <1>2. CASE BridgeStep
    BY <1>2, BridgeKeepsIInv DEF BridgeStep
  <1>3. CASE RelayStep
    BY <1>3, RelayKeepsIInv DEF RelayStep
  <1>4. CASE SettlementStep
    BY <1>4, ProveKeepsIInv, ClaimKeepsIInv, DisputeKeepsIInv, RefundKeepsIInv
    DEF SettlementStep
  <1>5. CASE AdminStep
    <2>1. UNCHANGED <<now, originVars, relayVars>>
      BY <1>5 DEF AdminStep, SetProtocolFeeRate, SetChainGasAmount,
         SweepProtocolFees, GrantRole, RevokeRole
    <2> QED
      BY <1>0, <2>1 DEF originVars, relayVars, IInv, UniqueNonces,
         ProofMatchesStatus, PaidOnce, FilledOnce, Open, Requests
  <1>6. CASE UNCHANGED vars
    BY <1>0, <1>6 DEF vars, originVars, relayVars, IInv, UniqueNonces,
       ProofMatchesStatus, PaidOnce, FilledOnce, Open, Requests
  <1> QED
    BY <1>1, <1>2, <1>3, <1>4, <1>5, <1>6 DEF Next

\* The types, the nonces, the proofs, the payments and the relays support one
\* another, and together every call of the contract preserves them.
THEOREM Inductive == Spec => []IInv
  BY IInvInit, IInvStep, PTL DEF Spec

\* Every deposit leaves the contract once and in full, or not at all: claim and
\* refund never both pay, whatever the order of proofs, disputes and roles.
THEOREM DepositsPaidOnce == Spec => []PaidOnce
  BY Inductive, PTL DEF IInv

\* dispute leaves no proof behind, and prove replaces none.
THEOREM OneProofPerRequest == Spec => []ProofMatchesStatus
  BY Inductive, PTL DEF IInv

\* No two calls of bridge produce the same transactionId.
THEOREM TransactionIdsUnique == Spec => []UniqueNonces
  BY Inductive, PTL DEF IInv

\* relay pays a recipient once.
THEOREM RelayedOnce == Spec => []FilledOnce
  BY Inductive, PTL DEF IInv

-----------------------------------------------------------------------------
\* Arithmetic of the truncated timestamps.

\* The truncated difference is never more than the true one.
LEMMA TruncatedElapsed ==
    ASSUME NEW x \in Nat, NEW y \in Nat, x <= y
    PROVE  ((y % TimestampModulus) - (x % TimestampModulus)) % TimestampModulus <= y - x
  OBVIOUS

\* It is the true one until the clock has gone all the way round.
LEMMA ExactElapsed ==
    ASSUME NEW x \in Nat, NEW y \in Nat, x <= y, y - x < TimestampModulus
    PROVE  ((y % TimestampModulus) - (x % TimestampModulus)) % TimestampModulus = y - x
  <1> DEFINE M == TimestampModulus
             a == y % M
             b == x % M
             k == (y \div M) - (x \div M)
  <1>1. a \in 0..(M - 1) /\ b \in 0..(M - 1) /\ k \in Int
    OBVIOUS
  <1>2. y - x = (M * k) + (a - b)
    <2>1. \A z \in Nat : z = (M * (z \div M)) + (z % M) /\ z \div M \in Nat
      OBVIOUS
    <2> QED
      BY <2>1
  <1>3. \A z \in 0..(M - 1) : z % M = z
    OBVIOUS
  <1>4. \A z \in (-M)..(-1) : z % M = z + M
    OBVIOUS
  <1> HIDE DEF a, b, k
  <1>5. k \in {0, 1}
    <2>1. \A j \in Int, e \in (-M)..M :
            (M * j) + e \in 0..(M - 1) /\ e < M /\ e > -M => j \in {0, 1}
      OBVIOUS
    <2> QED
      BY <1>1, <1>2, <2>1
  <1>6. CASE k = 0
    <2>1. a - b = y - x /\ a - b \in 0..(M - 1)
      BY <1>1, <1>2, <1>6
    <2> QED
      BY <1>3, <2>1 DEF a, b
  <1>7. CASE k = 1
    <2>1. a - b = (y - x) - M /\ a - b \in (-M)..(-1)
      BY <1>1, <1>2, <1>7
    <2>2. (a - b) % M = (a - b) + M
      BY <1>4, <2>1
    <2> QED
      BY <1>1, <2>1, <2>2 DEF a, b
  <1> QED
    BY <1>5, <1>6, <1>7

-----------------------------------------------------------------------------
\* The statuses a step can give a request, and what it takes.
LEMMA StatusSteps ==
    ASSUME IInv, [Next]_vars, NEW r \in Requests
    PROVE  \/ UNCHANGED <<bridgeStatuses[r], bridgeProofs[r]>> /\ r \in Requests'
           \/ /\ bridgeStatuses[r] = "REQUESTED"
              /\ bridgeStatuses'[r] = "RELAYER_PROVED" /\ r \in Requests'
           \/ /\ bridgeStatuses[r] = "RELAYER_PROVED"
              /\ TimeSince(bridgeProofs[r]) > DISPUTE_PERIOD
              /\ bridgeStatuses'[r] = "RELAYER_CLAIMED" /\ r \in Requests'
              /\ bridgeProofs'[r] = bridgeProofs[r]
           \/ /\ bridgeStatuses[r] = "RELAYER_PROVED"
              /\ TimeSince(bridgeProofs[r]) <= DISPUTE_PERIOD
              /\ bridgeStatuses'[r] = "REQUESTED" /\ r \in Requests'
           \/ /\ bridgeStatuses[r] = "REQUESTED"
              /\ bridgeStatuses'[r] = "REFUNDED" /\ r \in Requests'
  <1> USE EntryDomains DEF IInv
  <1>1. CASE Tick
    BY <1>1 DEF Tick, originVars, Requests
  <1>2. CASE BridgeStep
    <2>1. PICK p \in BridgeParams, value \in MsgValues : Bridge(p, value)
      BY <1>2 DEF BridgeStep
    <2> DEFINE q == RequestFor(p)
    <2>2. q \notin Requests
      BY <2>1, RequestAmounts DEF Bridge, UniqueNonces, TypeOK
    <2>3. /\ bridgeStatuses' = Assign(bridgeStatuses, q, "REQUESTED")
          /\ bridgeProofs' = Assign(bridgeProofs, q, NoProof)
      BY <2>1 DEF Bridge
    <2> HIDE DEF q
    <2> QED
      BY <2>2, <2>3 DEF Assign, Requests
  <1>3. CASE RelayStep
    BY <1>3 DEF RelayStep, Relay, originVars, Requests
  <1>4. CASE SettlementStep
    <2>1. PICK account \in Addresses, q \in Requests :
            \/ Prove(account, q)
            \/ \E to \in Addresses \cup {This} : Claim(account, q, to)
            \/ Dispute(account, q)
            \/ Refund(account, q)
      BY <1>4 DEF SettlementStep
    <2>2. CASE Prove(account, q)
      BY <2>2 DEF Prove, Requested, Status, Assign, Requests
    <2>3. ASSUME NEW to, Claim(account, q, to)
          PROVE  \/ UNCHANGED <<bridgeStatuses[r], bridgeProofs[r]>> /\ r \in Requests'
                 \/ /\ bridgeStatuses[r] = "RELAYER_PROVED"
                    /\ TimeSince(bridgeProofs[r]) > DISPUTE_PERIOD
                    /\ bridgeStatuses'[r] = "RELAYER_CLAIMED" /\ r \in Requests'
                    /\ bridgeProofs'[r] = bridgeProofs[r]
      BY <2>3 DEF Claim, CanClaim, Status, Assign, Requests
    <2>4. CASE Dispute(account, q)
      BY <2>4 DEF Dispute, DeleteProof, Status, Assign, Requests
    <2>5. CASE Refund(account, q)
      BY <2>5 DEF Refund, Requested, Status, Assign, Requests
    <2> QED
      BY <2>1, <2>2, <2>3, <2>4, <2>5
  <1>5. CASE AdminStep
    BY <1>5 DEF AdminStep, SetProtocolFeeRate, SetChainGasAmount,
       SweepProtocolFees, GrantRole, RevokeRole, originVars, Requests
  <1>6. CASE UNCHANGED vars
    BY <1>6 DEF vars, originVars, Requests
  <1> QED
    BY <1>1, <1>2, <1>3, <1>4, <1>5, <1>6 DEF Next

\* The real time since a proof was given is at least what the contract computes.
LEMMA TimeSinceProof ==
    ASSUME IInv, NEW r \in Requests, bridgeStatuses[r] = "RELAYER_PROVED"
    PROVE  /\ TimeSince(bridgeProofs[r]) <= Elapsed(r)
           /\ Elapsed(r) < TimestampModulus => TimeSince(bridgeProofs[r]) = Elapsed(r)
           /\ Elapsed(r) \in Nat
  <1>1. /\ bridgeProofs[r].timestamp = provedAt[r] % TimestampModulus
        /\ provedAt[r] <= now /\ provedAt[r] \in Nat /\ now \in Nat
    BY DEF IInv, TypeOK, ProofMatchesStatus
  <1>2. TimeSince(bridgeProofs[r])
          = ((now % TimestampModulus) - (provedAt[r] % TimestampModulus)) % TimestampModulus
    BY <1>1 DEF TimeSince
  <1>3. Elapsed(r) = now - provedAt[r] /\ Elapsed(r) \in Nat
    BY <1>1 DEF Elapsed
  <1>4. TimeSince(bridgeProofs[r]) <= Elapsed(r)
    BY <1>1, <1>2, <1>3, TruncatedElapsed
  <1>5. Elapsed(r) < TimestampModulus => TimeSince(bridgeProofs[r]) = Elapsed(r)
    BY <1>1, <1>2, <1>3, ExactElapsed
  <1> QED
    BY <1>3, <1>4, <1>5

\* Time in which a guard can dispute is never cut short: a claim comes more than
\* DISPUTE_PERIOD after the proof, although the contract compares truncated times.
THEOREM ClaimsWait == Spec => ClaimAfterDisputePeriod
  <1> DEFINE A == \A r \in Requests :
        (bridgeStatuses[r] # "RELAYER_CLAIMED" /\ bridgeStatuses'[r] = "RELAYER_CLAIMED")
        => Elapsed(r) > DISPUTE_PERIOD
  <1>1. IInv /\ [Next]_vars => A
    <2> SUFFICES ASSUME IInv, [Next]_vars, NEW r \in Requests,
                        bridgeStatuses[r] # "RELAYER_CLAIMED",
                        bridgeStatuses'[r] = "RELAYER_CLAIMED"
                 PROVE  Elapsed(r) > DISPUTE_PERIOD
      OBVIOUS
    <2>1. bridgeStatuses[r] = "RELAYER_PROVED" /\ TimeSince(bridgeProofs[r]) > DISPUTE_PERIOD
      BY StatusSteps
    <2>2. TimeSince(bridgeProofs[r]) \in Int
      BY <2>1 DEF TimeSince, IInv, TypeOK, ProofMatchesStatus
    <2> QED
      BY <2>1, <2>2, TimeSinceProof
  <1> QED
    BY <1>1, Inductive, PTL DEF Spec, ClaimAfterDisputePeriod

\* After the dispute period nobody but the relayer who proved can change the
\* request: neither a guard, nor a refunder, nor another relayer.
THEOREM UndisputedProofsAreFinal == Spec => ProofIsFinal
  <1> DEFINE A == \A r \in Requests :
        (Status(r) = "RELAYER_PROVED"
            /\ Elapsed(r) > DISPUTE_PERIOD /\ Elapsed(r) < TimestampModulus
            /\ <<bridgeStatuses[r], bridgeProofs[r]>>' # <<bridgeStatuses[r], bridgeProofs[r]>>)
        => /\ bridgeStatuses'[r] = "RELAYER_CLAIMED"
           /\ bridgeProofs'[r] = bridgeProofs[r]
  <1>1. IInv /\ [Next]_vars => A
    <2> SUFFICES ASSUME IInv, [Next]_vars, NEW r \in Requests,
                        Status(r) = "RELAYER_PROVED",
                        Elapsed(r) > DISPUTE_PERIOD, Elapsed(r) < TimestampModulus,
                        ~ UNCHANGED <<bridgeStatuses[r], bridgeProofs[r]>>
                 PROVE  /\ bridgeStatuses'[r] = "RELAYER_CLAIMED"
                        /\ bridgeProofs'[r] = bridgeProofs[r]
      OBVIOUS
    <2>1. bridgeStatuses[r] = "RELAYER_PROVED"
      BY DEF Status
    <2>2. TimeSince(bridgeProofs[r]) = Elapsed(r) /\ Elapsed(r) \in Nat
      BY <2>1, TimeSinceProof
    <2>3. ~ (TimeSince(bridgeProofs[r]) <= DISPUTE_PERIOD)
      BY <2>2
    <2> QED
      BY <2>1, <2>3, StatusSteps
  <1> QED
    BY <1>1, Inductive, PTL DEF Spec, ProofIsFinal

\* A claimed or refunded request stays so.
THEOREM SettledStays == Spec => SettledForever
  <1> DEFINE A == \A r \in Requests : Settled(r) => Status(r)' = Status(r)
  <1>1. IInv /\ [Next]_vars => A
    BY StatusSteps DEF Settled, Status
  <1> QED
    BY <1>1, Inductive, PTL DEF Spec, SettledForever

-----------------------------------------------------------------------------
\* A step that changes no status, and one that changes the status of q only.
LEMMA EscrowStutters ==
    ASSUME bridgeStatuses' = bridgeStatuses
    PROVE  UNCHANGED E!escrowVars
  BY DEF E!escrowVars, Open, Requests

LEMMA EscrowStepAt ==
    ASSUME IInv, NEW q \in Requests, NEW s,
           bridgeStatuses' = Assign(bridgeStatuses, q, s),
           \/ bridgeStatuses[q] = "REQUESTED" /\ s \in {"RELAYER_PROVED", "REFUNDED"}
           \/ bridgeStatuses[q] = "RELAYER_PROVED" /\ s \in {"REQUESTED", "RELAYER_CLAIMED"}
    PROVE  [E!EscrowNext]_E!escrowVars
  <1> DEFINE released == {r \in Requests : bridgeStatuses[r] = "RELAYER_CLAIMED"}
             returned == {r \in Requests : bridgeStatuses[r] = "REFUNDED"}
  <1>1. /\ Requests' = Requests /\ bridgeStatuses'[q] = s
        /\ \A r \in Requests \ {q} : bridgeStatuses'[r] = bridgeStatuses[r]
        /\ q \in Open
    BY DEF Assign, Requests, Open
  <1>2. CASE s \in {"REQUESTED", "RELAYER_PROVED"}
    <2>1. Open' = Open /\ released' = released /\ returned' = returned
      BY <1>1, <1>2 DEF Open
    <2> QED
      BY <2>1 DEF E!escrowVars
  <1>3. CASE s = "RELAYER_CLAIMED"
    <2>1. Open' = Open \ {q} /\ released' = released \cup {q} /\ returned' = returned
      BY <1>1, <1>3 DEF Open
    <2> QED
      BY <1>1, <2>1 DEF E!EscrowNext, E!EscrowStep, E!Release
  <1>4. CASE s = "REFUNDED"
    <2>1. Open' = Open \ {q} /\ released' = released /\ returned' = returned \cup {q}
      BY <1>1, <1>4 DEF Open
    <2> QED
      BY <1>1, <2>1 DEF E!EscrowNext, E!EscrowStep, E!Return
  <1> QED
    BY <1>2, <1>3, <1>4

LEMMA EscrowRefinement == IInv /\ [Next]_vars => [E!EscrowNext]_E!escrowVars
  <1> SUFFICES ASSUME IInv, [Next]_vars PROVE [E!EscrowNext]_E!escrowVars
    OBVIOUS
  <1>1. CASE Tick
    BY <1>1, EscrowStutters DEF Tick, originVars
  <1>2. CASE BridgeStep
    <2>1. PICK p \in BridgeParams, value \in MsgValues : Bridge(p, value)
      BY <1>2 DEF BridgeStep
    <2> DEFINE q == RequestFor(p)
               released == {r \in Requests : bridgeStatuses[r] = "RELAYER_CLAIMED"}
               returned == {r \in Requests : bridgeStatuses[r] = "REFUNDED"}
    <2>2. q \notin Requests
      BY <2>1, RequestAmounts DEF Bridge, IInv, UniqueNonces, TypeOK
    <2>3. bridgeStatuses' = Assign(bridgeStatuses, q, "REQUESTED")
      BY <2>1 DEF Bridge
    <2> HIDE DEF q
    <2>4. /\ Requests' = Requests \cup {q} /\ bridgeStatuses'[q] = "REQUESTED"
          /\ \A r \in Requests : bridgeStatuses'[r] = bridgeStatuses[r]
      BY <2>2, <2>3 DEF Assign, Requests
    <2>5. Open' = Open \cup {q} /\ released' = released /\ returned' = returned
      BY <2>2, <2>4 DEF Open
    <2>6. q \notin Open \cup released \cup returned
      BY <2>2 DEF Open
    <2> QED
      BY <2>5, <2>6 DEF E!EscrowNext, E!EscrowStep, E!Deposit
  <1>3. CASE RelayStep
    BY <1>3, EscrowStutters DEF RelayStep, Relay, originVars
  <1>4. CASE SettlementStep
    BY <1>4, EscrowStepAt DEF SettlementStep, Prove, Claim, CanClaim, Dispute, Refund,
       Requested, Status
  <1>5. CASE AdminStep
    BY <1>5, EscrowStutters DEF AdminStep, SetProtocolFeeRate, SetChainGasAmount,
       SweepProtocolFees, GrantRole, RevokeRole, originVars
  <1>6. CASE UNCHANGED vars
    BY <1>6, EscrowStutters DEF vars, originVars
  <1> QED
    BY <1>1, <1>2, <1>3, <1>4, <1>5, <1>6 DEF Next

\* FastBridge implements Escrow: whatever happens to proofs, roles, fees and the
\* clock, a deposit is held until it is released or returned, once.
THEOREM RefinesEscrow == Spec => ImplementsEscrow
  <1>1. Init => E!EscrowInit
    BY DEF Init, E!EscrowInit, Open, Requests
  <1> QED
    BY <1>1, EscrowRefinement, Inductive, PTL DEF Spec, ImplementsEscrow, E!EscrowSpec


-----------------------------------------------------------------------------
(***************************************************************************)
(* Solvency.  The balance of a token is compared with a sum over the open  *)
(* requests, so the invariant also says that there are finitely many.  A   *)
(* step adds one open request, settles one, or leaves them alone, and the  *)
(* three lemmas below say what it must do to the balances in each case.    *)
(***************************************************************************)
SolventWith(B, F, S) ==
    \A t \in Tokens : B[t] >= F[t] + Owed({r \in S : r.originToken = t})

LEMMA SolventAs == Solvent <=> SolventWith(balances, protocolFees, Open)
  BY Zenon DEF Solvent, SolventWith, Owed

SolventInv == IInv /\ IsFiniteSet(Requests) /\ SolventWith(balances, protocolFees, Open)

Solid(S) == IsFiniteSet(S) /\ \A r \in S : Worth(r) \in Nat /\ r.originToken \in Tokens

Accounts == [Tokens -> Nat]

LEMMA SameSet ==
    ASSUME NEW S, Solid(S), NEW B \in Accounts, NEW F \in Accounts,
           NEW B2 \in Accounts, NEW F2 \in Accounts, SolventWith(B, F, S),
           \A t \in Tokens : B2[t] + F[t] >= B[t] + F2[t]
    PROVE  SolventWith(B2, F2, S)
  <1> SUFFICES ASSUME NEW t \in Tokens
               PROVE  B2[t] >= F2[t] + Owed({r \in S : r.originToken = t})
    BY DEF SolventWith
  <1>1. PICK T : T = {r \in S : r.originToken = t}
    OBVIOUS
  <1>2. Owed(T) \in Nat
    BY <1>1, OwedFacts, FS_Subset DEF Solid
  <1>3. B[t] >= F[t] + Owed(T)
    BY <1>1 DEF SolventWith
  <1>4. B[t] \in Nat /\ F[t] \in Nat /\ B2[t] \in Nat /\ F2[t] \in Nat
    BY DEF Accounts
  <1> QED
    BY <1>1, <1>2, <1>3, <1>4

LEMMA OneMore ==
    ASSUME NEW S, Solid(S), NEW q, q \notin S, Worth(q) \in Nat, q.originToken \in Tokens,
           NEW B \in Accounts, NEW F \in Accounts, NEW B2 \in Accounts,
           SolventWith(B, F, S),
           \A t \in Tokens : B2[t] >= B[t] + (IF t = q.originToken THEN Worth(q) ELSE 0)
    PROVE  SolventWith(B2, F, S \cup {q})
  <1> SUFFICES ASSUME NEW t \in Tokens
               PROVE  B2[t] >= F[t] + Owed({r \in S \cup {q} : r.originToken = t})
    BY DEF SolventWith
  <1>1. PICK T : T = {r \in S : r.originToken = t}
    OBVIOUS
  <1>2. Owed(T) \in Nat /\ IsFiniteSet(T) /\ \A r \in T : Worth(r) \in Nat
    BY <1>1, OwedFacts, FS_Subset DEF Solid
  <1>3. B[t] >= F[t] + Owed(T)
    BY <1>1 DEF SolventWith
  <1>4. B[t] \in Nat /\ F[t] \in Nat /\ B2[t] \in Nat
    BY DEF Accounts
  <1>5. PICK U : U = {r \in S \cup {q} : r.originToken = t}
    OBVIOUS
  <1>6. CASE t = q.originToken
    <2>1. U = T \cup {q} /\ U \ {q} = T
      BY <1>1, <1>5, <1>6
    <2>2. IsFiniteSet(U) /\ \A r \in U : Worth(r) \in Nat
      BY <1>2, <2>1, FS_AddElement
    <2>3. Owed(U) = Worth(q) + Owed(T)
      BY <2>1, <2>2, OwedFacts
    <2>4. B2[t] >= B[t] + Worth(q)
      BY <1>6
    <2> QED
      BY <1>2, <1>3, <1>4, <1>5, <2>3, <2>4
  <1>7. CASE t # q.originToken
    <2>1. U = T
      BY <1>1, <1>5, <1>7
    <2>2. B2[t] >= B[t] + 0
      BY <1>7
    <2>3. Owed(U) = Owed(T)
      BY <2>1
    <2> QED
      BY <1>2, <1>3, <1>4, <1>5, <2>2, <2>3
  <1> QED
    BY <1>6, <1>7

LEMMA OneLess ==
    ASSUME NEW S, Solid(S), NEW q \in S,
           NEW B \in Accounts, NEW F \in Accounts,
           NEW B2 \in Accounts, NEW F2 \in Accounts, SolventWith(B, F, S),
           \A t \in Tokens :
                B2[t] + F[t] + (IF t = q.originToken THEN Worth(q) ELSE 0) >= B[t] + F2[t]
    PROVE  SolventWith(B2, F2, S \ {q})
  <1> SUFFICES ASSUME NEW t \in Tokens
               PROVE  B2[t] >= F2[t] + Owed({r \in S \ {q} : r.originToken = t})
    BY DEF SolventWith
  <1>1. PICK T : T = {r \in S : r.originToken = t}
    OBVIOUS
  <1>2. IsFiniteSet(T) /\ \A r \in T : Worth(r) \in Nat
    BY <1>1, FS_Subset DEF Solid
  <1>3. B[t] >= F[t] + Owed(T)
    BY <1>1 DEF SolventWith
  <1>4. B[t] \in Nat /\ F[t] \in Nat /\ B2[t] \in Nat /\ F2[t] \in Nat
    BY DEF Accounts
  <1>5. PICK U : U = {r \in S \ {q} : r.originToken = t}
    OBVIOUS
  <1>6. U = T \ {q} /\ IsFiniteSet(U) /\ \A r \in U : Worth(r) \in Nat
    BY <1>1, <1>2, <1>5, FS_Subset
  <1>7. Owed(U) \in Nat /\ Owed(T) \in Nat
    BY <1>2, <1>6, OwedFacts
  <1>8. CASE t = q.originToken
    <2>1. q \in T
      BY <1>1, <1>8
    <2>2. Owed(T) = Worth(q) + Owed(U)
      BY <1>2, <1>6, <2>1, OwedFacts
    <2>3. B2[t] + F[t] + Worth(q) >= B[t] + F2[t] /\ Worth(q) \in Nat
      BY <1>2, <1>8, <2>1
    <2> QED
      BY <1>3, <1>4, <1>5, <1>7, <2>2, <2>3
  <1>9. CASE t # q.originToken
    <2>1. U = T
      BY <1>1, <1>5, <1>9
    <2>2. B2[t] + F[t] + 0 >= B[t] + F2[t]
      BY <1>9
    <2>3. Owed(U) = Owed(T)
      BY <2>1
    <2> QED
      BY <1>3, <1>4, <1>5, <1>7, <2>2, <2>3
  <1> QED
    BY <1>8, <1>9

LEMMA OpenIsSolid ==
    ASSUME IInv, IsFiniteSet(Requests)
    PROVE  Solid(Open)
  <1>1. Open \subseteq Requests
    BY DEF Open
  <1>2. \A r \in Requests : Worth(r) \in Nat /\ r.originToken \in Tokens
    BY DEF Worth, IInv, TypeOK
  <1> QED
    BY <1>1, <1>2, FS_Subset DEF Solid

\* A deposit adds to the balance what the request records, to the last wei.
LEMMA BridgeKeepsSolvent ==
    ASSUME SolventInv, NEW p \in BridgeParams, NEW value \in MsgValues, Bridge(p, value)
    PROVE  IsFiniteSet(Requests)' /\ SolventWith(balances, protocolFees, Open)'
  <1>1. TypeOK /\ TypeOK' /\ IInv
    BY BridgeKeepsTypes DEF SolventInv, IInv
  <1>2. PICK q : q = RequestFor(p)
    OBVIOUS
  <1>3. q \notin Requests /\ q.originAmount \in Nat /\ q.originFeeAmount \in Nat
        /\ q.originToken \in Tokens
    BY <1>1, <1>2, RequestAmounts DEF Bridge, IInv, UniqueNonces, TypeOK
  <1>4. PICK pulled \in Nat : pulled = AmountPulled(p.originToken, p.originAmount)
    BY DEF AmountPulled, Received, Bridge
  <1>5. Worth(q) = pulled /\ Worth(q) \in Nat /\ q.originToken = p.originToken
    <2>1. /\ q.originFeeAmount = OriginFee(pulled)
          /\ q.originAmount = pulled - OriginFee(pulled)
          /\ q.originToken = p.originToken
      BY <1>2, <1>4 DEF RequestFor
    <2>2. OriginFee(pulled) \in 0..pulled
      BY <1>1, FeeBounded DEF TypeOK
    <2>3. q.originAmount + q.originFeeAmount = pulled
      BY <2>1, <2>2
    <2> QED
      BY <2>1, <2>3 DEF Worth
  <1>6. bridgeStatuses' = Assign(bridgeStatuses, q, "REQUESTED")
    BY <1>2 DEF Bridge
  <1>7. Requests' = Requests \cup {q} /\ Open' = Open \cup {q} /\ q \notin Open
    BY <1>3, <1>6 DEF Assign, Requests, Open
  <1>8. \A t \in Tokens :
            balances'[t] >= balances[t] + (IF t = q.originToken THEN Worth(q) ELSE 0)
    <2>1. PICK got \in Nat : got = Received(p.originToken, p.originAmount)
      BY DEF Received, Bridge
    <2>2. balances' = Deposited(value, p.originToken, got)
      BY <2>1 DEF Bridge
    <2>3. p.originToken = ETH => pulled = value
      BY <1>4 DEF Bridge, PullAllowed, AmountPulled
    <2>4. p.originToken # ETH => pulled = got
      BY <1>4, <2>1 DEF AmountPulled
    <2>5. balances \in [Tokens -> Nat] /\ value \in Nat
      BY <1>1 DEF TypeOK
    <2> QED
      BY <1>5, <2>2, <2>3, <2>4, <2>5 DEF Deposited
  <1>9. balances \in Accounts /\ balances' \in Accounts /\ protocolFees \in Accounts
    BY <1>1 DEF TypeOK, Accounts
  <1>10. Solid(Open) /\ SolventWith(balances, protocolFees, Open)
    BY OpenIsSolid DEF SolventInv
  <1>11. SolventWith(balances', protocolFees, Open \cup {q})
    BY <1>3, <1>5, <1>7, <1>8, <1>9, <1>10, OneMore
  <1>12. protocolFees' = protocolFees
    BY DEF Bridge, adminVars
  <1>13. IsFiniteSet(Requests')
    BY <1>7, FS_AddElement DEF SolventInv
  <1> QED
    BY <1>7, <1>11, <1>12, <1>13

\* What a relay takes for its recipient it has been sent before: nobody's deposit
\* pays for it.
LEMMA RelayKeepsBalances ==
    ASSUME TypeOK, NEW relayer \in Addresses, NEW r \in ForeignRequests,
           NEW value \in MsgValues, Relay(relayer, r, value)
    PROVE  \A t \in Tokens : balances'[t] >= balances[t]
  <1>1. EthForwarded(r) \in Nat /\ balances \in [Tokens -> Nat] /\ value \in Nat
    BY DEF EthForwarded, Rebate, TypeOK
  <1>2. value - EthPassedOn(r) \in Nat
    BY <1>1 DEF Relay, ValueMatches, EthPassedOn
  <1>3. PICK rest \in Nat : rest = value - EthPassedOn(r)
    BY <1>2
  <1>4. PICK got \in Nat :
            got = IF r.destRecipient = This THEN Received(r.destToken, r.destAmount) ELSE 0
    BY DEF Received
  <1>5. balances' = Deposited(rest, r.destToken, got)
    BY <1>3, <1>4 DEF Relay
  <1> QED
    BY <1>1, <1>5 DEF Deposited

\* A step after which the same requests are open.
LEMMA SameOpenKeepsSolvent ==
    ASSUME SolventInv, TypeOK', bridgeStatuses' = bridgeStatuses \/ Open' = Open,
           Requests' = Requests,
           \A t \in Tokens : balances'[t] + protocolFees[t] >= balances[t] + protocolFees'[t]
    PROVE  IsFiniteSet(Requests)' /\ SolventWith(balances, protocolFees, Open)'
  <1>1. Open' = Open
    BY DEF Open, Requests
  <1>2. /\ balances \in Accounts /\ balances' \in Accounts
        /\ protocolFees \in Accounts /\ protocolFees' \in Accounts
    BY DEF SolventInv, IInv, TypeOK, Accounts
  <1>3. Solid(Open) /\ SolventWith(balances, protocolFees, Open)
    BY OpenIsSolid DEF SolventInv
  <1>4. SolventWith(balances', protocolFees', Open)
    BY <1>2, <1>3, SameSet
  <1> QED
    BY <1>1, <1>4 DEF SolventInv

\* A step that settles q.
LEMMA SettledKeepsSolvent ==
    ASSUME SolventInv, TypeOK', NEW q \in Requests, NEW s \in {"RELAYER_CLAIMED", "REFUNDED"},
           q \in Open, bridgeStatuses' = Assign(bridgeStatuses, q, s), Requests' = Requests,
           \A t \in Tokens :
              balances'[t] + protocolFees[t] + (IF t = q.originToken THEN Worth(q) ELSE 0)
                >= balances[t] + protocolFees'[t]
    PROVE  IsFiniteSet(Requests)' /\ SolventWith(balances, protocolFees, Open)'
  <1>1. Open' = Open \ {q}
    BY DEF Open, Requests, Assign
  <1>2. /\ balances \in Accounts /\ balances' \in Accounts
        /\ protocolFees \in Accounts /\ protocolFees' \in Accounts
    BY DEF SolventInv, IInv, TypeOK, Accounts
  <1>3. Solid(Open) /\ SolventWith(balances, protocolFees, Open)
    BY OpenIsSolid DEF SolventInv
  <1>4. SolventWith(balances', protocolFees', Open \ {q})
    BY <1>2, <1>3, OneLess
  <1> QED
    BY <1>1, <1>4 DEF SolventInv

LEMMA SettlementKeepsSolvent ==
    ASSUME SolventInv, NEW account \in Addresses, NEW r \in Requests, TypeOK',
           Requests' = Requests
    PROVE  /\ Prove(account, r) => (IsFiniteSet(Requests) /\ SolventWith(balances, protocolFees, Open))'
           /\ \A to : Claim(account, r, to) =>
                (IsFiniteSet(Requests) /\ SolventWith(balances, protocolFees, Open))'
           /\ Dispute(account, r) => (IsFiniteSet(Requests) /\ SolventWith(balances, protocolFees, Open))'
           /\ Refund(account, r) => (IsFiniteSet(Requests) /\ SolventWith(balances, protocolFees, Open))'
  <1>1. /\ r.originToken \in Tokens /\ r.originAmount \in Nat /\ r.originFeeAmount \in Nat
        /\ Worth(r) = r.originAmount + r.originFeeAmount
        /\ balances \in [Tokens -> Nat] /\ protocolFees \in [Tokens -> Nat]
    BY DEF SolventInv, IInv, TypeOK, Worth
  <1>2. ASSUME Prove(account, r)
        PROVE  (IsFiniteSet(Requests) /\ SolventWith(balances, protocolFees, Open))'
    <2>1. /\ bridgeStatuses' = Assign(bridgeStatuses, r, "RELAYER_PROVED")
          /\ bridgeStatuses[r] = "REQUESTED"
          /\ balances' = balances /\ protocolFees' = protocolFees
      BY <1>2 DEF Prove, Requested, Status, adminVars
    <2>2. Open' = Open
      BY <2>1 DEF Open, Assign, Requests
    <2>3. \A t \in Tokens : balances'[t] + protocolFees[t] >= balances[t] + protocolFees'[t]
      BY <1>1, <2>1
    <2> QED
      BY <2>2, <2>3, SameOpenKeepsSolvent
  <1>3. ASSUME NEW to, Claim(account, r, to)
        PROVE  (IsFiniteSet(Requests) /\ SolventWith(balances, protocolFees, Open))'
    <2>1. /\ bridgeStatuses' = Assign(bridgeStatuses, r, "RELAYER_CLAIMED")
          /\ r \in Open
      BY <1>3 DEF Claim, CanClaim, Status, Open
    <2>2. /\ protocolFees' = [protocolFees EXCEPT ![r.originToken] = @ + r.originFeeAmount]
          /\ balances' = IF to = This THEN balances
                         ELSE [balances EXCEPT ![r.originToken] = @ - r.originAmount]
      BY <1>3 DEF Claim, TransferOut
    <2>3. \A t \in Tokens :
              balances'[t] + protocolFees[t] + (IF t = r.originToken THEN Worth(r) ELSE 0)
                >= balances[t] + protocolFees'[t]
      BY <1>1, <2>2
    <2> QED
      BY <2>1, <2>3, SettledKeepsSolvent
  <1>4. ASSUME Dispute(account, r)
        PROVE  (IsFiniteSet(Requests) /\ SolventWith(balances, protocolFees, Open))'
    <2>1. /\ bridgeStatuses' = Assign(bridgeStatuses, r, "REQUESTED")
          /\ bridgeStatuses[r] = "RELAYER_PROVED"
          /\ balances' = balances /\ protocolFees' = protocolFees
      BY <1>4 DEF Dispute, Status, adminVars
    <2>2. Open' = Open
      BY <2>1 DEF Open, Assign, Requests
    <2>3. \A t \in Tokens : balances'[t] + protocolFees[t] >= balances[t] + protocolFees'[t]
      BY <1>1, <2>1
    <2> QED
      BY <2>2, <2>3, SameOpenKeepsSolvent
  <1>5. ASSUME Refund(account, r)
        PROVE  (IsFiniteSet(Requests) /\ SolventWith(balances, protocolFees, Open))'
    <2>1. bridgeStatuses' = Assign(bridgeStatuses, r, "REFUNDED") /\ r \in Open
      BY <1>5 DEF Refund, Requested, Status, Open
    <2>2. /\ protocolFees' = protocolFees
          /\ \E to : balances' = IF to = This THEN balances
                         ELSE [balances EXCEPT ![r.originToken] = @ - (r.originAmount + r.originFeeAmount)]
      BY <1>5 DEF Refund, TransferOut, adminVars
    <2>3. \A t \in Tokens :
              balances'[t] + protocolFees[t] + (IF t = r.originToken THEN Worth(r) ELSE 0)
                >= balances[t] + protocolFees'[t]
      BY <1>1, <2>2
    <2> QED
      BY <2>1, <2>3, SettledKeepsSolvent
  <1> QED
    BY <1>2, <1>3, <1>4, <1>5

LEMMA SweepKeepsSolvent ==
    ASSUME TypeOK, NEW governor, NEW t \in Tokens, NEW to, SweepProtocolFees(governor, t, to)
    PROVE  \A u \in Tokens : balances'[u] + protocolFees[u] >= balances[u] + protocolFees'[u]
  <1>1. balances \in [Tokens -> Nat] /\ protocolFees \in [Tokens -> Nat]
    BY DEF TypeOK
  <1>2. /\ protocolFees' = [protocolFees EXCEPT ![t] = 0]
        /\ balances' = IF to = This THEN balances
                       ELSE [balances EXCEPT ![t] = @ - protocolFees[t]]
    BY DEF SweepProtocolFees, TransferOut
  <1> QED
    BY <1>1, <1>2

LEMMA SolventInit == Init => SolventInv
  <1> SUFFICES ASSUME Init PROVE SolventInv
    OBVIOUS
  <1>1. IInv
    BY IInvInit
  <1>2. Requests = {} /\ Open = {}
    BY DEF Init, Requests, Open
  <1>3. IsFiniteSet(Requests)
    BY <1>2, FS_EmptySet
  <1>4. Owed({}) = 0
    BY FS_EmptySet, OwedFacts
  <1>5. ASSUME NEW t \in Tokens
        PROVE  balances[t] >= protocolFees[t] + Owed({r \in Open : r.originToken = t})
    <2>1. {r \in Open : r.originToken = t} = {}
      BY <1>2
    <2>2. Owed({r \in Open : r.originToken = t}) = 0
      BY <1>4, <2>1, Zenon
    <2>3. balances[t] = 0 /\ protocolFees[t] = 0
      BY DEF Init
    <2> QED
      BY <2>2, <2>3
  <1> QED
    BY <1>1, <1>3, <1>5 DEF SolventInv, SolventWith

LEMMA SolventStep == SolventInv /\ [Next]_vars => SolventInv'
  <1> SUFFICES ASSUME SolventInv, [Next]_vars PROVE SolventInv'
    OBVIOUS
  <1>0. IInv' /\ TypeOK /\ TypeOK' /\ balances \in [Tokens -> Nat] /\ protocolFees \in [Tokens -> Nat]
    BY IInvStep DEF SolventInv, IInv, TypeOK
  <1> SUFFICES IsFiniteSet(Requests)' /\ SolventWith(balances, protocolFees, Open)'
    BY <1>0 DEF SolventInv
  <1>1. CASE BridgeStep
    BY <1>1, BridgeKeepsSolvent DEF BridgeStep
  <1>2. CASE RelayStep
    <2>1. /\ bridgeStatuses' = bridgeStatuses /\ Requests' = Requests
          /\ protocolFees' = protocolFees
      BY <1>2 DEF RelayStep, Relay, originVars, adminVars, Requests
    <2>2. \A t \in Tokens : balances'[t] >= balances[t]
      BY <1>0, <1>2, RelayKeepsBalances DEF RelayStep
    <2>3. \A t \in Tokens : balances'[t] + protocolFees[t] >= balances[t] + protocolFees'[t]
      BY <1>0, <2>1, <2>2 DEF TypeOK
    <2> QED
      BY <1>0, <2>1, <2>3, SameOpenKeepsSolvent
  <1>3. CASE SettlementStep
    BY <1>0, <1>3, SettlementKeepsTypes, SettlementKeepsSolvent DEF SettlementStep
  <1>4. CASE \E governor \in Addresses :
               \E t \in Tokens, to \in {governor, This} : SweepProtocolFees(governor, t, to)
    <2>1. bridgeStatuses' = bridgeStatuses /\ Requests' = Requests
      BY <1>4 DEF SweepProtocolFees, originVars, Requests
    <2>2. \A t \in Tokens : balances'[t] + protocolFees[t] >= balances[t] + protocolFees'[t]
      BY <1>0, <1>4, SweepKeepsSolvent
    <2> QED
      BY <1>0, <2>1, <2>2, SameOpenKeepsSolvent
  <1>5. CASE bridgeStatuses' = bridgeStatuses /\ balances' = balances
             /\ protocolFees' = protocolFees
    <2>1. Requests' = Requests
      BY <1>5 DEF Requests
    <2>2. \A t \in Tokens : balances'[t] + protocolFees[t] >= balances[t] + protocolFees'[t]
      BY <1>0, <1>5
    <2> QED
      BY <1>0, <1>5, <2>1, <2>2, SameOpenKeepsSolvent
  <1>6. Tick \/ UNCHANGED vars => /\ bridgeStatuses' = bridgeStatuses
                                  /\ balances' = balances /\ protocolFees' = protocolFees
    BY DEF Tick, vars, originVars, adminVars
  <1>7. AdminStep =>
            \/ \E governor \in Addresses :
                 \E t \in Tokens, to \in {governor, This} : SweepProtocolFees(governor, t, to)
            \/ /\ bridgeStatuses' = bridgeStatuses
               /\ balances' = balances /\ protocolFees' = protocolFees
    BY DEF AdminStep, SetProtocolFeeRate, SetChainGasAmount, GrantRole, RevokeRole, originVars
  <1> QED
    BY <1>1, <1>2, <1>3, <1>4, <1>5, <1>6, <1>7 DEF Next

\* The contract can always pay all open deposits and the protocol's fees, for any
\* number of requests, of tokens and of amounts, whatever the tokens keep of a
\* transfer and whatever rates the governor sets.
THEOREM DebtsArePaid == Spec => []Solvent
  <1>1. SolventInv => Solvent
    BY SolventAs DEF SolventInv
  <1> QED
    BY <1>1, SolventInit, SolventStep, PTL DEF Spec
=============================================================================
