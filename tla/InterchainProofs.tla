--------------------------- MODULE InterchainProofs ---------------------------
(***************************************************************************)
(* What the interchain contracts guarantee for any number of chains,       *)
(* modules, verifiers and messages, and any setup that stays prudent.      *)
(***************************************************************************)
EXTENDS Interchain, FiniteSetTheorems, SequenceTheorems, TLAPS

USE InterchainAssumption

-----------------------------------------------------------------------------
\* The requests and the signatures of honest verifiers are about batches that are in
\* the database of their chain.
RequestsAreTrue == \A r \in requests : IsTrue(r.batch)
SignaturesAreTrue == \A s \in signatures : s[1] \notin Corrupt /\ IsTrue(s[2])

\* Whatever an app was given is marked as executed.
ReceivedAreExecuted ==
    \A c \in Chains : \A i \in DOMAIN received[c] : received[c][i] \in executed[c]

InterchainInv ==
    /\ TypeOK
    /\ Prudent
    /\ RequestsAreTrue
    /\ SignaturesAreTrue
    /\ SoundModulesTellTheTruth
    /\ OneRootPerBatch
    /\ OnlySentIsReceived
    /\ ReceivedAreExecuted
    /\ ReceivedOnce

-----------------------------------------------------------------------------
(* Counting *)

LEMMA NonceIsNat == \A tx \in Transactions : tx.nonce \in Nat /\ tx.src \in Chains /\ tx.dst \in Chains
  BY DEF Transactions

LEMMA TxEntryType == \A tx \in Transactions : TxEntry(tx) \in Entries /\ ProofEntry(tx) \in Entries
  BY DEF TxEntry, ProofEntry, Entries, Data

\* Those who are more than the bad ones are not all bad.
LEMMA NotAllBad ==
    ASSUME NEW Bad, IsFiniteSet(Bad), NEW Those \in SUBSET Bad
    PROVE  ~(Cardinality(Those) > Cardinality(Bad))
  <1>1. IsFiniteSet(Those) /\ Cardinality(Those) <= Cardinality(Bad)
    BY FS_Subset
  <1>2. Cardinality(Those) \in Nat /\ Cardinality(Bad) \in Nat
    BY <1>1, FS_CardinalityType
  <1> QED
    BY <1>1, <1>2

\* In every quorum there is a verifier that is not corrupt and has signed.
LEMMA HonestSigner ==
    ASSUME TypeOK, Prudent, NEW c \in Chains, NEW m \in Sound, NEW batch, HasQuorum(c, m, batch)
    PROVE  \E v \in Verifiers : v \notin Corrupt /\ <<v, batch>> \in signatures
  <1> DEFINE K == signers[c][m]
             T == threshold[c][m]
  <1>1. K \subseteq Verifiers /\ T \in Nat
    BY DEF TypeOK
  <1>2. IsFiniteSet(K)
    BY <1>1, FS_Subset
  <1>3. Cardinality(K \cap Corrupt) \in Nat /\ Cardinality(SignedBy(c, m, batch)) \in Nat
    BY <1>2, FS_Subset, FS_CardinalityType DEF SignedBy
  <1>4. Cardinality(K \cap Corrupt) < T /\ Cardinality(SignedBy(c, m, batch)) >= T
    BY DEF Prudent, HasQuorum
  <1> DEFINE Those == SignedBy(c, m, batch)
             Bad == K \cap Corrupt
  <1>5. Those \in SUBSET K /\ Bad \in SUBSET K
    BY DEF SignedBy
  <1>6. Cardinality(Those) > Cardinality(Bad)
    <2> HIDE DEF K, T, Those, Bad
    <2> QED
      BY <1>1, <1>3, <1>4 DEF Those, Bad
  <1>7. PICK v \in Those : v \notin Bad
    <2> HIDE DEF K, Those, Bad
    <2> QED
      <3>1. IsFiniteSet(Bad)
        BY <1>2, <1>5, FS_Subset
      <3>2. ~(Those \in SUBSET Bad)
        BY <3>1, <1>6, NotAllBad
      <3> QED
        BY <3>2
  <1> QED
    BY <1>1, <1>7 DEF SignedBy

\* Among the modules that make a message executable there is a sound one.
LEMMA SoundResponse ==
    ASSUME TypeOK, Prudent, NEW c \in Chains, NEW tx, IsExecutable(c, tx)
    PROVE  \E m \in Sound : m \in Responses(c, tx)
  <1> DEFINE K == trusted[c]
             N == appConfig[c].required
  <1>1. K \subseteq Modules /\ N \in Nat
    BY DEF TypeOK
  <1>2. IsFiniteSet(K)
    BY <1>1, FS_Subset
  <1>3. Cardinality(K \ Sound) \in Nat /\ Cardinality(Responses(c, tx)) \in Nat
    BY <1>2, FS_Subset, FS_CardinalityType DEF Responses
  <1>4. Cardinality(K \ Sound) < N /\ Cardinality(Responses(c, tx)) >= N
    BY DEF Prudent, IsExecutable
  <1> DEFINE Those == Responses(c, tx)
             Bad == K \ Sound
  <1>5. Those \in SUBSET K /\ Bad \in SUBSET K
    BY DEF Responses
  <1>6. Cardinality(Those) > Cardinality(Bad)
    <2> HIDE DEF K, N, Those, Bad
    <2> QED
      BY <1>1, <1>3, <1>4 DEF Those, Bad
  <1>7. PICK m \in Those : m \notin Bad
    <2> HIDE DEF K, Those, Bad
    <2> QED
      <3>1. IsFiniteSet(Bad)
        BY <1>2, <1>5, FS_Subset
      <3>2. ~(Those \in SUBSET Bad)
        BY <3>1, <1>6, NotAllBad
      <3> QED
        BY <3>2
  <1> QED
    BY <1>7 DEF Responses

-----------------------------------------------------------------------------
(* The databases only grow *)

LEMMA AppendGrows ==
    ASSUME NEW s \in Seq(Entries), NEW e \in Entries
    PROVE  /\ Append(s, e) \in Seq(Entries)
           /\ Len(Append(s, e)) = Len(s) + 1
           /\ Append(s, e)[Len(s) + 1] = e
           /\ \A i \in 1..Len(s) : Append(s, e)[i] = s[i]
  BY AppendProperties, LenProperties

LEMMA WriteGrows ==
    ASSUME TypeOK, NEW c \in Chains, NEW e \in Entries, WriteEntry(c, e)
    PROVE  /\ entries' \in [Chains -> Seq(Entries)]
           /\ \A d \in Chains : \A i \in DOMAIN entries[d] :
                  i \in DOMAIN entries'[d] /\ entries'[d][i] = entries[d][i]
           /\ DBNonce(c) + 1 \in DOMAIN entries'[c] /\ entries'[c][DBNonce(c) + 1] = e
  <1>1. entries \in [Chains -> Seq(Entries)]
    BY DEF TypeOK
  <1>2. entries' = [entries EXCEPT ![c] = Append(entries[c], e)]
    BY DEF WriteEntry
  <1>3. \A d \in Chains : entries[d] \in Seq(Entries)
    BY <1>1
  <1>4. \A d \in Chains : entries'[d] = IF d = c THEN Append(entries[c], e) ELSE entries[d]
    BY <1>1, <1>2
  <1>5. entries' \in [Chains -> Seq(Entries)]
    BY <1>1, <1>2, <1>3, AppendGrows
  <1>6. \A d \in Chains : DOMAIN entries[d] = 1..Len(entries[d]) /\ Len(entries[d]) \in Nat
    BY <1>3, LenProperties
  <1> DEFINE longer == Append(entries[c], e)
  <1>7. /\ longer \in Seq(Entries) /\ Len(longer) = Len(entries[c]) + 1
        /\ longer[Len(entries[c]) + 1] = e
        /\ \A i \in 1..Len(entries[c]) : longer[i] = entries[c][i]
    <2>1. entries[c] \in Seq(Entries)
      BY <1>3
    <2> QED
      BY <2>1, AppendGrows
  <1>8. DOMAIN longer = 1..(Len(entries[c]) + 1)
    BY <1>7, LenProperties
  <1>9. entries'[c] = longer /\ \A d \in Chains : d # c => entries'[d] = entries[d]
    BY <1>4
  <1> HIDE DEF longer
  <1>10. \A d \in Chains : \A i \in DOMAIN entries[d] :
            i \in DOMAIN entries'[d] /\ entries'[d][i] = entries[d][i]
    <2>1. \A i \in 1..Len(entries[c]) : i \in 1..(Len(entries[c]) + 1)
      BY <1>6
    <2>2. \A i \in DOMAIN entries[c] : i \in DOMAIN longer /\ longer[i] = entries[c][i]
      BY <1>6, <1>7, <1>8, <2>1
    <2> QED
      BY <1>9, <2>2
  <1>11. Len(entries[c]) + 1 \in DOMAIN entries'[c] /\ entries'[c][Len(entries[c]) + 1] = e
    BY <1>6, <1>7, <1>8, <1>9
  <1> QED
    BY <1>5, <1>10, <1>11 DEF DBNonce

\* Every step of the contracts leaves what was written where it was.
EntriesStay ==
    \A d \in Chains : \A i \in DOMAIN entries[d] :
        i \in DOMAIN entries'[d] /\ entries'[d][i] = entries[d][i]

LEMMA SentEntry ==
    ASSUME TypeOK, NEW c \in Chains, NEW d \in Chains, NEW s \in Senders, NEW m \in Messages,
           NEW modules \in SUBSET Modules, InterchainSend(c, d, s, m, modules)
    PROVE  \E tx \in Transactions :
               /\ tx = [src |-> c, dst |-> d, nonce |-> DBNonce(c), sender |-> s, message |-> m]
               /\ WriteEntry(c, TxEntry(tx))
               /\ requests' = requests \cup Request(d, TxBatch(tx), modules)
  <1> DEFINE tx == [src |-> c, dst |-> d, nonce |-> DBNonce(c), sender |-> s, message |-> m]
  <1>1. c # d /\ DBNonce(c) < MaxEntries[c]
    BY DEF InterchainSend, WriteEntry
  <1>2. DBNonce(c) \in Nat /\ MaxEntries[c] \in Nat
    BY LenProperties DEF TypeOK, DBNonce
  <1>3. DBNonce(c) \in 0..(MaxEntries[c] - 1)
    BY <1>1, <1>2
  <1>4. DBNonce(c) \in UNION {0..(MaxEntries[d_1] - 1) : d_1 \in Chains}
    BY <1>3
  <1>5. tx \in Transactions
    BY <1>1, <1>4 DEF Transactions
  <1> QED
    BY <1>5 DEF InterchainSend

LEMMA WrittenEntries ==
    ASSUME TypeOK, [Next]_vars
    PROVE  entries' \in [Chains -> Seq(Entries)] /\ EntriesStay
  <1> USE DEF EntriesStay
  <1>1. CASE UNCHANGED entries
    BY <1>1 DEF TypeOK
  <1>2. ASSUME NEW c \in Chains, NEW d \in Chains, NEW s \in Senders, NEW m \in Messages,
               NEW modules \in SUBSET Modules, InterchainSend(c, d, s, m, modules)
        PROVE  entries' \in [Chains -> Seq(Entries)] /\ EntriesStay
    <2>1. PICK tx \in Transactions : WriteEntry(c, TxEntry(tx))
      BY <1>2, SentEntry
    <2> QED
      BY <2>1, TxEntryType, WriteGrows
  <1>3. ASSUME NEW c \in Chains, WriteAnyEntry(c)
        PROVE  entries' \in [Chains -> Seq(Entries)] /\ EntriesStay
    <2>1. PICK tx \in Transactions :
              WriteEntry(c, [writer |-> Anybody, data |-> [kind |-> "tx", tx |-> tx]])
      BY <1>3 DEF WriteAnyEntry
    <2>2. [writer |-> Anybody, data |-> [kind |-> "tx", tx |-> tx]] \in Entries
      BY DEF Entries, Data
    <2> QED
      BY <2>1, <2>2, WriteGrows
  <1>4. ASSUME NEW c \in Chains, WriteExecutionProof(c)
        PROVE  entries' \in [Chains -> Seq(Entries)] /\ EntriesStay
    <2>1. PICK tx \in Transactions : WriteEntry(c, ProofEntry(tx))
      BY <1>4 DEF WriteExecutionProof, TypeOK
    <2> QED
      BY <2>1, TxEntryType, WriteGrows
  <1>5. CASE UNCHANGED vars
    BY <1>5, <1>1 DEF vars, contractVars
  <1>6. ASSUME NEW c \in Chains, NEW d \in Chains, NEW modules \in SUBSET Modules,
               NEW n \in 0..(DBNonce(c) - 1), RequestBatchVerification(c, d, n, modules)
        PROVE  UNCHANGED entries
    BY <1>6 DEF RequestBatchVerification
  <1>7. ASSUME NEW c \in Chains, NEW b \in Candidates, NEW m \in Deployed[c], ModuleVerifies(c, m, b)
        PROVE  UNCHANGED entries
    BY <1>7 DEF ModuleVerifies, VerifyRemoteBatch
  <1> QED
    BY <1>1, <1>2, <1>3, <1>4, <1>5, <1>6, <1>7
       DEF Next, Tick, Sign, InterchainExecute, Setup, contractVars

\* So what is true of a database, and what was sent, is for ever.
LEMMA TruthStays ==
    ASSUME TypeOK, EntriesStay
    PROVE  /\ \A batch : IsTrue(batch) => IsTrue(batch)'
           /\ \A tx \in Transactions : WasSent(tx) => WasSent(tx)'
  BY NonceIsNat DEF EntriesStay, IsTrue, GetBatch, WasSent

-----------------------------------------------------------------------------
(* The types *)

LEMMA CandidateType == TypeOK => Candidates \subseteq Batches
  <1> SUFFICES ASSUME TypeOK PROVE Candidates \subseteq Batches
    OBVIOUS
  <1>1. ASSUME NEW c \in Chains, NEW n \in DOMAIN entries[c] PROVE GetBatch(c, n - 1) \in Batches
    <2>1. entries[c] \in Seq(Entries)
      BY DEF TypeOK
    <2>2. n \in 1..Len(entries[c]) /\ Len(entries[c]) \in Nat /\ entries[c][n] \in Entries
      BY <2>1, LenProperties, ElementOfSeq
    <2>3. n - 1 \in Nat /\ (n - 1) + 1 = n
      BY <2>2
    <2> QED
      BY <2>2, <2>3 DEF GetBatch, Batches
  <1>2. ASSUME NEW tx \in Transactions PROVE TxBatch(tx) \in Batches
    BY NonceIsNat, TxEntryType DEF TxBatch, Batches
  <1>3. (UNION {Written(c) : c \in Chains}) \subseteq Batches
    BY <1>1 DEF Written
  <1>4. Claimed \subseteq Batches
    BY <1>2 DEF Claimed
  <1> QED
    BY <1>3, <1>4 DEF Candidates

LEMMA StoredBatchType ==
    ASSUME TypeOK, NEW c \in Chains, NEW n \in 0..(DBNonce(c) - 1)
    PROVE  GetBatch(c, n) \in Batches /\ IsTrue(GetBatch(c, n))
  <1>1. entries[c] \in Seq(Entries) /\ DBNonce(c) = Len(entries[c])
    BY DEF TypeOK, DBNonce
  <1>2. Len(entries[c]) \in Nat /\ DOMAIN entries[c] = 1..Len(entries[c])
    BY <1>1, LenProperties
  <1>3. n + 1 \in 1..Len(entries[c]) /\ n \in Nat
    BY <1>1, <1>2
  <1>4. entries[c][n + 1] \in Entries
    BY <1>1, <1>3, ElementOfSeq
  <1> QED
    BY <1>2, <1>3, <1>4 DEF GetBatch, Batches, IsTrue

LEMMA ReceivedType ==
    ASSUME NEW s \in Seq(Transactions), NEW tx \in Transactions
    PROVE  /\ Append(s, tx) \in Seq(Transactions)
           /\ DOMAIN Append(s, tx) = 1..(Len(s) + 1)
           /\ DOMAIN s = 1..Len(s) /\ Len(s) \in Nat
           /\ Append(s, tx)[Len(s) + 1] = tx
           /\ \A i \in 1..Len(s) : Append(s, tx)[i] = s[i]
  BY AppendProperties, LenProperties

LEMMA RequestType ==
    ASSUME NEW d \in Chains, NEW batch \in Batches, NEW modules \in SUBSET Modules
    PROVE  /\ Request(d, batch, modules) \subseteq [module : Modules, dst : Chains, batch : Batches]
           /\ \A r \in Request(d, batch, modules) : r.batch = batch
  BY DEF Request

LEMMA SetupType ==
    ASSUME TypeOK, Setup
    PROVE  /\ appConfig' \in [Chains -> [required : Nat, period : Nat]]
           /\ trusted' \in [Chains -> SUBSET Modules]
           /\ signers' \in [Chains -> [Modules -> SUBSET Verifiers]]
           /\ threshold' \in [Chains -> [Modules -> Nat]]
           /\ changes' \in Nat
  <1> USE DEF TypeOK
  <1>0. changes' \in Nat
    BY DEF Setup
  <1>1. ASSUME NEW c \in Chains, NEW config \in Configs, SetAppConfig(c, config)
        PROVE  /\ appConfig' \in [Chains -> [required : Nat, period : Nat]]
               /\ UNCHANGED <<trusted, signers, threshold>>
    <2>1. config \in [required : Nat, period : Nat]
      OBVIOUS
    <2> QED
      BY <1>1, <2>1 DEF SetAppConfig
  <1>2. ASSUME NEW c \in Chains, NEW m \in Deployed[c],
               AddTrustedModule(c, m) \/ RemoveTrustedModule(c, m)
        PROVE  /\ trusted' \in [Chains -> SUBSET Modules]
               /\ UNCHANGED <<appConfig, signers, threshold>>
    <2>0. m \in Modules /\ trusted \in [Chains -> SUBSET Modules] /\ trusted[c] \subseteq Modules
      BY InterchainAssumption DEF InterchainAssumption
    <2>1. trusted[c] \cup {m} \in SUBSET Modules /\ trusted[c] \ {m} \in SUBSET Modules
      BY <2>0
    <2>2. PICK T \in SUBSET Modules : trusted' = [trusted EXCEPT ![c] = T]
      BY <1>2, <2>1 DEF AddTrustedModule, RemoveTrustedModule
    <2>3. trusted' \in [Chains -> SUBSET Modules]
      BY <2>0, <2>2
    <2> QED
      BY <1>2, <2>3 DEF AddTrustedModule, RemoveTrustedModule
  <1>3. ASSUME NEW c \in Chains, NEW m \in Sound \cap Deployed[c], NEW v \in Verifiers,
               AddVerifier(c, m, v) \/ RemoveVerifier(c, m, v)
        PROVE  /\ signers' \in [Chains -> [Modules -> SUBSET Verifiers]]
               /\ UNCHANGED <<appConfig, trusted, threshold>>
    <2>1. signers[c][m] \cup {v} \in SUBSET Verifiers /\ signers[c][m] \ {v} \in SUBSET Verifiers
      OBVIOUS
    <2>2. PICK K \in SUBSET Verifiers : signers' = [signers EXCEPT ![c][m] = K]
      BY <1>3, <2>1 DEF AddVerifier, RemoveVerifier
    <2>3. signers' \in [Chains -> [Modules -> SUBSET Verifiers]]
      BY <2>2
    <2> QED
      BY <1>3, <2>3 DEF AddVerifier, RemoveVerifier
  <1>4. ASSUME NEW c \in Chains, NEW m \in Sound \cap Deployed[c],
               NEW t \in 1..Cardinality(Verifiers), SetThreshold(c, m, t)
        PROVE  /\ threshold' \in [Chains -> [Modules -> Nat]]
               /\ UNCHANGED <<appConfig, trusted, signers>>
    <2>1. t \in Nat
      OBVIOUS
    <2> QED
      BY <1>4, <2>1 DEF SetThreshold
  <1> QED
    BY <1>0, <1>1, <1>2, <1>3, <1>4 DEF Setup

LEMMA AgedType ==
    ASSUME NEW r \in [module : Modules, batch : Batches, age : Nat]
    PROVE  /\ Aged(r) \in [module : Modules, batch : Batches, age : Nat]
           /\ Aged(r).module = r.module /\ Aged(r).batch = r.batch
  <1>1. r.age \in Nat /\ r.age + 1 \in Nat
    OBVIOUS
  <1> QED
    BY <1>1 DEF Aged

\* Every step keeps the types.
THEOREM TypeStep == TypeOK /\ [Next]_vars => TypeOK'
  <1> SUFFICES ASSUME TypeOK, [Next]_vars PROVE TypeOK'
    OBVIOUS
  <1>0. entries' \in [Chains -> Seq(Entries)]
    BY WrittenEntries
  <1>1. ASSUME NEW c \in Chains, NEW d \in Chains, NEW s \in Senders, NEW m \in Messages,
               NEW modules \in SUBSET Modules, InterchainSend(c, d, s, m, modules)
        PROVE  TypeOK'
    <2>1. PICK tx \in Transactions : requests' = requests \cup Request(d, TxBatch(tx), modules)
      BY <1>1, SentEntry
    <2>2. TxBatch(tx) \in Batches
      BY NonceIsNat, TxEntryType DEF TxBatch, Batches
    <2>3. requests' \subseteq [module : Modules, dst : Chains, batch : Batches]
      BY <2>1, <2>2, RequestType DEF TypeOK
    <2> QED
      BY <1>0, <1>1, <2>3 DEF InterchainSend, setupVars, TypeOK
  <1>2. ASSUME NEW c \in Chains, NEW d \in Chains, NEW modules \in SUBSET Modules,
               NEW n \in 0..(DBNonce(c) - 1), RequestBatchVerification(c, d, n, modules)
        PROVE  TypeOK'
    <2>1. requests' \subseteq [module : Modules, dst : Chains, batch : Batches]
      BY <1>2, StoredBatchType, RequestType DEF RequestBatchVerification, TypeOK
    <2> QED
      BY <1>0, <1>2, <2>1 DEF RequestBatchVerification, setupVars, TypeOK
  <1>3. ASSUME NEW c \in Chains, WriteAnyEntry(c) \/ WriteExecutionProof(c)
        PROVE  TypeOK'
    BY <1>0, <1>3 DEF WriteAnyEntry, WriteExecutionProof, setupVars, TypeOK
  <1>4. ASSUME NEW c \in Chains, Tick(c)
        PROVE  TypeOK'
    <2>1. verified' \in [Chains -> SUBSET [module : Modules, batch : Batches, age : Nat]]
      BY <1>4, AgedType DEF Tick, TypeOK
    <2> QED
      BY <1>0, <1>4, <2>1 DEF Tick, setupVars, TypeOK
  <1>5. ASSUME NEW v \in Verifiers, NEW r \in requests, Sign(v, r.batch)
        PROVE  TypeOK'
    <2>1. r.batch \in Batches
      BY DEF TypeOK
    <2>2. <<v, r.batch>> \in Verifiers \X Batches
      BY <2>1
    <2>3. signatures' \subseteq Verifiers \X Batches
      BY <1>5, <2>2 DEF Sign, TypeOK
    <2> QED
      BY <1>0, <1>5, <2>3 DEF Sign, setupVars, TypeOK
  <1>6. ASSUME NEW c \in Chains, NEW b \in Candidates, NEW m \in Deployed[c], ModuleVerifies(c, m, b)
        PROVE  TypeOK'
    <2>1. b \in Batches /\ m \in Modules
      BY CandidateType
    <2>2. [module |-> m, batch |-> b, age |-> 0] \in [module : Modules, batch : Batches, age : Nat]
      BY <2>1
    <2>3. verified' \in [Chains -> SUBSET [module : Modules, batch : Batches, age : Nat]]
      BY <1>6, <2>2 DEF ModuleVerifies, VerifyRemoteBatch, TypeOK
    <2> QED
      BY <1>0, <1>6, <2>3 DEF ModuleVerifies, VerifyRemoteBatch, setupVars, TypeOK
  <1>7. ASSUME NEW c \in Chains, NEW tx \in Transactions, InterchainExecute(c, tx)
        PROVE  TypeOK'
    <2>1. executed' \in [Chains -> SUBSET Transactions]
      BY <1>7 DEF InterchainExecute, TypeOK
    <2>2. received[c] \in Seq(Transactions)
      BY DEF TypeOK
    <2>3. Append(received[c], tx) \in Seq(Transactions)
      BY <2>2, ReceivedType
    <2>4. received' \in [Chains -> Seq(Transactions)]
      BY <1>7, <2>3 DEF InterchainExecute, TypeOK
    <2> QED
      BY <1>0, <1>7, <2>1, <2>4 DEF InterchainExecute, setupVars, TypeOK
  <1>8. CASE Setup
    BY <1>0, <1>8, SetupType DEF Setup, contractVars, TypeOK
  <1>9. CASE UNCHANGED vars
    BY <1>9 DEF vars, contractVars, setupVars, TypeOK
  <1> QED
    BY <1>1, <1>2, <1>3, <1>4, <1>5, <1>6, <1>7, <1>8, <1>9 DEF Next

-----------------------------------------------------------------------------
(* What a step leaves alone keeps its part of the invariant *)

LEMMA Frame ==
    ASSUME InterchainInv, [Next]_vars
    PROVE  /\ UNCHANGED requests => RequestsAreTrue'
           /\ UNCHANGED signatures => SignaturesAreTrue'
           /\ UNCHANGED verified => SoundModulesTellTheTruth' /\ OneRootPerBatch'
           /\ UNCHANGED <<executed, received>> =>
                  OnlySentIsReceived' /\ ReceivedAreExecuted' /\ ReceivedOnce'
           /\ UNCHANGED setupVars => Prudent'
  <1>1. /\ \A batch : IsTrue(batch) => IsTrue(batch)'
        /\ \A tx \in Transactions : WasSent(tx) => WasSent(tx)'
    BY WrittenEntries, TruthStays DEF InterchainInv
  <1>2. UNCHANGED requests => RequestsAreTrue'
    BY <1>1 DEF InterchainInv, RequestsAreTrue
  <1>3. UNCHANGED signatures => SignaturesAreTrue'
    BY <1>1 DEF InterchainInv, SignaturesAreTrue
  <1>4. UNCHANGED verified => SoundModulesTellTheTruth' /\ OneRootPerBatch'
    BY <1>1 DEF InterchainInv, SoundModulesTellTheTruth, OneRootPerBatch
  <1>5. \A c \in Chains : \A i \in DOMAIN received[c] : received[c][i] \in Transactions
    <2>1. \A c \in Chains : received[c] \in Seq(Transactions)
      BY DEF InterchainInv, TypeOK
    <2> QED
      BY <2>1, LenProperties, ElementOfSeq
  <1>6. UNCHANGED received => OnlySentIsReceived'
    BY <1>1, <1>5 DEF InterchainInv, OnlySentIsReceived
  <1>7. UNCHANGED <<executed, received>> => ReceivedAreExecuted' /\ ReceivedOnce'
    BY DEF InterchainInv, ReceivedAreExecuted, ReceivedOnce
  <1>8. UNCHANGED setupVars => Prudent'
    BY DEF InterchainInv, Prudent, setupVars
  <1> QED
    BY <1>2, <1>3, <1>4, <1>6, <1>7, <1>8

\* A verification that a module brings in is true if the module is sound, and the
\* only one that the module has of the batch.
LEMMA VerificationStep ==
    ASSUME InterchainInv, [Next]_vars, NEW c \in Chains, NEW b \in Candidates, NEW m \in Deployed[c],
           ModuleVerifies(c, m, b)
    PROVE  SoundModulesTellTheTruth' /\ OneRootPerBatch'
  <1> DEFINE new == [module |-> m, batch |-> b, age |-> 0]
  <1>1. /\ verified' = [verified EXCEPT ![c] = @ \cup {new}]
        /\ Verifications(c, m, b) = {}
    BY DEF ModuleVerifies, VerifyRemoteBatch
  <1>2. verified \in [Chains -> SUBSET [module : Modules, batch : Batches, age : Nat]]
    BY DEF InterchainInv, TypeOK
  <1>3. \A d \in Chains : \A r \in verified'[d] : r \in verified[d] \/ (d = c /\ r = new)
    BY <1>1, <1>2
  <1>4. \A batch : IsTrue(batch) => IsTrue(batch)'
    BY WrittenEntries, TruthStays DEF InterchainInv
  <1>5. m \in Sound => IsTrue(b)
    <2> SUFFICES ASSUME m \in Sound PROVE IsTrue(b)
      OBVIOUS
    <2>1. PICK v \in Verifiers : v \notin Corrupt /\ <<v, b>> \in signatures
      BY HonestSigner DEF InterchainInv, ModuleVerifies
    <2> QED
      BY <2>1 DEF InterchainInv, SignaturesAreTrue
  <1>6. SoundModulesTellTheTruth'
    BY <1>3, <1>4, <1>5 DEF InterchainInv, SoundModulesTellTheTruth
  <1>7. \A r \in verified[c] :
            ~(r.module = m /\ r.batch.src = b.src /\ r.batch.nonce = b.nonce)
    BY <1>1 DEF Verifications
  <1>8. OneRootPerBatch'
    BY <1>3, <1>7 DEF InterchainInv, OneRootPerBatch
  <1> QED
    BY <1>6, <1>8

LEMMA TickStep ==
    ASSUME InterchainInv, [Next]_vars, NEW c \in Chains, Tick(c)
    PROVE  SoundModulesTellTheTruth' /\ OneRootPerBatch'
  <1>1. verified \in [Chains -> SUBSET [module : Modules, batch : Batches, age : Nat]]
    BY DEF InterchainInv, TypeOK
  <1>2. verified' = [verified EXCEPT ![c] = {Aged(r) : r \in verified[c]}]
    BY DEF Tick
  <1>3. \A d \in Chains : \A r \in verified'[d] :
            \E old \in verified[d] :
                /\ r = IF d = c THEN Aged(old) ELSE old
                /\ r.module = old.module /\ r.batch = old.batch
    BY <1>1, <1>2, AgedType
  <1>4. \A batch : IsTrue(batch) => IsTrue(batch)'
    BY WrittenEntries, TruthStays DEF InterchainInv
  <1>5. ASSUME NEW d \in Chains, NEW r \in verified'[d], r.module \in Sound
        PROVE  IsTrue(r.batch)'
    <2>1. PICK old \in verified[d] : r.module = old.module /\ r.batch = old.batch
      BY <1>3
    <2>2. IsTrue(old.batch)
      BY <1>5, <2>1 DEF InterchainInv, SoundModulesTellTheTruth
    <2>3. IsTrue(old.batch)'
      BY <1>4, <2>2
    <2> QED
      BY <2>1, <2>3
  <1>6. ASSUME NEW d \in Chains, NEW r \in verified'[d], NEW s \in verified'[d],
               r.module = s.module, r.batch.src = s.batch.src, r.batch.nonce = s.batch.nonce
        PROVE  r = s
    <2>1. PICK ro \in verified[d] : /\ r = IF d = c THEN Aged(ro) ELSE ro
                                    /\ r.module = ro.module /\ r.batch = ro.batch
      BY <1>3
    <2>2. PICK so \in verified[d] : /\ s = IF d = c THEN Aged(so) ELSE so
                                    /\ s.module = so.module /\ s.batch = so.batch
      BY <1>3
    <2>3. ro = so
      BY <1>6, <2>1, <2>2 DEF InterchainInv, OneRootPerBatch
    <2> QED
      BY <2>1, <2>2, <2>3
  <1> QED
    BY <1>5, <1>6 DEF SoundModulesTellTheTruth, OneRootPerBatch

\* A message that is executable was sent, for a sound module has vouched for it.
LEMMA ExecutableWasSent ==
    ASSUME InterchainInv, NEW c \in Chains, NEW tx \in Transactions, IsExecutable(c, tx)
    PROVE  WasSent(tx)
  <1>1. PICK m \in Sound : m \in Responses(c, tx)
    BY SoundResponse DEF InterchainInv
  <1>2. PICK r \in verified[c] : r.module = m /\ r.batch = TxBatch(tx)
    BY <1>1 DEF Responses, Confirms
  <1>3. IsTrue(TxBatch(tx))
    BY <1>2 DEF InterchainInv, SoundModulesTellTheTruth
  <1> QED
    BY <1>3 DEF IsTrue, WasSent, TxBatch, GetBatch

LEMMA ExecuteStep ==
    ASSUME InterchainInv, [Next]_vars, NEW c \in Chains, NEW tx \in Transactions,
           InterchainExecute(c, tx)
    PROVE  OnlySentIsReceived' /\ ReceivedAreExecuted' /\ ReceivedOnce'
  <1>1. WasSent(tx)
    BY ExecutableWasSent DEF InterchainExecute
  <1>2. \A t \in Transactions : WasSent(t) => WasSent(t)'
    BY WrittenEntries, TruthStays DEF InterchainInv
  <1>3. \A d \in Chains : received[d] \in Seq(Transactions)
    BY DEF InterchainInv, TypeOK
  <1> DEFINE old == received[c]
             new == Append(old, tx)
             n == Len(old)
  <1>4. /\ DOMAIN new = 1..(n + 1) /\ DOMAIN old = 1..n /\ n \in Nat
        /\ new[n + 1] = tx /\ \A i \in 1..n : new[i] = old[i]
    BY <1>3, ReceivedType
  <1>5. /\ received'[c] = new
        /\ \A d \in Chains : d # c => received'[d] = received[d]
        /\ executed'[c] = executed[c] \cup {tx}
        /\ \A d \in Chains : d # c => executed'[d] = executed[d]
    BY DEF InterchainExecute, InterchainInv, TypeOK
  <1>6. tx \notin executed[c] /\ tx.dst = c
    BY DEF InterchainExecute, IsExecutable
  <1>7. \A i \in 1..n : old[i] \in executed[c] /\ old[i] # tx
    BY <1>4, <1>6 DEF InterchainInv, ReceivedAreExecuted
  <1>8. \A d \in Chains : \A i \in DOMAIN received[d] : received[d][i] \in Transactions
    BY <1>3, LenProperties, ElementOfSeq
  <1> HIDE DEF new, old, n
  <1>9. \A i \in DOMAIN new : i = n + 1 \/ (i \in 1..n /\ i \in DOMAIN old /\ new[i] = old[i])
    <2>1. \A i \in 1..(n + 1) : i = n + 1 \/ i \in 1..n
      BY <1>4
    <2> QED
      BY <1>4, <2>1
  <1>10. OnlySentIsReceived'
    <2>1. ASSUME NEW i \in DOMAIN new, NEW t, t = new[i]
          PROVE  t.dst = c /\ WasSent(t)'
      <3>1. CASE i = n + 1
        BY <2>1, <3>1, <1>1, <1>2, <1>4, <1>6
      <3>2. CASE i \in DOMAIN old /\ new[i] = old[i]
        <4>1. t.dst = c /\ WasSent(t) /\ t \in Transactions
          BY <2>1, <3>2, <1>8 DEF old, InterchainInv, OnlySentIsReceived
        <4> QED
          BY <4>1, <1>2
      <3> QED
        BY <3>1, <3>2, <1>9
    <2>2. ASSUME NEW d \in Chains, d # c, NEW i \in DOMAIN received[d], NEW t, t = received[d][i]
          PROVE  t.dst = d /\ WasSent(t)'
      <3>1. t.dst = d /\ WasSent(t) /\ t \in Transactions
        BY <2>2, <1>8 DEF InterchainInv, OnlySentIsReceived
      <3> QED
        BY <3>1, <1>2
    <2>3. ASSUME NEW d \in Chains, NEW i \in DOMAIN received'[d], NEW t, t = received'[d][i]
          PROVE  t.dst = d /\ WasSent(t)'
      BY <2>1, <2>2, <2>3, <1>5
    <2> QED
      BY <2>3 DEF OnlySentIsReceived
  <1>11. ReceivedAreExecuted'
    <2>1. \A i \in DOMAIN new : new[i] \in executed[c] \cup {tx}
      BY <1>4, <1>7, <1>9
    <2> QED
      BY <2>1, <1>5 DEF InterchainInv, ReceivedAreExecuted
  <1>12. ReceivedOnce'
    <2>1. \A i, j \in DOMAIN old : old[i] = old[j] => i = j
      BY DEF old, InterchainInv, ReceivedOnce
    <2>2. \A i, j \in DOMAIN new : new[i] = new[j] => i = j
      BY <2>1, <1>4, <1>7, <1>9
    <2> QED
      BY <2>2, <1>5 DEF InterchainInv, ReceivedOnce
  <1> QED
    BY <1>10, <1>11, <1>12

-----------------------------------------------------------------------------
(* The invariant *)

LEMMA InvInit == Init => InterchainInv
  <1> SUFFICES ASSUME Init PROVE InterchainInv
    OBVIOUS
  <1>1. TypeOK
    BY EmptySeq DEF Init, TypeOK
  <1>2. \A c \in Chains : received[c] = <<>> /\ DOMAIN received[c] = {}
    BY DEF Init
  <1>3. OnlySentIsReceived /\ ReceivedAreExecuted /\ ReceivedOnce
    BY <1>2 DEF OnlySentIsReceived, ReceivedAreExecuted, ReceivedOnce
  <1> QED
    BY <1>1, <1>3 DEF Init, InterchainInv, RequestsAreTrue, SignaturesAreTrue,
       SoundModulesTellTheTruth, OneRootPerBatch

LEMMA InvNext == InterchainInv /\ [Next]_vars => InterchainInv'
  <1> SUFFICES ASSUME InterchainInv, [Next]_vars PROVE InterchainInv'
    OBVIOUS
  <1>0. TypeOK' /\ TypeOK
    BY TypeStep DEF InterchainInv
  <1>t. \A batch : IsTrue(batch) => IsTrue(batch)'
    BY WrittenEntries, TruthStays DEF InterchainInv
  <1> USE <1>0, Frame DEF InterchainInv
  <1>1. ASSUME NEW c \in Chains, NEW d \in Chains, NEW s \in Senders, NEW m \in Messages,
               NEW modules \in SUBSET Modules, InterchainSend(c, d, s, m, modules)
        PROVE  InterchainInv'
    <2>1. PICK tx \in Transactions :
              /\ tx = [src |-> c, dst |-> d, nonce |-> DBNonce(c), sender |-> s, message |-> m]
              /\ WriteEntry(c, TxEntry(tx))
              /\ requests' = requests \cup Request(d, TxBatch(tx), modules)
      BY <1>1, SentEntry
    <2>2. tx.nonce + 1 \in DOMAIN entries'[c] /\ entries'[c][tx.nonce + 1] = TxEntry(tx)
      BY <2>1, WriteGrows, TxEntryType
    <2>3. ASSUME NEW batch, batch = TxBatch(tx) PROVE IsTrue(batch)'
      BY <2>1, <2>2, <2>3 DEF IsTrue, TxBatch, GetBatch
    <2>4. TxBatch(tx) \in Batches
      BY NonceIsNat, TxEntryType DEF TxBatch, Batches
    <2>5. ASSUME NEW r \in requests', NEW batch, batch = r.batch PROVE IsTrue(batch)'
      <3>1. CASE r \in requests
        BY <2>5, <3>1, <1>t DEF RequestsAreTrue
      <3>2. CASE r \in Request(d, TxBatch(tx), modules)
        BY <2>5, <3>2, <2>3, <2>4, RequestType
      <3> QED
        BY <2>1, <3>1, <3>2
    <2>6. RequestsAreTrue'
      BY <2>5 DEF RequestsAreTrue
    <2> QED
      BY <1>1, <2>6 DEF InterchainSend
  <1>2. ASSUME NEW c \in Chains, NEW d \in Chains, NEW modules \in SUBSET Modules,
               NEW n \in 0..(DBNonce(c) - 1), RequestBatchVerification(c, d, n, modules)
        PROVE  InterchainInv'
    <2>1. GetBatch(c, n) \in Batches /\ IsTrue(GetBatch(c, n))
      BY StoredBatchType
    <2>2. ASSUME NEW r \in requests', NEW batch, batch = r.batch PROVE IsTrue(batch)'
      <3>1. CASE r \in requests
        BY <2>2, <3>1, <1>t DEF RequestsAreTrue
      <3>2. CASE r \in Request(d, GetBatch(c, n), modules)
        BY <2>1, <2>2, <3>2, <1>t, RequestType
      <3> QED
        BY <1>2, <3>1, <3>2 DEF RequestBatchVerification
    <2>3. RequestsAreTrue'
      BY <2>2 DEF RequestsAreTrue
    <2> QED
      BY <1>2, <2>3 DEF RequestBatchVerification
  <1>3. ASSUME NEW c \in Chains, WriteAnyEntry(c) \/ WriteExecutionProof(c)
        PROVE  InterchainInv'
    BY <1>3 DEF WriteAnyEntry, WriteExecutionProof
  <1>4. ASSUME NEW c \in Chains, Tick(c)
        PROVE  InterchainInv'
    BY <1>4, TickStep DEF Tick
  <1>5. ASSUME NEW v \in Verifiers, NEW r \in requests, Sign(v, r.batch)
        PROVE  InterchainInv'
    <2>1. ASSUME NEW s \in signatures', NEW batch, batch = s[2]
          PROVE  s[1] \notin Corrupt /\ IsTrue(batch)'
      <3>1. CASE s \in signatures
        BY <2>1, <3>1, <1>t DEF SignaturesAreTrue
      <3>2. CASE s = <<v, r.batch>>
        BY <2>1, <3>2, <1>5, <1>t DEF RequestsAreTrue, Sign
      <3> QED
        BY <1>5, <3>1, <3>2 DEF Sign
    <2>2. SignaturesAreTrue'
      BY <2>1 DEF SignaturesAreTrue
    <2> QED
      BY <1>5, <2>2 DEF Sign
  <1>6. ASSUME NEW c \in Chains, NEW b \in Candidates, NEW m \in Deployed[c], ModuleVerifies(c, m, b)
        PROVE  InterchainInv'
    BY <1>6, VerificationStep DEF ModuleVerifies, VerifyRemoteBatch
  <1>7. ASSUME NEW c \in Chains, NEW tx \in Transactions, InterchainExecute(c, tx)
        PROVE  InterchainInv'
    BY <1>7, ExecuteStep DEF InterchainExecute
  <1>8. CASE Setup
    BY <1>8 DEF Setup, contractVars
  <1>9. CASE UNCHANGED vars
    BY <1>9 DEF vars, contractVars
  <1> QED
    BY <1>1, <1>2, <1>3, <1>4, <1>5, <1>6, <1>7, <1>8, <1>9 DEF Next

\* The invariant holds in every state.
THEOREM InvHolds == Spec => []InterchainInv
  BY InvInit, InvNext, PTL DEF Spec

\* The types.
THEOREM TypesHold == Spec => []TypeOK
  <1>1. InterchainInv => TypeOK
    BY DEF InterchainInv
  <1> QED
    BY <1>1, InvHolds, PTL

\* However the verifiers, the thresholds and the apps' setups change, a SynapseModule
\* verifies only what is in the database of the source.
THEOREM TruthHolds == Spec => []SoundModulesTellTheTruth
  <1>1. InterchainInv => SoundModulesTellTheTruth
    BY DEF InterchainInv
  <1> QED
    BY <1>1, InvHolds, PTL

\* No module has two roots for one batch.
THEOREM OneRootHolds == Spec => []OneRootPerBatch
  <1>1. InterchainInv => OneRootPerBatch
    BY DEF InterchainInv
  <1> QED
    BY <1>1, InvHolds, PTL

\* An app is given only what was sent to it by the linked app.
THEOREM OnlySentHolds == Spec => []OnlySentIsReceived
  <1>1. InterchainInv => OnlySentIsReceived
    BY DEF InterchainInv
  <1> QED
    BY <1>1, InvHolds, PTL

\* An app is given each message once.
THEOREM OnceHolds == Spec => []ReceivedOnce
  <1>1. InterchainInv => ReceivedOnce
    BY DEF InterchainInv
  <1> QED
    BY <1>1, InvHolds, PTL

-----------------------------------------------------------------------------
(* What is executable *)

\* A verification is never dropped, replaced or made younger.
LEMMA VerifiedStays ==
    ASSUME TypeOK, [Next]_vars, NEW c \in Chains, NEW r \in verified[c]
    PROVE  \E s \in verified'[c] : s.module = r.module /\ s.batch = r.batch /\ s.age >= r.age
  <1>t. /\ verified \in [Chains -> SUBSET [module : Modules, batch : Batches, age : Nat]]
        /\ r.age \in Nat
    BY DEF TypeOK
  <1>1. ASSUME NEW d \in Chains, NEW m, NEW b, VerifyRemoteBatch(d, m, b)
        PROVE  r \in verified'[c]
    BY <1>1, <1>t DEF VerifyRemoteBatch
  <1>2. ASSUME NEW d \in Chains, Tick(d)
        PROVE  \E s \in verified'[c] : s.module = r.module /\ s.batch = r.batch /\ s.age >= r.age
    <2>1. Aged(r) \in verified'[c] \/ r \in verified'[c]
      BY <1>2, <1>t DEF Tick
    <2>2. Aged(r).module = r.module /\ Aged(r).batch = r.batch /\ Aged(r).age >= r.age
      BY <1>t DEF Aged
    <2> QED
      BY <2>1, <2>2, <1>t
  <1>3. CASE UNCHANGED verified
    BY <1>3, <1>t
  <1>4. \/ UNCHANGED verified
        \/ \E d \in Chains : Tick(d)
        \/ \E d \in Chains : \E m, b : VerifyRemoteBatch(d, m, b)
    BY DEF Next, vars, contractVars, InterchainSend, RequestBatchVerification, WriteAnyEntry,
           WriteExecutionProof, Sign, ModuleVerifies, InterchainExecute, Setup
  <1> QED
    BY <1>1, <1>2, <1>3, <1>4, <1>t

\* So the modules that confirm a transaction go on confirming it.
LEMMA ResponsesGrow ==
    ASSUME TypeOK, [Next]_vars, UNCHANGED <<appConfig, trusted>>,
           NEW c \in Chains, NEW tx \in Transactions
    PROVE  Responses(c, tx) \subseteq Responses(c, tx)'
  <1>t. /\ verified \in [Chains -> SUBSET [module : Modules, batch : Batches, age : Nat]]
        /\ verified' \in [Chains -> SUBSET [module : Modules, batch : Batches, age : Nat]]
        /\ appConfig[c].period \in Nat
    BY TypeStep DEF TypeOK
  <1>1. SUFFICES ASSUME NEW m \in trusted[c], NEW r \in verified[c], r.module = m, Confirms(r, c, tx)
                 PROVE  \E s \in verified'[c] : s.module = m /\ Confirms(s, c, tx)'
    BY DEF Responses
  <1>2. PICK s \in verified'[c] : s.module = r.module /\ s.batch = r.batch /\ s.age >= r.age
    BY VerifiedStays
  <1>3. r.age \in Nat /\ s.age \in Nat
    BY <1>t
  <1>4. s.batch = TxBatch(tx) /\ s.age > appConfig[c].period
    BY <1>1, <1>2, <1>3, <1>t DEF Confirms
  <1>5. s.batch = TxBatch(tx)' /\ s.age > appConfig'[c].period
    BY <1>4 DEF TxBatch, TxEntry
  <1> QED
    BY <1>1, <1>2, <1>5 DEF Confirms

\* And what is executable stays so.
LEMMA ExecutableStays ==
    ASSUME TypeOK, [Next]_vars, UNCHANGED <<appConfig, trusted>>,
           NEW c \in Chains, NEW tx \in Transactions, IsExecutable(c, tx)
    PROVE  IsExecutable(c, tx)' \/ tx \in executed'[c]
  <1>1. Responses(c, tx) \subseteq Responses(c, tx)'
    BY ResponsesGrow
  <1>2. IsFiniteSet(Responses(c, tx)')
    <2>1. Responses(c, tx)' \subseteq Modules
      BY TypeStep DEF Responses, TypeOK
    <2> QED
      BY <2>1, FS_Subset, InterchainAssumption
  <1>3. /\ Cardinality(Responses(c, tx)) \in Nat /\ Cardinality(Responses(c, tx)') \in Nat
        /\ Cardinality(Responses(c, tx)) <= Cardinality(Responses(c, tx)')
    BY <1>1, <1>2, FS_Subset, FS_CardinalityType
  <1>4. appConfig[c].required \in Nat /\ appConfig'[c].required = appConfig[c].required
    BY DEF TypeOK
  <1>5. Cardinality(Responses(c, tx)') >= appConfig'[c].required
    BY <1>3, <1>4 DEF IsExecutable
  <1> QED
    BY <1>4, <1>5 DEF IsExecutable

\* What is executable stays so, until it is executed or the app's setup changes: late,
\* repeated and conflicting verifications and other messages do not take it back.
THEOREM StaysExecutableHolds == Spec => StaysExecutable
  <1>1. TypeOK /\ [Next]_vars =>
            [UNCHANGED <<appConfig, trusted>> =>
                \A c \in Chains, tx \in Transactions :
                    IsExecutable(c, tx) => IsExecutable(c, tx)' \/ tx \in executed'[c]]_vars
    BY ExecutableStays
  <1> QED
    BY <1>1, TypesHold, PTL DEF Spec, StaysExecutable

-----------------------------------------------------------------------------
(* The contracts implement Delivery *)

\* What is written is sent if it is the client's entry of a transaction with this nonce;
\* what was sent before stays sent.
LEMMA WriteSends ==
    ASSUME TypeOK, NEW c \in Chains, NEW e \in Entries, WriteEntry(c, e)
    PROVE  \A t \in Transactions :
               WasSent(t)' <=> WasSent(t) \/ (t.src = c /\ t.nonce = DBNonce(c) /\ e = TxEntry(t))
  <1> DEFINE old == entries[c]
             new == Append(old, e)
  <1>1. entries \in [Chains -> Seq(Entries)] /\ entries' = [entries EXCEPT ![c] = new]
    BY DEF TypeOK, WriteEntry
  <1>2. old \in Seq(Entries)
    BY <1>1
  <1>3. /\ Len(old) \in Nat /\ DOMAIN old = 1..Len(old)
        /\ new \in Seq(Entries) /\ Len(new) = Len(old) + 1
        /\ new[Len(old) + 1] = e /\ \A i \in 1..Len(old) : new[i] = old[i]
    BY <1>2, AppendGrows, LenProperties
  <1>4. DOMAIN new = 1..(Len(old) + 1)
    BY <1>3, LenProperties
  <1> HIDE DEF new
  <1>5. entries'[c] = new /\ \A d \in Chains : d # c => entries'[d] = entries[d]
    BY <1>1
  <1>6. ASSUME NEW t \in Transactions
        PROVE  WasSent(t)' <=> WasSent(t) \/ (t.src = c /\ t.nonce = DBNonce(c) /\ e = TxEntry(t))
    <2>1. t.src \in Chains /\ t.nonce \in Nat /\ TxEntry(t)' = TxEntry(t)
      BY NonceIsNat DEF TxEntry
    <2>2. CASE t.src # c
      BY <1>5, <2>1, <2>2 DEF WasSent
    <2>3. CASE t.src = c
      <3>1. WasSent(t) <=> t.nonce + 1 \in 1..Len(old) /\ old[t.nonce + 1] = TxEntry(t)
        BY <1>3, <2>3 DEF WasSent
      <3>2. WasSent(t)' <=> t.nonce + 1 \in 1..(Len(old) + 1) /\ new[t.nonce + 1] = TxEntry(t)
        BY <1>4, <1>5, <2>1, <2>3 DEF WasSent
      <3>3. CASE t.nonce + 1 \in 1..Len(old)
        <4>1. t.nonce # Len(old) /\ t.nonce + 1 \in 1..(Len(old) + 1) /\ new[t.nonce + 1] = old[t.nonce + 1]
          BY <1>3, <3>3, <2>1
        <4> QED
          BY <3>1, <3>2, <3>3, <4>1 DEF DBNonce
      <3>4. CASE t.nonce = Len(old)
        <4>1. t.nonce + 1 \notin 1..Len(old) /\ t.nonce + 1 \in 1..(Len(old) + 1) /\ new[t.nonce + 1] = e
          BY <1>3, <3>4
        <4> QED
          BY <2>3, <3>1, <3>2, <3>4, <4>1 DEF DBNonce
      <3>5. CASE t.nonce + 1 \notin 1..Len(old) /\ t.nonce # Len(old)
        <4>1. t.nonce + 1 \notin 1..(Len(old) + 1)
          BY <1>3, <2>1, <3>5
        <4> QED
          BY <3>1, <3>2, <3>5, <4>1 DEF DBNonce
      <3> QED
        BY <3>3, <3>4, <3>5
    <2> QED
      BY <2>2, <2>3
  <1> QED
    BY <1>6

\* A step that sends nothing and delivers nothing is none of Delivery.
LEMMA DeliveryStutters ==
    ASSUME UNCHANGED received, \A t \in Transactions : WasSent(t)' <=> WasSent(t)
    PROVE  UNCHANGED <<AllSent, received>>
  BY DEF AllSent

LEMMA DeliveryStep == InterchainInv /\ [Next]_vars => [Delivered!Next]_<<AllSent, received>>
  <1> SUFFICES ASSUME InterchainInv, [Next]_vars PROVE [Delivered!Next]_<<AllSent, received>>
    OBVIOUS
  <1>t. TypeOK
    BY DEF InterchainInv
  <1>0. ASSUME UNCHANGED <<entries, received>>
        PROVE  UNCHANGED <<AllSent, received>>
    BY <1>0, DeliveryStutters DEF WasSent, TxEntry
  <1>1. ASSUME NEW c \in Chains, NEW d \in Chains, NEW s \in Senders, NEW m \in Messages,
               NEW modules \in SUBSET Modules, InterchainSend(c, d, s, m, modules)
        PROVE  Delivered!Next
    <2>1. PICK tx \in Transactions :
              /\ tx = [src |-> c, dst |-> d, nonce |-> DBNonce(c), sender |-> s, message |-> m]
              /\ WriteEntry(c, TxEntry(tx))
      BY <1>t, <1>1, SentEntry
    <2>2. \A t \in Transactions :
              WasSent(t)' <=> WasSent(t) \/ (t.src = c /\ t.nonce = DBNonce(c) /\ TxEntry(tx) = TxEntry(t))
      BY <1>t, <2>1, TxEntryType, WriteSends
    <2>3. \A t \in Transactions : TxEntry(tx) = TxEntry(t) => t = tx
      BY DEF TxEntry
    <2>4. tx.src = c /\ tx.nonce = DBNonce(c)
      BY <2>1
    <2>5. AllSent' = AllSent \cup {tx}
      BY <2>2, <2>3, <2>4 DEF AllSent
    <2>6. ~WasSent(tx)
      <3>1. DOMAIN entries[c] = 1..Len(entries[c]) /\ Len(entries[c]) \in Nat
        BY <1>t, LenProperties DEF TypeOK
      <3> QED
        BY <2>4, <3>1 DEF WasSent, DBNonce
    <2>7. UNCHANGED received
      BY <1>1 DEF InterchainSend
    <2>8. Delivered!Send(tx)
      BY <2>5, <2>6, <2>7 DEF Delivered!Send, AllSent
    <2> QED
      BY <2>8 DEF Delivered!Next
  <1>2. ASSUME NEW c \in Chains, NEW e \in Entries, WriteEntry(c, e),
               \A t \in Transactions : e # TxEntry(t), UNCHANGED received
        PROVE  UNCHANGED <<AllSent, received>>
    <2>1. \A t \in Transactions : WasSent(t)' <=> WasSent(t)
      BY <1>t, <1>2, WriteSends
    <2> QED
      BY <1>2, <2>1, DeliveryStutters
  <1>3. ASSUME NEW c \in Chains, WriteAnyEntry(c)
        PROVE  UNCHANGED <<AllSent, received>>
    <2>1. PICK tx \in Transactions :
              WriteEntry(c, [writer |-> Anybody, data |-> [kind |-> "tx", tx |-> tx]])
      BY <1>3 DEF WriteAnyEntry
    <2>2. PICK e : e = [writer |-> Anybody, data |-> [kind |-> "tx", tx |-> tx]]
      OBVIOUS
    <2>3. e \in Entries /\ e.writer # Client
      BY <2>2 DEF Entries, Data, Client, Anybody
    <2>4. \A t \in Transactions : e # TxEntry(t)
      BY <2>3 DEF TxEntry
    <2> QED
      BY <1>2, <1>3, <2>1, <2>2, <2>3, <2>4 DEF WriteAnyEntry
  <1>4. ASSUME NEW c \in Chains, WriteExecutionProof(c)
        PROVE  UNCHANGED <<AllSent, received>>
    <2>1. PICK tx \in Transactions : WriteEntry(c, ProofEntry(tx))
      BY <1>t, <1>4 DEF WriteExecutionProof, TypeOK
    <2>2. PICK e \in Entries : e = ProofEntry(tx)
      BY TxEntryType
    <2>3. \A t \in Transactions : e # TxEntry(t)
      <3>1. e.data.kind = "proof" /\ \A t \in Transactions : TxEntry(t).data.kind = "tx"
        BY <2>2 DEF ProofEntry, TxEntry
      <3> QED
        BY <3>1
    <2> QED
      BY <1>2, <1>4, <2>1, <2>2, <2>3 DEF WriteExecutionProof
  <1>5. ASSUME NEW c \in Chains, NEW tx \in Transactions, InterchainExecute(c, tx)
        PROVE  Delivered!Next
    <2>1. WasSent(tx)
      BY <1>5, ExecutableWasSent DEF InterchainExecute
    <2>2. tx \notin executed[c] /\ tx.dst = c
      BY <1>5 DEF InterchainExecute, IsExecutable
    <2>3. \A i \in DOMAIN received[c] : received[c][i] # tx
      BY <2>2 DEF InterchainInv, ReceivedAreExecuted
    <2>4. AllSent' = AllSent
      BY <1>5 DEF AllSent, WasSent, TxEntry, InterchainExecute
    <2>5. received' = [received EXCEPT ![c] = Append(received[c], tx)]
      BY <1>5 DEF InterchainExecute
    <2>6. Delivered!Deliver(c, tx)
      BY <2>1, <2>2, <2>3, <2>4, <2>5 DEF Delivered!Deliver, AllSent
    <2> QED
      BY <2>6 DEF Delivered!Next
  <1>6. CASE UNCHANGED vars
    BY <1>0, <1>6 DEF vars, contractVars
  <1>7. ASSUME NEW c \in Chains, NEW d \in Chains, NEW modules \in SUBSET Modules,
               NEW n \in 0..(DBNonce(c) - 1), RequestBatchVerification(c, d, n, modules)
        PROVE  UNCHANGED <<entries, received>>
    BY <1>7 DEF RequestBatchVerification
  <1>8. ASSUME NEW c \in Chains, NEW b \in Candidates, NEW m \in Deployed[c], ModuleVerifies(c, m, b)
        PROVE  UNCHANGED <<entries, received>>
    BY <1>8 DEF ModuleVerifies, VerifyRemoteBatch
  <1>9. ASSUME \/ \E c \in Chains : Tick(c)
               \/ \E v \in Verifiers, r \in requests : Sign(v, r.batch)
               \/ Setup
        PROVE  UNCHANGED <<entries, received>>
    BY <1>9 DEF Tick, Sign, Setup, contractVars
  <1> QED
    BY <1>0, <1>1, <1>3, <1>4, <1>5, <1>6, <1>7, <1>8, <1>9 DEF Next

\* Whatever modules claim, verifiers sign, governors change and others write: what apps
\* are given was sent to them, and they are given it once, in some order.
THEOREM DeliveryHolds == Spec => ImplementsDelivery
  <1>1. Init => Delivered!Init
    <2> SUFFICES ASSUME Init PROVE Delivered!Init
      OBVIOUS
    <2>1. \A c \in Chains : entries[c] = <<>> /\ DOMAIN entries[c] = {}
      BY DEF Init
    <2>2. AllSent = {}
      BY <2>1, NonceIsNat DEF AllSent, WasSent
    <2> QED
      BY <2>2 DEF Init, Delivered!Init
  <1> QED
    BY <1>1, DeliveryStep, InvHolds, PTL DEF Spec, ImplementsDelivery, Delivered!Spec
=============================================================================
