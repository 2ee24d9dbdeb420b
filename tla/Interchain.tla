------------------------------ MODULE Interchain ------------------------------
(***************************************************************************)
(* The interchain contracts of packages/contracts-communication on several *)
(* chains: InterchainDB keeps what was written here and what modules say   *)
(* was written elsewhere, SynapseModule passes on what a threshold of its  *)
(* verifiers signed, and InterchainClientV1 gives an app a message that    *)
(* enough of the app's modules have vouched for long enough.               *)
(*                                                                         *)
(* A hash stands for what was hashed.  Fees, gas and the gas data that     *)
(* travels with a batch are left out.                                      *)
(***************************************************************************)
EXTENDS Integers, Sequences, FiniteSets

CONSTANTS
    Chains, Modules, Verifiers,
    Deployed,     \* per chain, the modules there
    Sound,        \* the modules that are SynapseModules; others vouch for anything
    Corrupt,      \* the verifiers that sign anything
    Senders,
    App,          \* the sender that the receiving app is linked to
    Messages,
    Configs,      \* what an app's governor may set: responses and optimistic period
    InitialConfig, InitialTrusted, InitialSigners, InitialThreshold,
    MaxEntries,   \* bound, per chain
    MaxAge,       \* bound: older verifications are all the same
    MaxChanges    \* bound: steps of governors and owners

VARIABLES
    entries,      \* per chain, _entryValues
    requests,     \* BatchVerificationRequested: a module, a destination and a batch
    signatures,   \* pairs of an honest verifier and a batch
    verified,     \* per chain, _remoteBatches: a module, a batch and its age
    executed,     \* per chain, the transactions with a _txExecutor
    received,     \* per chain, what the app was given, in order
    appConfig, trusted,     \* per chain, the app's setup
    signers, threshold,     \* per chain and module
    changes

contractVars == <<entries, requests, signatures, verified, executed, received>>
setupVars == <<appConfig, trusted, signers, threshold, changes>>
vars == <<contractVars, setupVars>>

\* The writers of entries: the linked clients, and others.
Client == "client"
Anybody == "anybody"

\* Nonces are bounded by the chain's bound.
Transactions ==
    {tx \in [src : Chains, dst : Chains, nonce : UNION {0..(MaxEntries[c] - 1) : c \in Chains},
             sender : Senders, message : Messages] :
        tx.src # tx.dst /\ tx.nonce < MaxEntries[tx.src]}

\* What a client writes: a transaction's id, or the proof that it was executed.
Data == [kind : {"tx", "proof"}, tx : Transactions]
Entries == [writer : {Client, Anybody}, data : Data]
Batches == [src : Chains, nonce : Nat, root : Entries]

TxEntry(tx) == [writer |-> Client, data |-> [kind |-> "tx", tx |-> tx]]
ProofEntry(tx) == [writer |-> Client, data |-> [kind |-> "proof", tx |-> tx]]
TxBatch(tx) == [src |-> tx.src, nonce |-> tx.nonce, root |-> TxEntry(tx)]

DBNonce(c) == Len(entries[c])
GetBatch(c, nonce) == [src |-> c, nonce |-> nonce, root |-> entries[c][nonce + 1]]

\* Owners and governors keep to this: fewer corrupt verifiers than the threshold, and
\* fewer arbitrary modules than required responses.
Prudent ==
    /\ \A c \in Chains, m \in Sound :
           threshold[c][m] > 0 => Cardinality(signers[c][m] \cap Corrupt) < threshold[c][m]
    /\ \A c \in Chains :
           appConfig[c].required > 0 => Cardinality(trusted[c] \ Sound) < appConfig[c].required

ASSUME InterchainAssumption ==
    /\ Deployed \in [Chains -> SUBSET Modules]
    /\ Sound \subseteq Modules /\ Corrupt \subseteq Verifiers
    /\ IsFiniteSet(Modules) /\ IsFiniteSet(Verifiers)
    /\ App \in Senders
    /\ Configs \subseteq [required : Nat \ {0}, period : Nat \ {0}]
    /\ InitialConfig \in [Chains -> [required : Nat, period : Nat]]
    /\ InitialTrusted \in [Chains -> SUBSET Modules]
    /\ InitialSigners \in [Chains -> [Modules -> SUBSET Verifiers]]
    /\ InitialThreshold \in [Chains -> [Modules -> Nat]]
    /\ MaxEntries \in [Chains -> Nat] /\ MaxAge \in Nat /\ MaxChanges \in Nat

Init ==
    /\ entries = [c \in Chains |-> <<>>]
    /\ requests = {} /\ signatures = {}
    /\ verified = [c \in Chains |-> {}]
    /\ executed = [c \in Chains |-> {}] /\ received = [c \in Chains |-> <<>>]
    /\ appConfig = InitialConfig /\ trusted = InitialTrusted
    /\ signers = InitialSigners /\ threshold = InitialThreshold
    /\ changes = 0
    /\ Prudent

-----------------------------------------------------------------------------
(* The source chain *)

WriteEntry(c, entry) ==
    /\ DBNonce(c) < MaxEntries[c]
    /\ entries' = [entries EXCEPT ![c] = Append(@, entry)]

\* Anybody may write an entry, of data that could be the client's; the writer is part
\* of an entry's value.
WriteAnyEntry(c) ==
    /\ \E tx \in Transactions :
           /\ tx.src = c /\ tx.nonce = DBNonce(c)
           /\ WriteEntry(c, [writer |-> Anybody, data |-> [kind |-> "tx", tx |-> tx]])
    /\ UNCHANGED <<requests, signatures, verified, executed, received, setupVars>>

\* _requestVerification: each of the modules asks its verifiers, if it has any.
Request(d, batch, modules) == [module : modules \cap Sound, dst : {d}, batch : {batch}]

InterchainSend(c, d, sender, message, modules) ==
    /\ c # d /\ modules # {}
    /\ LET tx == [src |-> c, dst |-> d, nonce |-> DBNonce(c), sender |-> sender, message |-> message]
       IN  /\ WriteEntry(c, TxEntry(tx))
           /\ requests' = requests \cup Request(d, TxBatch(tx), modules)
    /\ UNCHANGED <<signatures, verified, executed, received, setupVars>>

\* Anybody may ask for any batch.
RequestBatchVerification(c, d, nonce, modules) ==
    /\ c # d /\ modules # {} /\ nonce < DBNonce(c)
    /\ requests' = requests \cup Request(d, GetBatch(c, nonce), modules)
    /\ UNCHANGED <<entries, signatures, verified, executed, received, setupVars>>

\* The proof of an execution is an entry like any other.
WriteExecutionProof(c) ==
    /\ \E tx \in executed[c] : WriteEntry(c, ProofEntry(tx))
    /\ UNCHANGED <<requests, signatures, verified, executed, received, setupVars>>

-----------------------------------------------------------------------------
(* Verification *)

\* A verifier of the committee signs what its chain listener finds.
Sign(v, batch) ==
    /\ v \notin Corrupt
    /\ \E r \in requests : r.batch = batch
    /\ signatures' = signatures \cup {<<v, batch>>}
    /\ UNCHANGED <<entries, requests, verified, executed, received, setupVars>>

MutantSignedBy(c, m, batch) == {v \in Verifiers : v \in Corrupt \/ <<v, batch>> \in signatures}
\* The signers whose signatures somebody can present.
SignedBy(c, m, batch) == {v \in signers[c][m] : v \in Corrupt \/ <<v, batch>> \in signatures}

\* verifySignedHash.
HasQuorum(c, m, batch) ==
    threshold[c][m] > 0 /\ Cardinality(SignedBy(c, m, batch)) >= threshold[c][m]

Verifications(c, m, batch) ==
    {r \in verified[c] : r.module = m /\ r.batch.src = batch.src /\ r.batch.nonce = batch.nonce}

MutantVerifyRemoteBatch(c, m, batch) ==
    /\ batch.src # c
    /\ \A r \in Verifications(c, m, batch) : r.batch = batch
    /\ verified' = [verified EXCEPT ![c] =
           (@ \ Verifications(c, m, batch)) \cup {[module |-> m, batch |-> batch, age |-> 0]}]
    /\ UNCHANGED <<entries, requests, signatures, executed, received, setupVars>>
\* InterchainDB.verifyRemoteBatch, for a batch the module has not verified yet (it
\* does nothing for the same root, and reverts for another).
VerifyRemoteBatch(c, m, batch) ==
    /\ batch.src # c
    /\ Verifications(c, m, batch) = {}
    /\ verified' = [verified EXCEPT ![c] = @ \cup {[module |-> m, batch |-> batch, age |-> 0]}]
    /\ UNCHANGED <<entries, requests, signatures, executed, received, setupVars>>

\* SynapseModule.verifyRemoteBatch; any other module follows rules of its own.
ModuleVerifies(c, m, batch) ==
    /\ m \in Sound => HasQuorum(c, m, batch)
    /\ VerifyRemoteBatch(c, m, batch)

-----------------------------------------------------------------------------
(* The destination chain *)

MutantConfirms(r, c, tx) ==
    r.batch.src = tx.src /\ r.batch.nonce = tx.nonce /\ r.age > appConfig[c].period
\* checkVerification, and the optimistic period.
Confirms(r, c, tx) == r.batch = TxBatch(tx) /\ r.age > appConfig[c].period

\* _getFinalizedResponsesCount.
Responses(c, tx) == {m \in trusted[c] : \E r \in verified[c] : r.module = m /\ Confirms(r, c, tx)}

MutantIsExecutable(c, tx) ==
    /\ tx.dst = c /\ tx.src # c
    /\ Cardinality(Responses(c, tx)) >= appConfig[c].required
\* _assertExecutable.
IsExecutable(c, tx) ==
    /\ tx.dst = c /\ tx.src # c
    /\ tx \notin executed[c]
    /\ appConfig[c].required > 0
    /\ Cardinality(Responses(c, tx)) >= appConfig[c].required

\* interchainExecute; the app takes messages of the linked app only, or it reverts.
InterchainExecute(c, tx) ==
    /\ IsExecutable(c, tx)
    /\ tx.sender = App
    /\ executed' = [executed EXCEPT ![c] = @ \cup {tx}]
    /\ received' = [received EXCEPT ![c] = Append(@, tx)]
    /\ UNCHANGED <<entries, requests, signatures, verified, setupVars>>

MutantAgedReversed(r) == [r EXCEPT !.age = @ - 1]
\* block.timestamp - verifiedAt.
Aged(r) == [r EXCEPT !.age = IF @ < MaxAge THEN @ + 1 ELSE @]

Tick(c) ==
    /\ verified' = [verified EXCEPT ![c] = {Aged(r) : r \in @}]
    /\ UNCHANGED <<entries, requests, signatures, executed, received, setupVars>>

-----------------------------------------------------------------------------
(* The setup *)

SetAppConfig(c, config) ==
    /\ appConfig' = [appConfig EXCEPT ![c] = config]
    /\ UNCHANGED <<trusted, signers, threshold>>

AddTrustedModule(c, m) ==
    /\ m \notin trusted[c]
    /\ trusted' = [trusted EXCEPT ![c] = @ \cup {m}]
    /\ UNCHANGED <<appConfig, signers, threshold>>

RemoveTrustedModule(c, m) ==
    /\ m \in trusted[c]
    /\ trusted' = [trusted EXCEPT ![c] = @ \ {m}]
    /\ UNCHANGED <<appConfig, signers, threshold>>

AddVerifier(c, m, v) ==
    /\ v \notin signers[c][m]
    /\ signers' = [signers EXCEPT ![c][m] = @ \cup {v}]
    /\ UNCHANGED <<appConfig, trusted, threshold>>

RemoveVerifier(c, m, v) ==
    /\ v \in signers[c][m]
    /\ signers' = [signers EXCEPT ![c][m] = @ \ {v}]
    /\ UNCHANGED <<appConfig, trusted, threshold>>

SetThreshold(c, m, t) ==
    /\ t > 0
    /\ threshold' = [threshold EXCEPT ![c][m] = t]
    /\ UNCHANGED <<appConfig, trusted, signers>>

Setup ==
    /\ changes < MaxChanges /\ changes' = changes + 1
    /\ \E c \in Chains :
        \/ \E config \in Configs : SetAppConfig(c, config)
        \/ \E m \in Deployed[c] : AddTrustedModule(c, m) \/ RemoveTrustedModule(c, m)
        \/ \E m \in Sound \cap Deployed[c], v \in Verifiers : AddVerifier(c, m, v) \/ RemoveVerifier(c, m, v)
        \/ \E m \in Sound \cap Deployed[c], t \in 1..Cardinality(Verifiers) : SetThreshold(c, m, t)
    /\ Prudent'
    /\ UNCHANGED contractVars

-----------------------------------------------------------------------------
\* What can be signed, or claimed: anything written, and any transaction.
Written(c) == {GetBatch(c, n - 1) : n \in DOMAIN entries[c]}
Claimed == {TxBatch(tx) : tx \in Transactions}
Candidates == Claimed \cup (UNION {Written(c) : c \in Chains})

Next ==
    \/ \E c, d \in Chains, modules \in SUBSET Modules :
        \/ \E s \in Senders, m \in Messages : InterchainSend(c, d, s, m, modules)
        \/ \E n \in 0..(DBNonce(c) - 1) : RequestBatchVerification(c, d, n, modules)
    \/ \E c \in Chains : WriteAnyEntry(c) \/ WriteExecutionProof(c) \/ Tick(c)
    \/ \E v \in Verifiers, r \in requests : Sign(v, r.batch)
    \/ \E c \in Chains, b \in Candidates : \E m \in Deployed[c] : ModuleVerifies(c, m, b)
    \/ \E c \in Chains, tx \in Transactions : InterchainExecute(c, tx)
    \/ Setup

Spec == Init /\ [][Next]_vars

-----------------------------------------------------------------------------
\* The types.
TypeOK ==
    /\ entries \in [Chains -> Seq(Entries)]
    /\ requests \subseteq [module : Modules, dst : Chains, batch : Batches]
    /\ signatures \subseteq Verifiers \X Batches
    /\ verified \in [Chains -> SUBSET [module : Modules, batch : Batches, age : Nat]]
    /\ executed \in [Chains -> SUBSET Transactions]
    /\ received \in [Chains -> Seq(Transactions)]
    /\ appConfig \in [Chains -> [required : Nat, period : Nat]]
    /\ trusted \in [Chains -> SUBSET Modules]
    /\ signers \in [Chains -> [Modules -> SUBSET Verifiers]]
    /\ threshold \in [Chains -> [Modules -> Nat]]
    /\ changes \in Nat

\* The batch that says what the database of its chain says.
IsTrue(batch) ==
    /\ batch.src \in Chains /\ batch.nonce + 1 \in DOMAIN entries[batch.src]
    /\ batch = GetBatch(batch.src, batch.nonce)

\* What a SynapseModule has told a database is what the client, or whoever, wrote in
\* the database of the source, now and for ever: not a quorum of verifiers that has
\* changed since, nor a batch somebody asked for, brings in another.
SoundModulesTellTheTruth ==
    \A c \in Chains : \A r \in verified[c] : r.module \in Sound => IsTrue(r.batch)

\* A module never has two roots for one batch.
OneRootPerBatch ==
    \A c \in Chains : \A r, s \in verified[c] :
        r.module = s.module /\ r.batch.src = s.batch.src /\ r.batch.nonce = s.batch.nonce => r = s

WasSent(tx) == tx.nonce + 1 \in DOMAIN entries[tx.src] /\ entries[tx.src][tx.nonce + 1] = TxEntry(tx)

\* An app is given a message only if the linked app sent it, whatever some modules and
\* verifiers claim and whoever else writes to the source's database.
OnlySentIsReceived ==
    \A c \in Chains : \A i \in DOMAIN received[c] :
        received[c][i].dst = c /\ WasSent(received[c][i])

\* And it is given each message once.
ReceivedOnce ==
    \A c \in Chains : \A i, j \in DOMAIN received[c] :
        received[c][i] = received[c][j] => i = j

\* What isExecutable tells an executor stays true until the message is executed or a
\* governor changes the app's setup: other messages, late verifications, conflicting
\* batches and time do not take it back.
StaysExecutable ==
    [][UNCHANGED <<appConfig, trusted>> =>
        \A c \in Chains, tx \in Transactions :
            IsExecutable(c, tx) => IsExecutable(c, tx)' \/ tx \in executed'[c]]_vars

\* The contracts deliver what was sent, whatever they do and in whatever order.
AllSent == {tx \in Transactions : WasSent(tx)}
Delivered == INSTANCE Delivery WITH sent <- AllSent, delivered <- received
ImplementsDelivery == Delivered!Spec
=============================================================================
