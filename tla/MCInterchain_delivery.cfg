SPECIFICATION Spec
CHECK_DEADLOCK FALSE
CONSTANTS
    a = a
    b = b
    syn = syn
    other = other
    v1 = v1
    v2 = v2
    v3 = v3
    Chains = {a, b}
    Modules = {syn, other}
    Deployed <- OnB
    Verifiers = {v1, v2, v3}
    Sound = {syn}
    Corrupt = {v2, v3}
    Senders = {app, stranger}
    App = app

    Messages = {m}
    Configs <- SomeConfigs
    InitialConfig <- TwoResponses
    InitialTrusted <- OnB
    InitialSigners <- TwoSigners
    InitialThreshold <- TwoOfThree
    MaxEntries <- OneEach
    MaxAge = 2
    MaxChanges = 2
INVARIANTS
    TypeOK
    SoundModulesTellTheTruth
    OnlySentIsReceived
    ReceivedOnce
PROPERTIES
    StaysExecutable
    ImplementsDelivery
