SPECIFICATION AgentsFairSpec
CHECK_DEADLOCK FALSE
CONSTANTS
    a = a
    b = b
    syn = syn
    n1 = n1
    n2 = n2
    c1 = c1
    Chains = {a, b}
    Modules = {syn}
    Deployed <- Everywhere
    Verifiers = {n1, n2, c1}
    Sound = {syn}
    Corrupt = {c1}
    Senders = {app}
    App = app
    Messages = {m}
    Configs = {}
    InitialConfig <- OneResponse
    InitialTrusted <- OnB
    InitialSigners <- Committee
    InitialThreshold <- TwoOfThree
    MaxEntries <- ToB
    MaxAge = 2
    MaxChanges = 0
    Nodes = {n1, n2}
    Relays = {n1}
    Module = syn
    MaxStops = 2
INVARIANTS
    SignedIsShared
    NothingGivenUp
PROPERTIES
    EventuallyExecuted
    ImplementsInterchain
