CONSTANTS
    c1 = c1
    k1 = k1
    None = None
    Engine = Engine
    Caller = {c1}
    Key = {k1}
    Op = {"down", "tap"}
    Configs <- SomeConfigs
    MaxPipes = 2
    Capacity = 1
    Threshold = 2
SPECIFICATION FairSpec
INVARIANTS
    TypeOK
    KeysAsAsked
    SentKeysOwned
    FallbackEarned
    OncePerBackend
PROPERTIES
    Serial
    InputsReturn
