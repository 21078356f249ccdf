CONSTANTS
    c1 = c1
    k1 = k1
    None = None
    Engine = Engine
    Caller = {c1}
    Key = {k1}
    Op = {"swipe"}
    Configs <- SomeConfigs
    MaxPipes = 1
    Capacity = 1
    Threshold = 2
SPECIFICATION Spec
INVARIANTS
    SwipeReleases
