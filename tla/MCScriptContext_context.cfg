CONSTANTS
    a = a
    t = t
    l = l
    m = m
    hd = hd
    None = None
    Native = Native
    Task = {a}
    Trigger = {t}
    Library = {l, m}
    Design <- Designs
    Plans <- Mixed
    LoopKey = {2}
    MaxShots = 2
SPECIFICATION Spec
INVARIANTS
    TypeOK
    VisionOfFrame
    ScopeIsOwn
