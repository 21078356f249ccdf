CONSTANTS
    a = a
    t = t
    l = l
    m = m
    hd = hd
    None = None
    Native = Native
    Task = {a}
    Trigger = {t}
    Library = {l, m}
    Design <- Designs
    Plans <- Storing
    LoopKey = {2}
    MaxShots = 0
SPECIFICATION Spec
INVARIANTS StoredAtHome
