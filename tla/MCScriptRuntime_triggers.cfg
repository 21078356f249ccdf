CONSTANTS
    a = a
    t = t
    l = l
    c1 = c1
    c2 = c2
    NoScript = NoScript
    NoEntry = NoEntry
    NoCaller = NoCaller
    Script <- HookScripts
    Kind <- HookKind
    Caller = {c1, c2}
    FlowCaller = {c1, c2}
    Api = {"enable", "disable", "tick", "library", "start", "load", "reload", "shutdown"}
SPECIFICATION Spec
SYMMETRY Callers
INVARIANTS
    TypeOK
    HookUnderLock
    NeverLost
