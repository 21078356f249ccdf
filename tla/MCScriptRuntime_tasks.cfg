CONSTANTS
    a = a
    t = t
    l = l
    c1 = c1
    c2 = c2
    NoScript = NoScript
    NoEntry = NoEntry
    NoCaller = NoCaller
    Script <- TaskScripts
    Kind <- TaskKind
    Caller = {c1, c2}
    FlowCaller = {}
    Api = {"start", "stop", "disable", "reload", "load"}
SPECIFICATION FairSpec
INVARIANTS
    OneTaskUnlessStopped
    SlotOwned
PROPERTIES
    StopSticks
    CallsReturn
    CancelledTaskEnds
