CONSTANTS
    c1 = c1
    c2 = c2
    c3 = c3
    None = None
    Client = {c1, c2}
    Hotkey = {c1}
    Api <- FlowCalls
    MaxRuns = 2
    Retries = 1
SPECIFICATION ReturnSpec
INVARIANTS
    TypeOK
    LiveRunIsStored
    RunningIsLive
PROPERTIES
    CancelledRunEnds
    CallsReturn
