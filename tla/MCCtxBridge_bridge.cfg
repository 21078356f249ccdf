CONSTANTS
    c1 = c1
    c2 = c2
    l1 = l1
    l2 = l2
    None = None
    Caller = {c1, c2}
    Library = {l1}
    Plans <- CallsAndJobs
    MaxBridge = 2
    MaxQueue = 1
SPECIFICATION FairSpec
INVARIANTS
    TypeOK
    WaitsForOneRequest
    JobsHaveTasks
PROPERTIES
    ScriptCallsReturn
    JobSettles
CHECK_DEADLOCK FALSE
