CONSTANTS
    c1 = c1
    c2 = c2
    l1 = l1
    l2 = l2
    None = None
    Caller = {c1, c2}
    Library = {l1}
    Plans <- FaultlessCalls
    MaxBridge = 1
    MaxQueue = 2
SPECIFICATION Spec
INVARIANTS NoBridgeDeadlock
