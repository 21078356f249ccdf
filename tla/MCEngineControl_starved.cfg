CONSTANTS
    c1 = c1
    c2 = c2
    c3 = c3
    None = None
    Client = {c1, c2, c3}
    Hotkey = {c1, c2, c3}
    Api <- HotkeyCalls
    MaxRuns = 1
    Retries = 0
SPECIFICATION FairSpec
PROPERTIES EmergencyStopActs
