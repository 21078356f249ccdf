CONSTANTS
    BitBlt = BitBlt
    PrintWindow = PrintWindow
    AutoMethod = AutoMethod
    None = None
    Method = {BitBlt, PrintWindow}
    Prone = {BitBlt}
    Window <- SomeWindows
    Name = {1, 2}
    Config <- SomeConfigs
    MaxStarts = 2
    MaxFrames = 1
SPECIFICATION FairSpec
INVARIANTS
    TypeOK
    OneSession
    LoopRunsConfig
    FramesCounted
PROPERTIES
    CommandsReturn
    LoopComesToTick
CHECK_DEADLOCK FALSE
