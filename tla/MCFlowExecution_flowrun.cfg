CONSTANTS
    a = a
    b = b
    c = c
    f = f
    g = g
    one = one
    null = null
    None = None
    Over = Over
    Null = null
    StepId = {a, b, c}
    FlowId = {f, g}
    Value = {null, one}
    Work <- SomeWork
    Doc <- SomeDocs
    MaxFiles = 2
    MaxDepth = 3
SPECIFICATION FairSpec
INVARIANTS
    TypeOK
    KeptFlowsAcyclic
    CyclesAreReal
    NoStepTwice
PROPERTIES
    RunEnds
    StoppedRunEnds
