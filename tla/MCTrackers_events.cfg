SPECIFICATION MCSpec
CONSTANTS
    Threads = {1, 2}
    Funcs <- MCFuncs
    Types <- MCTypes
    Globals <- MCGlobals
    LibGlobals <- MCLibGlobals
    StackBase <- MCStackBase
    FrameSize = 3
    MaxDepth = 2
    FieldDepth = 1
    FieldCap = 5
    MruSlots = 2
    Keep = 1
    MaxFrames = 2
    Probes = {1, 4, 12}
    PtrValues = {0, 12}
    RegThreads = {1, 2, 3}
    Watched = 1
    Bytes <- MCBytes
    Base = 2
    Word = 2
    LoadSizes = {2}
    StoreSizes = {1, 2, 3}
    LineSize = 4
    ClSlots = 1
    WriterBits = 2
    MaxCount = 2
    MaxCalls = 1
    MaxOps = 4
    Workers = {u1, u2}
    Words = {1, 2, 3, 4}
    BlockSizes = {1, 3}
    WriteSizes = {1, 3}
    Layout <- MCLayout
    StackPtrs = {3}
    StackSpan = 2
    Grace = 2
    HazardCap = 1
    ViolationCap = 1
    MaxSteps = 4
CHECK_DEADLOCK FALSE
SYMMETRY MCSymmetry
INVARIANTS
    IndexConsistent
    LocalsAccurate
    
    HazardsExact
    StabilitySound
