SPECIFICATION Spec
CONSTANTS
    Node = Node
    Table = Table
    Blob = Blob
    head = head
    tab = tab
    Addr <- MCAddr
    Types <- MCTypes
    TypeSize <- MCTypeSize
    Fields <- MCFields
    Truncated <- MCTruncated
    Globals <- MCGlobals
    Pointee <- MCPointee
    Sizes <- MCSizes
    Oracle <- MCOracle
    NoType = NoType
    JitSeqs = {w1, w2}
    CallSeqs = {c1, c2}
    NoSeq = NoSeq
    DeferredCap = 2
    MaxPasses = 2
    Fuel = 2
    ProcMem = FALSE
    Reachable <- MCReachable
    MaxEvents = 3
SYMMETRY MCSymmetry
PROPERTY
    ShallowUpgraded
CHECK_DEADLOCK FALSE
