SPECIFICATION Spec
CONSTANTS
    Addr <- MCAddr
    Sizes <- MCSizes
    PtrSize = 2
    Values <- MCValues
    Plausible <- MCPlausible
    Rings = {r1}
    Window = 2
    Radius = 1
    MinCluster = 2
    MinSize = 1
    GcPeriod = 3
    MaxAge = 2
    MaxEvents = 6
INVARIANTS
    IndexLive
    EdgesFollowFields
    LookupCurrent
    
