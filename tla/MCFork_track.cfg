SPECIFICATION FairSpec
CONSTANTS
    Root = r
    Pids = {c1, c2}
    RingCap = 1
    Limit = 1
    TTL = 1
    EmptyLimit = 2
    NsSpace = 2
INVARIANTS
    TrackerConsistent
    AliasExplained
PROPERTIES
    ForgetsTheRightOne
    EventuallyAttached
    EventuallyDropped
