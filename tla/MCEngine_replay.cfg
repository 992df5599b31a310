SPECIFICATION Spec
CONSTANTS
    Threads = 1
    Script <- Snaps
    SnapSlots = 2
    PerRing = 2
    Budget = 1
    IdleLimit = 1
    MinEvents = 1
    WarmAfter = 1
    Retries = 1
    Deadline = 1
    ReplayBatch = 3
INVARIANT ReplayReconstructs
