SPECIFICATION FairSpec
CONSTANTS
    Threads = 2
    Script <- Mixed
    SnapSlots = 2
    PerRing = 2
    Budget = 1
    IdleLimit = 1
    MinEvents = 1
    WarmAfter = 1
    Retries = 1
    Deadline = 1
    ReplayBatch = 2
INVARIANTS SweepComplete RecordingReplays CleanupFinal
PROPERTIES ChildrenServed EndsWithTracer
