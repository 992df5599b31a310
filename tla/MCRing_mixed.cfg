SPECIFICATION Spec
CONSTANTS
    Capacity = 4
    FlushPeriod = 2
    BatchLimit = 3
    SnapSlots = 3
    WideSlots = 2
    RdBufCap = 1
    MaxOps = 4
    Ops <- JointOps
    Tripwire = FALSE
INVARIANTS
    Accounting
    Conservation
    RetiredFinal
    GapsExplained
PROPERTIES
    DeliveredIntact
    ImplementsChannel
