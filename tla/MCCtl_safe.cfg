SPECIFICATION Spec
CONSTANTS
    Threads = {t1, t2, t3}
    MaxThreads = 2
    None = None
SYMMETRY Perms
INVARIANTS
    OneOwner
    ActiveEntryWhole
    
    SweepFinds
CHECK_DEADLOCK FALSE
