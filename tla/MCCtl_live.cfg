SPECIFICATION FairSpec
CONSTANTS
    Threads = {t1, t2}
    MaxThreads = 2
    None = None
PROPERTY
    EventuallyDiscovered
