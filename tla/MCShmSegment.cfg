\* Three successive runs with buffers of 1, 2 and 2 pages, any of which may
\* fail, be killed after it opened the name, or have mmap fail; every run
\* ends, so the final states are deadlocks.
CONSTANTS
    Size <- Successive
    Concurrent = FALSE
    MmapMayFail = TRUE
    FtruncateMayFail = TRUE
    CrashAt <- Anywhere
SPECIFICATION Spec
INVARIANTS TypeOK SigbusOnlyOnLeftover
CHECK_DEADLOCK FALSE
