\* Two runs of the same size started together; none is killed and mmap
\* succeeds, so no run leaves an object behind.
CONSTANTS
    Size <- Together
    Concurrent = TRUE
    MmapMayFail = FALSE
    FtruncateMayFail = FALSE
    CrashAt <- Never
SPECIFICATION Spec
INVARIANT SigbusOnlyOnLeftover
CHECK_DEADLOCK FALSE
