\* A run with a 1-page buffer killed during its tests, then a run with a
\* 2-page buffer; shm_open and ftruncate succeed.
CONSTANTS
    Size <- Growing
    Concurrent = FALSE
    MmapMayFail = FALSE
    FtruncateMayFail = FALSE
    CrashAt <- InTests
SPECIFICATION Spec
INVARIANT BufferBacked
CHECK_DEADLOCK FALSE
