\* LOAD_FROM_MEM_SIZE with -m 32.
CONSTANTS
    Cores = 3
    Core1 = 0
    Core2 = 1
    Core3 = 2
    CoreOthers = 0
    Cpus <- MCCpus
    MaxProcs = 3
    W = 8
    DefaultReps <- Reps4
    DefaultStride <- Stride2
    DefaultMemSize <- Mem4Lines
    RepArgs <- SomeReps
    StrideArgs <- SomeStrides
    MemArgs <- MemSize32
    TestArgs <- MemSizeTest
SPECIFICATION Spec
INVARIANT ListBuilt
CHECK_DEADLOCK FALSE
