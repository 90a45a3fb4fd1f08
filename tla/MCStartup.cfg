\* main()'s options at 8-bit words, then the leader's list for
\* LOAD_FROM_MEM_SIZE, then three processes forked and pinned up to the first
\* B0; start-up ends in the tests, an abort or a hang, so the final states
\* are deadlocks.
CONSTANTS
    Cores = 3
    Core1 = 0
    Core2 = 1
    Core3 = 2
    CoreOthers = 0
    Cpus <- MCCpus
    MaxProcs = 3
    W = 8
    DefaultReps <- Reps4
    DefaultStride <- Stride2
    DefaultMemSize <- Mem4Lines
    RepArgs <- SomeReps
    StrideArgs <- SomeStrides
    MemArgs <- SomeMems
    TestArgs <- SomeTests
SPECIFICATION Spec
INVARIANTS TypeOK ParseSizeUnits UniqueIds
PROPERTIES RefinesRandCycle LaunchCompletes
CHECK_DEADLOCK FALSE
