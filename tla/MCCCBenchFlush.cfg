\* Every test with test_flush: cache_line never advances, the assertions on
\* test_reps * test_stride are skipped, and each repetition starts with a
\* clflush of the line.  Load and store fences (1).
CONSTANTS
  Cores = 3
  Tests <- AllTests
  Reps = 3
  Stride = 1
  CacheLineNum = 2
  Fence = 1
  Flush = TRUE
  AoSuccess = FALSE
  WordMod = 65536
  MaxLoop = 2
SPECIFICATION Spec
INVARIANT NoOutOfBoundsAccess
INVARIANT ProfilerInitializedBeforeUse
INVARIANT ClaimedResultsMeasured
INVARIANT AtomicOutcomes
PROPERTY AllFinish
CHECK_DEADLOCK FALSE
