\* Four processes, so ID 3 runs the "default" branch of each test case, with
\* clrand offsets 0..1, full fences and test_ao_success.  PROFILER is left
\* out: with four processes it fails (MCCCBenchProfiler4.cfg).
CONSTANTS
  Cores = 4
  Tests <- AllButProfiler
  Reps = 2
  Stride = 2
  CacheLineNum = 5
  Fence = 2
  Flush = FALSE
  AoSuccess = TRUE
  WordMod = 65536
  MaxLoop = 2
SPECIFICATION Spec
INVARIANT TypeOK
 
INVARIANT ProfilerInitializedBeforeUse
INVARIANT ClaimedResultsMeasured
INVARIANT AtomicOutcomes
PROPERTY AllFinish
CHECK_DEADLOCK FALSE
