\* PROFILER (and any unknown test) with four processes: ID 3 takes the
\* default branch, PFDI/PFDO, but only IDs below 3 ran PFDINIT.
CONSTANTS
  Cores = 4
  Tests <- Profiler
  Reps = 2
  Stride = 1
  CacheLineNum = 2
  Fence = 0
  Flush = FALSE
  AoSuccess = FALSE
  WordMod = 65536
  MaxLoop = 2
SPECIFICATION Spec
INVARIANT ProfilerInitializedBeforeUse
CHECK_DEADLOCK FALSE
