\* FAI_ON_INVALID advances cache_line by test_stride in every repetition
\* but is not among the tests whose test_reps * test_stride main() checks.
CONSTANTS
  Cores = 3
  Tests <- FaiOnInvalid
  Reps = 3
  Stride = 1
  CacheLineNum = 2
  Fence = 0
  Flush = FALSE
  AoSuccess = FALSE
  WordMod = 65536
  MaxLoop = 2
SPECIFICATION Spec
INVARIANT NoOutOfBoundsAccess
CHECK_DEADLOCK FALSE
