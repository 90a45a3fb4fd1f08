\* Fence 9 ("double write", test_sfence = 3): store_0 and
\* store_0_eventually_pfd1 have no branch for it and do nothing.
CONSTANTS
  Cores = 3
  Tests <- StoreTests
  Reps = 2
  Stride = 1
  CacheLineNum = 2
  Fence = 9
  Flush = FALSE
  AoSuccess = FALSE
  WordMod = 65536
  MaxLoop = 2
SPECIFICATION Spec
INVARIANT ClaimedResultsMeasured
CHECK_DEADLOCK FALSE
