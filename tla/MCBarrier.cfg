CONSTANTS
  Procs <- MCProcs
  Color <- MCColor
  MaxWaits <- MCMaxWaits

SPECIFICATION Spec

INVARIANT TypeOK
PROPERTY NoLostIncrement
PROPERTY RefinesBarrierSpec

\* Every process exits after its last barrier_wait: the final state is the
\* end of the run, and RefinesBarrierSpec checks that every call returns.
CHECK_DEADLOCK FALSE
