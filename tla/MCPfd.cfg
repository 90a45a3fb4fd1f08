\* pfd_store_init with three entries on an XEON build; it returns once the
\* correction is set or the assertion fails, so those states are final.
CONSTANTS
    NumEntries = 3
    Ticks <- CalibrationTicks
    DefaultAvg <- XeonDefault
    Elapsed <- TestTicks
    Divisors <- TestDivisors
    TickBits = 16
SPECIFICATION Spec
INVARIANTS TypeOK ReportedWithinElapsed MinMaxBounds
PROPERTIES CalibrationTerminates
CHECK_DEADLOCK FALSE
