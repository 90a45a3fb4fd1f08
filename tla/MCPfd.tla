------------------------------- MODULE MCPfd -------------------------------
EXTENDS Pfd

\* XEON/XEON2 set ad.avg = 20 after the last unstable attempt.
XeonDefault == 20
\* Back-to-back PFDI/PFDO pairs: usual overheads and one sample interrupted
\* past the PFD_VAL_UP_LIMIT ceiling.
CalibrationTicks == {20, 22, 40, 1600}
\* Two close overheads, so a store may hold them in increasing order.
MinMaxTicks == {18, 20}
\* Timed operations shorter and longer than the calibrated overhead.
TestTicks == {18, 60}
\* PFDO, and PFDOR over a 4-line walk.
TestDivisors == {1, 4}
=============================================================================
