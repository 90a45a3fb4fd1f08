----------------------------- MODULE MCStartup -----------------------------
EXTENDS Startup

\* Defaults scaled to 8-bit words so that, as with DEFAULT_REPS = 10000,
\* DEFAULT_STRIDE = 2048 and CACHE_LINE_NUM = 2^20, the stride fits the
\* buffer and the product test_reps * test_stride does not.
Reps4 == 4
Stride2 == 2
Mem4Lines == 4 * 64
\* Options below the word wrap, and buffers of 0 ("-m b"), 2 and 5 lines,
\* which keep the list small.
SomeReps == {1, 3}
SomeStrides == {0, 3}
SomeMems == {[digits |-> 0, chars |-> <<"b">>], [digits |-> 2 * 64, chars |-> <<>>],
             [digits |-> 5 * 64, chars |-> <<"B">>]}
\* Test 0, STORE_ON_EXCLUSIVE (2) and LOAD_FROM_MEM_SIZE (27).
SomeTests == {0, 2, 27}
\* -t 27 -m 32: the help text of -m says cache lines, parse_size reads bytes.
MemSize32 == {[digits |-> 32, chars |-> <<>>]}
MemSizeTest == {27}
\* Three processes with the default placement, IDs 0..2 on test_core1..3,
\* on a machine with four CPUs.
MCCpus == 0..3
=============================================================================
