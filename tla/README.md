# TLA+ models of ccbench

ccbench measures cache-coherence latencies. `main()` in `src/src/ccbench.c`
forks `test_cores` processes, each pinned to a core. The processes share two
POSIX shared-memory segments:

- the cache-line buffer (`/cache_line`);
- the barrier array (`/barrier_mem`).

The processes run a per-test script of memory operations and barrier
crossings, and time each operation with the `pfd` profiler. This directory
holds the TLA+ modules that model the concurrent core of the program, the
TLC configurations that check them, and `PROJECT.json`. `PROJECT.json` lists
the components, the runs, the mutants, the source lines each definition
models, the findings and the hazards.

## 1. Inventory

### Components, their state and operations

| Component | Source | State | Operations |
|---|---|---|---|
| Barrier | `src/src/barrier.c`, `barrier.h` | per slot: `num_crossing1..3`, `num_participants`, `color` (in shm) | `barriers_init`, `barrier_init`, `barrier_wait`, `barriers_term` |
| Test-case sequencer | `ccbench.c` `main`, `ccbench.h` (`B0..B10`, `moesi_type_t`) | `ID`, `cache_line` (per process), `sum`, `reps`; the shared buffer of `test_cache_line_num` 64-byte lines | setup, repetition loop with `switch (test_test)` then `switch (ID)`, report loop, leader summary |
| Memory operations | `ccbench.c` 1449–1971 | word 0 of the lines touched | `cas*`, `fai`, `tas`, `swap`, `store_0*` (fence variants nf/sf/mf/dw), `load_0*`, `load_next`, `invalidate` |
| Profiler | `src/src/pfd.c`, `pfd.h` | `_pfd_s[2]`, `pfd_store[2][reps]`, `pfd_correction` (per process) | `PFDINIT` (alloc and calibration with retries), `PFDI`/`PFDO`/`PFDOR`, `PFDPN` and `get_abs_deviation` |
| Random offsets | `ccbench.h` `seed_rand`, `xorshf96`, `clrand`, `pow2roundup`; `create_rand_list_cl` | `seeds[3]` (per process) | draw an offset below `test_stride`; build the pointer-chasing list |
| Shared-memory provisioning | `cache_line_open/close`, the shm part of `barriers_init`/`barriers_term` | the segments `/cache_line` and `/barrier_mem` | `shm_open` with `O_EXCL` and then without, `ftruncate` on creation only, `mmap`, `shm_unlink` |
| CLI | `main` getopt loop, `parse_size` | the `test_*` configuration | one case per option, the assertions |
| Process creation | `main` fork loop, the switch on `ID`, `set_cpu` (`ccbench.h`) | `rank`/`ID`, `core` (per process) | `fork` in a loop, `goto fork_done`, pinning, the first `B0` |

### How the components interact

- The leader sets up the barrier array and the buffer (and, for
  LOAD_FROM_MEM_SIZE, its list), then forks the other processes. All
  processes share the barrier array and the buffer, and meet first in `B0`.
- Every test repetition is framed by `B0 ... B3`. Inside it, `B1` and `B2`
  order the roles (ID 0, 1, 2 and "the rest"), so that one process puts a
  line into a coherence state before another one is timed on it.
- Timed operations write `pfd_store[s][reps]`.
- The report loop prints the stores one process at a time. Each process
  prints between `B0` crossings.
- The leader (ID 0) then prints a summary. The summary attributes the
  printed results to roles ("Results from Core 1 : CAS unsuccessfull").

### What is hard

- **Barrier reuse.** The three counters of a slot are reset and incremented
  while other processes still spin on them.
- **Role scripts.** The barrier sequence of every role of every test must
  match, or everyone waits forever.
- **Loop termination.** The `*_eventually` operations loop until the random
  offset is 0.
- **Buffer bounds.** The buffer offsets advance per repetition. Fence levels
  change which code a store runs, and the double write touches the next
  line.
- **Profiler ownership.** The profiler is allocated only for IDs below 3,
  but some tests time other IDs too.
- **Shared segments.** Concurrent runs and crashed runs leave the segments
  behind.
- **Statistics.** Unsigned tick arithmetic and floating-point statistics
  have edges: wrap, zero counts, NaN.

### What makes each component correct

- **Barrier.** The k-th call of a participant returns only after every
  participant has made its k-th call, and every call returns. No counter is
  reset while a process spins on it.
- **Sequencer.**
  - Every process finishes.
  - No access leaves the buffer.
  - No timed region runs without `PFDINIT`.
  - Every result the summary claims is a measurement of this test.
  - The CAS/TAS success rates printed in the summary hold.
- **Profiler.** Calibration ends. Every value the summary takes lies
  within the ticks its operation took. The statistics report the maximum
  of the values, and a minimum no smaller than the smallest value.
- **Options and random offsets.** `parse_size` gives the byte count of
  every size with a unit. Every process gets its own ID. The
  pointer-chasing list is one cycle over the lines of the buffer, and its
  construction ends.
- **Shared memory.** Every byte a run maps is backed by its shm object,
  whether the runs come one after another or at the same time.

## 2. Modules

| Module | Models | State and actions |
|---|---|---|
| `BarrierSpec` | What a barrier slot promises | `arrived[p]`, `waits[p]`. Actions: `Arrive`, `Depart` (once every participant has arrived as often), `Skip` for processes outside the coloring |
| `Barrier` | `barrier_init` and `barrier_wait` on one slot | `num_crossing[1..3]`, `num_participants`, `pc[p] = <<phase, step>>`, `waits[p]`. One action per shared access: `ResetCounter` (the plain store), `Increment` (`FAI_U64`), `SpinExit` (the read that ends the spin); `Enter` and `SkipWait` for the coloring test |
| `CCBench` | `main()` after the fork, the memory operations, the profiler's stores | see below |
| `Pfd` | `pfd_store_init`'s calibration, a test's timings and `get_abs_deviation` (`src/src/pfd.c`, `pfd.h`) | `pc`, `store`, `tries`, `pfd_correction`, `ad`, `entry`, `elapsed`, `divisor`. Actions: `Sample` (the PFDI/PFDO loop), `Recalibrate` (an unstable summary with `tries-- > 0`, the `goto retry`), `SetCorrection` (stable, or the last attempt with the platform fallback, then the assertion), `Measure` (PFDI, then PFDO or PFDOR with the correction), `Report` (PFDPN's summary) |
| `Options` | `main()`'s getopt loop for `-r -s -m -t -f` and the two assertions; `parse_size`; `pow2roundup` | the `test_*` globals as W-bit words. Actions: one per option, `EndOfOptions` |
| `RandCycle` | What `create_rand_list_cl` promises the `load_next` walk: one cycle through every line, built in one step | `n`, `state`, `list`. Actions: `Start`, `Build`, `Die`. `Hop(f, k)` (RECURSIVE) is `load_next`'s pointer chase |
| `RandList` | `create_rand_list_cl` | `n`, `list`, `used`, `idx`, `used_num`. Actions: `Calloc`, `Mark`, `Pick(r)`, `DivideByZero`, `Close` |
| `Launch` | `main()` from the fork loop to the first `B0` | per pid slot `pc`, `rank` (the ID from `fork_done` on), `core`; `reported` (a failure was printed); `crossing` (`num_crossing1` of slot 0). Actions: `Fork` (a child, or a printed failure), `EndLoop` (`rank = 0`), `SetCpu` (the switch on `ID`, `exit(3)`), `Arrive`/`Depart` (the FAI and the spin of `B0`) |
| `Startup` | `Options`, then the leader's `cache_line_open` calling `create_rand_list_cl` for LOAD_FROM_MEM_SIZE, then `Launch` | the three modules' state under INSTANCE. Actions: `GetOpt`, `OpenBuffer`, `BuildList`, `LaunchStep(q)` (once `BufferReady`). Shown to implement `RandCycle` through the mapping `ListState` (`lpc` to idle/building/built/died; the list is visible only once built) |
| `ShmSegment` | `cache_line_open`/`cache_line_close` across successive or concurrent runs that may fail or be killed | per run `pc`, `fd`, `mapped`; the object `name` refers to, object sizes. Actions: `Start`, `OpenExcl`, `Reopen`, `Ftruncate`, `SetupError`, `Mmap`, `Memset`, `Close`, `Crash` |
| `MCBarrier`, `MCCCBench`, `MCPfd`, `MCStartup`, `MCShmSegment` | Constants for TLC | — |

### `Pfd`, `Options`, `RandList`, `ShmSegment`

- **Doubles.** `get_abs_deviation` works in doubles. `Pfd` keeps every
  average as a sum over a count and compares by cross-multiplication: the
  band test `ad <= 0.1*avg` becomes `10*|n*v - S| <= S`, and `std_pp > 3`
  becomes `10000 * Sum (n*v - S)^2 > 9 * n * S^2`. An average of 0 makes
  `std_pp` NaN, and `NaN > 3` is false (`Unstable`). The min/max update is
  the code's `if ... else if` (`MinMaxStep`).
- **Words.** `Options` works at W bits (8 in the run, 32 in the code). It
  uses `Bitwise` for `pow2roundup`'s shifts, and `% 2^W` where a `uint32_t`
  product or conversion wraps.
- **Ticks.** `ticks` is `uint64_t`. `Pfd` keeps ticks at `TickBits` = 16
  bits (`TickMod`), and reads them as `int64_t` (`Signed`) where the clamp
  casts. A difference below the correction wraps as in the code. The code
  clamps it through the sign for PFDO, and through `PFD_VAL_UP_LIMIT` after
  PFDOR's division. 2^15 exceeds 1500 times every divisor in the run, so
  the two cases fall on the same sides as at 64 bits.
- **`parse_size`.** An `-m` argument is a record: the value `atoi` reads
  from its leading digits, and the characters after them. `ParseSize`
  cuts a trailing `b`/`B`, then takes the unit from the last character
  left. The code writes a NUL over each cut character, and `atoi` stops at
  the first letter anyway, so the result is the unit times the digits.
  With no character left (`-m b`), the code reads the byte before
  `optarg`. Whatever that byte holds, the result is 0, which is what the
  model gives.
- **The random generator.** `xorshf96` is not modelled. Every draw
  `my_random() % n` may be any residue. Drawing a used line is the
  do-while retry and changes nothing, so it is a stutter.
- **n = 0.** `calloc(0)` may return NULL or not, so `Calloc` chooses. `n - 1`
  wraps to `SIZE_MAX`, and `% 0` is `DivideByZero` (SIGFPE).
- **Shm objects.** An shm object is a number. Sizes are counted in pages,
  rounded up: the kernel raises SIGBUS only for a page wholly past the
  end of the object, so a buffer of two lines in an object of one line
  would not fault. `FtruncateMayFail` says whether `ftruncate` may fail
  (and exit(1), leaving a zero-length object behind); shm_stale_larger
  sets it FALSE so that its trace is the killed run alone. `name` is the object that
  `/cache_line` names. `Memset` raises SIGSEGV through `MAP_FAILED` (the
  code compares with NULL), and SIGBUS past the end of the object.


### `CCBench` in detail

**Programs.** Each process runs a fixed program: a sequence of
instructions, built by `Program(t, id)` from the source's switch statements.

- `Setup`: `B0`, then `PFDINIT` if ID < 3, then `B0`.
- `Repeat`: `test_reps` copies of `RepBody`, each tagged with its repetition
  number. `RepBody` is the optional flush, `B0`, `Script(t, id)`, then `B3`.
- `ReportLoop`: the report loop, then `B10`, then the final `B0`.
- `FinalRead`: for ID < 3, the read of `cache_line->word[0]` that main
  prints after the final `B0`. It goes through the `cache_line` that the
  advancing tests moved `test_reps` times by `test_stride`.

`Script` follows `switch (test_test)` and `switch (ID)` case by case. The
helpers `Roles`, `AfterB1` and `OnShared` name the role shapes that the
cases share.

**State.**

| Variable | Meaning |
|---|---|
| `pc[p]` | Index of the next instruction of process p |
| `cache_line[p]` | Line offset of the `cache_line` pointer |
| `inB`, `bdone` | Barrier calls in progress and returned, per slot |
| `word[l]` | Word 0 of line l, including lines past the buffer, so that an overrun is observable |
| `pfdInit`, `pfd_store[p][s][e]` | Whether each entry holds nothing, a calibration value or a measurement |
| `success[p][r]` | The CAS/TAS result of repetition r |
| `fault[p]` | `"oob"` (access outside the mapped buffer) or `"null_pfd"` (PFDI without PFDINIT) |
| `iters[p]` | Iterations of the current random-offset loop |

**Actions.**

- `BarrierArrive` and `BarrierDepart`: a barrier crossing, with
  `BarrierSpec` semantics.
- `LocalStep`: `cache_line += test_stride`, and `PFDPN`.
- `PfdInit`.
- `MemAccess(p, cln)`: one iteration of an operation from `PFDI` to `PFDO`,
  at offset `cln` drawn by `clrand()`. It models, in the order the code does
  them:
  - the fence-level-9 no-op of `store_0`/`store_0_eventually_pfd1`;
  - the NULL `_pfd_s` fault;
  - the bounds check;
  - the write (`NewWord`, `Touched` for the double write);
  - the `PFDO` entry;
  - the returned success, on the last iteration.

**The barrier as an atomic rendezvous.** CCBench uses `BarrierSpec`'s
rendezvous for its barriers. The `Barrier` run checks that `barrier_wait`
implements it (`RefinesBarrierSpec`). So the composition relies only on a
checked abstraction.

**Memory model.** Memory is sequentially consistent, in both models:

- the barrier's FAI is a locked instruction;
- its spin loop runs `mfence` on every iteration;
- the test scripts only read word 0 between barriers.

Coherence states themselves are hardware and are not modelled.

## 3. Runs

| Run | cfg | Expect | Bounds | What it shows |
|---|---|---|---|---|
| barrier | `MCBarrier.cfg` | pass | 4 processes (one with color 0), 3 calls each | No reset under a spinner (`NoLostIncrement`); the slot refines `BarrierSpec` including liveness. 2788 states |
| sequencer4 | `MCCCBench4.cfg` | pass | all tests but PROFILER, 4 processes, reps 2, stride 2, 5 lines (reps·stride = lines - 1), fence 2, ao_success | All six CCBench properties, with a default-role process, random offsets and the final read. 119692 states |
| sequencer_flush | `MCCCBenchFlush.cfg` | pass | all 34 tests, flush, 3 processes, reps 3 on 2 lines, fence 1 | The same (but `TypeOK`), when the assertions are skipped. 28017 states |
| fai_on_invalid_oob | `MCCCBenchFaiInvalid.cfg` | violation | FAI_ON_INVALID, reps 3, 2 lines | `NoOutOfBoundsAccess` fails: the test is missing from the assertion |
| profiler_four_cores | `MCCCBenchProfiler4.cfg` | violation | PROFILER, 4 processes | `ProfilerInitializedBeforeUse` fails for ID 3 |
| double_write_claims | `MCCCBenchDoubleWrite.cfg` | violation | store tests, fence 9 | `ClaimedResultsMeasured` fails: `store_0` is a no-op at `test_sfence` 3 |
| pfd_calibration | `MCPfd.cfg` | pass | 3 entries; samples of 20, 22, 40 or 1600 ticks; XEON fallback 20; test operations of 18 or 60 ticks, PFDO or PFDOR over 4 lines | `CalibrationTerminates`, `ReportedWithinElapsed` (a wrapped difference never reaches the summary), `MinMaxBounds` (the maximum exact, the minimum never undercut). 30790 states, about a minute |
| startup | `MCStartup.cfg` | pass | W = 8; `-r` 1 or 3, `-s` 0 or 3, `-m` 0, 2 or 5 lines, `-t` 0, 2 or 27, `-f`; defaults scaled (below) | `ParseSizeUnits` (`parse_size` against the byte counts of `0`/`1` with every unit and `b` suffix), `RefinesRandCycle` (the list build implements `RandCycle`, liveness included), `UniqueIds`, `LaunchCompletes` (three processes forked and pinned: distinct IDs; every created process passes the first `B0` unless a failure was printed). 93754 states |
| startup_small_mem | `MCStartupSmallMem.cfg` | violation | `-t 27 -m 32` | `ListBuilt` fails: n = 0 reaches `create_rand_list_cl` |
| shm_successive | `MCShmSegment.cfg` | pass | 3 successive runs of 1, 2, 2 pages; a kill at any step; open, ftruncate and mmap may fail | `SigbusOnlyOnLeftover`. 593 states |
| shm_stale_larger | `MCShmStale.cfg` | violation | ftruncate never fails; a run of 1 page killed in its tests, then a run of 2 pages | `BufferBacked` fails: the reused object is never truncated |
| shm_concurrent | `MCShmConcurrent.cfg` | violation | 2 runs of 1 page started together, none killed, ftruncate never fails | `SigbusOnlyOnLeftover` fails: a run reopens the other's object before its `ftruncate` and dies of SIGBUS in 7 steps |

**Why these bounds are enough.**

- Three processes fill every named role (IDs 0, 1, 2). A fourth exercises
  "the rest".
- Two repetitions make each barrier slot reused, and give CAS both parities
  of `reps & 1`.
- Stride 2 makes the `*_eventually` loops touch a second line before line
  0. `MaxLoop = 2` bounds how often one call may draw a non-zero offset.
- Lines = reps·stride + 1 keeps the last repetition's offsets (up to
  reps·stride) inside the buffer, and the last line is touched. At
  lines = reps·stride, which the assertion also admits, TLC finds
  `NoOutOfBoundsAccess` violated by the final read (STORE_ON_INVALID,
  ID 1, line 4 of 4): the code reads one line past the buffer there. That
  edge is recorded as the hazard at `ccbench.c:1441`; no run is given to it.
- `WordMod = 2^16` stands for 2^32, which TLC's integers cannot hold. The
  values stored are small, and the all-ones word keeps its low byte 255.
- **Pfd.** Three samples from four tick values give stable, unstable and
  all-clamped stores. 1600 lies above `PFD_VAL_UP_LIMIT`. Eleven attempts
  reach the fallback. An operation of 18 ticks falls below every correction
  of at least 20, so its difference wraps, and one of 60 does not.
- **Startup.** The defaults are scaled so that their relations match the
  code's: with `DEFAULT_STRIDE = 2048`, `DEFAULT_REPS = 10000` and 2^20
  lines, the stride fits the buffer but the product does not. The model
  uses stride 2, reps 4 and 4 lines. The option values stay below the word
  wrap; the wrap itself is described under the hazards of
  `ccbench.h:334` and `ccbench.c:250`. Buffers of 0, 2 and 5 lines cover
  n = 0, the smallest list and lists with retries. The list grows
  factorially, so larger buffers add nothing new. Three processes on four
  CPUs make each fork succeed or fail and give IDs 0..2. A fourth process
  (the `ID - test_core_others` arm) multiplies the states by ten: 987k
  states, close to three minutes.
- **ShmSegment.** Three runs show an object left behind and then reused
  twice. The sizes 1, 2, 2 pages cover both a larger and an equal reuse. Two
  concurrent runs are enough for both races of the shared name: the
  reopen before `ftruncate`, and the unlink between the two opens.

**Deadlock.** `CHECK_DEADLOCK FALSE` is used in every passing run, because
each models something that ends:

- the processes exit when their program ends;
- `pfd_store_init` returns;
- start-up goes on to the tests, aborts, or hangs in the first `B0` after a
  printed failure;
- every ccbench run ends.

That termination is checked where it is not immediate: `AllFinish`,
`RefinesBarrierSpec`, `CalibrationTerminates`, `RefinesRandCycle` (whose `WF` says a started build ends), `LaunchCompletes`.

**Mutants.** Every property of a passing run has a mutant in `PROJECT.json`:
a plausible bug in a mapped definition that TLC shows breaks it.

| Property | Mutant |
|---|---|
| `TypeOK` (CCBench, sequencer4) | calibration loop off by one |
| `NoOutOfBoundsAccess` | the repetition loop to `rep <= test_reps`; the `!test_flush` guard dropped |
| `ProfilerInitializedBeforeUse` | `PFDINIT` for ID < 2 |
| `ClaimedResultsMeasured` | `PFDI(0)` in the pfd1 store |
| `AtomicOutcomes` | CAS writing `o` back |
| `AllFinish` | the report loop's `B0` inside the `if` |
| Barrier `TypeOK` | a reset dropped |
| `NoLostIncrement` | the own counter reset |
| `RefinesBarrierSpec` | participants counted from 1 |
| Pfd `TypeOK` | `tries-- >= 0` |
| `CalibrationTerminates` | `tries` never decremented |
| `ReportedWithinElapsed` | the clamp without its `PFD_VAL_UP_LIMIT` test |
| `MinMaxBounds` | the minimum tested first, the maximum in the `else` |
| Startup `TypeOK` | `-s` without `pow2roundup` |
| `ParseSizeUnits` | the unit read before a trailing `b` is cut |
| `RefinesRandCycle` | the do-while over used lines dropped (a line linked twice); `while (used_num < n)` also breaks it |
| `UniqueIds` | the child without `goto fork_done`, running on in the loop |
| `LaunchCompletes` | the fork loop to `rank < test_cores - 1` |
| ShmSegment `TypeOK` | `ftruncate` to the line count where pages are counted |
| `SigbusOnlyOnLeftover` | `ftruncate` one page short |

## 4. Fairness

**Barrier and CCBench.** Every action of every process is weakly fair. Each
process is pinned to its own core (`set_cpu`), never blocks, and busy-spins
in `barrier_wait`. So a step that stays enabled is eventually taken.

**Random-offset loops.** The iteration that draws offset 0 is always
possible next. It is weakly fair because `xorshf96` has full period, so
every residue of the mask recurs. This is `WF_vars(MemAccess(p, 0))`.

**Pfd.** `WF_vars(Next)`. `pfd_store_init` is straight-line code in one
process.

**RandList and Startup.** `WF` of the list's steps. A draw of a free line
stays possible, and the full-period generator reaches it. Option parsing
has no fairness: its end is `getopt` returning -1, which the model may or
may not reach. `RandCycle` has `WF` of `Build \/ Die`: a build, once
started, ends in a cycle or in the process's death. `RefinesRandCycle`
checks that the list's fairness gives that. Each process of `Launch` has
`WF` of its steps. The OS schedules a process until it is pinned, and then
it runs alone on its core. A `fork` that fails is still a step, so
fairness does not force it to succeed.

**ShmSegment.** No fairness. Only safety is checked.

## 5. Findings

See `PROJECT.json` "findings". All six are code bugs reached by legal
configurations:

- **FAI_ON_INVALID** advances the buffer offset without the size assertion.
- **PROFILER with four or more processes** dereferences the NULL profiler in
  ID 3.
- **Fence level 9** makes `store_0` and `store_0_eventually_pfd1` no-ops.
  The summary then reports calibration values or unwritten memory as store
  latencies.
- **`-t 27 -m 32`**: LOAD_FROM_MEM_SIZE is exempt from the stride
  assertion. A buffer below 64 bytes reaches `create_rand_list_cl` with
  n = 0, which dies of SIGFPE or of the assertion on `calloc(0)`. The help
  text says `-m` is in cache lines, but `parse_size` reads bytes.
- **A killed run leaves `/cache_line` behind.** The next run with a larger
  buffer (two pages over one) reopens it, skips `ftruncate`, and dies of
  SIGBUS in `memset` on the page past the object's end.
- **Two runs started together.** The second run's `O_EXCL` open fails, and
  it reopens the name without `ftruncate`. If the reopen comes before the
  first run's `ftruncate`, its `memset` faults on a zero-length object,
  and no run has crashed. If the first run unlinks the name in between,
  the reopen creates a fresh object that nobody truncates.
  `barriers_init` opens `/barrier_mem` the same way.

`get_abs_deviation` updates the minimum only when the value is not a new
maximum, so increasing input (or a single value) reports DBL_MAX as the
minimum. spec.md section 9 already records this `else if` as an open
question, so it is not listed as a finding. `MinMaxBounds` checks what
must hold around it: `max_val` is exact, and `min_val` is never below the
smallest value.

**Other hazards TLC reaches, with no run of their own.** These are listed
in `PROJECT.json` "hazards" with a note each:

- the final read of `cache_line->word[0]`, and the double write at
  fence 9, one line past the buffer at reps·stride = lines;
- `pow2roundup` returning 0;
- the `uint32_t` product wrapping;
- the `MAP_FAILED`-vs-NULL check;
- a second run's `barrier_init` resetting the counters the first run spins on;
- a calibration whose samples were all clamped, which fails
  `assert(pfd_correction > 0)`.
- `-m b`: `parse_size` reads (for `-m mb`, also writes) the byte before
  `optarg`, and the size is 0 (`ParseSizeUnits` checks the 0).

## 6. Not modelled

- **`xorshf96`, `seed_rand` and the tick counter.** Their 64-bit states
  cannot be enumerated, so every draw and every tick count is left free
  within the bounds.
- **The tick values inside CCBench.** CCBench records which entry a
  measurement writes, not its value. `Pfd` has the arithmetic of PFDO and
  PFDOR, for one process.
- **The band averages and the printing of the summary.** They are output
  only.
- **`barriers_init`/`barriers_term` on `/barrier_mem`.** They repeat the
  `/cache_line` pattern with a fixed size, and are not instantiated
  separately. shm_concurrent shows the race on `/cache_line`. A second
  run's `barrier_init` calls also reset the slots the first run's
  processes spin on. `Barrier` models one run's processes, so that reset
  is not modelled.
- **The options other than `-r -s -m -t -f`, `atoi`'s digit scanning,
  the range of `-t` (an out-of-range `-t` indexes `moesi_type_des` only to
  print it), the fences.** These are input conversion and OS calls.
  CCBench takes their values as constants.
- **The NIAGARA and TILERA placements.** They belong to other builds.
  Under the default placement, the startup run never takes `set_cpu`'s
  `exit(3)` branch.
