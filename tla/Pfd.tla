-------------------------------- MODULE Pfd --------------------------------
(***************************************************************************)
(* The profiler's calibration, pfd_store_init (src/pfd.c), and the        *)
(* statistics get_abs_deviation computes over a store.                     *)
(*                                                                         *)
(* pfd_store_init sets pfd_correction to 0, fills store 0 with             *)
(* num_entries back-to-back PFDI/PFDO pairs, summarizes it and, while the  *)
(* standard deviation exceeds 3% of the average, retries (at most 10       *)
(* times).  After the last unstable attempt it falls back to a per-platform*)
(* constant; it then truncates the average to ticks and asserts that it is *)
(* positive.  get_abs_deviation clamps negative or too large values to 0   *)
(* in place, so the store after a summary holds the clamped values.        *)
(*                                                                         *)
(* After the calibration a test fills the store: PFDI reads the tick       *)
(* counter, PFDO stores the ticks since then minus pfd_correction, PFDOR   *)
(* that difference divided by the loop's do_reps, all in unsigned 64-bit   *)
(* ticks; PFDPN then summarizes the store with get_abs_deviation.  Ticks   *)
(* are kept at TickBits bits: the wrap of a difference below the           *)
(* correction and the signed reading of the clamp are those of the code as *)
(* long as 2^(TickBits-1) exceeds PFD_VAL_UP_LIMIT times every divisor.    *)
(*                                                                         *)
(* Averages and deviations are doubles in the code; the model keeps them   *)
(* exact as sums over num_vals and compares by cross-multiplication, so    *)
(* e.g. "ad <= 0.1 * avg" with avg = S/n becomes 10 * |n*v - S| <= S.      *)
(* Rounding of the doubles is not modelled.                                *)
(***************************************************************************)
EXTENDS Integers, Sequences, SequencesExt

CONSTANTS
    NumEntries,   \* num_entries: the test_reps given to PFDINIT
    Ticks,        \* tick counts one empty PFDI/PFDO pair can measure
    DefaultAvg,   \* the platform's fallback ad.avg, 0 where none is provided
    Elapsed,      \* tick counts a timed operation of a test can take
    Divisors,     \* 1 for PFDO; do_reps (test_cache_line_num) for PFDOR
    TickBits      \* the width ticks are kept at

ASSUME /\ NumEntries \in Nat \ {0} /\ Ticks \subseteq Nat /\ DefaultAvg \in Nat
       /\ Elapsed \subseteq Nat /\ Divisors \subseteq Nat \ {0} /\ TickBits \in Nat

PFD_VAL_UP_LIMIT == 1500
PFD_CORRECTION_CONF == 3
\* Stands for DBL_MAX: larger than every value that survives the clamp.
DBL_MAX == 2 * PFD_VAL_UP_LIMIT

VARIABLES
    pc,              \* "retry", "eval", "done", "assert_fail", "measure", "reported"
    store,           \* pfd_store[0][0 .. num_entries-1]
    tries,           \* int32_t tries
    pfd_correction,
    ad,              \* the last abs_deviation_t computed
    entry,           \* the entry the test times next
    elapsed,         \* elapsed[i]: the ticks that passed while entry i was timed
    divisor          \* the divisor of the test's timing macro

measureVars == <<entry, elapsed, divisor>>
vars == <<pc, store, tries, pfd_correction, ad, entry, elapsed, divisor>>

Entries == 1..NumEntries

\* ticks arithmetic: unsigned TickBits-bit values, and (int64_t) of one.
TickMod(x) == x % (2^TickBits)
Signed(x)  == IF x >= 2^(TickBits - 1) THEN x - 2^TickBits ELSE x

(***************************************************************************)
(* get_abs_deviation, first loop: the clamp and the sum.                   *)
(***************************************************************************)
\* Mutant: the upper limit dropped, only negative values are clamped.
MutantClamp(vals) ==
    [i \in DOMAIN vals |-> IF Signed(vals[i]) < 0 THEN 0 ELSE vals[i]]

Clamp(vals) ==
    [i \in DOMAIN vals |->
        IF Signed(vals[i]) < 0 \/ vals[i] > PFD_VAL_UP_LIMIT THEN 0 ELSE vals[i]]

SumOf(vals) == FoldLeft(+, 0, vals)

\* |v - avg| against fraction num/den of avg, with avg = s / n.
Within(v, s, n, num, den) ==
    LET d == IF n * v >= s THEN n * v - s ELSE s - n * v
    IN  den * d <= num * s

\* The first band whose threshold |v - avg| does not exceed (else-if chain).
Band(v, s, n) ==
    CASE Within(v, s, n, 1, 10) -> "10p"
      [] Within(v, s, n, 1, 4)  -> "25p"
      [] Within(v, s, n, 1, 2)  -> "50p"
      [] Within(v, s, n, 3, 4)  -> "75p"
      [] OTHER                  -> "rst"

Bands == {"10p", "25p", "50p", "75p", "rst"}

\* Mutant: the minimum tested first, the maximum only in the else.
MutantMinMaxStep(acc, v) ==
    IF v < acc.min_val THEN [acc EXCEPT !.min_val = v]
    ELSE IF v > acc.max_val THEN [acc EXCEPT !.max_val = v]
    ELSE acc

\* One iteration of the second loop's max/min update: min only in the else.
MinMaxStep(acc, v) ==
    IF v > acc.max_val THEN [acc EXCEPT !.max_val = v]
    ELSE IF v < acc.min_val THEN [acc EXCEPT !.min_val = v]
    ELSE acc

(***************************************************************************)
(* The fields of abs_deviation_t the calibration and the report use: the   *)
(* count, the sum behind avg, min and max, the band counts and sums, and   *)
(* n^3 * std_dev^2 = Sum (n*v - S)^2 behind std_dev.                       *)
(***************************************************************************)
AbsDeviation(vals) ==
    LET n  == Len(vals)
        s  == SumOf(vals)
        mm == FoldLeft(MinMaxStep, [max_val |-> 0, min_val |-> DBL_MAX], vals)
        InBand(b) == SelectSeq(vals, LAMBDA v : Band(v, s, n) = b)
    IN  [num_vals |-> n,
         sum      |-> s,
         max_val  |-> mm.max_val,
         min_val  |-> mm.min_val,
         num_dev  |-> [b \in Bands |-> Len(InBand(b))],
         sum_dev  |-> [b \in Bands |-> SumOf(InBand(b))],
         sq_dev   |-> SumOf([i \in DOMAIN vals |-> (n * vals[i] - s)^2])]

\* No summary computed yet.
NoSummary == AbsDeviation(<<>>)

\* std_pp > PFD_CORRECTION_CONF, i.e. 100 * std_dev / avg > 3.  With an
\* average of 0 std_pp is 0/0 = NaN, and NaN > 3 is false.  For naturals
\* 10000 * x > y is x > y \div 10000, which keeps TLC's integers in range.
Unstable(a) ==
    /\ a.sum > 0
    /\ a.sq_dev > (PFD_CORRECTION_CONF^2 * a.num_vals * a.sum^2) \div 10000

\* pfd_correction = ad.avg: the double truncated to ticks.
Truncated(a) == a.sum \div a.num_vals

Init ==
    /\ pc = "retry"
    /\ store = [i \in Entries |-> 0]   \* malloc'd; overwritten before it is read
    /\ tries = 10
    /\ pfd_correction = 0
    /\ ad = NoSummary
    /\ entry = 1
    /\ elapsed = [i \in Entries |-> 0]
    /\ divisor \in Divisors

(* retry: for i < num_entries: PFDI(0); PFDO(0, i) with pfd_correction 0. *)
Sample ==
    /\ pc = "retry"
    /\ \E s \in [Entries -> Ticks] : store' = [i \in Entries |-> TickMod(s[i] - pfd_correction)]
    /\ pc' = "eval"
    /\ UNCHANGED <<tries, pfd_correction, ad, measureVars>>

\* Mutant: "if (tries-- >= 0)", one retry too many.
MutantRecalibrateOffByOne ==
    LET a == AbsDeviation(Clamp(store)) IN
    /\ pc = "eval"
    /\ Unstable(a) /\ tries >= 0
    /\ store' = Clamp(store)
    /\ ad' = a
    /\ tries' = tries - 1
    /\ pc' = "retry"
    /\ UNCHANGED <<pfd_correction, measureVars>>

\* Mutant: "if (tries > 0)", the counter is never decremented.
MutantRecalibrateNoDecrement ==
    LET a == AbsDeviation(Clamp(store)) IN
    /\ pc = "eval"
    /\ Unstable(a) /\ tries > 0
    /\ store' = Clamp(store)
    /\ ad' = a
    /\ UNCHANGED <<tries, pfd_correction, measureVars>>
    /\ pc' = "retry"

(* get_abs_deviation, then an unstable result with tries-- > 0: goto retry. *)
Recalibrate ==
    LET a == AbsDeviation(Clamp(store)) IN
    /\ pc = "eval"
    /\ Unstable(a) /\ tries > 0
    /\ store' = Clamp(store)
    /\ ad' = a
    /\ tries' = tries - 1
    /\ pc' = "retry"
    /\ UNCHANGED <<pfd_correction, measureVars>>

(* A stable result, or the last unstable one with the platform fallback:  *)
(* pfd_correction = ad.avg; assert(pfd_correction > 0).                    *)
SetCorrection ==
    LET a   == AbsDeviation(Clamp(store))
        fb  == Unstable(a) /\ DefaultAvg # 0
        cor == IF fb THEN DefaultAvg ELSE Truncated(a)
    IN
    /\ pc = "eval"
    /\ ~(Unstable(a) /\ tries > 0)
    /\ store' = Clamp(store)
    /\ ad' = a
    /\ tries' = IF Unstable(a) THEN tries - 1 ELSE tries
    /\ pfd_correction' = cor
    /\ pc' = IF cor > 0 THEN "done" ELSE "assert_fail"
    /\ UNCHANGED measureVars

(* One timed operation of the test: PFDI(0), the operation, then          *)
(* PFDO(0, entry) or PFDOR(0, entry, do_reps) in unsigned ticks.           *)
Measure ==
    /\ pc \in {"done", "measure"}
    /\ entry <= NumEntries
    /\ \E t \in Elapsed :
        /\ elapsed' = [elapsed EXCEPT ![entry] = t]
        /\ store' = [store EXCEPT ![entry] = TickMod(t - pfd_correction) \div divisor]
    /\ entry' = entry + 1
    /\ pc' = "measure"
    /\ UNCHANGED <<tries, pfd_correction, ad, divisor>>

(* PFDPN(0, test_reps, test_print): print at most test_print raw entries,  *)
(* then get_abs_deviation over the store, clamping it in place.            *)
Report ==
    /\ pc = "measure"
    /\ entry > NumEntries
    /\ store' = Clamp(store)
    /\ ad' = AbsDeviation(Clamp(store))
    /\ pc' = "reported"
    /\ UNCHANGED <<tries, pfd_correction, measureVars>>

Next == Sample \/ Recalibrate \/ SetCorrection \/ Measure \/ Report

\* pfd_store_init is straight-line code run by one process.
Spec == Init /\ [][Next]_vars /\ WF_vars(Next)

(***************************************************************************)
(* Properties                                                              *)
(***************************************************************************)

TypeOK ==
    /\ pc \in {"retry", "eval", "done", "assert_fail", "measure", "reported"}
    /\ store \in [Entries -> 0..2^TickBits - 1]
    /\ tries \in -1..10
    /\ pfd_correction \in Nat
    /\ entry \in 1..NumEntries + 1
    /\ elapsed \in [Entries -> Elapsed \cup {0}]
    /\ divisor \in Divisors

\* The calibration loop of pfd_store_init ends, stable or not: the retry
\* through goto is bounded by tries.
CalibrationTerminates == <>(pc \in {"done", "assert_fail"})

\* A timed operation whose ticks fall below pfd_correction wraps around in
\* PFDO's unsigned subtraction (to 2^64 - d, or that divided by do_reps in
\* PFDOR); get_abs_deviation must clamp every such entry, so each value
\* PFDPN summarizes lies between 0 and the ticks the operation really took.
ReportedWithinElapsed ==
    pc = "reported" => \A i \in Entries : store[i] <= elapsed[i]

\* get_abs_deviation reports the largest summarized value as max_val, and a
\* min_val never below the smallest: the minimum test sits in the else
\* branch of the maximum test (the else-if spec.md section 9 leaves open),
\* so a minimum may be missed, on increasing input min_val stays DBL_MAX,
\* but the maximum never is, and no value is reported smaller than it was.
MinMaxBounds ==
    (ad # NoSummary /\ pc \in {"retry", "done", "assert_fail", "reported"}) =>
        /\ ad.max_val = Max(ToSet(store))
        /\ ad.min_val >= Min(ToSet(store))
=============================================================================
