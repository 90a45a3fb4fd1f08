------------------------------ MODULE Options ------------------------------
(***************************************************************************)
(* The configuration main() derives from its options (src/ccbench.c) and   *)
(* the assertions that admit it: the getopt loop for -r, -s, -m, -t and    *)
(* -f, test_cache_line_num = test_mem_size / 64, and the two assertions on *)
(* test_reps * test_stride and test_stride.                                *)
(*                                                                         *)
(* The uint32_t variables are words of W bits (32 in the code); atoi's int *)
(* is converted to them modulo 2^W, and pow2roundup's shifts by 1..16 are  *)
(* those of the code (a shift past W bits gives 0).  The optarg of -m is a *)
(* record: the value atoi reads from its leading digits (0 if none) and    *)
(* the characters after them.  The value of -r, -s and -t is what atoi     *)
(* returns.                                                                *)
(***************************************************************************)
EXTENDS Integers, Sequences, Bitwise

CONSTANTS
    W,              \* bits of a uint32_t
    RepArgs,        \* atoi(optarg) of -r
    StrideArgs,     \* atoi(optarg) of -s
    MemArgs,        \* the optarg of -m (see ParseSize)
    TestArgs,       \* atoi(optarg) of -t
    DefaultReps,    \* DEFAULT_REPS, DEFAULT_STRIDE and CACHE_LINE_NUM * 64
    DefaultStride,  \* scaled to W bits
    DefaultMemSize

ASSUME W \in 4..16

\* The moesi_type_t values main() tests (include/ccbench.h).
STORE_ON_EXCLUSIVE == 2
STORE_ON_INVALID == 6
LOAD_FROM_EXCLUSIVE == 8
LOAD_FROM_SHARED == 9
LOAD_FROM_INVALID == 11
LOAD_FROM_MEM_SIZE == 27

\* The tests whose cache_line advances by test_stride every repetition and
\* for which main() checks test_reps * test_stride.
Advancing == {STORE_ON_EXCLUSIVE, STORE_ON_INVALID, LOAD_FROM_INVALID,
              LOAD_FROM_EXCLUSIVE, LOAD_FROM_SHARED}

sizeof_cache_line_t == 64

\* Conversion to uint32_t.
Word(x) == x % (2^W)

(* pow2roundup (include/ccbench.h): smear the highest bit of x - 1 down,  *)
(* then add 1; 0 gives 1, and above 2^(W-1) the sum wraps to 0.            *)
Pow2RoundUp(x) ==
    IF x = 0 THEN 1
    ELSE LET y  == x - 1
             y1 == y  | shiftR(y, 1)
             y2 == y1 | shiftR(y1, 2)
             y3 == y2 | shiftR(y2, 4)
             y4 == y3 | shiftR(y3, 8)
             y5 == y4 | shiftR(y4, 16)
         IN  Word(y5 + 1)

\* The multiplier a unit letter stands for in parse_size.
Unit(c) ==
    CASE c \in {"k", "K"} -> 1024
      [] c \in {"m", "M"} -> 1024 * 1024
      [] c \in {"g", "G"} -> 1024 * 1024 * 1024
      [] OTHER            -> 1

\* Mutant: the unit is read before a trailing 'b' is dropped.
MutantParseSize(arg) ==
    LET multi == IF arg.chars = <<>> THEN "" ELSE arg.chars[Len(arg.chars)]
    IN  Unit(multi) * arg.digits

(* parse_size (src/ccbench.c): a trailing 'b' or 'B' is cut off, then the  *)
(* last character left picks the multiplier (k, m or g, either case), and  *)
(* the result is the multiplier times atoi(optarg).  Cutting a character   *)
(* writes the string's NUL over it, which atoi would stop at anyway.  When *)
(* nothing is left the code reads (and for an 'm' writes) the byte before  *)
(* optarg; whatever it holds, atoi("") is 0 and so is the result.          *)
ParseSize(arg) ==
    LET Last(s) == IF s = <<>> THEN "" ELSE s[Len(s)]
        s1 == IF Last(arg.chars) \in {"b", "B"}
                THEN SubSeq(arg.chars, 1, Len(arg.chars) - 1)
                ELSE arg.chars
    IN  Unit(Last(s1)) * arg.digits

VARIABLES
    pc,                  \* "getopt", "run" or "assert_fail"
    test_reps,
    stride_arg,          \* the uint32_t value -s asked for
    test_stride,
    test_mem_size,
    test_test,
    test_flush,
    test_cache_line_num

vars == <<pc, test_reps, stride_arg, test_stride, test_mem_size, test_test,
          test_flush, test_cache_line_num>>

Init ==
    /\ pc = "getopt"
    /\ test_reps = DefaultReps
    /\ stride_arg = DefaultStride
    /\ test_stride = DefaultStride
    /\ test_mem_size = DefaultMemSize
    /\ test_test = 0
    /\ test_flush = 0
    /\ test_cache_line_num = DefaultMemSize \div sizeof_cache_line_t

Unchanged(v) == UNCHANGED <<test_cache_line_num, pc>> /\ UNCHANGED v

(* case 'r': test_reps = atoi(optarg). *)
OptReps(a) ==
    /\ pc = "getopt"
    /\ test_reps' = Word(a)
    /\ Unchanged(<<stride_arg, test_stride, test_mem_size, test_test, test_flush>>)

\* Mutant: the -s value is taken as the stride without pow2roundup.
MutantOptStride(a) ==
    /\ pc = "getopt"
    /\ stride_arg' = Word(a)
    /\ test_stride' = Word(a)
    /\ Unchanged(<<test_reps, test_mem_size, test_test, test_flush>>)

(* case 's': test_stride = pow2roundup(atoi(optarg)). *)
OptStride(a) ==
    /\ pc = "getopt"
    /\ stride_arg' = Word(a)
    /\ test_stride' = Pow2RoundUp(Word(a))
    /\ Unchanged(<<test_reps, test_mem_size, test_test, test_flush>>)

(* case 'm': test_mem_size = parse_size(optarg). *)
OptMem(arg) ==
    /\ pc = "getopt"
    /\ test_mem_size' = ParseSize(arg)
    /\ Unchanged(<<test_reps, stride_arg, test_stride, test_test, test_flush>>)

(* case 't': test_test = atoi(optarg). *)
OptTest(t) ==
    /\ pc = "getopt"
    /\ test_test' = t
    /\ Unchanged(<<test_reps, stride_arg, test_stride, test_mem_size, test_flush>>)

(* case 'f': test_flush = 1. *)
OptFlush ==
    /\ pc = "getopt"
    /\ test_flush' = 1
    /\ Unchanged(<<test_reps, stride_arg, test_stride, test_mem_size, test_test>>)

(* The two assert()s after the getopt loop, all in uint32_t. *)
Admitted(cln) ==
    /\ (test_test \in Advancing /\ test_flush = 0) =>
           Word(test_reps * test_stride) <= cln
    /\ test_test # LOAD_FROM_MEM_SIZE => test_stride < cln

(* getopt returns -1: test_cache_line_num = test_mem_size / 64, then the  *)
(* assertions.                                                             *)
EndOfOptions ==
    LET cln == Word(test_mem_size \div sizeof_cache_line_t) IN
    /\ pc = "getopt"
    /\ test_cache_line_num' = cln
    /\ pc' = IF Admitted(cln) THEN "run" ELSE "assert_fail"
    /\ UNCHANGED <<test_reps, stride_arg, test_stride, test_mem_size, test_test,
                   test_flush>>

Next ==
    \/ \E a \in RepArgs : OptReps(a)
    \/ \E a \in StrideArgs : OptStride(a)
    \/ \E arg \in MemArgs : OptMem(arg)
    \/ \E t \in TestArgs : OptTest(t)
    \/ OptFlush
    \/ EndOfOptions

Spec == Init /\ [][Next]_vars

(***************************************************************************)
(* Properties                                                              *)
(***************************************************************************)

\* test_stride holds what pow2roundup can return: a power of two, or 0.
TypeOK ==
    /\ pc \in {"getopt", "run", "assert_fail"}
    /\ test_reps \in 0..2^W-1
    /\ test_stride \in {2^k : k \in 0..W-1} \cup {0}
    /\ test_cache_line_num \in 0..2^W-1

\* The byte count a number followed by a unit k, m or g (either case) and
\* an optional b stands for, over the numbers Values.
SizesWithUnits(Values) ==
    LET Units == [u \in {<<>>, <<"k">>, <<"K">>, <<"m">>, <<"M">>, <<"g">>, <<"G">>} |->
                    IF u = <<>> THEN 1
                    ELSE 1024^(CASE u[1] \in {"k", "K"} -> 1
                                 [] u[1] \in {"m", "M"} -> 2
                                 [] OTHER              -> 3)]
    IN  {<<[digits |-> v, chars |-> u \o b], v * Units[u]>> :
            v \in Values, u \in DOMAIN Units, b \in {<<>>, <<"b">>, <<"B">>}}

\* While getopt may still read -m, parse_size would give every argument
\* written with a unit its size in bytes: "1k", "1kb" and "1KB" are 1024,
\* "1g" is 2^30, "b" is 0 (the help text of -m names no unit at all).
ParseSizeUnits ==
    pc = "getopt" => \A c \in SizesWithUnits({0, 1}) : ParseSize(c[1]) = c[2]
=============================================================================
