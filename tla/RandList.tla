------------------------------ MODULE RandList ------------------------------
(***************************************************************************)
(* The pointer-chasing list of LOAD_FROM_MEM_SIZE (src/ccbench.c):         *)
(* create_rand_list_cl, which cache_line_open calls in the leader before   *)
(* the fork with n = test_mem_size / 8 words.  What it promises, and the  *)
(* walk load_next makes over the list, are in RandCycle.                   *)
(*                                                                         *)
(* A line is identified by its index; list[l] is word 0 of line l, the     *)
(* pointer list + nxt * 8 stored as the index nxt, and the null word 0     *)
(* cache_line_open leaves in every line as NULL.  xorshf96 runs from fixed *)
(* seeds; the model lets each draw my_random() % n be any residue, and a   *)
(* draw of a used line (the do-while retry) changes nothing, so it is a    *)
(* stuttering step.                                                         *)
(***************************************************************************)
EXTENDS Integers, FiniteSets

CONSTANT MemSizes   \* test_mem_size values, in bytes (-m)

per_cl == 8                 \* sizeof(cache_line_t) / sizeof(uint64_t)
\* Stands for SIZE_MAX: n - 1 for n = 0 wraps to it in size_t.
SIZE_MAX == 2^30
NULL == -1

VARIABLES
    n,          \* the number of lines after n /= per_cl
    pc,         \* "calloc", "loop", "pick", "done", "sigfpe", "assert_fail"
    list,       \* word 0 of each line
    used,       \* the lines whose used[idx] is set
    idx,
    used_num

vars == <<n, pc, list, used, idx, used_num>>

Lines == 0..n-1

\* The size_t value n - 1 the while condition compares with.
NMinus1 == IF n = 0 THEN SIZE_MAX ELSE n - 1

\* Mutant: "while (used_num < n)", one iteration too many.
MutantMore == used_num < n

\* The condition of the while loop, used_num < n - 1 in size_t.
More == used_num < NMinus1

Init ==
    /\ \E m \in MemSizes : n = (m \div 8) \div per_cl
    /\ pc = "calloc"
    /\ list = [l \in Lines |-> NULL]
    /\ used = {}
    /\ idx = 0
    /\ used_num = 0

(* used = calloc(n * per_cl, 1); assert(used != NULL).  calloc(0, 1) may *)
(* return NULL or a unique pointer; the C library chooses.               *)
Calloc ==
    /\ pc = "calloc"
    /\ pc' \in IF n = 0 THEN {"loop", "assert_fail"} ELSE {"loop"}
    /\ UNCHANGED <<n, list, used, idx, used_num>>

(* while (used_num < n - 1) { used[idx] = 1; used_num++; ... *)
Mark ==
    /\ pc = "loop"
    /\ More
    /\ used' = used \cup {idx}
    /\ used_num' = used_num + 1
    /\ pc' = "pick"
    /\ UNCHANGED <<n, list, idx>>

\* Mutant: the do-while that skips used lines is missing.
MutantPick(r) ==
    /\ pc = "pick"
    /\ n > 0
    /\ list' = [list EXCEPT ![idx] = r]
    /\ idx' = r
    /\ pc' = "loop"
    /\ UNCHANGED <<n, used, used_num>>

(* do nxt = (my_random() % n) * per_cl while (used[nxt]);                 *)
(* list[idx] = list + nxt; idx = nxt.                                      *)
Pick(r) ==
    /\ pc = "pick"
    /\ n > 0
    /\ r \notin used
    /\ list' = [list EXCEPT ![idx] = r]
    /\ idx' = r
    /\ pc' = "loop"
    /\ UNCHANGED <<n, used, used_num>>

(* my_random() % n with n = 0: integer division by zero, SIGFPE. *)
DivideByZero ==
    /\ pc = "pick"
    /\ n = 0
    /\ pc' = "sigfpe"
    /\ UNCHANGED <<n, list, used, idx, used_num>>

\* Mutant: the loop is closed to list + n * per_cl, one past the buffer.
MutantClose ==
    /\ pc = "loop"
    /\ ~More
    /\ list' = [list EXCEPT ![idx] = n]
    /\ pc' = "done"
    /\ UNCHANGED <<n, used, idx, used_num>>

(* list[idx] = list: close the loop. *)
Close ==
    /\ pc = "loop"
    /\ ~More
    /\ list' = [list EXCEPT ![idx] = 0]
    /\ pc' = "done"
    /\ UNCHANGED <<n, used, idx, used_num>>

Next ==
    \/ Calloc
    \/ Mark
    \/ \E r \in Lines : Pick(r)
    \/ DivideByZero
    \/ Close

\* The generator eventually draws every residue, so a free line is found.
Spec == Init /\ [][Next]_vars /\ WF_vars(Next)

(***************************************************************************)
(* Properties                                                              *)
(***************************************************************************)

TypeOK ==
    /\ pc \in {"calloc", "loop", "pick", "done", "sigfpe", "assert_fail"}
    /\ list \in [Lines -> Lines \cup {NULL}]
    /\ used \subseteq Lines \cup {0}   \* used[0] = 1 also when calloc(0)
    /\ idx \in Lines \cup {0}
    /\ used_num \in Nat

\* create_rand_list_cl builds the list for every buffer size -m admits,
\* instead of killing the leader.
ListBuilt == pc \notin {"sigfpe", "assert_fail"}
=============================================================================
