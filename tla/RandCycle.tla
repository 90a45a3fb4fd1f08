----------------------------- MODULE RandCycle -----------------------------
(***************************************************************************)
(* What create_rand_list_cl (src/ccbench.c) promises cache_line_open and   *)
(* the load_next walk that follows: over a buffer of n lines whose word 0  *)
(* is NULL, it links every line into one cycle that starts and ends at     *)
(* line 0, in one step as far as any other process can see (it runs in    *)
(* the leader before the fork).  The process dies instead only when the    *)
(* buffer has no line.                                                     *)
(***************************************************************************)
EXTENDS Integers

CONSTANT NULL

VARIABLES
    n,       \* lines in the buffer
    state,   \* "idle", "building", "built" or "died"
    list     \* word 0 of each line

vars == <<n, state, list>>

Lines == 0..n-1

(* load_next_nf: cl = *cl, k times from cache_line[0]; the line reached. *)
RECURSIVE Hop(_, _)
Hop(f, k) == IF k = 0 THEN 0 ELSE f[Hop(f, k - 1)]

\* f visits every line once and returns to line 0 after n hops.
IsOneCycle(f) == {Hop(f, k) : k \in Lines} = Lines /\ Hop(f, n) = 0

Init ==
    /\ n = 0
    /\ state = "idle"
    /\ list = [l \in Lines |-> NULL]

(* cache_line_open clears word 0 of every line and calls the builder. *)
Start ==
    /\ state = "idle"
    /\ n' \in Nat
    /\ state' = "building"
    /\ list' = [l \in 0..n'-1 |-> NULL]

(* The list is complete: one cycle through every line. *)
Build ==
    /\ state = "building"
    /\ n > 0
    /\ list' \in {f \in [Lines -> Lines] : IsOneCycle(f)}
    /\ state' = "built"
    /\ UNCHANGED n

(* An empty buffer kills the process. *)
Die ==
    /\ state = "building"
    /\ n = 0
    /\ state' = "died"
    /\ UNCHANGED <<n, list>>

Next == Start \/ Build \/ Die

\* Once started, the builder returns or the process dies.
Spec == Init /\ [][Next]_vars /\ WF_vars(Build \/ Die)
=============================================================================
