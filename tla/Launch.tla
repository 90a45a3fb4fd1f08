------------------------------- MODULE Launch -------------------------------
(***************************************************************************)
(* main()'s process creation (src/ccbench.c), from the fork loop to the    *)
(* first B0.  The leader forks test_cores - 1 children; a child's fork()   *)
(* returns 0 and it jumps to fork_done with the loop's rank as its ID, the *)
(* leader leaves the loop and takes ID 0.  A failed fork() is printed and  *)
(* the loop goes on.  Every process picks its core from its ID (test_core1 *)
(* .. test_core3, else ID - test_core_others), pins itself with set_cpu,   *)
(* which exits with 3 when sched_setaffinity refuses the CPU, and calls    *)
(* barrier_wait(0, ID, test_cores), B0.  barriers_init counted           *)
(* num_participants = test_cores on slot 0 (color_all selects every id <   *)
(* test_cores), and color_all admits every caller whatever its ID.  In its *)
(* first use the slot's counters are 0: a caller increments num_crossing1  *)
(* and spins until it reaches num_participants; the phases on              *)
(* num_crossing2 and 3 repeat this and are folded in (module Barrier has   *)
(* them).                                                                  *)
(*                                                                         *)
(* A process is a slot of Pids, the pids the system will give out: fork()  *)
(* fails when none is free (EAGAIN), and may fail at any time (ENOMEM).    *)
(* The NIAGARA and TILERA placements are other builds, not modelled.       *)
(***************************************************************************)
EXTENDS Integers, FiniteSets

CONSTANTS
    Cores,                            \* test_cores
    Core1, Core2, Core3, CoreOthers,  \* test_core1 .. test_core3, test_core_others
    Cpus,                             \* the CPUs sched_setaffinity accepts
    MaxProcs                          \* processes the system lets the user run

ASSUME /\ Cores \in Nat \ {0}
       /\ {Core1, Core2, Core3, CoreOthers} \subseteq Nat
       /\ Cpus \subseteq Nat
       /\ MaxProcs \in Nat \ {0}

Pids == 1..MaxProcs
Leader == 1
IDs == 0..Cores-1

VARIABLES
    pc,        \* pc[q]: "free", "fork_loop", "fork_done", "pinned", "b0", "past_b0", "exit"
    rank,      \* rank[q]: the loop variable, the ID from fork_done on
    core,      \* core[q]: the CPU it asked for
    reported,  \* a failure was printed: fork() or the affinity
    crossing   \* num_crossing1 of barrier slot 0

vars == <<pc, rank, core, reported, crossing>>

\* color_all: every id takes part in every barrier.
ColorAll(id) == 1

\* barrier_init(0, 0, color_all, test_cores): num_parts += color(ue) for
\* ue < total_cores.
NumParticipants == Cardinality({ue \in 0..Cores-1 : ColorAll(ue) = 1})

\* The condition of for (rank = 1; rank < test_cores; rank++).
MutantLoopCond(r) == r < Cores - 1

LoopCond(r) == r < Cores

Free == {q \in Pids : pc[q] = "free"}

Init ==
    /\ pc = [q \in Pids |-> IF q = Leader THEN "fork_loop" ELSE "free"]
    /\ rank = [q \in Pids |-> IF q = Leader THEN 1 ELSE 0]
    /\ core = [q \in Pids |-> 0]
    /\ reported = FALSE
    /\ crossing = 0

\* Mutant: the child does not goto fork_done and goes on with the loop.
MutantFork(q) ==
    /\ pc[q] = "fork_loop"
    /\ LoopCond(rank[q])
    /\ \/ \E c \in Free :
            /\ pc' = [pc EXCEPT ![c] = "fork_loop"]
            /\ rank' = [rank EXCEPT ![q] = @ + 1, ![c] = rank[q] + 1]
            /\ UNCHANGED reported
       \/ /\ rank' = [rank EXCEPT ![q] = @ + 1]
          /\ reported' = TRUE
          /\ UNCHANGED pc
    /\ UNCHANGED <<core, crossing>>

(* One iteration of for (rank = 1; rank < test_cores; rank++): the child *)
(* gets a free pid and goes to fork_done with ID = rank; on failure       *)
(* P("Failure in fork()") and the next iteration.                         *)
Fork(q) ==
    /\ pc[q] = "fork_loop"
    /\ LoopCond(rank[q])
    /\ \/ \E c \in Free :
            /\ pc' = [pc EXCEPT ![c] = "fork_done"]
            /\ rank' = [rank EXCEPT ![q] = @ + 1, ![c] = rank[q]]
            /\ UNCHANGED reported
       \/ /\ rank' = [rank EXCEPT ![q] = @ + 1]
          /\ reported' = TRUE
          /\ UNCHANGED pc
    /\ UNCHANGED <<core, crossing>>

(* The loop ends in the leader: rank = 0, then fork_done. *)
EndLoop(q) ==
    /\ pc[q] = "fork_loop"
    /\ ~LoopCond(rank[q])
    /\ rank' = [rank EXCEPT ![q] = 0]
    /\ pc' = [pc EXCEPT ![q] = "fork_done"]
    /\ UNCHANGED <<core, reported, crossing>>

(* switch (ID): size_t core; a negative ID - test_core_others is a huge   *)
(* size_t, no CPU either way.                                              *)
CoreOf(id) ==
    CASE id = 0 -> Core1
      [] id = 1 -> Core2
      [] id = 2 -> Core3
      [] OTHER  -> id - CoreOthers

(* fork_done: ID = rank, the core of the ID, set_cpu(core): exit(3) with  *)
(* a message when sched_setaffinity fails.                                 *)
SetCpu(q) ==
    LET c  == CoreOf(rank[q])
        ok == c \in Cpus
    IN
    /\ pc[q] = "fork_done"
    /\ core' = [core EXCEPT ![q] = c]
    /\ pc' = [pc EXCEPT ![q] = IF ok THEN "pinned" ELSE "exit"]
    /\ reported' = (reported \/ ~ok)
    /\ UNCHANGED <<rank, crossing>>

(* B0: barrier_wait(0, ID, test_cores); col(ID) is 1, FAI_U64 of          *)
(* num_crossing1 ...                                                       *)
Arrive(q) ==
    /\ pc[q] = "pinned"
    /\ crossing' = crossing + 1
    /\ pc' = [pc EXCEPT ![q] = "b0"]
    /\ UNCHANGED <<rank, core, reported>>

(* ... and the spin ends once it reaches num_participants. *)
Depart(q) ==
    /\ pc[q] = "b0"
    /\ crossing >= NumParticipants
    /\ pc' = [pc EXCEPT ![q] = "past_b0"]
    /\ UNCHANGED <<rank, core, reported, crossing>>

Step(q) == Fork(q) \/ EndLoop(q) \/ SetCpu(q) \/ Arrive(q) \/ Depart(q)

Next == \E q \in Pids : Step(q)

\* Every process is scheduled by the OS until it is pinned, and then runs
\* alone on its core: a step it can keep taking it eventually takes.
Spec == Init /\ [][Next]_vars /\ \A q \in Pids : WF_vars(Step(q))

(***************************************************************************)
(* Properties                                                              *)
(***************************************************************************)

TypeOK ==
    /\ pc \in [Pids -> {"free", "fork_loop", "fork_done", "pinned", "b0",
                        "past_b0", "exit"}]
    /\ rank \in [Pids -> 0..Cores]
    /\ reported \in BOOLEAN
    /\ crossing \in 0..MaxProcs

Started(q) == pc[q] \notin {"free", "fork_loop"}

\* The fork loop gives every process it creates its own ID: no two
\* processes that left the loop (children through goto fork_done, the
\* leader through rank = 0) run the tests under the same ID.
UniqueIds ==
    \A q, r \in Pids : q # r /\ Started(q) /\ Started(r) => rank[q] # rank[r]

\* Start-up never hangs silently: every process the run created returns
\* from the first B0, unless a failure of fork() or of sched_setaffinity was
\* printed (after which the others spin in barrier_wait forever).
LaunchOver == reported \/ \A q \in Pids : pc[q] # "free" => pc[q] = "past_b0"

LaunchCompletes == <>LaunchOver
=============================================================================
