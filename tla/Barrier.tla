------------------------------- MODULE Barrier -------------------------------
(***************************************************************************)
(* One slot of the shared barrier array of src/src/barrier.c.              *)
(*                                                                         *)
(* barrier_init resets the three crossing counters and counts the          *)
(* participants of the coloring among ids 0..total_cores-1; barrier_wait   *)
(* is the three-phase rendezvous.  Every access to the shared slot is one  *)
(* step: the plain store that resets a counter, the FAI_U64 that           *)
(* increments one, and the spin loop's read.  The wait's mfence, the check *)
(* of barrier_num and the call of the coloring function touch nothing      *)
(* other processes write and are folded into the first step.              *)
(*                                                                         *)
(* Memory is sequentially consistent: on x86 the FAI is a locked           *)
(* instruction that drains the store buffer, so the reset before it is     *)
(* visible first, and the spin loop issues mfence on every iteration.      *)
(*                                                                         *)
(* pc[p] is Idle outside barrier_wait, or <<k, s>> in phase k at step s. *)
(* waits[p] counts the calls of p that have returned: the callers of       *)
(* ccbench call barrier_wait in a loop, MaxWaits times here.               *)
(***************************************************************************)
EXTENDS Naturals, FiniteSets

CONSTANTS
  Procs,       \* process ids 0..total_cores-1
  Color,       \* the coloring function: [Procs -> {0, 1}]
  MaxWaits     \* calls of barrier_wait each process makes

ASSUME Color \in [Procs -> {0, 1}]
ASSUME MaxWaits \in Nat \ {0}

VARIABLES
  num_crossing,      \* [1..3 -> Nat]: num_crossing1..num_crossing3
  num_participants,  \* the participant count stored by barrier_init
  pc,                \* where each process is in barrier_wait
  waits              \* completed calls per process

vars == <<num_crossing, num_participants, pc, waits>>

Phases == 1..3
Steps == {"reset", "fai", "spin"}
Idle == <<0, "idle">>
PC == {Idle} \cup (Phases \X Steps)

Participants == {p \in Procs : Color[p] = 1}

(* The counter phase k resets before it increments its own: phase 1 resets *)
(* num_crossing2, phase 2 num_crossing3, phase 3 num_crossing1.           *)
ResetTarget(k) == (k % 3) + 1

MutantNumPartsFromOne(color, procs) ==
  1 + Cardinality({ue \in procs : color[ue] = 1})

(* barrier_init: the loop num_parts += color(ue) over ue < total_cores.    *)
NumParts(color, procs) == Cardinality({ue \in procs : color[ue] = 1})

(* barriers_init runs barrier_init on every slot before the fork.          *)
Init ==
  /\ num_crossing = [k \in Phases |-> 0]
  /\ num_participants = NumParts(Color, Procs)
  /\ pc = [p \in Procs |-> Idle]
  /\ waits = [p \in Procs |-> 0]

(* Entry of barrier_wait by a process the coloring selects.               *)
Enter(p) ==
  /\ pc[p] = Idle
  /\ waits[p] < MaxWaits
  /\ Color[p] = 1
  /\ pc' = [pc EXCEPT ![p] = <<1, "reset">>]
  /\ UNCHANGED <<num_crossing, num_participants, waits>>

(* col(id) == 0: barrier_wait returns without touching the slot.          *)
SkipWait(p) ==
  /\ pc[p] = Idle
  /\ waits[p] < MaxWaits
  /\ Color[p] = 0
  /\ waits' = [waits EXCEPT ![p] = @ + 1]
  /\ UNCHANGED <<num_crossing, num_participants, pc>>

MutantNoReset(p) ==
  /\ pc[p] \in Phases \X {"reset"}
  /\ pc' = [pc EXCEPT ![p] = <<pc[p][1], "fai">>]
  /\ UNCHANGED <<num_crossing, num_participants, waits>>

MutantResetOwn(p) ==
  /\ pc[p] \in Phases \X {"reset"}
  /\ num_crossing' = [num_crossing EXCEPT ![pc[p][1]] = 0]
  /\ pc' = [pc EXCEPT ![p] = <<pc[p][1], "fai">>]
  /\ UNCHANGED <<num_participants, waits>>

(* b->num_crossing2 = 0 / num_crossing3 = 0 / num_crossing1 = 0.           *)
ResetCounter(p) ==
  /\ pc[p] \in Phases \X {"reset"}
  /\ num_crossing' = [num_crossing EXCEPT ![ResetTarget(pc[p][1])] = 0]
  /\ pc' = [pc EXCEPT ![p] = <<pc[p][1], "fai">>]
  /\ UNCHANGED <<num_participants, waits>>

(* FAI_U64(&b->num_crossingk).                                             *)
Increment(p) ==
  /\ pc[p] \in Phases \X {"fai"}
  /\ num_crossing' = [num_crossing EXCEPT ![pc[p][1]] = @ + 1]
  /\ pc' = [pc EXCEPT ![p] = <<pc[p][1], "spin">>]
  /\ UNCHANGED <<num_participants, waits>>

MutantSpinEarly(p) ==
  /\ pc[p] \in Phases \X {"spin"}
  /\ num_crossing[pc[p][1]] + 1 >= num_participants
  /\ IF pc[p][1] = 3
       THEN /\ pc' = [pc EXCEPT ![p] = Idle]
            /\ waits' = [waits EXCEPT ![p] = @ + 1]
       ELSE /\ pc' = [pc EXCEPT ![p] = <<pc[p][1] + 1, "reset">>]
            /\ UNCHANGED waits
  /\ UNCHANGED <<num_crossing, num_participants>>

(* while (b->num_crossingk < b->num_participants) { PAUSE(); mfence; }    *)
(* The read that ends the loop; a read that continues it changes nothing. *)
(* Leaving phase 3 returns from barrier_wait.                             *)
SpinExit(p) ==
  /\ pc[p] \in Phases \X {"spin"}
  /\ num_crossing[pc[p][1]] >= num_participants
  /\ IF pc[p][1] = 3
       THEN /\ pc' = [pc EXCEPT ![p] = Idle]
            /\ waits' = [waits EXCEPT ![p] = @ + 1]
       ELSE /\ pc' = [pc EXCEPT ![p] = <<pc[p][1] + 1, "reset">>]
            /\ UNCHANGED waits
  /\ UNCHANGED <<num_crossing, num_participants>>

Next ==
  \E p \in Procs :
    \/ Enter(p)
    \/ SkipWait(p)
    \/ ResetCounter(p)
    \/ Increment(p)
    \/ SpinExit(p)

(* Each process is pinned to its own core and busy-spins: none is ever    *)
(* descheduled for good, so every step a process can keep taking it      *)
(* eventually takes.                                                      *)
Fairness ==
  \A p \in Procs :
    /\ WF_vars(Enter(p)) /\ WF_vars(SkipWait(p))
    /\ WF_vars(ResetCounter(p)) /\ WF_vars(Increment(p))
    /\ WF_vars(SpinExit(p))

Spec == Init /\ [][Next]_vars /\ Fairness

-----------------------------------------------------------------------------
(* Type invariant.  A crossing counter never exceeds the participant      *)
(* count: an increment of a later use of the slot is never added on top   *)
(* of the current one.                                                    *)
TypeOK ==
  /\ num_crossing \in [Phases -> 0..num_participants]
  /\ pc \in [Procs -> PC]
  /\ waits \in [Procs -> 0..MaxWaits]

(* The design claim of barrier_wait (spec.md 4.2): a counter is reset only *)
(* when no process is spinning on it, so neither an increment a waiting    *)
(* process still needs nor one of the next use of the slot is lost.        *)
NoLostIncrement ==
  [][\A k \in Phases :
       num_crossing'[k] < num_crossing[k] =>
         \A q \in Procs : pc[q] # <<k, "spin">>]_vars

(* The barrier slot implements BarrierSpec: a participant's k-th call     *)
(* returns only after every participant has incremented num_crossing1 in  *)
(* its own k-th call, and every call returns.  A process counts as        *)
(* arrived from its first FAI on.                                          *)
HasArrived(p) == pc[p] \notin {Idle, <<1, "reset">>, <<1, "fai">>}

Abstract ==
  INSTANCE BarrierSpec WITH
    Participants <- Participants,
    arrived <- [p \in Procs |-> waits[p] + IF HasArrived(p) THEN 1 ELSE 0],
    waits <- waits

RefinesBarrierSpec == Abstract!Spec

=============================================================================
