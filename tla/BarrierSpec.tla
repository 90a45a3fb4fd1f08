----------------------------- MODULE BarrierSpec -----------------------------
(***************************************************************************)
(* What a barrier slot of ccbench promises its callers (spec.md 4.2, 5):   *)
(* a participant that calls barrier_wait for the k-th time returns only    *)
(* once every participant of the slot's coloring has made its k-th call;   *)
(* a process the coloring excludes returns at once.  Every call of every   *)
(* participant eventually returns.                                         *)
(*                                                                         *)
(* arrived[p] counts the calls p has made (and announced), waits[p] the    *)
(* calls that have returned.  Entering and leaving are atomic here; the    *)
(* module Barrier implements them with three shared counters.              *)
(***************************************************************************)
EXTENDS Naturals

CONSTANTS
  Procs,         \* ids of the cooperating processes
  Participants,  \* ids the coloring function selects
  MaxWaits       \* number of barrier_wait calls each process makes

ASSUME Participants \subseteq Procs
ASSUME MaxWaits \in Nat

VARIABLES arrived, waits

vars == <<arrived, waits>>

Init ==
  /\ arrived = [p \in Procs |-> 0]
  /\ waits = [p \in Procs |-> 0]

\* A participant makes its next call and is counted as present.
Arrive(p) ==
  /\ p \in Participants
  /\ arrived[p] = waits[p]
  /\ waits[p] < MaxWaits
  /\ arrived' = [arrived EXCEPT ![p] = @ + 1]
  /\ UNCHANGED waits

\* A participant returns from its current call once every participant has
\* made the same call.
Depart(p) ==
  /\ arrived[p] = waits[p] + 1
  /\ \A q \in Participants : arrived[q] >= arrived[p]
  /\ waits' = [waits EXCEPT ![p] = @ + 1]
  /\ UNCHANGED arrived

\* A process outside the coloring returns immediately.
Skip(p) ==
  /\ p \notin Participants
  /\ waits[p] < MaxWaits
  /\ arrived' = [arrived EXCEPT ![p] = @ + 1]
  /\ waits' = [waits EXCEPT ![p] = @ + 1]

Next == \E p \in Procs : Arrive(p) \/ Depart(p) \/ Skip(p)

\* Each process runs on its own core and keeps calling until it is done.
Fairness == \A p \in Procs : WF_vars(Arrive(p)) /\ WF_vars(Depart(p)) /\ WF_vars(Skip(p))

Spec == Init /\ [][Next]_vars /\ Fairness

=============================================================================
