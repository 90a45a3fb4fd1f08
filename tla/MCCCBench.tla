------------------------------ MODULE MCCCBench ------------------------------
(* Instances of CCBench for TLC.  Three processes are the most any test   *)
(* gives a role (IDs 0, 1, 2); a fourth is a "default" ID.                 *)
EXTENDS CCBench

AllTests == 0..33
AllButProfiler == AllTests \ {PROFILER}
FaiOnInvalid == {FAI_ON_INVALID}
Profiler == {PROFILER}
StoreExclusive == {STORE_ON_EXCLUSIVE}
(* The tests whose store_0 or store_0_eventually_pfd1 results are claimed. *)
StoreTests == {STORE_ON_MODIFIED_NO_SYNC, STORE_ON_OWNED_MINE, STORE_ON_OWNED,
               STORE_ON_INVALID}
====
